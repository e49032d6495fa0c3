SPECIFICATION Spec
CONSTANTS
    Points = {1}
    Pitches <- MCPitches
    Rolls = {5}
    Yaws <- MCYaws
    Zooms = {3}
    Refusing <- MCRefusing
INVARIANTS
    TypeOK
    PushedIsCurrent
    OneReport
    OrientationKept
