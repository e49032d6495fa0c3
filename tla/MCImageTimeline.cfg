SPECIFICATION Spec
CONSTANTS
    Seconds <- MCSeconds
    MaxFiles = 5
INVARIANTS
    TypeOK
PROPERTIES
    ImplementsPlaylist
CHECK_DEADLOCK FALSE
