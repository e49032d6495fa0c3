SPECIFICATION Spec
CONSTANTS
    Ids <- MCIds
    Points <- MCPoints
    Grain = 4
    Unit = 2
    Modes <- MCModes
    MaxCalls = 3
INVARIANTS
    NotFoundIsSurvived
CHECK_DEADLOCK FALSE
