SPECIFICATION FairSpec
CONSTANTS
    Ids <- MCIds
    Points <- MCPoints
    Grain = 4
    Unit = 2
    Modes <- MCModes
    MaxCalls = 3
INVARIANTS
    TypeOK
    TargetCatchesUp
    OneObjectPerHold
    LastModeWins
PROPERTIES
    SelectionIsCaught
CHECK_DEADLOCK FALSE
