SPECIFICATION TelemetrySpec
CONSTANTS
    Lines <- MCLines
    MaxRows = 4
    Positions <- MCPositions
INVARIANTS
    TelemetryTypeOK
    SeamlessIsParsed
    NothingIsLost
PROPERTIES
    SentIsCurrent
CHECK_DEADLOCK FALSE
