SPECIFICATION TelemetrySpec
CONSTANTS
    Lines <- MCLines
    MaxRows = 2
    Positions <- MCPositions
INVARIANTS
    RoundingStaysInSecond
CHECK_DEADLOCK FALSE
