SPECIFICATION FairSpec
CONSTANTS
    Contents <- MCContents
    MaxStarts = 2
    MaxWrites = 2
INVARIANTS
    TypeOK
    ReadyBeforeUse
    RunningIsComplete
    StaleOnlyUntilTold
PROPERTIES
    WritesAreHeard
CHECK_DEADLOCK FALSE
