SPECIFICATION Spec
CONSTANTS
    Consoles <- MCConsoles
    Reals <- MCFractions
    Unit = 2
    NaN = NaN
    MaxCalls = 3
INVARIANTS
    TypeOK
    CommandsSettle
