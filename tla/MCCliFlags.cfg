SPECIFICATION Spec
CONSTANTS
    Flags <- MCFlags
    Words <- MCWords
    Asked <- MCAsked
    Fixed8Unit = 10
    MaxLine = 3
CHECK_DEADLOCK FALSE
INVARIANTS
    TypeOK
    ContextHoldsTheCommandLine
PROPERTIES
    PanicsOnlyWhenNotGiven
