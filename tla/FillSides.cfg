\* Three pages of two orders at most, over five to seven orders; a call that has
\* returned is the end of a behavior.
SPECIFICATION Spec
CONSTANTS
    Orders = {"o1", "o2", "o3", "o4", "o5", "old", "n1", "n2"}
    Symbols = {"A", "B"}
    SymbolOf <- MCSymbols
    SideOf <- MCSides
    Placed <- MCPlaced
    Old = {"old"}
    PageSize = 2
    MaxPages = 3
    MaxSymbols = 1
    MaxLookups = 2
    Concurrency = 2
INVARIANTS
    TypeOK
    SidesTrue
    WalkComplete
    RepeatsOnlyWhenTrading
    EveryFillAccounted
CHECK_DEADLOCK FALSE
