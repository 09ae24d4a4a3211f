CONSTANTS
    w1 = w1
    w2 = w2
    r1 = r1
    r2 = r2
    Writers <- MCWriters
    Readers <- MCReaders
    Filters <- MCFilters
    TicksPerSecond = 2
    MaxTime = 3
SYMMETRY Symmetry
SPECIFICATION Spec
INVARIANTS ListedIsCounted NothingIsLost NothingFarOff ReportsGrow IndInv
CHECK_DEADLOCK FALSE
