SPECIFICATION Spec
CONSTANTS
    Threads = {t1, t2, t3}
    BlockNum = 2
    MaxNodes = 3
    MaxFrees = 3
INVARIANTS
    PoppersFindNodes
    NoNodeIsLost
    CountersAreExact
PROPERTY
    KeepsPromise
SYMMETRY Symmetry
CHECK_DEADLOCK FALSE
