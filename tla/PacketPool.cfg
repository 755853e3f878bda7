SPECIFICATION Spec
CONSTANTS
    Threads = {w, u}
    Update = u
    Sessions = {s1, s2}
    None = None
    NodeCount = 2
    BucketCount = 1
    Nodes = {n1, n2, n3, n4, n5, n6}
    Dword = 4
    MaxUsed = 4
    MaxLost = 1
INVARIANTS
    BucketFreeFindsBucket
    ThreadCountersAddUp
    RefCountIsHolders
PROPERTIES
    KeepsPromise
    GrowsOnlyWhenNeeded
CHECK_DEADLOCK FALSE
SYMMETRY Symmetry
