SPECIFICATION Spec
CONSTANTS
    Producers = {p1, p2}
    Items = 2
    MaxNodes = 4
INVARIANTS
    IsAQueue
    ItemsComeOutOnce
    NodesAreApart
    FindsItsItem
PROPERTIES
    EveryItemArrives
CHECK_DEADLOCK FALSE
