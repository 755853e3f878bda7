SPECIFICATION Spec
CONSTANTS
    Slots = {x1}
    Workers = {w1, w2}
    Accept = Accept
    Update = Update
    MaxSessions = 2
    MaxMessages = 3
    RELEASE = 100
INVARIANTS
    TypeOK
    CountIsReferences
    FreeSlotIsQuiet
    OneSender
    PacketsAreHeldOnce
    JobsInOrder
    OnlyKnownHalts
SYMMETRY Symmetry
CHECK_DEADLOCK FALSE
