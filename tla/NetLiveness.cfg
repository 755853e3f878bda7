SPECIFICATION Spec
CONSTANTS
    Slots = {x1}
    Workers = {w1, w2}
    Accept = Accept
    Update = Update
    MaxSessions = 2
    MaxMessages = 2
    RELEASE = 100
PROPERTIES
    QueuedIsTaken
    GoneIsReleased
CHECK_DEADLOCK FALSE
