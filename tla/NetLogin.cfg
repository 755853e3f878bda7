SPECIFICATION Spec
CONSTANTS
    Slots = {x1}
    Workers = {w1}
    Accept = Accept
    Update = Update
    MaxSessions = 2
    MaxMessages = 2
    RELEASE = 100
INVARIANT
    LoginDisconnectsPrevious
CHECK_DEADLOCK FALSE
