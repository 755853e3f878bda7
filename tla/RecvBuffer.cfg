SPECIFICATION FairSpec
CONSTANTS
    BufferSize = 6
    HeaderSize = 2
    MaxSize = 3
    Messages = 4
INVARIANTS
    MessagesAreWhole
    AreasAreFree
PROPERTY WholeMessagesAreDelivered
CHECK_DEADLOCK FALSE
