SPECIFICATION RoomSpec
CONSTANTS
    Sessions = {s1, s2, s3, s4}
    Accounts = {a1, a2, a3, a4}
    Rooms = {r1}
    None = None
    MaxRoomUsers = 4
    PlayerCntRange <- SmallPlayerCnt
    MaxBoardSize = 2
    RowLength = 2
    MaxStoneCount = 5
    BufferSize = 100
    HeaderSize = 2
    NameLength = 19
    ChatLength = 20
INVARIANTS
    MembersSeeTheRoom
    MembersSeeTheSeats
    OnlyRostersOverflow
SYMMETRY Symmetry
CHECK_DEADLOCK FALSE
