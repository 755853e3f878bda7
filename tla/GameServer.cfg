SPECIFICATION Spec
CONSTANTS
    Sessions = {s1, s2, s3, s4}
    Accounts = {a1, a2, a3}
    Rooms = {r1}
    None = None
    MaxRoomUsers = 2
    PlayerCntRange <- SmallPlayerCnt
    MaxBoardSize = 2
    RowLength = 2
    MaxStoneCount = 5
INVARIANTS
    TablesMatchUsers
    OnlyKnownHalts
    ReadyPairsPlay
PROPERTIES
    StartNeedsTwoPlayers
    KeepsPresence
SYMMETRY Symmetry
CHECK_DEADLOCK FALSE
