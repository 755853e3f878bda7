SPECIFICATION Spec
CONSTANTS
    MaxBoardSize = 3
    RowLength = 3
    MaxStoneCount = 10
INVARIANTS
    RecordFollowsGame
    RowsEndGames
    RecordNeverFills
PROPERTY
    PlaysGomoku
CHECK_DEADLOCK FALSE
