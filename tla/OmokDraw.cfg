SPECIFICATION Spec
CONSTANTS
    MaxBoardSize = 3
    RowLength = 3
    MaxStoneCount = 10
INVARIANT
    FullBoardIsADraw
CHECK_DEADLOCK FALSE
