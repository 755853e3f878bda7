----------------------------- MODULE OmokBoard -----------------------------
(* COmokBoard, its GameRecord, and the wrappers of CChatRoom around them, as *)
(* operators on one board.  A board is a record with the fields of the class *)
(*   cells     _board[y][x]: 0 (empty), 1 (first player) or 2 (second)       *)
(*   record    the first _stoneCount entries of _gameRecord                  *)
(*   gameFlag  _gameFlag, a game is running                                  *)
(*   turn      _turn, 0 when the first player is to move                     *)
(* The modules that hold boards in their state (OmokGame, GameServer) use    *)
(* these operators, so one run that breaks the board breaks both.            *)
EXTENDS Integers, Sequences, FiniteSets

CONSTANTS
    MaxBoardSize,  \* COmokBoard::Limit::MaxBoardSize, 15
    RowLength,     \* stones in a row that win, the literal 5 of CheckWinner
    MaxStoneCount  \* GameRecord::Limit::MaxStoneCount, 255

\* What the literals of the code satisfy.
ASSUME BoardAssumption ==
    /\ MaxBoardSize \in Nat \ {0}
    /\ RowLength \in Nat \ {0, 1}
    /\ MaxStoneCount \in Nat
    /\ MaxStoneCount > MaxBoardSize * MaxBoardSize

Coordinates == 0 .. MaxBoardSize - 1

\* A point is <<x, y>>.
Points == Coordinates \X Coordinates

\* The four lines through a point, the columns <<dx[i], dy[i]>> of CheckWinner.
Directions == {<<1, 1>>, <<0, 1>>, <<1, 0>>, <<1, -1>>}

Shift(p, d, i) == <<p[1] + d[1] * i, p[2] + d[2] * i>>

EmptyCells == [p \in Points |-> 0]

Stones(cells, color) == {p \in Points : cells[p] = color}

-----------------------------------------------------------------------------
(* Placing stones.                                                           *)

IsValidPos(cells, p) == p \in Points /\ cells[p] = 0

\* How many of the RowLength - 1 points after p, in direction d, continue p's colour
\* without a gap: the loop leaves at the first one that does not.
SameInARow(cells, p, d) ==
    Cardinality({i \in 1 .. RowLength - 1 :
                    \A j \in 1 .. i : /\ Shift(p, d, j) \in Points
                                      /\ cells[Shift(p, d, j)] = cells[p]})

Opposite(d) == <<-d[1], -d[2]>>

\* Mutant of CheckWinner: only the half line that starts at the new stone is counted.
CheckWinnerForwardOnly(cells, p) ==
    \E d \in Directions : 1 + SameInARow(cells, p, d) >= RowLength

CheckWinner(cells, p) ==
    \E d \in Directions :
        1 + SameInARow(cells, p, d) + SameInARow(cells, p, Opposite(d)) >= RowLength

IsFullRecord(b) == Len(b.record) = MaxStoneCount

RecordPlaceStone(b, p, color) == [b EXCEPT !.record = Append(@, [pos |-> p, color |-> color])]

\* Mutant of PlaceStone: the stone is recorded, the board is not written.
RecordOnly(b, p, color) == RecordPlaceStone(b, p, color)

\* Mutant of PlaceStone: the wrapper records the stone and RecordPlaceStone again.
RecordedTwice(b, p, color) ==
    RecordPlaceStone(RecordPlaceStone([b EXCEPT !.cells[p] = color], p, color), p, color)

\* CChatRoom::PlaceStoneWrapper: the stone goes on the board and into the record.
PlaceStone(b, p, color) == RecordPlaceStone([b EXCEPT !.cells[p] = color], p, color)

\* CChatRoom::CheckGameOverWrapper: 0 the game goes on, 1 and 2 that player won, 3 draw.
GameOverFlag(b, p, color) ==
    IF IsFullRecord(b) THEN 3 ELSE IF CheckWinner(b.cells, p) THEN color ELSE 0

-----------------------------------------------------------------------------
(* The game on the board.                                                    *)

\* The constructor leaves _turn unset: it may hold either value.
NewBoards == {[cells |-> EmptyCells, record |-> <<>>, gameFlag |-> FALSE, turn |-> t] : t \in 0 .. 1}

\* Mutant of ResetOmok: the board of the last game is kept.
ResetKeepsCells(b) == [b EXCEPT !.record = <<>>, !.gameFlag = FALSE, !.turn = 0]

ResetOmok(b) == [cells |-> EmptyCells, record |-> <<>>, gameFlag |-> FALSE, turn |-> 0]

GameStart(b) == [b EXCEPT !.gameFlag = TRUE, !.turn = 0]

\* Mutant of InitGameSetting: the turn of the last game is kept.
InitGameKeepsTurn(b) == [GameStart(ResetOmok(b)) EXCEPT !.turn = b.turn]

\* CChatRoom::InitGameSetting.
InitGameSetting(b) == GameStart(ResetOmok(b))

\* CChatRoom::EndGameSetting.
EndGameSetting(b) == [b EXCEPT !.gameFlag = FALSE]

\* Mutant of TurnEnd: the increment that the toggle replaced (COmokBoard.h:42).
TurnEndCountsUp(b) == [b EXCEPT !.turn = @ + 1]

\* CChatRoom::TurnEnd.
TurnEnd(b) == [b EXCEPT !.turn = 1 - @]

\* Mutant of MoveAllowed: the turn is not looked at.
MoveAllowedAnyTurn(b, p, position) ==
    b.gameFlag /\ position \in {1, 2} /\ IsValidPos(b.cells, p)

\* The flag CServer::PutStone computes for a move of the player in `position'.
MoveAllowed(b, p, position) ==
    /\ b.gameFlag
    /\ b.turn = position - 1
    /\ position \in {1, 2}
    /\ IsValidPos(b.cells, p)

Moved(b, p, position) == TurnEnd(PlaceStone(b, p, position))

\* What an allowed move makes of the board: stone, record, turn and, at the end
\* of the game, the game flag.
AfterMove(b, p, position) ==
    LET moved == Moved(b, p, position)
    IN  IF GameOverFlag(moved, p, position) = 0 THEN moved ELSE EndGameSetting(moved)

-----------------------------------------------------------------------------
(* What the operators above are measured against.                            *)

\* The set S of points holds RowLength points in a row.
HasRow(S) == \E p \in S, d \in Directions : \A i \in 0 .. RowLength - 1 : Shift(p, d, i) \in S

BoardType ==
    [cells : [Points -> 0 .. 2], record : Seq([pos : Points, color : 1 .. 2]),
     gameFlag : BOOLEAN, turn : 0 .. 1]
=============================================================================
