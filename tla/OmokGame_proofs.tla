--------------------------- MODULE OmokGame_proofs --------------------------
(* The board and its record, for a board of any size.                        *)
EXTENDS OmokGame, FiniteSetTheorems, TLAPS

-----------------------------------------------------------------------------
(* What the operators of OmokBoard preserve, for every size of the board.    *)

\* The constructor's boards are boards, whichever value _turn happens to hold.
LEMMA NewBoardsType == NewBoards \subseteq BoardType
<1>1. ASSUME NEW t \in 0 .. 1
      PROVE  [cells |-> EmptyCells, record |-> <<>>, gameFlag |-> FALSE, turn |-> t] \in BoardType
  BY DEF BoardType, EmptyCells
<1> QED
  BY <1>1 DEF NewBoards

\* InitGameSetting makes a board of an empty one, whatever the last game left.
LEMMA InitGameSettingType == \A b : InitGameSetting(b) \in BoardType
<1>1. ASSUME NEW b
      PROVE  ResetOmok(b) \in BoardType
  BY DEF ResetOmok, BoardType, EmptyCells
<1>2. ASSUME NEW b \in BoardType
      PROVE  GameStart(b) \in BoardType
  <2>1. [b EXCEPT !.gameFlag = TRUE] \in BoardType
    BY DEF BoardType
  <2>2. ASSUME NEW c \in BoardType
        PROVE  [c EXCEPT !.turn = 0] \in BoardType
    BY DEF BoardType
  <2>3. GameStart(b) = [[b EXCEPT !.gameFlag = TRUE] EXCEPT !.turn = 0]
    BY Zenon DEF GameStart
  <2> QED
    BY <2>1, <2>2, <2>3
<1> QED
  BY <1>1, <1>2 DEF InitGameSetting

\* PlaceStone keeps the type when the stone is one of the two players'.
LEMMA PlaceStoneType ==
  ASSUME NEW b \in BoardType, NEW p \in Points, NEW color \in 1 .. 2
  PROVE  PlaceStone(b, p, color) \in BoardType
<1>1. [b.cells EXCEPT ![p] = color] \in [Points -> 0 .. 2]
  BY DEF BoardType
<1>2. [pos |-> p, color |-> color] \in [pos : Points, color : 1 .. 2]
  OBVIOUS
<1>3. Append(b.record, [pos |-> p, color |-> color]) \in Seq([pos : Points, color : 1 .. 2])
  BY <1>2 DEF BoardType
<1> QED
  BY <1>1, <1>3 DEF PlaceStone, RecordPlaceStone, BoardType

\* A move, with the turn and the end of the game that follow it, keeps the type.
LEMMA AfterMoveType ==
  ASSUME NEW b \in BoardType, NEW p \in Points, NEW position \in 1 .. 2
  PROVE  /\ Moved(b, p, position) \in BoardType
         /\ AfterMove(b, p, position) \in BoardType
<1> DEFINE placed == PlaceStone(b, p, position)
<1>1. placed \in BoardType
  BY PlaceStoneType
<1> HIDE DEF placed
<1>2. TurnEnd(placed) \in BoardType
  BY <1>1 DEF TurnEnd, BoardType
<1>3. Moved(b, p, position) = TurnEnd(placed)
  BY DEF Moved, placed
<1>4. EndGameSetting(TurnEnd(placed)) \in BoardType
  BY <1>2 DEF EndGameSetting, BoardType
<1> QED
  BY <1>2, <1>3, <1>4 DEF AfterMove

-----------------------------------------------------------------------------
(* What CheckWinner counts is a row.                                         *)

\* Points off the board are pairs of integers too.
Plane == Int \X Int

LEMMA PointsInPlane == Points \subseteq Plane
  BY BoardAssumption DEF Points, Coordinates, Plane

\* Going i and then j is going i + j, and going back is going the opposite way.
LEMMA ShiftAdds ==
  ASSUME NEW p \in Plane, NEW d \in Directions, NEW i \in Int, NEW j \in Int
  PROVE  /\ Shift(p, d, i) \in Plane
         /\ Shift(Shift(p, d, i), d, j) = Shift(p, d, i + j)
         /\ Shift(p, d, 0) = p
         /\ Shift(p, Opposite(d), i) = Shift(p, d, -i)
<1>1. PICK x \in Int, y \in Int : p = <<x, y>>
  BY DEF Plane
<1>2. PICK a \in Int, b \in Int : d = <<a, b>>
  BY DEF Directions
<1>3. \A k \in Int : Shift(p, d, k) = <<x + a * k, y + b * k>>
  BY <1>1, <1>2 DEF Shift
<1>4. \A k, c \in Int : c * k \in Int
  OBVIOUS
<1>5. Shift(p, d, i) \in Plane
  <2>1. a * i \in Int /\ b * i \in Int
    BY <1>4
  <2>2. Shift(p, d, i) = <<x + a * i, y + b * i>>
    BY <1>3
  <2>3. x + a * i \in Int /\ y + b * i \in Int
    BY <2>1
  <2> QED
    BY <2>2, <2>3 DEF Plane
<1>6. \A z, c \in Int : (z + c * i) + c * j = z + c * (i + j)
  OBVIOUS
<1>7. Shift(Shift(p, d, i), d, j) = <<(x + a * i) + a * j, (y + b * i) + b * j>>
  BY <1>2, <1>3 DEF Shift
<1>8. Shift(Shift(p, d, i), d, j) = Shift(p, d, i + j)
  <2>1. (x + a * i) + a * j = x + a * (i + j) /\ (y + b * i) + b * j = y + b * (i + j)
    BY <1>6
  <2>2. Shift(p, d, i + j) = <<x + a * (i + j), y + b * (i + j)>>
    BY <1>3
  <2> QED
    BY <1>7, <2>1, <2>2
<1>9. Shift(p, d, 0) = p
  <2>1. Shift(p, d, 0) = <<x + a * 0, y + b * 0>>
    BY <1>3
  <2>2. x + a * 0 = x /\ y + b * 0 = y
    OBVIOUS
  <2> QED
    BY <1>1, <2>1, <2>2
<1>10. Shift(p, Opposite(d), i) = <<x + (-a) * i, y + (-b) * i>>
  BY <1>1, <1>2 DEF Shift, Opposite
<1>11. Shift(p, Opposite(d), i) = Shift(p, d, -i)
  <2>1. \A z, c \in Int : z + (-c) * i = z + c * (-i)
    OBVIOUS
  <2>2. x + (-a) * i = x + a * (-i) /\ y + (-b) * i = y + b * (-i)
    BY <2>1
  <2>3. Shift(p, d, -i) = <<x + a * (-i), y + b * (-i)>>
    BY <1>3
  <2> QED
    BY <1>10, <2>2, <2>3
<1> QED
  BY <1>5, <1>8, <1>9, <1>11

\* A set of numbers from 1 that has all the numbers below each of its own is an
\* interval.
LEMMA PrefixIsInterval ==
  ASSUME NEW n \in Nat, NEW S \in SUBSET (1 .. n), \A i \in S : 1 .. i \subseteq S
  PROVE  Cardinality(S) \in 0 .. n /\ S = 1 .. Cardinality(S)
<1>1. /\ IsFiniteSet(1 .. n) /\ Cardinality(1 .. n) = n
      /\ \A i \in Nat : IsFiniteSet(1 .. i) /\ Cardinality(1 .. i) = i
  BY FS_Interval
<1>2. IsFiniteSet(S) /\ Cardinality(S) \in Nat /\ Cardinality(S) <= n
  <2>1. IsFiniteSet(1 .. n) /\ Cardinality(1 .. n) = n
    BY <1>1
  <2>2. IsFiniteSet(S) /\ Cardinality(S) <= Cardinality(1 .. n)
    BY <2>1, FS_Subset
  <2> QED
    BY <2>1, <2>2, FS_CardinalityType
<1>3. PICK k \in Nat : k = Cardinality(S)
  BY <1>2
<1>4. \A i \in S : i <= k
  <2>1. ASSUME NEW i \in S PROVE i <= k
    <3>1. i \in Nat /\ 1 .. i \in SUBSET S
      OBVIOUS
    <3>2. Cardinality(1 .. i) <= Cardinality(S)
      BY <1>2, <3>1, FS_Subset
    <3> QED
      BY <1>1, <1>3, <3>1, <3>2
  <2> QED
    BY <2>1
<1>5. S \in SUBSET (1 .. k)
  BY <1>4
<1>6. S = 1 .. k
  BY <1>1, <1>3, <1>5, FS_Subset
<1> QED
  BY <1>2, <1>3, <1>6

\* SameInARow is the number of stones that continue the row of p: up to there all
\* are of its colour, and no longer row of them starts at p.
LEMMA SameInARowCounts ==
  ASSUME NEW cells \in [Points -> 0 .. 2], NEW p \in Points, NEW d,
         NEW S, S = Stones(cells, cells[p])
  PROVE  /\ SameInARow(cells, p, d) \in 0 .. RowLength - 1
         /\ \A j \in 1 .. SameInARow(cells, p, d) : Shift(p, d, j) \in S
         /\ \A m \in 0 .. RowLength - 1 :
               (\A j \in 1 .. m : Shift(p, d, j) \in S) => m <= SameInARow(cells, p, d)
<1>1. \A q : q \in S <=> q \in Points /\ cells[q] = cells[p]
  BY DEF Stones
<1>2. PICK R : R = {i \in 1 .. RowLength - 1 : \A j \in 1 .. i : Shift(p, d, j) \in S}
  OBVIOUS
<1>3. SameInARow(cells, p, d) = Cardinality(R)
  BY <1>1, <1>2 DEF SameInARow
<1>4. RowLength - 1 \in Nat
  BY BoardAssumption
<1>5. R \in SUBSET (1 .. RowLength - 1) /\ \A i \in R : 1 .. i \subseteq R
  <2>1. ASSUME NEW i \in R, NEW k \in 1 .. i PROVE k \in R
    <3>1. k \in 1 .. RowLength - 1 /\ \A j \in 1 .. k : j \in 1 .. i
      BY <1>2, <1>4
    <3> QED
      BY <1>2, <3>1
  <2> QED
    BY <1>2, <2>1
<1>6. Cardinality(R) \in 0 .. RowLength - 1 /\ R = 1 .. Cardinality(R)
  BY <1>4, <1>5, PrefixIsInterval
<1>7. \A j \in 1 .. Cardinality(R) : Shift(p, d, j) \in S
  <2>1. ASSUME NEW j \in 1 .. Cardinality(R) PROVE Shift(p, d, j) \in S
    <3>1. j \in R /\ j \in 1 .. j
      BY <1>6
    <3> QED
      BY <1>2, <3>1
  <2> QED
    BY <2>1
<1>8. ASSUME NEW m \in 0 .. RowLength - 1, \A j \in 1 .. m : Shift(p, d, j) \in S
      PROVE  m <= Cardinality(R)
  <2>1. CASE m = 0
    BY <1>6, <2>1
  <2>2. CASE m # 0
    <3>1. m \in R
      BY <1>2, <1>8, <2>2
    <3> QED
      BY <1>6, <3>1
  <2> QED
    BY <2>1, <2>2
<1> QED
  BY <1>3, <1>6, <1>7, <1>8

\* A row of S that p is part of.
RowThrough(S, p) ==
    \E q \in Plane, d \in Directions :
        /\ \A i \in 0 .. RowLength - 1 : Shift(q, d, i) \in S
        /\ \E j \in 0 .. RowLength - 1 : Shift(q, d, j) = p

\* CheckWinner, which counts from the last stone both ways along four lines, finds
\* exactly the rows of its colour that it is part of.
LEMMA CheckWinnerFindsRows ==
  ASSUME NEW cells \in [Points -> 0 .. 2], NEW p \in Points
  PROVE  CheckWinner(cells, p) <=> RowThrough(Stones(cells, cells[p]), p)
<1>1. PICK S : S = Stones(cells, cells[p])
  OBVIOUS
<1>2. p \in Plane /\ p \in S /\ RowLength \in Nat \ {0, 1}
  BY <1>1, PointsInPlane, BoardAssumption DEF Stones
<1>3. ASSUME CheckWinner(cells, p) PROVE RowThrough(S, p)
  <2>1. PICK d \in Directions :
           1 + SameInARow(cells, p, d) + SameInARow(cells, p, Opposite(d)) >= RowLength
    BY <1>3 DEF CheckWinner
  <2>2. PICK f : f = SameInARow(cells, p, d)
    OBVIOUS
  <2>3. PICK b : b = SameInARow(cells, p, Opposite(d))
    OBVIOUS
  <2>4. f \in 0 .. RowLength - 1 /\ \A j \in 1 .. f : Shift(p, d, j) \in S
    BY <1>1, <2>2, SameInARowCounts
  <2>5. b \in 0 .. RowLength - 1 /\ \A j \in 1 .. b : Shift(p, Opposite(d), j) \in S
    BY <1>1, <2>3, SameInARowCounts
  <2>6. f \in Int /\ b \in Int /\ -b \in Int /\ 1 + f + b >= RowLength
    BY <1>2, <2>1, <2>2, <2>3, <2>4, <2>5
  <2>7. PICK q \in Plane : q = Shift(p, d, -b)
    BY <1>2, <2>6, ShiftAdds
  <2>8. ASSUME NEW i \in 0 .. RowLength - 1 PROVE Shift(q, d, i) \in S
    <3>1. i \in Int /\ (-b) + i \in Int
      BY <2>6
    <3>2. Shift(q, d, i) = Shift(p, d, (-b) + i)
      BY <1>2, <2>6, <2>7, <3>1, ShiftAdds
    <3>3. CASE (-b) + i = 0
      BY <1>2, <3>2, <3>3, ShiftAdds
    <3>4. CASE (-b) + i > 0
      <4>1. (-b) + i \in 1 .. f
        BY <1>2, <2>6, <3>1, <3>4
      <4> QED
        BY <2>4, <3>2, <4>1
    <3>5. CASE (-b) + i < 0
      <4>1. b - i \in 1 .. b /\ -(b - i) = (-b) + i /\ b - i \in Int
        BY <2>6, <3>1, <3>5
      <4>2. Shift(p, Opposite(d), b - i) = Shift(p, d, -(b - i))
        BY <1>2, <4>1, ShiftAdds
      <4> QED
        BY <2>5, <3>2, <4>1, <4>2
    <3> QED
      BY <3>1, <3>3, <3>4, <3>5
  <2>9. Shift(q, d, b) = p
    <3>1. Shift(q, d, b) = Shift(p, d, (-b) + b)
      BY <1>2, <2>6, <2>7, ShiftAdds
    <3>2. (-b) + b = 0
      BY <2>6
    <3> QED
      BY <1>2, <3>1, <3>2, ShiftAdds
  <2> QED
    BY <2>5, <2>8, <2>9 DEF RowThrough
<1>4. ASSUME RowThrough(S, p) PROVE CheckWinner(cells, p)
  <2>1. PICK q \in Plane, d \in Directions, j \in 0 .. RowLength - 1 :
           /\ \A i \in 0 .. RowLength - 1 : Shift(q, d, i) \in S
           /\ Shift(q, d, j) = p
    BY <1>4 DEF RowThrough
  <2>2. j \in Int /\ RowLength \in Int
    BY <1>2
  <2>3. \A i \in Int : Shift(p, d, i) = Shift(q, d, j + i)
    BY <2>1, <2>2, ShiftAdds
  <2>4. RowLength - 1 - j <= SameInARow(cells, p, d)
    <3>1. RowLength - 1 - j \in 0 .. RowLength - 1
      BY <1>2
    <3>2. ASSUME NEW i \in 1 .. RowLength - 1 - j PROVE Shift(p, d, i) \in S
      <4>1. j + i \in 0 .. RowLength - 1 /\ i \in Int
        BY <1>2
      <4> QED
        BY <2>1, <2>3, <4>1
    <3> QED
      BY <1>1, <3>1, <3>2, SameInARowCounts
  <2>5. j <= SameInARow(cells, p, Opposite(d))
    <3>1. ASSUME NEW i \in 1 .. j PROVE Shift(p, Opposite(d), i) \in S
      <4>1. j + (-i) \in 0 .. RowLength - 1 /\ i \in Int /\ -i \in Int
        BY <1>2
      <4>2. Shift(p, Opposite(d), i) = Shift(p, d, -i)
        BY <1>2, <4>1, ShiftAdds
      <4> QED
        BY <2>1, <2>3, <4>1, <4>2
    <3> QED
      BY <1>1, <3>1, SameInARowCounts
  <2>6. SameInARow(cells, p, d) \in Int /\ SameInARow(cells, p, Opposite(d)) \in Int
    <3>1. /\ SameInARow(cells, p, d) \in 0 .. RowLength - 1
          /\ SameInARow(cells, p, Opposite(d)) \in 0 .. RowLength - 1
      BY <1>1, SameInARowCounts
    <3> QED
      BY <1>2, <3>1
  <2>7. 1 + SameInARow(cells, p, d) + SameInARow(cells, p, Opposite(d)) >= RowLength
    BY <2>2, <2>4, <2>5, <2>6
  <2> QED
    BY <2>7 DEF CheckWinner
<1> QED
  BY <1>1, <1>3, <1>4

\* A stone that joins a set without a row makes one exactly where it is part of it.
LEMMA NewRowIsThroughStone ==
  ASSUME NEW S \in SUBSET Points, NEW p \in Points, ~HasRow(S)
  PROVE  HasRow(S \union {p}) <=> RowThrough(S \union {p}, p)
<1>1. PICK T : T = S \union {p}
  OBVIOUS
<1>2. T \subseteq Plane /\ RowLength \in Nat \ {0, 1}
  BY <1>1, PointsInPlane, BoardAssumption
<1>3. ASSUME HasRow(T) PROVE RowThrough(T, p)
  <2>1. PICK q \in T, d \in Directions : \A i \in 0 .. RowLength - 1 : Shift(q, d, i) \in T
    BY <1>3 DEF HasRow
  <2>2. q \in Plane /\ Shift(q, d, 0) = q /\ 0 \in 0 .. RowLength - 1
    BY <1>2, ShiftAdds
  <2>3. CASE \E j \in 0 .. RowLength - 1 : Shift(q, d, j) = p
    BY <2>1, <2>2, <2>3 DEF RowThrough
  <2>4. CASE \A j \in 0 .. RowLength - 1 : Shift(q, d, j) # p
    <3>1. \A i \in 0 .. RowLength - 1 : Shift(q, d, i) \in S
      BY <1>1, <2>1, <2>4
    <3>2. q \in S
      BY <2>2, <3>1
    <3> QED
      BY <3>1, <3>2 DEF HasRow
  <2> QED
    BY <2>3, <2>4
<1>4. ASSUME RowThrough(T, p) PROVE HasRow(T)
  <2>1. PICK q \in Plane, d \in Directions : \A i \in 0 .. RowLength - 1 : Shift(q, d, i) \in T
    BY <1>4 DEF RowThrough
  <2>2. Shift(q, d, 0) = q /\ 0 \in 0 .. RowLength - 1
    BY <1>2, ShiftAdds
  <2>3. q \in T
    BY <2>1, <2>2
  <2> QED
    BY <2>1, <2>3 DEF HasRow
<1> QED
  BY <1>1, <1>3, <1>4

\* No stones, no row.
LEMMA EmptyHasNoRow == ~HasRow({})
  BY DEF HasRow

\* The first stone that completes a row of its colour is found to be the winner's.
LEMMA WinnerIsFound ==
  ASSUME NEW cells \in [Points -> 0 .. 2], NEW p \in Points, NEW c \in 1 .. 2,
         cells[p] = 0, ~HasRow(Stones(cells, c)),
         NEW after, after = [cells EXCEPT ![p] = c]
  PROVE  /\ after \in [Points -> 0 .. 2]
         /\ Stones(after, c) = Stones(cells, c) \union {p}
         /\ Stones(after, 3 - c) = Stones(cells, 3 - c)
         /\ CheckWinner(after, p) <=> HasRow(Stones(after, c))
<1>1. after \in [Points -> 0 .. 2] /\ after[p] = c
  OBVIOUS
<1>2. Stones(after, c) = Stones(cells, c) \union {p}
  BY DEF Stones
<1>3. Stones(after, 3 - c) = Stones(cells, 3 - c)
  <2>1. 3 - c # c /\ 3 - c # 0
    OBVIOUS
  <2> QED
    BY <2>1 DEF Stones
<1>4. CheckWinner(after, p) <=> RowThrough(Stones(after, c), p)
  BY <1>1, CheckWinnerFindsRows
<1>5. Stones(cells, c) \in SUBSET Points
  BY DEF Stones
<1>6. HasRow(Stones(cells, c) \union {p}) <=> RowThrough(Stones(cells, c) \union {p}, p)
  BY <1>5, NewRowIsThroughStone
<1> QED
  BY <1>1, <1>2, <1>3, <1>4, <1>6

-----------------------------------------------------------------------------
(* The record and the turn.                                                  *)

\* The record replays only while the turn agrees with it, and the turn is only
\* followed while a game runs: the three facts carry each other.
IInv == TypeOK /\ RecordReplaysBoard /\ TurnFollowsRecord

Entry == [pos : Points, color : 1 .. 2]

\* A new board, and the board of a new game, have no stone and no entry.
LEMMA EmptyBoard ==
  ASSUME NEW b, board = b, b.cells = EmptyCells, b.record = <<>>
  PROVE  RecordReplaysBoard
<1>1. DOMAIN board.record = {} /\ Len(board.record) = 0
  OBVIOUS
<1>2. \A c \in 1 .. 2 : Stones(board.cells, c) = {}
  BY DEF Stones, EmptyCells
<1> QED
  BY <1>1, <1>2 DEF RecordReplaysBoard

LEMMA InitialBoard == Init => IInv
<1> SUFFICES ASSUME Init PROVE IInv
  OBVIOUS
<1>1. board \in NewBoards /\ endFlag = 0
  BY DEF Init
<1>2. TypeOK
  BY <1>1, NewBoardsType DEF TypeOK
<1>3. board.cells = EmptyCells /\ board.record = <<>> /\ board.gameFlag = FALSE
  BY <1>1 DEF NewBoards
<1> QED
  BY <1>2, <1>3, EmptyBoard DEF IInv, TurnFollowsRecord

\* ResetOmok empties board and record together and gives the first player the turn.
LEMMA StartGameStep ==
  ASSUME IInv, StartGame
  PROVE  IInv'
<1>1. board' = InitGameSetting(board) /\ endFlag' = 0
  BY DEF StartGame
<1>2. TypeOK'
  BY <1>1, InitGameSettingType DEF TypeOK
<1>3. board'.cells = EmptyCells /\ board'.record = <<>> /\ board'.turn = 0
  BY <1>1 DEF InitGameSetting, GameStart, ResetOmok
<1>4. DOMAIN board'.record = {} /\ Len(board'.record) = 0
  BY <1>3
<1>5. \A c \in 1 .. 2 : Stones(board'.cells, c) = {}
  BY <1>3 DEF Stones, EmptyCells
<1>6. RecordReplaysBoard'
  BY <1>4, <1>5 DEF RecordReplaysBoard
<1>7. TurnFollowsRecord'
  BY <1>3, <1>4 DEF TurnFollowsRecord
<1> QED
  BY <1>2, <1>6, <1>7 DEF IInv

\* The players alternate: what the toggle and the parity of the record have in common.
LEMMA ParityAlternates == \A m \in Nat : m % 2 \in 0 .. 1 /\ (m + 1) % 2 = 1 - (m % 2)
  OBVIOUS

\* A move appends to the record the point and the colour it gives that point on
\* the board, and the point was free, so no entry repeats it.
LEMMA PutStoneStep ==
  ASSUME IInv, NEW p, NEW q, PutStone(p, q)
  PROVE  IInv'
<1>1. /\ q \in 1 .. 2 /\ p \in Points /\ board.cells[p] = 0
      /\ board.gameFlag /\ board.turn = q - 1
      /\ board \in BoardType
  BY DEF PutStone, MoveAllowed, IsValidPos, IInv, TypeOK
<1>2. board' = AfterMove(board, p, q) /\ board' \in BoardType
  BY <1>1, AfterMoveType DEF PutStone
<1>3. TypeOK'
  BY <1>1, <1>2 DEF PutStone, TypeOK, GameOverFlag
<1>4. /\ board'.cells = [board.cells EXCEPT ![p] = q]
      /\ board'.record = Append(board.record, [pos |-> p, color |-> q])
      /\ board'.turn = 1 - board.turn
  BY <1>1, <1>2 DEF AfterMove, Moved, TurnEnd, PlaceStone, RecordPlaceStone, EndGameSetting, BoardType
<1> DEFINE n == Len(board.record)
           e == [pos |-> p, color |-> q]
<1>5. /\ n \in Nat /\ board.record \in Seq(Entry) /\ e \in Entry
      /\ DOMAIN board.record = 1 .. n /\ DOMAIN board'.record = 1 .. n + 1
      /\ \A i \in 1 .. n : board'.record[i] = board.record[i]
      /\ board'.record[n + 1] = e
      /\ Len(board'.record) = n + 1
  BY <1>1, <1>4 DEF BoardType, Entry
<1>6. q = 1 + (n % 2)
  BY <1>1 DEF IInv, TurnFollowsRecord, BoardType
<1>7. q = 2 - ((n + 1) % 2) /\ 1 - board.turn = (n + 1) % 2
  <2> HIDE DEF n
  <2>1. n % 2 \in 0 .. 1 /\ (n + 1) % 2 = 1 - (n % 2)
    BY <1>5, ParityAlternates
  <2> QED
    BY <1>1, <1>6, <2>1
<1>8. \A i \in 1 .. n : board.record[i].pos # p
  <2>1. ASSUME NEW i \in 1 .. n, board.record[i].pos = p PROVE FALSE
    <3>1. board.record[i].color \in 1 .. 2
      <4>1. board.record[i] \in Entry
        BY <1>5
      <4> QED
        BY <4>1 DEF Entry
    <3>2. p \in Stones(board.cells, board.record[i].color)
      BY <1>5, <2>1, <3>1 DEF IInv, RecordReplaysBoard
    <3> QED
      BY <1>1, <3>1, <3>2 DEF Stones
  <2> QED
    BY <2>1
<1>9. RecordReplaysBoard'
  <2>1. \A i \in 1 .. n + 1 : board'.record[i].color = 2 - (i % 2)
    <3>1. \A i \in 1 .. n : board.record[i].color = 2 - (i % 2)
      BY <1>5 DEF IInv, RecordReplaysBoard
    <3>2. board'.record[n + 1].color = 2 - ((n + 1) % 2)
      BY <1>5, <1>7
    <3>3. ASSUME NEW i \in 1 .. n + 1 PROVE board'.record[i].color = 2 - (i % 2)
      <4>1. CASE i = n + 1
        BY <3>2, <4>1
      <4>2. CASE i # n + 1
        <5>1. i \in 1 .. n
          BY <1>5, <4>2
        <5> QED
          BY <1>5, <3>1, <5>1
      <4> QED
        BY <4>1, <4>2
    <3> QED
      BY <3>3
  <2>2. \A i, j \in 1 .. n + 1 : board'.record[i].pos = board'.record[j].pos => i = j
    <3>1. \A i, j \in 1 .. n : board.record[i].pos = board.record[j].pos => i = j
      BY <1>5 DEF IInv, RecordReplaysBoard
    <3>2. board'.record[n + 1].pos = p
      BY <1>5
    <3>3. \A i \in 1 .. n : board'.record[i].pos = board.record[i].pos /\ board'.record[i].pos # p
      BY <1>5, <1>8
    <3>4. \A i \in 1 .. n + 1 : i = n + 1 \/ i \in 1 .. n
      BY <1>5
    <3> HIDE DEF n
    <3> QED
      BY <3>1, <3>2, <3>3, <3>4
  <2>3. ASSUME NEW c \in 1 .. 2
        PROVE  Stones(board'.cells, c) =
                  {board'.record[i].pos : i \in {k \in 1 .. n + 1 : board'.record[k].color = c}}
    <3>1. Stones(board.cells, c) =
             {board.record[i].pos : i \in {k \in 1 .. n : board.record[k].color = c}}
      BY <1>5 DEF IInv, RecordReplaysBoard
    <3>2. Stones(board'.cells, c) = IF c = q THEN Stones(board.cells, c) \union {p} ELSE Stones(board.cells, c)
      BY <1>1, <1>4 DEF Stones, BoardType
    <3>3. {board'.record[i].pos : i \in {k \in 1 .. n + 1 : board'.record[k].color = c}} =
             {board.record[i].pos : i \in {k \in 1 .. n : board.record[k].color = c}}
             \union (IF c = q THEN {p} ELSE {})
      <4>1. board'.record[n + 1].pos = p /\ board'.record[n + 1].color = q
        BY <1>5
      <4>2. {k \in 1 .. n + 1 : board'.record[k].color = c} =
               {k \in 1 .. n : board.record[k].color = c} \union (IF c = q THEN {n + 1} ELSE {})
        BY <1>5, <4>1
      <4>3. \A i \in 1 .. n : board'.record[i].pos = board.record[i].pos
        BY <1>5
      <4> HIDE DEF n
      <4> QED
        BY <4>1, <4>2, <4>3
    <3> QED
      BY <3>1, <3>2, <3>3
  <2> QED
    BY <1>5, <2>1, <2>2, <2>3 DEF RecordReplaysBoard
<1>10. TurnFollowsRecord'
  BY <1>4, <1>5, <1>7 DEF TurnFollowsRecord
<1> QED
  BY <1>3, <1>9, <1>10 DEF IInv

\* Every step keeps board, record and turn together.
LEMMA NextKeepsIInv == IInv /\ [Next]_vars => IInv'
<1> SUFFICES ASSUME IInv, [Next]_vars PROVE IInv'
  OBVIOUS
<1>1. CASE StartGame
  BY <1>1, StartGameStep
<1>2. ASSUME NEW p \in RequestedPoints, NEW q \in RequestedPositions, PutStone(p, q) PROVE IInv'
  BY <1>2, PutStoneStep
<1>3. CASE UNCHANGED vars
  BY <1>3 DEF vars, IInv, TypeOK, RecordReplaysBoard, TurnFollowsRecord
<1> QED
  BY <1>1, <1>2, <1>3 DEF Next

\* The board has MaxBoardSize * MaxBoardSize points.
LEMMA PointsAreFinite ==
  IsFiniteSet(Points) /\ Cardinality(Points) = MaxBoardSize * MaxBoardSize
<1>1. IsFiniteSet(Coordinates) /\ Cardinality(Coordinates) = MaxBoardSize
  <2>1. 0 \in Int /\ MaxBoardSize - 1 \in Int /\ ~(0 > MaxBoardSize - 1)
    BY BoardAssumption
  <2>2. /\ IsFiniteSet(0 .. MaxBoardSize - 1)
        /\ Cardinality(0 .. MaxBoardSize - 1) =
              IF 0 > MaxBoardSize - 1 THEN 0 ELSE (MaxBoardSize - 1) - 0 + 1
    BY <2>1, FS_Interval
  <2> QED
    BY <2>1, <2>2, BoardAssumption DEF Coordinates
<1> QED
  BY <1>1, FS_Product DEF Points

FitsBoard == Len(board.record) <= MaxBoardSize * MaxBoardSize

\* A record that repeats no point has at most as many entries as the board has
\* points: the pigeonhole principle on the positions it records.
LEMMA RecordFitsBoard == IInv => FitsBoard
<1> SUFFICES ASSUME IInv, Len(board.record) > MaxBoardSize * MaxBoardSize PROVE FALSE
  <2>1. ASSUME IInv PROVE Len(board.record) \in Nat /\ MaxBoardSize * MaxBoardSize \in Nat
    BY <2>1, BoardAssumption DEF IInv, TypeOK, BoardType
  <2> QED
    BY <2>1 DEF FitsBoard
<1>1. PICK n \in Nat : n = Len(board.record) /\ DOMAIN board.record = 1 .. n
  BY DEF IInv, TypeOK, BoardType
<1>2. PICK pos : pos = [i \in 1 .. n |-> board.record[i].pos]
  OBVIOUS
<1>3. pos \in [1 .. n -> Points]
  <2>1. ASSUME NEW i \in 1 .. n PROVE board.record[i].pos \in Points
    <3>1. board.record \in Seq(Entry)
      BY DEF IInv, TypeOK, BoardType, Entry
    <3>2. board.record[i] \in Entry
      BY <1>1, <3>1
    <3> QED
      BY <3>2 DEF Entry
  <2> QED
    BY <1>2, <2>1
<1>4. IsFiniteSet(1 .. n) /\ Cardinality(1 .. n) = n
  BY <1>1, FS_Interval
<1>5. \E i, j \in 1 .. n : i # j /\ pos[i] = pos[j]
  BY <1>1, <1>3, <1>4, PointsAreFinite, FS_PigeonHole
<1>6. \A i, j \in 1 .. n : board.record[i].pos = board.record[j].pos => i = j
  BY <1>1 DEF IInv, RecordReplaysBoard
<1> QED
  BY <1>2, <1>5, <1>6

\* The same after a step.
LEMMA RecordFitsBoardNext == IInv' => FitsBoard'
  BY RecordFitsBoard, PTL

NotDrawn == endFlag # 3

\* A step that leaves room in the record does not announce a draw.
LEMMA NoDraw == IInv' /\ NotDrawn /\ [Next]_vars => NotDrawn'
<1> SUFFICES ASSUME IInv', endFlag # 3, [Next]_vars PROVE endFlag' # 3
  BY DEF NotDrawn
<1>1. CASE StartGame
  BY <1>1 DEF StartGame
<1>2. ASSUME NEW p \in RequestedPoints, NEW q \in RequestedPositions, PutStone(p, q)
      PROVE  endFlag' # 3
  <2>1. PICK moved : moved = Moved(board, p, q)
    OBVIOUS
  <2>2. endFlag' = GameOverFlag(moved, p, q) /\ q # 3
    BY <1>2, <2>1 DEF PutStone, MoveAllowed
  <2>3. board'.record = moved.record
    <3>1. AfterMove(board, p, q) = moved \/ AfterMove(board, p, q) = EndGameSetting(moved)
      BY <2>1 DEF AfterMove
    <3>2. EndGameSetting(moved).record = moved.record
      BY <2>1 DEF EndGameSetting, Moved, TurnEnd, PlaceStone, RecordPlaceStone
    <3> QED
      BY <1>2, <3>1, <3>2 DEF PutStone
  <2>4. Len(board'.record) <= MaxBoardSize * MaxBoardSize
    BY RecordFitsBoardNext DEF FitsBoard
  <2>5. ~IsFullRecord(moved)
    BY <2>3, <2>4, BoardAssumption DEF IsFullRecord
  <2> QED
    BY <2>2, <2>5 DEF GameOverFlag
<1>3. CASE UNCHANGED vars
  BY <1>3 DEF vars
<1> QED
  BY <1>1, <1>2, <1>3 DEF Next

\* The record a game sends at its end replays to its board, on a board of any
\* size, and the turn is the one the record says.
THEOREM RecordIsTheGame == Spec => [](TypeOK /\ RecordFollowsGame)
<1>1. Spec => []IInv
  BY InitialBoard, NextKeepsIInv, PTL DEF Spec
<1>2. IInv => TypeOK /\ RecordFollowsGame
  BY DEF IInv, RecordFollowsGame
<1> QED
  BY <1>1, <1>2, PTL

\* The array of the record is never written past its end, however many games are
\* played, and the draw, which is announced when it is full, never is.
THEOREM RecordHasRoom == Spec => []RecordNeverFills
<1>1. Spec => []IInv
  BY InitialBoard, NextKeepsIInv, PTL DEF Spec
<1>2. IInv => Len(board.record) < MaxStoneCount
  <2>1. ASSUME IInv PROVE Len(board.record) \in Nat
    BY <2>1 DEF IInv, TypeOK, BoardType
  <2> QED
    BY <2>1, RecordFitsBoard, BoardAssumption DEF FitsBoard
<1>3. Init => NotDrawn
  BY DEF Init, NotDrawn
<1>4. Spec => []NotDrawn
  BY <1>1, <1>3, NoDraw, PTL DEF Spec
<1>5. IInv /\ NotDrawn => RecordNeverFills
  BY <1>2 DEF NotDrawn, RecordNeverFills
<1> QED
  BY <1>1, <1>4, <1>5, PTL

-----------------------------------------------------------------------------
(* The board plays the game: rows, winners and turns.                        *)

\* The players have put as many stones as the turn says.
Alternates ==
    board.gameFlag => Cardinality(Stones(board.cells, 1)) = Cardinality(Stones(board.cells, 2)) + board.turn

GameInv == IInv /\ RowsEndGames /\ Alternates

LEMMA StonesAreFinite ==
  \A cells, c : IsFiniteSet(Stones(cells, c)) /\ Cardinality(Stones(cells, c)) \in Nat
<1>1. \A cells, c : Stones(cells, c) \in SUBSET Points
  BY DEF Stones
<1> QED
  BY <1>1, PointsAreFinite, FS_Subset, FS_CardinalityType

LEMMA GameInvInitially == Init => GameInv
<1> SUFFICES ASSUME Init PROVE GameInv
  OBVIOUS
<1>1. board.gameFlag = FALSE /\ endFlag = 0
  BY DEF Init, NewBoards
<1> QED
  BY <1>1, InitialBoard DEF GameInv, RowsEndGames, NoRowWhilePlaying, WinnerHasRow, Alternates

\* A game starts from an empty board, whatever the last one left.
LEMMA GameStarts ==
  ASSUME GameInv, StartGame
  PROVE  GameInv' /\ AbstractGame!Start
<1>1. IInv'
  BY StartGameStep DEF GameInv
<1>2. /\ board'.cells = EmptyCells /\ board'.gameFlag = TRUE /\ board'.turn = 0
      /\ endFlag' = 0 /\ ~board.gameFlag
  BY DEF StartGame, InitGameSetting, GameStart, ResetOmok
<1>3. \A c \in 1 .. 2 : Stones(board'.cells, c) = {}
  BY <1>2 DEF Stones, EmptyCells
<1>4. RowsEndGames'
  BY <1>2, <1>3, EmptyHasNoRow DEF RowsEndGames, NoRowWhilePlaying, WinnerHasRow
<1>5. Alternates'
  BY <1>2, <1>3, FS_EmptySet DEF Alternates
<1>6. AbstractGame!Start
  BY <1>2, <1>3 DEF AbstractGame!Start
<1> QED
  BY <1>1, <1>4, <1>5, <1>6 DEF GameInv

\* What a move does to the board: a stone of q, and the end of the game if it
\* completes a row.
LEMMA MoveMade ==
  ASSUME GameInv, NEW p, NEW q, PutStone(p, q)
  PROVE  /\ q \in 1 .. 2 /\ p \in Points /\ board.cells[p] = 0
         /\ board.gameFlag /\ board.turn = q - 1
         /\ Stones(board'.cells, q) = Stones(board.cells, q) \union {p}
         /\ Stones(board'.cells, 3 - q) = Stones(board.cells, 3 - q)
         /\ board'.gameFlag = ~HasRow(Stones(board'.cells, q))
         /\ endFlag' = IF board'.gameFlag THEN 0 ELSE q
         /\ board'.turn = 1 - board.turn
<1>1. /\ q \in 1 .. 2 /\ p \in Points /\ board.cells[p] = 0
      /\ board.gameFlag /\ board.turn = q - 1
      /\ board \in BoardType
  BY DEF PutStone, MoveAllowed, IsValidPos, GameInv, IInv, TypeOK
<1>2. PICK cells : cells = [board.cells EXCEPT ![p] = q]
  OBVIOUS
<1>3. PICK moved : moved = Moved(board, p, q)
  OBVIOUS
<1>4. /\ moved.cells = cells /\ moved.record = Append(board.record, [pos |-> p, color |-> q])
      /\ moved.turn = 1 - board.turn /\ moved.gameFlag = TRUE
  BY <1>1, <1>2, <1>3 DEF Moved, TurnEnd, PlaceStone, RecordPlaceStone, BoardType
<1>5. /\ EndGameSetting(moved).cells = cells /\ EndGameSetting(moved).record = moved.record
      /\ EndGameSetting(moved).turn = 1 - board.turn /\ EndGameSetting(moved).gameFlag = FALSE
  BY <1>1, <1>2, <1>3 DEF EndGameSetting, Moved, TurnEnd, PlaceStone, RecordPlaceStone, BoardType
<1>6. /\ board' = IF GameOverFlag(moved, p, q) = 0 THEN moved ELSE EndGameSetting(moved)
      /\ endFlag' = GameOverFlag(moved, p, q)
  BY <1>3 DEF PutStone, AfterMove
<1>7. board.cells \in [Points -> 0 .. 2] /\ ~HasRow(Stones(board.cells, q))
  BY <1>1 DEF BoardType, GameInv, RowsEndGames, NoRowWhilePlaying
<1>8. /\ Stones(cells, q) = Stones(board.cells, q) \union {p}
      /\ Stones(cells, 3 - q) = Stones(board.cells, 3 - q)
      /\ CheckWinner(cells, p) <=> HasRow(Stones(cells, q))
  BY <1>1, <1>2, <1>7, WinnerIsFound
<1>9. ~IsFullRecord(moved)
  <2>1. IInv'
    BY PutStoneStep DEF GameInv
  <2>2. FitsBoard'
    BY <2>1, RecordFitsBoardNext
  <2>3. board'.record = moved.record
    BY <1>4, <1>5, <1>6
  <2> QED
    BY <2>2, <2>3, BoardAssumption DEF FitsBoard, IsFullRecord
<1>10. GameOverFlag(moved, p, q) = IF HasRow(Stones(cells, q)) THEN q ELSE 0
  BY <1>4, <1>8, <1>9 DEF GameOverFlag
<1>11. board'.cells = cells /\ board'.turn = 1 - board.turn
  BY <1>4, <1>5, <1>6
<1>12. board'.gameFlag = ~HasRow(Stones(cells, q)) /\ endFlag' = IF board'.gameFlag THEN 0 ELSE q
  <2>1. CASE HasRow(Stones(cells, q))
    <3>1. GameOverFlag(moved, p, q) = q /\ q # 0
      BY <1>1, <1>10, <2>1
    <3>2. board' = EndGameSetting(moved) /\ endFlag' = q
      BY <1>6, <3>1
    <3>3. board'.gameFlag = FALSE
      BY <1>5, <3>2
    <3> QED
      BY <2>1, <3>2, <3>3
  <2>2. CASE ~HasRow(Stones(cells, q))
    BY <1>1, <1>4, <1>6, <1>10, <2>2
  <2> QED
    BY <2>1, <2>2
<1> QED
  BY <1>1, <1>8, <1>11, <1>12

\* Gomoku counts stones as this module does.
LEMMA SameCardinality == \A S : AbstractGame!Cardinality(S) = Cardinality(S)
  BY Zenon DEF AbstractGame!Cardinality, Cardinality

LEMMA MoveIsPlayed ==
  ASSUME GameInv, NEW p, NEW q, PutStone(p, q)
  PROVE  GameInv' /\ (AbstractGame!BlackMoves \/ AbstractGame!WhiteMoves)
<1>1. IInv'
  BY PutStoneStep DEF GameInv
<1>2. /\ q \in 1 .. 2 /\ p \in Points /\ board.cells[p] = 0
      /\ board.gameFlag /\ board.turn = q - 1
      /\ Stones(board'.cells, q) = Stones(board.cells, q) \union {p}
      /\ Stones(board'.cells, 3 - q) = Stones(board.cells, 3 - q)
      /\ board'.gameFlag = ~HasRow(Stones(board'.cells, q))
      /\ endFlag' = IF board'.gameFlag THEN 0 ELSE q
      /\ board'.turn = 1 - board.turn
  BY MoveMade
<1>3. ~HasRow(Stones(board.cells, 1)) /\ ~HasRow(Stones(board.cells, 2))
  BY <1>2 DEF GameInv, RowsEndGames, NoRowWhilePlaying
<1>4. RowsEndGames'
  <2>1. ~HasRow(Stones(board'.cells, 3 - q))
    <3>1. 3 - q \in 1 .. 2
      BY <1>2
    <3> QED
      BY <1>2, <1>3, <3>1
  <2>2. NoRowWhilePlaying'
    <3>1. ASSUME NEW c \in 1 .. 2, board'.gameFlag PROVE ~HasRow(Stones(board'.cells, c))
      <4>1. c = q \/ c = 3 - q
        BY <1>2
      <4> QED
        BY <1>2, <2>1, <3>1, <4>1
    <3> QED
      BY <3>1 DEF NoRowWhilePlaying
  <2>3. WinnerHasRow'
    <3>1. ASSUME endFlag' \in 1 .. 2 PROVE endFlag' = q /\ HasRow(Stones(board'.cells, q))
      <4>1. ~board'.gameFlag /\ endFlag' = q
        BY <1>2, <3>1
      <4>2. HasRow(Stones(board'.cells, q))
        BY <1>2, <4>1
      <4> QED
        BY <4>1, <4>2
    <3> QED
      BY <2>1, <3>1 DEF WinnerHasRow
  <2> QED
    BY <2>2, <2>3 DEF RowsEndGames
<1>5. p \notin Stones(board.cells, 1) /\ p \notin Stones(board.cells, 2)
  BY <1>2 DEF Stones
<1>6. /\ Cardinality(Stones(board.cells, 1)) = Cardinality(Stones(board.cells, 2)) + board.turn
      /\ Cardinality(Stones(board.cells, 1)) \in Nat /\ Cardinality(Stones(board.cells, 2)) \in Nat
  BY <1>2, StonesAreFinite DEF GameInv, Alternates
<1>7. Cardinality(Stones(board'.cells, q)) = Cardinality(Stones(board.cells, q)) + 1
  <2>1. p \notin Stones(board.cells, q)
    BY <1>2, <1>5
  <2> QED
    BY <1>2, <2>1, StonesAreFinite, FS_AddElement
<1>8. CASE q = 1
  <2>1. /\ Stones(board'.cells, 1) = Stones(board.cells, 1) \union {p}
        /\ Stones(board'.cells, 2) = Stones(board.cells, 2)
        /\ board.turn = 0 /\ board'.turn = 1
        /\ board'.gameFlag = ~HasRow(Stones(board'.cells, 1))
    BY <1>2, <1>8
  <2>2. Alternates'
    BY <1>6, <1>7, <1>8, <2>1 DEF Alternates
  <2>3. p \in AbstractGame!Free
    BY <1>2, <1>5 DEF AbstractGame!Free
  <2>4. Cardinality(Stones(board.cells, 1)) = Cardinality(Stones(board.cells, 2))
    BY <1>6, <2>1
  <2>5. AbstractGame!BlackMoves
    <3>1. \E m \in AbstractGame!Free : Stones(board'.cells, 1) = Stones(board.cells, 1) \union {m}
      BY <2>1, <2>3
    <3> QED
      BY <1>2, <2>1, <2>4, <3>1, SameCardinality DEF AbstractGame!BlackMoves
  <2> QED
    BY <1>1, <1>4, <2>2, <2>5 DEF GameInv
<1>9. CASE q = 2
  <2>1. /\ Stones(board'.cells, 2) = Stones(board.cells, 2) \union {p}
        /\ Stones(board'.cells, 1) = Stones(board.cells, 1)
        /\ board.turn = 1 /\ board'.turn = 0
        /\ board'.gameFlag = ~HasRow(Stones(board'.cells, 2))
    <3>1. 3 - q = 1 /\ q - 1 = 1 /\ 1 - 1 = 0
      BY <1>9
    <3> QED
      BY <1>2, <1>9, <3>1
  <2>2. Alternates'
    BY <1>6, <1>7, <1>9, <2>1 DEF Alternates
  <2>3. p \in AbstractGame!Free
    BY <1>2, <1>5 DEF AbstractGame!Free
  <2>4. Cardinality(Stones(board.cells, 1)) = Cardinality(Stones(board.cells, 2)) + 1
    BY <1>6, <2>1
  <2>5. AbstractGame!WhiteMoves
    <3>1. \E m \in AbstractGame!Free : Stones(board'.cells, 2) = Stones(board.cells, 2) \union {m}
      BY <2>1, <2>3
    <3> QED
      BY <1>2, <2>1, <2>4, <3>1, SameCardinality DEF AbstractGame!WhiteMoves
  <2> QED
    BY <1>1, <1>4, <2>2, <2>5 DEF GameInv
<1> QED
  BY <1>2, <1>8, <1>9

LEMMA StepIsPlayed == GameInv /\ [Next]_vars => GameInv' /\ [AbstractGame!Next]_(AbstractGame!vars)
<1> SUFFICES ASSUME GameInv, [Next]_vars PROVE GameInv' /\ [AbstractGame!Next]_(AbstractGame!vars)
  OBVIOUS
<1>1. CASE StartGame
  BY <1>1, GameStarts DEF AbstractGame!Next
<1>2. ASSUME NEW p \in RequestedPoints, NEW q \in RequestedPositions, PutStone(p, q)
      PROVE  GameInv' /\ AbstractGame!Next
  BY <1>2, MoveIsPlayed DEF AbstractGame!Next
<1>3. CASE UNCHANGED vars
  <2>1. board' = board /\ endFlag' = endFlag
    BY <1>3 DEF vars
  <2>2. IInv'
    BY NextKeepsIInv DEF GameInv
  <2>3. RowsEndGames' /\ Alternates'
    BY <2>1 DEF GameInv, RowsEndGames, NoRowWhilePlaying, WinnerHasRow, Alternates
  <2>4. UNCHANGED AbstractGame!vars
    BY <2>1 DEF AbstractGame!vars
  <2> QED
    BY <2>2, <2>3, <2>4 DEF GameInv
<1> QED
  BY <1>1, <1>2, <1>3 DEF Next

\* CheckWinner, which looks only along the last stone, ends the game exactly when
\* a player has a row, for any size of board and any length of row.
THEOREM RowsAreFound == Spec => []RowsEndGames
<1>1. GameInv => RowsEndGames
  BY DEF GameInv
<1> QED
  BY <1>1, GameInvInitially, StepIsPlayed, PTL DEF Spec

\* The board, its turn flag and its winner check implement the game: players put
\* stones on free points in turns, black first, until one has a row.
THEOREM BoardPlaysGomoku == Spec => PlaysGomoku
<1>1. Init => AbstractGame!Init
  <2> SUFFICES ASSUME Init PROVE AbstractGame!Init
    OBVIOUS
  <2>1. board.cells = EmptyCells /\ board.gameFlag = FALSE
    BY DEF Init, NewBoards
  <2>2. \A c \in 1 .. 2 : Stones(board.cells, c) = {}
    BY <2>1 DEF Stones, EmptyCells
  <2> QED
    BY <2>1, <2>2 DEF AbstractGame!Init
<1> QED
  BY <1>1, GameInvInitially, StepIsPlayed, PTL DEF Spec, PlaysGomoku, AbstractGame!Spec
=============================================================================
