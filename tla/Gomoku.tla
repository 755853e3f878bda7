------------------------------- MODULE Gomoku -------------------------------
(* The game the board is to play, without a record, a turn flag or a count   *)
(* of neighbours: two players put stones on free points in turns, black      *)
(* first, until one of them has a row.                                       *)
EXTENDS Integers, FiniteSets

CONSTANTS
    Points,     \* the points of the board
    HasRow(_)   \* a set of points holds a winning row

VARIABLES
    black,    \* the points the first player holds
    white,    \* the points the second player holds
    playing   \* a game is running

vars == <<black, white, playing>>

Init == black = {} /\ white = {} /\ playing = FALSE

Start == ~playing /\ black' = {} /\ white' = {} /\ playing' = TRUE

Free == Points \ (black \union white)

BlackMoves ==
    /\ playing
    /\ Cardinality(black) = Cardinality(white)
    /\ \E p \in Free : black' = black \union {p}
    /\ playing' = ~HasRow(black')
    /\ UNCHANGED white

WhiteMoves ==
    /\ playing
    /\ Cardinality(black) = Cardinality(white) + 1
    /\ \E p \in Free : white' = white \union {p}
    /\ playing' = ~HasRow(white')
    /\ UNCHANGED black

Next == Start \/ BlackMoves \/ WhiteMoves

Spec == Init /\ [][Next]_vars
=============================================================================
