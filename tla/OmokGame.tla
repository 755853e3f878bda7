------------------------------ MODULE OmokGame ------------------------------
(* One room's board as the update thread drives it: games start, stones are  *)
(* put (any position and point may arrive in a request), a winning stone     *)
(* ends the game.  Who may start a game and what becomes of the players is   *)
(* in GameServer; here the board itself is looked at.                        *)
EXTENDS OmokBoard

VARIABLES
    board,   \* CChatRoom::_omokBoard
    endFlag  \* the flag of the last en_GameOverResponse, 0 before one and while a game runs

vars == <<board, endFlag>>

\* What a request may carry: positions 1 and 2 are the seats, 0 and 3 the others
\* (UserRoomInfo::Position); the coordinates are bytes the board need not have.
RequestedPositions == 0 .. 3
RequestedPoints == (0 .. MaxBoardSize) \X (0 .. MaxBoardSize)

Init == board \in NewBoards /\ endFlag = 0

\* CServer::GameStartProcedure, once both players are ready: no game is running
\* then (CServer::Ready asserts it).
StartGame ==
    /\ ~board.gameFlag
    /\ board' = InitGameSetting(board)
    /\ endFlag' = 0

\* CServer::PutStone with an acceptable move; the refused ones change nothing.
PutStone(p, position) ==
    /\ MoveAllowed(board, p, position)
    /\ board' = AfterMove(board, p, position)
    /\ endFlag' = GameOverFlag(Moved(board, p, position), p, position)

Next ==
    \/ StartGame
    \/ \E p \in RequestedPoints, position \in RequestedPositions : PutStone(p, position)

Spec == Init /\ [][Next]_vars

-----------------------------------------------------------------------------

TypeOK == board \in BoardType /\ endFlag \in 0 .. 3

\* The game record replays to the board: entry i is a stone of the player whose
\* move it was, no point is recorded twice, and the points recorded for a colour
\* are those that hold it (the record written by RecordPlaceStone is what
\* MakeRecordPacket sends after the game).
RecordReplaysBoard ==
    /\ \A i \in DOMAIN board.record : board.record[i].color = 2 - (i % 2)
    /\ \A i, j \in DOMAIN board.record :
          board.record[i].pos = board.record[j].pos => i = j
    /\ \A c \in 1 .. 2 :
          Stones(board.cells, c) =
             {board.record[i].pos : i \in {k \in DOMAIN board.record : board.record[k].color = c}}

\* The turn flag, a toggle, agrees with the number of stones recorded since
\* the game was started, whoever won the game before.
TurnFollowsRecord == board.gameFlag => board.turn = Len(board.record) % 2

\* Record, stones and turn are one game: what RecordPlaceStone, PlaceStoneOnBoard
\* and SwitchNext keep in three places.
RecordFollowsGame == RecordReplaysBoard /\ TurnFollowsRecord

\* CheckWinner looks only along the last stone; no row anywhere on the board
\* may have escaped it while the game runs.
NoRowWhilePlaying ==
    board.gameFlag => \A c \in 1 .. 2 : ~HasRow(Stones(board.cells, c))

\* A game is won by a player who has a row, and only by that player.
WinnerHasRow ==
    endFlag \in 1 .. 2 =>
        HasRow(Stones(board.cells, endFlag)) /\ ~HasRow(Stones(board.cells, 3 - endFlag))

\* Games end by a row and only by a row, which is its owner's.
RowsEndGames == NoRowWhilePlaying /\ WinnerHasRow

\* RecordPlaceStone writes the array of MaxStoneCount entries without looking at
\* the count: over any number of games there is an entry left, and a record that
\* never fills never announces the draw.
RecordNeverFills == Len(board.record) < MaxStoneCount /\ endFlag # 3

\* CRoom.cpp:19 gives flag 3 the meaning "draw": when the board is full and
\* nobody has won, the game is over with a draw.
FullBoardIsADraw ==
    (\A p \in Points : board.cells[p] # 0) => ~board.gameFlag /\ endFlag # 0

\* The board plays the abstract game.
AbstractGame ==
    INSTANCE Gomoku WITH
        black <- Stones(board.cells, 1), white <- Stones(board.cells, 2),
        playing <- board.gameFlag

PlaysGomoku == AbstractGame!Spec
=============================================================================
