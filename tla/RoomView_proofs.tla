-------------------------- MODULE RoomView_proofs --------------------------
(* The server and what the members of a room know of it, for any number of   *)
(* sessions, accounts and rooms, any room capacity and any board.            *)
(*                                                                           *)
(* First the invariants of GameServer.  They lean on each other (a seat is   *)
(* found because the roster is right, the roster is right because the key    *)
(* table is), so they are proved together, as the parts of one inductive     *)
(* invariant.  Then what a member was told, which is right because the       *)
(* tables of the server are: everybody a handler tells is on the roster, and *)
(* the roster is the sessions in the room.  So the second invariant is the   *)
(* first with what every member knows, as long as the server is running.     *)
EXTENDS RoomView, FiniteSetTheorems, TLAPS

-----------------------------------------------------------------------------
(* The boards of the rooms stay boards.                                      *)

\* The constructor's boards are boards, whichever value _turn happens to hold.
LEMMA NewBoardsType == NewBoards \subseteq BoardType
<1>1. ASSUME NEW t \in 0 .. 1
      PROVE  [cells |-> EmptyCells, record |-> <<>>, gameFlag |-> FALSE, turn |-> t] \in BoardType
  BY DEF BoardType, EmptyCells
<1> QED
  BY <1>1 DEF NewBoards

\* InitGameSetting makes a board of an empty one, whatever the last game left.
LEMMA InitGameSettingType == \A b : InitGameSetting(b) \in BoardType
<1>1. ASSUME NEW b
      PROVE  ResetOmok(b) \in BoardType
  BY DEF ResetOmok, BoardType, EmptyCells
<1>2. ASSUME NEW b \in BoardType
      PROVE  GameStart(b) \in BoardType
  <2>1. [b EXCEPT !.gameFlag = TRUE] \in BoardType
    BY DEF BoardType
  <2>2. ASSUME NEW c \in BoardType
        PROVE  [c EXCEPT !.turn = 0] \in BoardType
    BY DEF BoardType
  <2>3. GameStart(b) = [[b EXCEPT !.gameFlag = TRUE] EXCEPT !.turn = 0]
    BY Zenon DEF GameStart
  <2> QED
    BY <2>1, <2>2, <2>3
<1> QED
  BY <1>1, <1>2 DEF InitGameSetting

\* PlaceStone keeps the type when the stone is one of the two players'.
LEMMA PlaceStoneType ==
  ASSUME NEW b \in BoardType, NEW p \in Points, NEW color \in 1 .. 2
  PROVE  PlaceStone(b, p, color) \in BoardType
<1>1. [b.cells EXCEPT ![p] = color] \in [Points -> 0 .. 2]
  BY DEF BoardType
<1>2. [pos |-> p, color |-> color] \in [pos : Points, color : 1 .. 2]
  OBVIOUS
<1>3. Append(b.record, [pos |-> p, color |-> color]) \in Seq([pos : Points, color : 1 .. 2])
  BY <1>2 DEF BoardType
<1> QED
  BY <1>1, <1>3 DEF PlaceStone, RecordPlaceStone, BoardType

\* A move, with the turn and the end of the game that follow it, keeps the type.
LEMMA AfterMoveType ==
  ASSUME NEW b \in BoardType, NEW p \in Points, NEW who \in 1 .. 2
  PROVE  /\ Moved(b, p, who) \in BoardType
         /\ AfterMove(b, p, who) \in BoardType
<1> DEFINE placed == PlaceStone(b, p, who)
<1>1. placed \in BoardType
  BY PlaceStoneType
<1> HIDE DEF placed
<1>2. TurnEnd(placed) \in BoardType
  BY <1>1 DEF TurnEnd, BoardType
<1>3. Moved(b, p, who) = TurnEnd(placed)
  BY DEF Moved, placed
<1>4. EndGameSetting(TurnEnd(placed)) \in BoardType
  BY <1>2 DEF EndGameSetting, BoardType
<1> QED
  BY <1>2, <1>3, <1>4 DEF AfterMove

-----------------------------------------------------------------------------
(* The invariant of GameServer.                                              *)

\* A session without a user has the fields the next CUser would be given, and
\* no seat names a session that was not accepted yet.
AbsentUsersAreBlank ==
    /\ \A s \in Sessions \ userManager :
          /\ account[s] = None /\ room[s] = None /\ position[s] = 0
          /\ ready[s] = FALSE /\ view[s] = None
    /\ \A r \in Rooms, k \in Seats : players[r][k].sId \in accepted \union {None}

IInv ==
    /\ TypeOK
    /\ KeysMatchUsers
    /\ RosterMatchesUsers
    /\ SeatsMatchPositions
    /\ ReadyMatchesGame
    /\ AbsentUsersAreBlank
    /\ OnlyKnownHalts

\* What the steps below use again and again.
LEMMA Nothing == None \notin Sessions /\ None \notin Accounts /\ None \notin Rooms
  BY ServerAssumption

\* A step that ends the process for one of the known reasons changes nothing else.
LEMMA HaltStep ==
  ASSUME IInv, NEW why \in {"notLoggedIn", "roomMismatch", "nullOpponent"}, Halt(why)
  PROVE  IInv'
<1>1. UNCHANGED <<accepted, userManager, account, room, position, ready, view, accountKey,
                  userMap, players, playerCnt, board, lobbyCount, roomCount>>
  BY DEF Halt, userVars, roomVars, countVars
<1>2. TypeOK'
  BY <1>1 DEF IInv, TypeOK, Halt
<1>3. KeysMatchUsers' /\ RosterMatchesUsers'
  BY <1>1 DEF IInv, KeysMatchUsers, RosterMatchesUsers
<1>4. SeatsMatchPositions' /\ ReadyMatchesGame'
  BY <1>1 DEF IInv, SeatsMatchPositions, ReadyMatchesGame
<1>5. AbsentUsersAreBlank' /\ OnlyKnownHalts'
  BY <1>1 DEF IInv, AbsentUsersAreBlank, OnlyKnownHalts, Halt
<1> QED
  BY <1>2, <1>3, <1>4, <1>5 DEF IInv

\* The user of a session that was not accepted before starts blank.
LEMMA CreateUserStep ==
  ASSUME IInv, NEW s \in Sessions, CreateUser(s)
  PROVE  IInv'
<1> USE DEF IInv, CreateUser, userVars, roomVars, countVars
<1>1. TypeOK'
  BY DEF TypeOK
<1>2. s \notin userManager /\ account[s] = None /\ room[s] = None /\ position[s] = 0 /\ ready[s] = FALSE
  BY DEF TypeOK, AbsentUsersAreBlank
<1>3. KeysMatchUsers'
  BY <1>2 DEF TypeOK, KeysMatchUsers
<1>4. RosterMatchesUsers'
  BY <1>2 DEF TypeOK, RosterMatchesUsers
<1>5. SeatsMatchPositions'
  BY <1>2, Nothing DEF TypeOK, SeatsMatchPositions, AbsentUsersAreBlank, Seats
<1>6. ReadyMatchesGame'
  BY <1>2 DEF TypeOK, ReadyMatchesGame, Seats
<1>7. AbsentUsersAreBlank' /\ OnlyKnownHalts'
  BY DEF TypeOK, AbsentUsersAreBlank, OnlyKnownHalts
<1> QED
  BY <1>1, <1>3, <1>4, <1>5, <1>6, <1>7

\* A user without an account is in no room, so nothing refers to it yet.
LEMMA LoginStep ==
  ASSUME IInv, NEW s \in Sessions, NEW a \in Accounts, Login(s, a)
  PROVE  IInv'
<1> USE DEF IInv, Login, roomVars, LoginRefused
<1>1. TypeOK'
  <2>1. account' \in [Sessions -> Accounts \union {None}] /\ accountKey' \in [Accounts -> Sessions \union {None}]
    BY DEF TypeOK
  <2>2. lobbyCount' \in Int
    BY DEF TypeOK
  <2> QED
    BY <2>1, <2>2 DEF TypeOK
<1>2. room[s] = None /\ position[s] \notin Seats
  BY DEF RosterMatchesUsers, SeatsMatchPositions
<1>3. KeysMatchUsers'
  BY Nothing DEF TypeOK, KeysMatchUsers
<1>4. RosterMatchesUsers'
  BY <1>2, Nothing DEF TypeOK, RosterMatchesUsers
<1>5. SeatsMatchPositions'
  BY <1>2 DEF TypeOK, SeatsMatchPositions
<1>6. ReadyMatchesGame'
  BY DEF ReadyMatchesGame
<1>7. AbsentUsersAreBlank' /\ OnlyKnownHalts'
  BY DEF TypeOK, AbsentUsersAreBlank, OnlyKnownHalts
<1> QED
  BY <1>1, <1>3, <1>4, <1>5, <1>6, <1>7

\* Key table and roster know every user who has an account and every user in a
\* room, so a release finds both entries; the seat it leaves behind names a
\* session that is never a user again.
LEMMA ReleaseUserStep ==
  ASSUME IInv, NEW s \in Sessions, ReleaseUser(s)
  PROVE  IInv'
<1>1. s \in userManager
  BY DEF ReleaseUser
<1>2. ReleaseHalts(s) \in {"no", "notLoggedIn"}
  BY <1>1, Nothing DEF IInv, TypeOK, KeysMatchUsers, RosterMatchesUsers, ReleaseHalts
<1>3. CASE ReleaseHalts(s) # "no"
  BY <1>2, <1>3, HaltStep DEF ReleaseUser
<1>4. CASE ReleaseHalts(s) = "no"
  <2>1. /\ userManager' = userManager \ {s}
        /\ accountKey' = [accountKey EXCEPT ![account[s]] = None]
        /\ Forget(s)
        /\ userMap' = IF room[s] = None THEN userMap ELSE LeavesRoster(s)
        /\ lobbyCount' = LobbyAfterRelease(s)
        /\ roomCount' = IF room[s] = None THEN roomCount ELSE roomCount - 1
        /\ UNCHANGED <<accepted, players, playerCnt, board, halted>>
    BY <1>4 DEF ReleaseUser
  <2>2. account[s] \in Accounts
    BY <1>4 DEF ReleaseHalts, IInv, TypeOK
  <2>3. accountKey[account[s]] = s
    BY <1>1, <2>2, Nothing DEF IInv, KeysMatchUsers
  <2>4. TypeOK'
    BY <2>1, <2>2 DEF IInv, TypeOK, Forget, LeavesRoster, LobbyAfterRelease
  <2>5. KeysMatchUsers'
    BY <1>1, <2>1, <2>2, <2>3, Nothing DEF IInv, TypeOK, KeysMatchUsers, Forget
  <2>6. RosterMatchesUsers'
    BY <1>1, <2>1, <2>2, <2>3, Nothing
    DEF IInv, TypeOK, KeysMatchUsers, RosterMatchesUsers, Forget, LeavesRoster
  <2>7. SeatsMatchPositions'
    BY <2>1 DEF IInv, TypeOK, SeatsMatchPositions, Forget
  <2>8. ReadyMatchesGame'
    BY <2>1 DEF IInv, TypeOK, ReadyMatchesGame, Forget
  <2>9. AbsentUsersAreBlank' /\ OnlyKnownHalts'
    BY <2>1 DEF IInv, TypeOK, AbsentUsersAreBlank, OnlyKnownHalts, Forget
  <2> QED
    BY <2>4, <2>5, <2>6, <2>7, <2>8, <2>9 DEF IInv
<1> QED
  BY <1>3, <1>4

\* An account's place in the roster of a room it does not belong to is free, so
\* AddUser really inserts.
LEMMA EnterRoomStep ==
  ASSUME IInv, NEW s \in Sessions, NEW r \in Rooms, EnterRoom(s, r)
  PROVE  IInv'
<1>1. /\ s \in userManager /\ account[s] \in Accounts /\ room[s] = None
      /\ room' = [room EXCEPT ![s] = r]
      /\ view' = [view EXCEPT ![s] = r]
      /\ position' = [position EXCEPT ![s] = 3]
      /\ lobbyCount' = lobbyCount - 1
      /\ roomCount' = roomCount + 1
      /\ UNCHANGED <<accepted, userManager, account, ready, accountKey, players, playerCnt, board, halted>>
  BY DEF EnterRoom, IInv, TypeOK
<1>2. userMap[r][account[s]] = None
  BY <1>1, Nothing DEF IInv, KeysMatchUsers, RosterMatchesUsers
<1>3. userMap' = [userMap EXCEPT ![r][account[s]] = s]
  BY <1>2 DEF EnterRoom, EntersRoster
<1>4. ready[s] = FALSE
  <2>1. position[s] \notin Seats
    BY <1>1 DEF IInv, SeatsMatchPositions
  <2> QED
    BY <1>1, <2>1 DEF IInv, TypeOK, ReadyMatchesGame
<1>5. TypeOK'
  <2>1. userMap' \in [Rooms -> [Accounts -> Sessions \union {None}]]
    BY <1>1, <1>3 DEF IInv, TypeOK
  <2>2. /\ room' \in [Sessions -> Rooms \union {None}] /\ view' \in [Sessions -> Rooms \union {None}]
        /\ position' \in [Sessions -> 0 .. 3]
    BY <1>1 DEF IInv, TypeOK
  <2> QED
    BY <1>1, <2>1, <2>2 DEF IInv, TypeOK
<1>6. KeysMatchUsers'
  BY <1>1 DEF IInv, KeysMatchUsers
<1>7. RosterMatchesUsers'
  BY <1>1, <1>3, Nothing DEF IInv, TypeOK, KeysMatchUsers, RosterMatchesUsers
<1>8. SeatsMatchPositions'
  BY <1>1, Nothing DEF IInv, TypeOK, SeatsMatchPositions, Seats
<1>9. ReadyMatchesGame'
  BY <1>1, <1>4 DEF IInv, TypeOK, ReadyMatchesGame, Seats
<1>10. AbsentUsersAreBlank' /\ OnlyKnownHalts'
  BY <1>1 DEF IInv, TypeOK, AbsentUsersAreBlank, OnlyKnownHalts
<1> QED
  BY <1>5, <1>6, <1>7, <1>8, <1>9, <1>10 DEF IInv

\* A user in a room is on the seat its position names and in the roster, so
\* neither assertion of a leave, or of a change of position, can be tripped.
LEMMA SeatedInRoom ==
  ASSUME IInv, NEW s \in Sessions, InRoom(s)
  PROVE  /\ ~SeatLost(s)
         /\ account[s] \in Accounts
         /\ room[s] \in Rooms
         /\ userMap[room[s]][account[s]] = s
<1>1. s \in userManager /\ room[s] # None
  BY DEF InRoom
<1>2. account[s] # None /\ userMap[room[s]][account[s]] = s
  BY <1>1 DEF IInv, RosterMatchesUsers
<1>3. ~SeatLost(s)
  BY <1>1 DEF IInv, SeatsMatchPositions, SeatLost
<1> QED
  BY <1>1, <1>2, <1>3 DEF IInv, TypeOK

\* Clearing a seat, or putting s with its account on one, gives players again.
LEMMA SeatGivenUpType ==
  ASSUME IInv, NEW s \in Sessions, InRoom(s)
  PROVE  SeatGivenUp(s) \in [Rooms -> [Seats -> Player]]
<1>1. NoPlayer \in Player
  BY DEF NoPlayer, Player
<1> QED
  BY <1>1, SeatedInRoom DEF IInv, TypeOK, SeatGivenUp

\* Whoever leaves is off its seat, off the roster and not ready.
LEMMA LeaveRoomStep ==
  ASSUME IInv, NEW s \in Sessions, LeaveRoom(s)
  PROVE  IInv'
<1>1. InRoom(s) /\ s \in userManager /\ room[s] \in Rooms
  BY SeatedInRoom DEF LeaveRoom, InRoom
<1>2. LeaveHalts(s) = "no"
  BY <1>1, SeatedInRoom, Nothing DEF LeaveHalts
<1>3. /\ players' = SeatGivenUp(s)
      /\ ready' = [ready EXCEPT ![s] = FALSE]
      /\ position' = [position EXCEPT ![s] = 0]
      /\ userMap' = LeavesRoster(s)
      /\ room' = [room EXCEPT ![s] = None]
      /\ view' = IF ToldItLeft(s) THEN [view EXCEPT ![s] = None] ELSE view
      /\ lobbyCount' = lobbyCount + 1
      /\ roomCount' = roomCount - 1
      /\ UNCHANGED <<accepted, userManager, account, accountKey, playerCnt, board, halted>>
  BY <1>2 DEF LeaveRoom
<1>4. account[s] \in Accounts
  BY <1>1, SeatedInRoom
<1>5. TypeOK'
  <2>1. players' \in [Rooms -> [Seats -> Player]]
    BY <1>1, <1>3, SeatGivenUpType
  <2>2. userMap' \in [Rooms -> [Accounts -> Sessions \union {None}]]
    BY <1>1, <1>3, <1>4 DEF IInv, TypeOK, LeavesRoster
  <2>3. /\ room' \in [Sessions -> Rooms \union {None}] /\ view' \in [Sessions -> Rooms \union {None}]
        /\ position' \in [Sessions -> 0 .. 3] /\ ready' \in [Sessions -> BOOLEAN]
    BY <1>3 DEF IInv, TypeOK
  <2> QED
    BY <1>3, <2>1, <2>2, <2>3 DEF IInv, TypeOK
<1>6. KeysMatchUsers'
  BY <1>3 DEF IInv, KeysMatchUsers
<1>7. RosterMatchesUsers'
  BY <1>1, <1>3, <1>4, Nothing DEF IInv, TypeOK, KeysMatchUsers, RosterMatchesUsers, LeavesRoster
<1>8. SeatsMatchPositions'
  <2>1. ASSUME NEW u \in userManager', position'[u] \in Seats
        PROVE  /\ room'[u] # None
               /\ players'[room'[u]][position'[u]] = [accountNo |-> account'[u], sId |-> u]
    <3>1. u # s
      BY <1>1, <1>3, <2>1 DEF IInv, TypeOK, Seats
    <3>2. /\ u \in userManager /\ u \in Sessions /\ position[u] \in Seats
          /\ room'[u] = room[u] /\ position'[u] = position[u] /\ account'[u] = account[u]
      BY <1>3, <2>1, <3>1 DEF IInv, TypeOK
    <3>3. /\ room[u] # None /\ room[u] \in Rooms
          /\ players[room[u]][position[u]] = [accountNo |-> account[u], sId |-> u]
      BY <3>2 DEF IInv, TypeOK, SeatsMatchPositions
    <3>4. CASE position[s] \in Seats
      <4>1. players[room[s]][position[s]].sId = s
        <5>1. players[room[s]][position[s]] = [accountNo |-> account[s], sId |-> s]
          BY <1>1, <3>4 DEF IInv, SeatsMatchPositions
        <5> QED
          BY <5>1
      <4>2. ~(room[u] = room[s] /\ position[u] = position[s])
        BY <3>1, <3>3, <4>1
      <4>3. players' = [players EXCEPT ![room[s]][position[s]] = NoPlayer]
        BY <1>3, <3>4 DEF SeatGivenUp
      <4>4. players'[room[u]][position[u]] = players[room[u]][position[u]]
        BY <1>1, <3>2, <3>3, <3>4, <4>2, <4>3 DEF IInv, TypeOK
      <4> QED
        BY <3>2, <3>3, <4>4
    <3>5. CASE position[s] \notin Seats
      BY <1>3, <3>2, <3>3, <3>5 DEF SeatGivenUp
    <3> QED
      BY <3>4, <3>5
  <2>2. ASSUME NEW r \in Rooms, NEW k \in Seats, players'[r][k].sId \in userManager'
        PROVE  room'[players'[r][k].sId] = r /\ position'[players'[r][k].sId] = k
    <3>1. players'[r][k] = players[r][k] /\ players[r][k].sId \in userManager
      BY <1>1, <1>3, <2>2, Nothing DEF IInv, TypeOK, SeatGivenUp, NoPlayer
    <3>2. room[players[r][k].sId] = r /\ position[players[r][k].sId] = k
      BY <3>1 DEF IInv, SeatsMatchPositions
    <3>3. players[r][k].sId # s
      BY <1>1, <1>3, <2>2, <3>1, <3>2, Nothing DEF IInv, TypeOK, SeatGivenUp, NoPlayer
    <3> QED
      BY <1>3, <3>1, <3>2, <3>3 DEF IInv, TypeOK
  <2> QED
    BY <2>1, <2>2 DEF SeatsMatchPositions
<1>9. ReadyMatchesGame'
  BY <1>3 DEF IInv, TypeOK, ReadyMatchesGame
<1>10. AbsentUsersAreBlank' /\ OnlyKnownHalts'
  BY <1>1, <1>3 DEF IInv, TypeOK, AbsentUsersAreBlank, OnlyKnownHalts, SeatGivenUp, NoPlayer, Seats
<1> QED
  BY <1>5, <1>6, <1>7, <1>8, <1>9, <1>10 DEF IInv

LEMMA RequestAfterRefusedLeaveStep ==
  ASSUME IInv, NEW s \in Sessions, RequestAfterRefusedLeave(s)
  PROVE  IInv'
  BY HaltStep DEF RequestAfterRefusedLeave

\* Seats change only while no game runs and only a free seat is taken: nobody is
\* on it, since every seat in use has the account of its player.
LEMMA ChangePositionStep ==
  ASSUME IInv, NEW s \in Sessions, NEW to \in 1 .. 3, ChangePosition(s, to)
  PROVE  IInv'
<1> DEFINE me == [accountNo |-> account[s], sId |-> s]
<1>1. InRoom(s) /\ s \in userManager /\ room[s] \in Rooms /\ account[s] \in Accounts
  BY SeatedInRoom DEF ChangePosition, InRoom
<1>2. /\ position[s] # to /\ ~board[room[s]].gameFlag
      /\ to \in Seats => players[room[s]][to].accountNo = None
      /\ CountAfterChange(s, to) \in PlayerCntRange
  BY DEF ChangePosition, SeatChangeOpen, SeatFree
<1>3. /\ ready' = [ready EXCEPT ![s] = FALSE]
      /\ position' = [position EXCEPT ![s] = to]
      /\ playerCnt' = [playerCnt EXCEPT ![room[s]] = CountAfterChange(s, to)]
      /\ players' = IF to \in Seats THEN [SeatGivenUp(s) EXCEPT ![room[s]][to] = me] ELSE SeatGivenUp(s)
      /\ UNCHANGED <<accepted, userManager, account, room, view, accountKey, userMap,
                     board, lobbyCount, roomCount, halted>>
  BY <1>1, SeatedInRoom DEF ChangePosition, countVars
<1>4. me \in Player
  BY <1>1 DEF Player
<1>5. SeatGivenUp(s) \in [Rooms -> [Seats -> Player]]
  BY <1>1, SeatGivenUpType
<1>6. TypeOK'
  <2>1. players' \in [Rooms -> [Seats -> Player]]
    BY <1>1, <1>3, <1>4, <1>5
  <2>2. playerCnt' \in [Rooms -> PlayerCntRange]
    BY <1>1, <1>2, <1>3 DEF IInv, TypeOK
  <2>3. position' \in [Sessions -> 0 .. 3] /\ ready' \in [Sessions -> BOOLEAN]
    BY <1>3 DEF IInv, TypeOK
  <2> QED
    BY <1>3, <2>1, <2>2, <2>3 DEF IInv, TypeOK
<1>7. KeysMatchUsers' /\ RosterMatchesUsers'
  BY <1>3 DEF IInv, KeysMatchUsers, RosterMatchesUsers
<1>8. ASSUME NEW r \in Rooms, NEW k \in Seats
      PROVE  \/ r = room[s] /\ k = to /\ players'[r][k] = me
             \/ ~(r = room[s] /\ k = to) /\ players'[r][k] = NoPlayer
             \/ /\ ~(r = room[s] /\ k = to) /\ ~(r = room[s] /\ k = position[s])
                /\ players'[r][k] = players[r][k]
  <2>1. SeatGivenUp(s)[r][k] = IF r = room[s] /\ k = position[s] THEN NoPlayer ELSE players[r][k]
    BY <1>1 DEF IInv, TypeOK, SeatGivenUp
  <2>2. players'[r][k] = IF r = room[s] /\ k = to THEN me ELSE SeatGivenUp(s)[r][k]
    BY <1>1, <1>3, <1>5
  <2> QED
    BY <2>1, <2>2
<1>9. SeatsMatchPositions'
  <2>1. ASSUME NEW u \in userManager', position'[u] \in Seats
        PROVE  /\ room'[u] # None
               /\ players'[room'[u]][position'[u]] = [accountNo |-> account'[u], sId |-> u]
    <3>1. /\ u \in userManager /\ u \in Sessions /\ room'[u] = room[u] /\ account'[u] = account[u]
      BY <1>3, <2>1 DEF IInv, TypeOK
    <3>2. CASE u = s
      <4>1. position'[u] = to /\ to \in Seats
        BY <1>3, <2>1, <3>2, <3>1 DEF IInv, TypeOK
      <4>2. players'[room[s]][to] = me
        BY <1>1, <1>8, <4>1
      <4> QED
        BY <1>1, <3>1, <3>2, <4>1, <4>2, Nothing
    <3>3. CASE u # s
      <4>1. position'[u] = position[u] /\ position[u] \in Seats
        BY <1>3, <2>1, <3>1, <3>3 DEF IInv, TypeOK
      <4>2. /\ room[u] # None /\ room[u] \in Rooms /\ account[u] # None
            /\ players[room[u]][position[u]] = [accountNo |-> account[u], sId |-> u]
        BY <3>1, <4>1 DEF IInv, TypeOK, SeatsMatchPositions, RosterMatchesUsers
      <4>3. ~(room[u] = room[s] /\ position[u] = to)
        BY <1>2, <4>1, <4>2
      <4>4. ~(room[u] = room[s] /\ position[u] = position[s])
        <5>1. position[s] \in Seats => players[room[s]][position[s]] = [accountNo |-> account[s], sId |-> s]
          BY <1>1 DEF IInv, SeatsMatchPositions
        <5> QED
          BY <3>3, <4>1, <4>2, <5>1
      <4>5. players'[room[u]][position[u]] = players[room[u]][position[u]]
        <5>1. SeatGivenUp(s)[room[u]][position[u]] = players[room[u]][position[u]]
          BY <1>1, <4>1, <4>2, <4>4 DEF IInv, TypeOK, SeatGivenUp
        <5> QED
          BY <1>1, <1>3, <1>5, <4>1, <4>2, <4>3, <5>1
      <4> QED
        BY <3>1, <4>1, <4>2, <4>5
    <3> QED
      BY <3>2, <3>3
  <2>2. ASSUME NEW r \in Rooms, NEW k \in Seats, players'[r][k].sId \in userManager'
        PROVE  room'[players'[r][k].sId] = r /\ position'[players'[r][k].sId] = k
    <3>1. CASE r = room[s] /\ k = to
      <4>1. players'[r][k].sId = s
        BY <1>8, <3>1
      <4> QED
        BY <1>1, <1>3, <3>1, <4>1 DEF IInv, TypeOK
    <3>2. CASE ~(r = room[s] /\ k = to)
      <4>1. players'[r][k] = players[r][k] /\ ~(r = room[s] /\ k = position[s])
        BY <1>3, <1>8, <2>2, <3>2, Nothing DEF IInv, TypeOK, NoPlayer
      <4>2. /\ players[r][k].sId \in userManager
            /\ room[players[r][k].sId] = r /\ position[players[r][k].sId] = k
        BY <1>3, <2>2, <4>1 DEF IInv, SeatsMatchPositions
      <4>3. players[r][k].sId # s
        BY <4>1, <4>2
      <4> QED
        BY <1>3, <4>1, <4>2, <4>3 DEF IInv, TypeOK
    <3> QED
      BY <3>1, <3>2
  <2> QED
    BY <2>1, <2>2 DEF SeatsMatchPositions
<1>10. ReadyMatchesGame'
  BY <1>1, <1>2, <1>3 DEF IInv, TypeOK, ReadyMatchesGame
<1>11. AbsentUsersAreBlank' /\ OnlyKnownHalts'
  <2>1. \A r \in Rooms, k \in Seats : players'[r][k].sId \in accepted' \union {None}
    <3>1. ASSUME NEW r \in Rooms, NEW k \in Seats
          PROVE  players'[r][k].sId \in {s, None, players[r][k].sId}
      BY <1>8 DEF NoPlayer
    <3>2. s \in accepted
      BY <1>1 DEF IInv, TypeOK
    <3> QED
      BY <1>3, <3>1, <3>2 DEF IInv, AbsentUsersAreBlank
  <2> QED
    BY <1>1, <1>3, <2>1 DEF IInv, TypeOK, AbsentUsersAreBlank, OnlyKnownHalts
<1> QED
  BY <1>6, <1>7, <1>9, <1>10, <1>11 DEF IInv

\* Whoever is on the other seat is found through the roster.
LEMMA OpponentIsSeated ==
  ASSUME IInv, NEW s \in Sessions, InRoom(s), position[s] \in Seats,
         NEW u \in userManager, room[u] = room[s], position[u] \in Seats
  PROVE  u = s \/ u = Opponent(s)
<1>1. s \in userManager /\ u \in Sessions /\ room[u] # None
  BY DEF InRoom, IInv, TypeOK
<1>2. players[room[s]][position[s]] = [accountNo |-> account[s], sId |-> s]
  BY <1>1 DEF IInv, SeatsMatchPositions
<1>3. players[room[s]][position[u]] = [accountNo |-> account[u], sId |-> u]
  BY <1>1 DEF IInv, SeatsMatchPositions
<1>4. account[u] # None /\ userMap[room[s]][account[u]] = u
  BY <1>1 DEF IInv, RosterMatchesUsers
<1>5. CASE position[u] = position[s]
  BY <1>2, <1>3, <1>5
<1>6. CASE position[u] # position[s]
  <2>1. position[u] = 3 - position[s]
    BY <1>6 DEF Seats
  <2> QED
    BY <1>3, <1>4, <2>1 DEF Opponent
<1> QED
  BY <1>5, <1>6

\* Ready arrives outside games only, and the game it starts has only ready players.
LEMMA ReadyStep ==
  ASSUME IInv, NEW s \in Sessions, Ready(s)
  PROVE  IInv'
<1>1. InRoom(s) /\ s \in userManager /\ room[s] \in Rooms /\ position[s] \in Seats
  BY SeatedInRoom DEF Ready, InRoom
<1>2. ~board[room[s]].gameFlag
  BY <1>1, Nothing DEF Ready, IInv, ReadyMatchesGame
<1>3. /\ ready' = [ready EXCEPT ![s] = TRUE]
      /\ board' = IF GameStarts(s) THEN [board EXCEPT ![room[s]] = InitGameSetting(@)] ELSE board
      /\ UNCHANGED <<accepted, userManager, account, room, position, view, accountKey,
                     userMap, players, playerCnt, lobbyCount, roomCount, halted>>
  BY <1>2 DEF Ready, countVars
<1>4. TypeOK'
  <2>1. board' \in [Rooms -> BoardType]
    BY <1>1, <1>3, InitGameSettingType DEF IInv, TypeOK
  <2>2. ready' \in [Sessions -> BOOLEAN]
    BY <1>3 DEF IInv, TypeOK
  <2> QED
    BY <1>3, <2>1, <2>2 DEF IInv, TypeOK
<1>5. KeysMatchUsers' /\ RosterMatchesUsers' /\ SeatsMatchPositions'
  BY <1>3 DEF IInv, KeysMatchUsers, RosterMatchesUsers, SeatsMatchPositions
<1>6. ReadyMatchesGame'
  <2>1. ASSUME NEW u \in userManager', position'[u] \in Seats, room'[u] # None, board'[room'[u]].gameFlag
        PROVE  ready'[u]
    <3>1. u \in userManager /\ u \in Sessions /\ position[u] \in Seats /\ room[u] \in Rooms /\ room[u] # None
      BY <1>3, <2>1 DEF IInv, TypeOK
    <3>2. CASE GameStarts(s) /\ room[u] = room[s]
      <4>1. u = s \/ u = Opponent(s)
        BY <1>1, <3>1, <3>2, OpponentIsSeated
      <4>2. ready[Opponent(s)] \/ Opponent(s) = s
        BY <3>2 DEF GameStarts
      <4> QED
        BY <1>3, <3>1, <4>1, <4>2 DEF IInv, TypeOK
    <3>3. CASE ~(GameStarts(s) /\ room[u] = room[s])
      <4>1. board[room[u]].gameFlag
        BY <1>1, <1>3, <2>1, <3>1, <3>3 DEF IInv, TypeOK
      <4>2. ready[u]
        BY <3>1, <4>1 DEF IInv, ReadyMatchesGame
      <4> QED
        BY <1>3, <3>1, <4>2 DEF IInv, TypeOK
    <3> QED
      BY <3>2, <3>3
  <2>2. \A u \in userManager' : ready'[u] => position'[u] \in Seats
    BY <1>1, <1>3 DEF IInv, TypeOK, ReadyMatchesGame
  <2> QED
    BY <2>1, <2>2 DEF ReadyMatchesGame
<1>7. AbsentUsersAreBlank' /\ OnlyKnownHalts'
  BY <1>1, <1>3 DEF IInv, TypeOK, AbsentUsersAreBlank, OnlyKnownHalts
<1> QED
  BY <1>4, <1>5, <1>6, <1>7 DEF IInv

\* Ready is taken back outside games only.
LEMMA CancelReadyStep ==
  ASSUME IInv, NEW s \in Sessions, CancelReady(s)
  PROVE  IInv'
<1>1. /\ s \in userManager /\ ~board[room[s]].gameFlag
      /\ ready' = [ready EXCEPT ![s] = FALSE]
      /\ UNCHANGED <<accepted, userManager, account, room, position, view, accountKey,
                     userMap, players, playerCnt, board, lobbyCount, roomCount, halted>>
  BY DEF CancelReady, InRoom, CancelRefused, roomVars, countVars
<1>2. TypeOK'
  BY <1>1 DEF IInv, TypeOK
<1>3. KeysMatchUsers' /\ RosterMatchesUsers' /\ SeatsMatchPositions'
  BY <1>1 DEF IInv, KeysMatchUsers, RosterMatchesUsers, SeatsMatchPositions
<1>4. ReadyMatchesGame'
  BY <1>1 DEF IInv, TypeOK, ReadyMatchesGame
<1>5. AbsentUsersAreBlank' /\ OnlyKnownHalts'
  BY <1>1 DEF IInv, TypeOK, AbsentUsersAreBlank, OnlyKnownHalts
<1> QED
  BY <1>2, <1>3, <1>4, <1>5 DEF IInv

\* A stone changes the board only; the last one also the two players' ready flags,
\* when the game flag has gone.
LEMMA PutStoneStep ==
  ASSUME IInv, NEW s \in Sessions, NEW p \in Points, PutStone(s, p)
  PROVE  IInv'
<1> DEFINE after == AfterMove(board[room[s]], p, position[s])
<1>1. InRoom(s) /\ s \in userManager /\ room[s] \in Rooms /\ position[s] \in Seats /\ position[s] \in 1 .. 2
  BY SeatedInRoom DEF PutStone, InRoom, Seats
<1>2. after \in BoardType /\ board[room[s]].gameFlag
  BY <1>1, AfterMoveType DEF IInv, TypeOK, PutStone, MoveAllowed
<1>3. CASE ~after.gameFlag /\ Opponent(s) = None
  BY <1>3, HaltStep DEF PutStone
<1>4. CASE ~(~after.gameFlag /\ Opponent(s) = None)
  <2>1. /\ board' = [board EXCEPT ![room[s]] = after]
        /\ ready' = IF after.gameFlag THEN ready ELSE ReadyAfterGame(s)
        /\ UNCHANGED <<accepted, userManager, account, room, position, view, accountKey,
                       userMap, players, playerCnt, lobbyCount, roomCount, halted>>
    BY <1>4 DEF PutStone, countVars
  <2>2. ready' \in [Sessions -> BOOLEAN] /\ \A u \in Sessions : ready'[u] => ready[u]
    BY <2>1 DEF ReadyAfterGame, IInv, TypeOK
  <2>3. TypeOK'
    <3>1. board' \in [Rooms -> BoardType]
      BY <1>1, <1>2, <2>1 DEF IInv, TypeOK
    <3> QED
      BY <2>1, <2>2, <3>1 DEF IInv, TypeOK
  <2>4. KeysMatchUsers' /\ RosterMatchesUsers' /\ SeatsMatchPositions'
    BY <2>1 DEF IInv, KeysMatchUsers, RosterMatchesUsers, SeatsMatchPositions
  <2>5. ReadyMatchesGame'
    <3>1. \A u \in userManager' : ready'[u] => position'[u] \in Seats
      BY <2>1, <2>2 DEF IInv, TypeOK, ReadyMatchesGame
    <3>2. ASSUME NEW u \in userManager', position'[u] \in Seats, room'[u] # None, board'[room'[u]].gameFlag
          PROVE  ready'[u]
      <4>1. u \in userManager /\ u \in Sessions /\ position[u] \in Seats /\ room[u] \in Rooms /\ room[u] # None
        BY <2>1, <3>2 DEF IInv, TypeOK
      <4>2. ready[u]
        <5>1. board[room[u]].gameFlag
          BY <1>1, <1>2, <2>1, <3>2, <4>1 DEF IInv, TypeOK
        <5> QED
          BY <4>1, <5>1 DEF IInv, ReadyMatchesGame
      <4>3. CASE after.gameFlag
        BY <2>1, <4>2, <4>3
      <4>4. CASE ~after.gameFlag
        <5>1. room[u] # room[s]
          BY <1>1, <2>1, <3>2, <4>1, <4>4 DEF IInv, TypeOK
        <5>2. u # s /\ u # Opponent(s)
          BY <1>1, <4>1, <5>1, Nothing DEF Opponent, IInv, TypeOK, RosterMatchesUsers, Seats, Player
        <5> QED
          BY <2>1, <4>1, <4>2, <4>4, <5>2 DEF ReadyAfterGame, IInv, TypeOK
      <4> QED
        BY <4>3, <4>4
    <3> QED
      BY <3>1, <3>2 DEF ReadyMatchesGame
  <2>6. AbsentUsersAreBlank' /\ OnlyKnownHalts'
    BY <1>1, <2>1, <2>2 DEF IInv, TypeOK, AbsentUsersAreBlank, OnlyKnownHalts
  <2> QED
    BY <2>3, <2>4, <2>5, <2>6 DEF IInv
<1> QED
  BY <1>3, <1>4

\* Before the first session everything is empty, whatever the boards' turns hold.
LEMMA InitialState == Init => IInv
<1> SUFFICES ASSUME Init PROVE IInv
  OBVIOUS
<1>1. TypeOK
  <2>1. board \in [Rooms -> BoardType]
    BY NewBoardsType DEF Init
  <2>2. NoPlayer \in Player
    BY DEF NoPlayer, Player
  <2>3. playerCnt \in [Rooms -> PlayerCntRange]
    BY ServerAssumption DEF Init
  <2> QED
    BY <2>1, <2>2, <2>3 DEF Init, TypeOK
<1>2. KeysMatchUsers /\ RosterMatchesUsers
  BY DEF Init, KeysMatchUsers, RosterMatchesUsers
<1>3. SeatsMatchPositions
  BY Nothing DEF Init, SeatsMatchPositions, NoPlayer
<1>4. ReadyMatchesGame /\ AbsentUsersAreBlank /\ OnlyKnownHalts
  BY DEF Init, ReadyMatchesGame, AbsentUsersAreBlank, OnlyKnownHalts, NoPlayer
<1> QED
  BY <1>1, <1>2, <1>3, <1>4 DEF IInv

\* Every job of the update thread keeps the invariant.
LEMMA NextKeepsIInv == IInv /\ [Next]_vars => IInv'
<1> SUFFICES ASSUME IInv, [Next]_vars PROVE IInv'
  OBVIOUS
<1>1. ASSUME NEW s \in Sessions, CreateUser(s) PROVE IInv'
  BY <1>1, CreateUserStep
<1>2. ASSUME NEW s \in Sessions, NEW a \in Accounts, Login(s, a) PROVE IInv'
  BY <1>2, LoginStep
<1>3. ASSUME NEW s \in Sessions, ReleaseUser(s) PROVE IInv'
  BY <1>3, ReleaseUserStep
<1>4. ASSUME NEW s \in Sessions, NEW r \in Rooms, EnterRoom(s, r) PROVE IInv'
  BY <1>4, EnterRoomStep
<1>5. ASSUME NEW s \in Sessions, LeaveRoom(s) PROVE IInv'
  BY <1>5, LeaveRoomStep
<1>6. ASSUME NEW s \in Sessions, RequestAfterRefusedLeave(s) PROVE IInv'
  BY <1>6, RequestAfterRefusedLeaveStep
<1>7. ASSUME NEW s \in Sessions, NEW to \in 1 .. 3, ChangePosition(s, to) PROVE IInv'
  BY <1>7, ChangePositionStep
<1>8. ASSUME NEW s \in Sessions, Ready(s) PROVE IInv'
  BY <1>8, ReadyStep
<1>9. ASSUME NEW s \in Sessions, CancelReady(s) PROVE IInv'
  BY <1>9, CancelReadyStep
<1>10. ASSUME NEW s \in Sessions, NEW p \in Points, PutStone(s, p) PROVE IInv'
  BY <1>10, PutStoneStep
<1>11. CASE UNCHANGED vars
  <2>1. UNCHANGED <<accepted, userManager, account, room, position, ready, view, accountKey,
                    userMap, players, playerCnt, board, lobbyCount, roomCount, halted>>
    BY <1>11 DEF vars, userVars, roomVars, countVars
  <2>2. TypeOK' /\ KeysMatchUsers' /\ RosterMatchesUsers'
    BY <2>1 DEF IInv, TypeOK, KeysMatchUsers, RosterMatchesUsers
  <2>3. SeatsMatchPositions' /\ ReadyMatchesGame'
    BY <2>1 DEF IInv, SeatsMatchPositions, ReadyMatchesGame
  <2>4. AbsentUsersAreBlank' /\ OnlyKnownHalts'
    BY <2>1 DEF IInv, AbsentUsersAreBlank, OnlyKnownHalts
  <2> QED
    BY <2>2, <2>3, <2>4 DEF IInv
<1> QED
  BY <1>1, <1>2, <1>3, <1>4, <1>5, <1>6, <1>7, <1>8, <1>9, <1>10, <1>11 DEF Next

\* The inductive invariant holds in every reachable state.
THEOREM ServerInvariant == Spec => []IInv
<1> QED
  BY InitialState, NextKeepsIInv, PTL DEF Spec

\* The state of the server has its type.
THEOREM TypeCorrect == Spec => []TypeOK
<1>1. IInv => TypeOK
  BY DEF IInv
<1> QED
  BY <1>1, ServerInvariant, PTL

\* Of the assertions and pointers the handlers rely on, clients that follow the
\* protocol can break three only.
THEOREM AssertionsHold == Spec => []OnlyKnownHalts
<1>1. IInv => OnlyKnownHalts
  BY DEF IInv
<1> QED
  BY <1>1, ServerInvariant, PTL

-----------------------------------------------------------------------------
(* How games start.                                                          *)

\* A step that raises no ready flag, seats nobody who is ready and stops no game
\* leaves no ready pair without one.
LEMMA NoNewPair ==
  ASSUME IInv, ReadyPairsPlay, NEW r \in Rooms,
         \A k \in Seats, u \in userManager' :
             players'[r][k].sId = u /\ ready'[u] =>
                 players[r][k].sId = u /\ u \in userManager /\ ready[u],
         board'[r] = board[r],
         \A k \in Seats : players'[r][k].sId \in userManager' /\ ready'[players'[r][k].sId]
  PROVE  board'[r].gameFlag
<1>1. \A k \in Seats : players[r][k].sId \in userManager /\ ready[players[r][k].sId]
  OBVIOUS
<1> QED
  BY <1>1 DEF ReadyPairsPlay

LEMMA NothingChanges ==
  ASSUME IInv, ReadyPairsPlay, NEW r \in Rooms,
         UNCHANGED <<userManager, ready, players, board>>,
         \A k \in Seats : players'[r][k].sId \in userManager' /\ ready'[players'[r][k].sId]
  PROVE  board'[r].gameFlag
  BY NoNewPair

\* The last of a pair to become ready finds the other on its seat, ready.
LEMMA ReadyPairStep ==
  ASSUME IInv, ReadyPairsPlay, NEW s \in Sessions, Ready(s), NEW r \in Rooms,
         \A k \in Seats : players'[r][k].sId \in userManager' /\ ready'[players'[r][k].sId]
  PROVE  board'[r].gameFlag
<1>1. InRoom(s) /\ s \in userManager /\ room[s] \in Rooms /\ position[s] \in Seats
  BY SeatedInRoom DEF Ready, InRoom
<1>2. CASE board[room[s]].gameFlag
  BY <1>2, NothingChanges DEF Ready, Halt, userVars, roomVars
<1>3. CASE ~board[room[s]].gameFlag
  <2>1. /\ ready' = [ready EXCEPT ![s] = TRUE]
        /\ board' = IF GameStarts(s)
                    THEN [board EXCEPT ![room[s]] = InitGameSetting(@)] ELSE board
        /\ players' = players /\ userManager' = userManager
    BY <1>3 DEF Ready, roomVars
  <2>2. \A k \in Seats : /\ players[r][k].sId \in userManager
                         /\ room[players[r][k].sId] = r /\ position[players[r][k].sId] = k
                         /\ players[r][k].sId # s => ready[players[r][k].sId]
    BY <2>1 DEF IInv, SeatsMatchPositions, TypeOK
  <2>3. CASE r # room[s]
    <3>1. \A k \in Seats : players[r][k].sId # s
      BY <2>2, <2>3
    <3>2. board[r].gameFlag
      BY <2>2, <3>1 DEF ReadyPairsPlay
    <3> QED
      BY <1>1, <2>1, <2>3, <3>2 DEF IInv, TypeOK
  <2>4. CASE r = room[s]
    <3> DEFINE k == 3 - position[s]
               u == players[r][k].sId
    <3>1. k \in Seats /\ k # position[s]
      BY <1>1 DEF Seats
    <3>2. u \in userManager /\ room[u] = r /\ position[u] = k /\ u # s /\ ready[u]
      BY <2>2, <3>1
    <3>3. u = Opponent(s)
      <4> HIDE DEF u, k
      <4> QED
        BY <1>1, <2>4, <3>1, <3>2, OpponentIsSeated
    <3>4. GameStarts(s)
      BY <3>2, <3>3, Nothing DEF GameStarts, IInv, TypeOK
    <3>5. InitGameSetting(board[r]).gameFlag
      BY DEF InitGameSetting, GameStart
    <3> QED
      BY <1>1, <2>1, <2>4, <3>4, <3>5 DEF IInv, TypeOK
  <2> QED
    BY <2>3, <2>4
<1> QED
  BY <1>2, <1>3

\* Whoever changes seats is not ready on the new one.
LEMMA ChangePositionPairStep ==
  ASSUME IInv, ReadyPairsPlay, NEW s \in Sessions, NEW to \in 1 .. 3, ChangePosition(s, to),
         NEW r \in Rooms,
         \A k \in Seats : players'[r][k].sId \in userManager' /\ ready'[players'[r][k].sId]
  PROVE  board'[r].gameFlag
<1>1. InRoom(s) /\ s \in userManager /\ room[s] \in Rooms
  BY SeatedInRoom DEF ChangePosition, InRoom
<1>2. CASE SeatLost(s)
  BY <1>2, NothingChanges DEF ChangePosition, Halt, userVars, roomVars
<1>3. CASE ~SeatLost(s)
  <2> DEFINE me == [accountNo |-> account[s], sId |-> s]
  <2>1. /\ ready' = [ready EXCEPT ![s] = FALSE]
        /\ players' = IF to \in Seats THEN [SeatGivenUp(s) EXCEPT ![room[s]][to] = me] ELSE SeatGivenUp(s)
        /\ userManager' = userManager /\ board' = board
    BY <1>3 DEF ChangePosition
  <2>2. ASSUME NEW k \in Seats, NEW u \in userManager', players'[r][k].sId = u, ready'[u]
        PROVE  players[r][k].sId = u /\ u \in userManager /\ ready[u]
    <3>1. u \in userManager /\ u \in Sessions /\ u # s /\ ready[u]
      BY <2>1, <2>2 DEF IInv, TypeOK
    <3>2. SeatGivenUp(s) \in [Rooms -> [Seats -> Player]]
      BY <1>1, SeatGivenUpType
    <3>3. \/ players'[r][k] = me
          \/ players'[r][k] = SeatGivenUp(s)[r][k]
      BY <1>1, <2>1, <3>2
    <3>4. players'[r][k] = SeatGivenUp(s)[r][k]
      BY <2>2, <3>1, <3>3
    <3>5. SeatGivenUp(s)[r][k] \in {NoPlayer, players[r][k]}
      BY <1>1 DEF IInv, TypeOK, SeatGivenUp
    <3>6. NoPlayer.sId = None
      BY DEF NoPlayer
    <3> QED
      BY <2>2, <3>1, <3>4, <3>5, <3>6, Nothing
  <2> QED
    BY <2>1, <2>2, NoNewPair
<1> QED
  BY <1>2, <1>3

\* Whoever leaves is ready nowhere.
LEMMA LeaveRoomPairStep ==
  ASSUME IInv, ReadyPairsPlay, NEW s \in Sessions, LeaveRoom(s), NEW r \in Rooms,
         \A k \in Seats : players'[r][k].sId \in userManager' /\ ready'[players'[r][k].sId]
  PROVE  board'[r].gameFlag
<1>1. InRoom(s) /\ s \in userManager /\ room[s] \in Rooms
  BY SeatedInRoom DEF LeaveRoom, InRoom
<1>2. CASE LeaveHalts(s) # "no"
  BY <1>2, NothingChanges DEF LeaveRoom, Halt, userVars, roomVars
<1>3. CASE LeaveHalts(s) = "no"
  <2>1. /\ ready' = [ready EXCEPT ![s] = FALSE] /\ players' = SeatGivenUp(s)
        /\ userManager' = userManager /\ board' = board
    BY <1>3 DEF LeaveRoom
  <2>2. ASSUME NEW k \in Seats, NEW u \in userManager', players'[r][k].sId = u, ready'[u]
        PROVE  players[r][k].sId = u /\ u \in userManager /\ ready[u]
    <3>1. u \in userManager /\ u \in Sessions /\ u # s /\ ready[u]
      BY <2>1, <2>2 DEF IInv, TypeOK
    <3>2. SeatGivenUp(s)[r][k] \in {NoPlayer, players[r][k]}
      BY <1>1 DEF IInv, TypeOK, SeatGivenUp
    <3>3. NoPlayer.sId = None
      BY DEF NoPlayer
    <3> QED
      BY <2>1, <2>2, <3>1, <3>2, <3>3, Nothing
  <2> QED
    BY <2>1, <2>2, NoNewPair
<1> QED
  BY <1>2, <1>3

\* A stone keeps the game going, or ends it and takes the flag of the player who
\* put it.
LEMMA PutStonePairStep ==
  ASSUME IInv, ReadyPairsPlay, NEW s \in Sessions, NEW p \in Points, PutStone(s, p),
         NEW r \in Rooms,
         \A k \in Seats : players'[r][k].sId \in userManager' /\ ready'[players'[r][k].sId]
  PROVE  board'[r].gameFlag
<1> DEFINE after == AfterMove(board[room[s]], p, position[s])
<1> HIDE DEF after
<1>1. InRoom(s) /\ s \in userManager /\ room[s] \in Rooms /\ position[s] \in Seats
  BY SeatedInRoom DEF PutStone, InRoom
<1>2. CASE ~after.gameFlag /\ Opponent(s) = None
  BY <1>2, NothingChanges DEF PutStone, Halt, userVars, roomVars, after
<1>3. CASE ~(~after.gameFlag /\ Opponent(s) = None)
  <2>1. /\ board' = [board EXCEPT ![room[s]] = after]
        /\ ready' = IF after.gameFlag THEN ready ELSE ReadyAfterGame(s)
        /\ players' = players /\ userManager' = userManager
    BY <1>3 DEF PutStone, after
  <2>2. \A u \in userManager : ready'[u] => ready[u]
    BY <2>1 DEF ReadyAfterGame, IInv, TypeOK
  <2>3. CASE r # room[s]
    <3>1. board'[r] = board[r]
      BY <1>1, <2>1, <2>3 DEF IInv, TypeOK
    <3> QED
      BY <2>1, <2>2, <3>1, NoNewPair
  <2>4. CASE r = room[s]
    <3>1. players[r][position[s]].sId = s
      <4>1. players[r][position[s]] = [accountNo |-> account[s], sId |-> s]
        BY <1>1, <2>4 DEF IInv, SeatsMatchPositions
      <4> QED
        BY <4>1
    <3>2. ready'[s]
      BY <1>1, <2>1, <3>1
    <3>3. ~ReadyAfterGame(s)[s]
      BY <1>1 DEF ReadyAfterGame, IInv, TypeOK
    <3>4. after.gameFlag
      BY <2>1, <3>2, <3>3
    <3>5. board'[r] = after
      BY <1>1, <2>1, <2>4 DEF IInv, TypeOK
    <3> QED
      BY <3>4, <3>5
  <2> QED
    BY <2>3, <2>4
<1> QED
  BY <1>2, <1>3

LEMMA PairsStep == IInv /\ ReadyPairsPlay /\ [Next]_vars => ReadyPairsPlay'
<1> SUFFICES ASSUME IInv, ReadyPairsPlay, [Next]_vars, NEW r \in Rooms,
                    \A k \in Seats : /\ players'[r][k].sId \in userManager'
                                     /\ ready'[players'[r][k].sId]
             PROVE  board'[r].gameFlag
  BY DEF ReadyPairsPlay
<1>1. CASE UNCHANGED vars
  BY <1>1, NothingChanges DEF vars, userVars, roomVars
<1>2. ASSUME NEW s \in Sessions, CreateUser(s) PROVE board'[r].gameFlag
  <2>1. \A u \in userManager' : ready'[u] => u \in userManager /\ ready[u]
    BY <1>2 DEF CreateUser, userVars, IInv, TypeOK, AbsentUsersAreBlank
  <2>2. UNCHANGED <<players, board>>
    BY <1>2 DEF CreateUser, roomVars
  <2> QED
    BY <2>1, <2>2, NoNewPair
<1>3. ASSUME NEW s \in Sessions, NEW a \in Accounts, Login(s, a) PROVE board'[r].gameFlag
  BY <1>3, NothingChanges DEF Login, roomVars
<1>4. ASSUME NEW s \in Sessions, ReleaseUser(s) PROVE board'[r].gameFlag
  <2>1. \A u \in userManager' : ready'[u] => u \in userManager /\ ready[u]
    BY <1>4 DEF ReleaseUser, Forget, Halt, userVars, IInv, TypeOK
  <2>2. UNCHANGED <<players, board>>
    BY <1>4 DEF ReleaseUser, Halt, roomVars
  <2> QED
    BY <2>1, <2>2, NoNewPair
<1>5. ASSUME NEW s \in Sessions, NEW e \in Rooms, EnterRoom(s, e) PROVE board'[r].gameFlag
  BY <1>5, NothingChanges DEF EnterRoom
<1>6. ASSUME NEW s \in Sessions, RequestAfterRefusedLeave(s) PROVE board'[r].gameFlag
  BY <1>6, NothingChanges DEF RequestAfterRefusedLeave, Halt, userVars, roomVars
<1>7. ASSUME NEW s \in Sessions, CancelReady(s) PROVE board'[r].gameFlag
  <2>1. \A u \in userManager : ready'[u] => ready[u]
    BY <1>7 DEF CancelReady, IInv, TypeOK
  <2>2. UNCHANGED <<userManager, players, board>>
    BY <1>7 DEF CancelReady, roomVars
  <2> QED
    BY <2>1, <2>2, NoNewPair
<1> QED
  BY <1>1, <1>2, <1>3, <1>4, <1>5, <1>6, <1>7, LeaveRoomPairStep, ChangePositionPairStep,
     ReadyPairStep, PutStonePairStep DEF Next

\* A ready flag goes up without a start only while the other seat is not ready,
\* and a game takes down a flag of its pair before it is over.
THEOREM ReadyPairsAlwaysPlay == Spec => []ReadyPairsPlay
<1>1. Init => ReadyPairsPlay
  BY DEF Init, ReadyPairsPlay, Seats
<1> QED
  BY <1>1, PairsStep, ServerInvariant, PTL DEF Spec

\* A user that becomes ready is the one on its seat, and a live user on the other
\* seat is the opponent whose flag is looked at.  When the opponent found is the
\* player itself, the other seat names its account and no live session.
LEMMA StartersAreSeated ==
  ASSUME IInv, NEW s \in Sessions, InRoom(s), position[s] \in Seats, GameStarts(s)
  PROVE  LET r == room[s]  k == 3 - position[s]
         IN  /\ players[r][position[s]] = [accountNo |-> account[s], sId |-> s]
             /\ Opponent(s) # s => /\ ready[Opponent(s)]
                                   /\ Opponent(s) \in userManager
                                   /\ room[Opponent(s)] = r
                                   /\ players[r][k].sId = Opponent(s)
             /\ Opponent(s) = s => /\ players[r][k] # NoPlayer
                                   /\ players[r][k].sId \notin userManager
                                   /\ players[r][k].accountNo = account[s]
<1> DEFINE r == room[s]
           k == 3 - position[s]
           o == Opponent(s)
           a == players[r][k].accountNo
<1>1. r \in Rooms /\ k \in Seats /\ k # position[s] /\ s \in userManager /\ 3 - k = position[s]
  BY SeatedInRoom DEF InRoom, Seats
<1>2. players[r][position[s]] = [accountNo |-> account[s], sId |-> s]
  BY <1>1, Nothing DEF IInv, SeatsMatchPositions
<1>3. a \in Accounts /\ a # None /\ o = userMap[r][a] /\ o # None
  <2>1. players[r][k] \in Player
    BY <1>1 DEF IInv, TypeOK
  <2>2. a \in Accounts \union {None}
    BY <2>1 DEF Player
  <2>3. o = IF a = None THEN None ELSE userMap[r][a]
    BY DEF Opponent
  <2>4. o # None
    BY DEF GameStarts
  <2> QED
    BY <2>2, <2>3, <2>4
<1>4. o \in userManager /\ account[o] = a /\ room[o] = r /\ o \in Sessions
  <2> HIDE DEF a, o
  <2>1. userMap[r][a] # None
    BY <1>3
  <2>2. userMap[r][a] \in userManager /\ account[userMap[r][a]] = a /\ room[userMap[r][a]] = r
    BY <1>1, <1>3, <2>1 DEF IInv, RosterMatchesUsers
  <2>3. userManager \subseteq Sessions
    BY DEF IInv, TypeOK
  <2> QED
    BY <1>3, <2>2, <2>3
<1>5. ASSUME o # s PROVE ready[o] /\ players[r][k].sId = o
  <2>1. ready[o] /\ position[o] \in Seats
    BY <1>4, <1>5 DEF GameStarts, IInv, ReadyMatchesGame
  <2>2. players[r][position[o]] = [accountNo |-> account[o], sId |-> o]
    BY <1>1, <1>4, <2>1, Nothing DEF IInv, SeatsMatchPositions
  <2>3. position[o] = k
    BY <1>1, <1>2, <1>5, <2>1, <2>2 DEF Seats
  <2> QED
    BY <2>1, <2>2, <2>3
<1>6. ASSUME o = s PROVE players[r][k] # NoPlayer /\ players[r][k].sId \notin userManager /\ a = account[s]
  <2>1. a = account[s]
    BY <1>4, <1>6
  <2>2. players[r][k] # NoPlayer
    BY <1>3 DEF NoPlayer
  <2>3. ASSUME players[r][k].sId \in userManager PROVE FALSE
    <3> DEFINE u == players[r][k].sId
    <3>1. u \in userManager /\ u \in Sessions /\ room[u] = r /\ position[u] = k
      BY <1>1, <2>3 DEF IInv, TypeOK, SeatsMatchPositions
    <3>2. u = s
      BY <1>1, <1>6, <3>1, OpponentIsSeated
    <3> QED
      BY <1>1, <3>1, <3>2
  <2> QED
    BY <2>1, <2>2, <2>3
<1> QED
  BY <1>2, <1>4, <1>5, <1>6

\* A game is started by Ready, so by the user that becomes ready and by the
\* opponent it finds: the one on the other seat, or, when a session that is gone
\* left the account of the user there, the user itself.
THEOREM StartsNeedTwoPlayers == Spec => StartNeedsTwoPlayers
<1> DEFINE Start(r) == ~board[r].gameFlag /\ board'[r].gameFlag
           TwoPlayers(r) ==
              \A k \in Seats :
                /\ players[r][k].sId \in userManager
                /\ ready'[players[r][k].sId]
                /\ room[players[r][k].sId] = r
           OwnOpponent(r) ==
              \E k \in Seats :
                /\ players[r][k] # NoPlayer
                /\ players[r][k].sId \notin userManager
                /\ players[r][3 - k].sId \in userManager
                /\ players[r][k].accountNo = players[r][3 - k].accountNo
<1>1. ASSUME IInv, Next, NEW r \in Rooms, Start(r) PROVE TwoPlayers(r) \/ OwnOpponent(r)
  <2>1. ASSUME NEW s \in Sessions, Ready(s) PROVE TwoPlayers(r) \/ OwnOpponent(r)
    <3> DEFINE k == 3 - position[s]
    <3>1. InRoom(s) /\ s \in userManager /\ room[s] \in Rooms /\ position[s] \in Seats
      BY <1>1, <2>1, SeatedInRoom DEF Ready, InRoom
    <3>2. ready' = [ready EXCEPT ![s] = TRUE] /\ GameStarts(s) /\ room[s] = r
      BY <1>1, <2>1, <3>1 DEF Ready, Halt, roomVars, IInv, TypeOK
    <3>3. k \in Seats /\ 3 - k = position[s] /\ Seats = {k, position[s]}
      BY <3>1 DEF Seats
    <3>4. /\ players[r][position[s]] = [accountNo |-> account[s], sId |-> s]
          /\ Opponent(s) # s => /\ ready[Opponent(s)]
                                /\ Opponent(s) \in userManager
                                /\ room[Opponent(s)] = r
                                /\ players[r][k].sId = Opponent(s)
          /\ Opponent(s) = s => /\ players[r][k] # NoPlayer
                                /\ players[r][k].sId \notin userManager
                                /\ players[r][k].accountNo = account[s]
      BY <1>1, <3>1, <3>2, StartersAreSeated
    <3>5. CASE Opponent(s) # s
      <4>1. ready'[s] /\ ready'[Opponent(s)]
        BY <1>1, <3>1, <3>2, <3>4, <3>5 DEF IInv, TypeOK
      <4> QED
        BY <3>1, <3>2, <3>3, <3>4, <3>5, <4>1
    <3>6. CASE Opponent(s) = s
      <4>1. OwnOpponent(r)
        BY <3>1, <3>3, <3>4, <3>6
      <4> QED
        BY <4>1
    <3> QED
      BY <3>5, <3>6
  <2>2. ASSUME NEW s \in Sessions, NEW p \in Points, PutStone(s, p) PROVE FALSE
    <3>1. board[room[s]].gameFlag /\ room[s] \in Rooms
      BY <1>1, <2>2, SeatedInRoom DEF PutStone, MoveAllowed
    <3> QED
      BY <1>1, <2>2, <3>1 DEF PutStone, Halt, roomVars, IInv, TypeOK
  <2> QED
    BY <1>1, <2>1, <2>2
    DEF Next, CreateUser, Login, ReleaseUser, EnterRoom, LeaveRoom, RequestAfterRefusedLeave,
        ChangePosition, CancelReady, Halt, roomVars
<1>2. IInv /\ [Next]_vars => [\A r \in Rooms : Start(r) => \/ TwoPlayers(r)
                                                           \/ OwnOpponent(r)]_vars
  BY <1>1
<1> QED
  BY <1>2, ServerInvariant, PTL DEF Spec, StartNeedsTwoPlayers

-----------------------------------------------------------------------------
(* The counters the monitor prints.                                          *)

Lobby == {s \in userManager : account[s] # None /\ room[s] = None}
InRooms == {s \in userManager : room[s] # None}

\* Everybody in a room is logged in: the two sets are told apart by the room only.
LEMMA PeopleAreFinite == IInv => IsFiniteSet(Lobby) /\ IsFiniteSet(InRooms)
<1> SUFFICES ASSUME IInv PROVE IsFiniteSet(Lobby) /\ IsFiniteSet(InRooms)
  OBVIOUS
<1>1. Lobby \in SUBSET Sessions /\ InRooms \in SUBSET Sessions
  BY DEF IInv, TypeOK, Lobby, InRooms
<1> QED
  BY <1>1, FS_Subset, ServerAssumption

\* What a step does to the people in the lobby and in rooms, the counters do too.
LEMMA CountersStep == IInv /\ CountersMatchUsers /\ [Next]_vars => CountersMatchUsers'
<1> SUFFICES ASSUME IInv, CountersMatchUsers, [Next]_vars PROVE CountersMatchUsers'
  OBVIOUS
<1>1. lobbyCount = Cardinality(Lobby) /\ roomCount = Cardinality(InRooms)
  BY DEF CountersMatchUsers, Lobby, InRooms
<1>2. IsFiniteSet(Lobby) /\ IsFiniteSet(InRooms)
  BY PeopleAreFinite
<1>3. SUFFICES lobbyCount' = Cardinality(Lobby') /\ roomCount' = Cardinality(InRooms')
  BY DEF CountersMatchUsers, Lobby, InRooms
<1>4. CASE UNCHANGED <<userManager, account, room, lobbyCount, roomCount>>
  <2>1. Lobby' = Lobby /\ InRooms' = InRooms
    BY <1>4 DEF Lobby, InRooms
  <2> QED
    BY <1>1, <1>4, <2>1
<1>5. ASSUME NEW s \in Sessions, CreateUser(s) PROVE lobbyCount' = Cardinality(Lobby') /\ roomCount' = Cardinality(InRooms')
  <2>1. account[s] = None /\ room[s] = None
    BY <1>5 DEF CreateUser, IInv, TypeOK, AbsentUsersAreBlank
  <2>2. Lobby' = Lobby /\ InRooms' = InRooms
    BY <1>5, <2>1 DEF Lobby, InRooms, CreateUser, userVars
  <2> QED
    BY <1>1, <1>5, <2>2 DEF CreateUser, countVars
<1>6. ASSUME NEW s \in Sessions, NEW a \in Accounts, Login(s, a)
      PROVE  lobbyCount' = Cardinality(Lobby') /\ roomCount' = Cardinality(InRooms')
  <2>1. s \in userManager /\ account[s] = None /\ room[s] = None
    BY <1>6 DEF Login, IInv, RosterMatchesUsers
  <2>2. Lobby' = Lobby \union {s} /\ s \notin Lobby
    BY <1>6, <2>1, Nothing DEF Lobby, Login, IInv, TypeOK
  <2>3. InRooms' = InRooms
    BY <1>6 DEF InRooms, Login
  <2>4. Cardinality(Lobby') = Cardinality(Lobby) + 1
    BY <1>2, <2>2, FS_AddElement
  <2> QED
    BY <1>1, <1>6, <2>3, <2>4 DEF Login
<1>7. ASSUME NEW s \in Sessions, ReleaseUser(s), ReleaseHalts(s) = "no"
      PROVE  lobbyCount' = Cardinality(Lobby') /\ roomCount' = Cardinality(InRooms')
  <2>1. /\ s \in userManager /\ account[s] # None
        /\ userManager' = userManager \ {s} /\ Forget(s)
        /\ lobbyCount' = LobbyAfterRelease(s)
        /\ roomCount' = IF room[s] = None THEN roomCount ELSE roomCount - 1
    BY <1>7 DEF ReleaseUser, ReleaseHalts
  <2>2. Lobby' = Lobby \ {s} /\ InRooms' = InRooms \ {s}
    BY <2>1 DEF Lobby, InRooms, Forget, IInv, TypeOK
  <2>3. (s \in Lobby <=> room[s] = None) /\ (s \in InRooms <=> room[s] # None)
    BY <2>1 DEF Lobby, InRooms
  <2>4. /\ Cardinality(Lobby') = IF s \in Lobby THEN Cardinality(Lobby) - 1 ELSE Cardinality(Lobby)
        /\ Cardinality(InRooms') = IF s \in InRooms THEN Cardinality(InRooms) - 1 ELSE Cardinality(InRooms)
    BY <1>2, <2>2, FS_RemoveElement
  <2> QED
    BY <1>1, <2>1, <2>3, <2>4 DEF LobbyAfterRelease
<1>8. ASSUME NEW s \in Sessions, NEW r \in Rooms, EnterRoom(s, r)
      PROVE  lobbyCount' = Cardinality(Lobby') /\ roomCount' = Cardinality(InRooms')
  <2>1. s \in userManager /\ account[s] # None /\ room[s] = None
    BY <1>8 DEF EnterRoom
  <2>2. Lobby' = Lobby \ {s} /\ s \in Lobby
    BY <1>8, <2>1, Nothing DEF Lobby, EnterRoom, IInv, TypeOK
  <2>3. InRooms' = InRooms \union {s} /\ s \notin InRooms
    BY <1>8, <2>1, Nothing DEF InRooms, EnterRoom, IInv, TypeOK
  <2>4. Cardinality(Lobby') = Cardinality(Lobby) - 1 /\ Cardinality(InRooms') = Cardinality(InRooms) + 1
    BY <1>2, <2>2, <2>3, FS_AddElement, FS_RemoveElement
  <2> QED
    BY <1>1, <1>8, <2>4 DEF EnterRoom
<1>9. ASSUME NEW s \in Sessions, LeaveRoom(s), LeaveHalts(s) = "no"
      PROVE  lobbyCount' = Cardinality(Lobby') /\ roomCount' = Cardinality(InRooms')
  <2>1. s \in userManager /\ account[s] # None /\ room[s] # None
    BY <1>9, SeatedInRoom, Nothing DEF LeaveRoom, InRoom
  <2>2. Lobby' = Lobby \union {s} /\ s \notin Lobby
    BY <1>9, <2>1 DEF Lobby, LeaveRoom, IInv, TypeOK
  <2>3. InRooms' = InRooms \ {s} /\ s \in InRooms
    BY <1>9, <2>1 DEF InRooms, LeaveRoom, IInv, TypeOK
  <2>4. Cardinality(Lobby') = Cardinality(Lobby) + 1 /\ Cardinality(InRooms') = Cardinality(InRooms) - 1
    BY <1>2, <2>2, <2>3, FS_AddElement, FS_RemoveElement
  <2> QED
    BY <1>1, <1>9, <2>4 DEF LeaveRoom
<1> QED
  <2>1. ASSUME NEW s \in Sessions, ReleaseUser(s), ReleaseHalts(s) # "no"
        PROVE  UNCHANGED <<userManager, account, room, lobbyCount, roomCount>>
    BY <2>1 DEF ReleaseUser, Halt, userVars, countVars
  <2>2. ASSUME NEW s \in Sessions, LeaveRoom(s), LeaveHalts(s) # "no"
        PROVE  UNCHANGED <<userManager, account, room, lobbyCount, roomCount>>
    BY <2>2 DEF LeaveRoom, Halt, userVars, countVars
  <2>3. CASE UNCHANGED vars
    BY <1>4, <2>3 DEF vars, userVars, countVars
  <2>4. ASSUME NEW s \in Sessions,
               \/ RequestAfterRefusedLeave(s) \/ \E to \in 1 .. 3 : ChangePosition(s, to)
               \/ Ready(s) \/ CancelReady(s) \/ \E p \in Points : PutStone(s, p)
        PROVE  UNCHANGED <<userManager, account, room, lobbyCount, roomCount>>
    BY <2>4 DEF RequestAfterRefusedLeave, ChangePosition, Ready, CancelReady, PutStone, Halt,
                userVars, countVars
  <2> QED
    BY <1>4, <1>5, <1>6, <1>7, <1>8, <1>9, <2>1, <2>2, <2>3, <2>4 DEF Next

\* The counters are the people in the lobby and in rooms, however they left.
THEOREM CountersAreExact == Spec => []CountersMatchUsers
<1>1. Init => CountersMatchUsers
  <2>1. ASSUME Init PROVE Lobby = {} /\ InRooms = {}
    BY <2>1 DEF Init, Lobby, InRooms
  <2> QED
    BY <2>1, FS_EmptySet DEF Init, CountersMatchUsers, Lobby, InRooms
<1> QED
  BY <1>1, CountersStep, ServerInvariant, PTL DEF Spec

\* No account is ever logged in twice and no key outlives its user; no roster
\* holds a freed user; no seat has two users and no user two seats; no ready flag
\* contradicts a running game; and the counters count the users.
THEOREM TablesAgree == Spec => []TablesMatchUsers
<1>1. IInv /\ CountersMatchUsers => TablesMatchUsers
  BY DEF IInv, TablesMatchUsers
<1> QED
  BY <1>1, ServerInvariant, CountersAreExact, PTL

-----------------------------------------------------------------------------
(* GameServer implements Presence: what the key table and the rosters say of *)
(* an account moves only between offline, the lobby and one room.            *)


\* The session an account is logged in with knows where the account is.
Place(a) == IF accountKey[a] = None THEN "offline"
            ELSE IF room[accountKey[a]] = None THEN "lobby" ELSE room[accountKey[a]]

\* An account is on the roster of the room its session is in, and on no other.
LEMMA OneRoster ==
  ASSUME IInv, NEW a \in Accounts, NEW r \in Rooms, userMap[r][a] # None
  PROVE  accountKey[a] # None /\ userMap[r][a] = accountKey[a] /\ room[accountKey[a]] = r
<1> DEFINE s == userMap[r][a]
<1>1. s \in userManager /\ account[s] = a /\ room[s] = r
  BY DEF IInv, RosterMatchesUsers
<1>2. accountKey[account[s]] = s
  BY <1>1, Nothing DEF IInv, KeysMatchUsers
<1> QED
  BY <1>1, <1>2

WhereAgrees == Where = [a \in Accounts |-> Place(a)]

\* Where reads the same off the rosters as Place does off the sessions.
LEMMA WhereIsPlace == IInv => WhereAgrees
<1> SUFFICES ASSUME IInv, NEW a \in Accounts PROVE Where[a] = Place(a)
  BY DEF Where, WhereAgrees
<1>1. CASE accountKey[a] = None
  BY <1>1 DEF Where, Place
<1>2. CASE accountKey[a] # None /\ \E r \in Rooms : userMap[r][a] # None
  <2> DEFINE c == CHOOSE r \in Rooms : userMap[r][a] # None
  <2>1. c \in Rooms /\ userMap[c][a] # None
    BY <1>2
  <2>2. room[accountKey[a]] = c
    BY <2>1, OneRoster
  <2> QED
    BY <1>2, <2>1, <2>2, Nothing DEF Where, Place
<1>3. CASE accountKey[a] # None /\ ~\E r \in Rooms : userMap[r][a] # None
  <2> DEFINE s == accountKey[a]
  <2>1. s \in userManager /\ account[s] = a
    BY <1>3 DEF IInv, KeysMatchUsers
  <2>2. room[s] = None
    BY <1>3, <2>1, Nothing DEF IInv, TypeOK, RosterMatchesUsers
  <2> QED
    BY <1>3, <2>2 DEF Where, Place
<1> QED
  BY <1>1, <1>2, <1>3

\* The people on a room's roster are those who are in it.
LEMMA MembersAreOccupants ==
  ASSUME IInv, NEW r \in Rooms PROVE AbstractPresence!Occupants(r) = Members(r)
<1>1. ASSUME NEW a \in Accounts PROVE Where[a] = r <=> userMap[r][a] # None
  <2>1. Where[a] = Place(a)
    BY WhereIsPlace DEF WhereAgrees
  <2>2. r # "offline" /\ r # "lobby"
    BY ServerAssumption
  <2>3. ASSUME userMap[r][a] # None PROVE Place(a) = r
    BY <2>3, OneRoster, Nothing DEF Place
  <2>4. ASSUME Place(a) = r PROVE userMap[r][a] # None
    <3>1. accountKey[a] # None /\ room[accountKey[a]] = r
      BY <2>2, <2>4 DEF Place
    <3>2. accountKey[a] \in userManager /\ account[accountKey[a]] = a
      BY <3>1 DEF IInv, KeysMatchUsers
    <3> QED
      BY <3>1, <3>2, Nothing DEF IInv, TypeOK, RosterMatchesUsers
  <2> QED
    BY <2>1, <2>3, <2>4
<1> QED
  BY <1>1 DEF AbstractPresence!Occupants, Members

\* The same after a step.
LEMMA WhereIsPlaceNext == IInv' => WhereAgrees'
  BY WhereIsPlace, PTL

\* What a step does to Where, read off the sessions: it moves one account.
LEMMA OneMoves ==
  ASSUME IInv, IInv', NEW a \in Accounts, NEW from, NEW to,
         Place(a) = from, Place(a)' = to, \A b \in Accounts \ {a} : Place(b)' = Place(b)
  PROVE  AbstractPresence!Move(a, from, to)
<1>1. Where = [b \in Accounts |-> Place(b)]
  BY WhereIsPlace DEF WhereAgrees
<1>2. Where' = [b \in Accounts |-> Place(b)']
  BY WhereIsPlaceNext DEF WhereAgrees
<1>3. \A b \in Accounts : Where'[b] = IF b = a THEN to ELSE Where[b]
  BY <1>1, <1>2
<1>4. Where' = [Where EXCEPT ![a] = to]
  BY <1>1, <1>2, <1>3
<1> QED
  BY <1>1, <1>4 DEF AbstractPresence!Move

\* A step that leaves the key table and the rosters alone moves nobody.
LEMMA NobodyMoves == ASSUME UNCHANGED <<accountKey, userMap>> PROVE Where' = Where
  BY DEF Where

-----------------------------------------------------------------------------
(* The jobs that move an account.                                            *)

\* LoginProcedure takes an account that is offline to the lobby.
LEMMA LoginMoves ==
  ASSUME IInv, IInv', NEW s \in Sessions, NEW a \in Accounts, Login(s, a)
  PROVE  AbstractPresence!Login(a)
<1>1. accountKey[a] = None /\ accountKey' = [accountKey EXCEPT ![a] = s] /\ room' = room
  BY DEF Login, LoginRefused
<1>2. room[s] = None /\ s # None
  BY Nothing DEF Login, IInv, TypeOK, RosterMatchesUsers
<1>3. Place(a) = "offline" /\ Place(a)' = "lobby" /\ \A b \in Accounts \ {a} : Place(b)' = Place(b)
  BY <1>1, <1>2 DEF Place, IInv, TypeOK
<1> QED
  BY <1>3, OneMoves DEF AbstractPresence!Login

\* EnterRoomProcedure takes an account from the lobby to a room that has a place left.
LEMMA EnterMoves ==
  ASSUME IInv, IInv', NEW s \in Sessions, NEW r \in Rooms, EnterRoom(s, r)
  PROVE  \E a \in Accounts : AbstractPresence!Enter(a, r)
<1>a. PICK a \in Accounts : a = account[s]
  BY DEF EnterRoom, IInv, TypeOK
<1>1. accountKey[a] = s /\ s # None /\ room[s] = None /\ r # None
  BY <1>a, Nothing DEF EnterRoom, IInv, TypeOK, KeysMatchUsers
<1>2. accountKey' = accountKey /\ room' = [room EXCEPT ![s] = r]
  BY DEF EnterRoom
<1>3. ASSUME NEW b \in Accounts \ {a} PROVE accountKey[b] # s
  BY <1>a, <1>1, <1>3 DEF IInv, KeysMatchUsers
<1>4. Place(a) = "lobby" /\ Place(a)' = r /\ \A b \in Accounts \ {a} : Place(b)' = Place(b)
  BY <1>1, <1>2, <1>3 DEF Place, IInv, TypeOK
<1>5. AbstractPresence!Move(a, "lobby", r)
  BY <1>1, <1>4, OneMoves
<1>6. Cardinality(Members(r)) < MaxRoomUsers
  <2>1. Members(r) \in SUBSET Accounts
    BY DEF Members
  <2>2. Cardinality(Members(r)) \in Nat
    BY <2>1, ServerAssumption, FS_Subset, FS_CardinalityType
  <2> QED
    BY <2>2, ServerAssumption DEF EnterRoom, RoomIsFull
<1>o. AbstractPresence!Occupants(r) = Members(r)
  BY MembersAreOccupants
<1>c. AbstractPresence!Cardinality(Members(r)) = Cardinality(Members(r))
  BY DEF AbstractPresence!Cardinality, Cardinality
<1>7. AbstractPresence!Enter(a, r)
  BY <1>5, <1>6, <1>o, <1>c DEF AbstractPresence!Enter
<1> QED
  BY <1>7

\* LeaveRoomProcedure takes an account to the lobby, whatever it answers.
LEMMA LeaveMoves ==
  ASSUME IInv, IInv', NEW s \in Sessions, LeaveRoom(s), LeaveHalts(s) = "no"
  PROVE  \E a \in Accounts, r \in Rooms : AbstractPresence!Leave(a, r)
<1>r. PICK r \in Rooms : r = room[s]
  BY DEF LeaveRoom, InRoom, IInv, TypeOK
<1>1. s \in userManager /\ r # None /\ account[s] # None
  BY <1>r, Nothing DEF LeaveRoom, InRoom, IInv, RosterMatchesUsers
<1>a. PICK a \in Accounts : a = account[s]
  BY <1>1 DEF IInv, TypeOK
<1>2. accountKey[a] = s /\ s # None
  BY <1>1, <1>a, Nothing DEF IInv, KeysMatchUsers
<1>3. accountKey' = accountKey /\ room' = [room EXCEPT ![s] = None]
  BY DEF LeaveRoom
<1>4. ASSUME NEW b \in Accounts \ {a} PROVE accountKey[b] # s
  BY <1>a, <1>2, <1>4 DEF IInv, KeysMatchUsers
<1>5. Place(a) = r /\ Place(a)' = "lobby" /\ \A b \in Accounts \ {a} : Place(b)' = Place(b)
  BY <1>r, <1>1, <1>2, <1>3, <1>4 DEF Place, IInv, TypeOK
<1>6. AbstractPresence!Leave(a, r)
  BY <1>5, OneMoves DEF AbstractPresence!Leave
<1> QED
  BY <1>6

\* ReleaseUser takes an account offline from wherever it is.
LEMMA ReleaseMoves ==
  ASSUME IInv, IInv', NEW s \in Sessions, ReleaseUser(s), ReleaseHalts(s) = "no"
  PROVE  \E a \in Accounts : AbstractPresence!Disappear(a)
<1>1. s \in userManager /\ account[s] # None
  BY DEF ReleaseUser, ReleaseHalts
<1>a. PICK a \in Accounts : a = account[s]
  BY <1>1 DEF IInv, TypeOK
<1>2. accountKey[a] = s /\ s # None
  BY <1>1, <1>a, Nothing DEF IInv, KeysMatchUsers
<1>3. accountKey' = [accountKey EXCEPT ![a] = None] /\ room' = [room EXCEPT ![s] = None]
  BY <1>a DEF ReleaseUser, Forget
<1>4. ASSUME NEW b \in Accounts \ {a} PROVE accountKey[b] # s
  BY <1>a, <1>2, <1>4 DEF IInv, KeysMatchUsers
<1>5. Place(a)' = "offline" /\ \A b \in Accounts \ {a} : Place(b)' = Place(b)
  BY <1>1, <1>2, <1>3, <1>4 DEF Place, IInv, TypeOK
<1>6. AbstractPresence!Move(a, Place(a), "offline")
  BY <1>1, <1>5, OneMoves
<1>7. Where[a] = Place(a)
  BY <1>1, WhereIsPlace DEF WhereAgrees
<1> QED
  BY <1>1, <1>6, <1>7 DEF AbstractPresence!Disappear

-----------------------------------------------------------------------------

\* Before the first login everybody is offline.
LEMMA PresenceInit == Init => AbstractPresence!Init
  BY DEF Init, AbstractPresence!Init, Where

\* Every job is a step of Presence or moves nobody.
LEMMA PresenceStep == IInv /\ IInv' /\ [Next]_vars => [AbstractPresence!Next]_Where
<1> SUFFICES ASSUME IInv, IInv', [Next]_vars
             PROVE  AbstractPresence!Next \/ Where' = Where
  OBVIOUS
<1>1. ASSUME NEW s \in Sessions, NEW a \in Accounts, Login(s, a) PROVE AbstractPresence!Next
  BY <1>1, LoginMoves DEF AbstractPresence!Next
<1>2. ASSUME NEW s \in Sessions, NEW r \in Rooms, EnterRoom(s, r) PROVE AbstractPresence!Next
  BY <1>2, EnterMoves DEF AbstractPresence!Next
<1>3. ASSUME NEW s \in Sessions, LeaveRoom(s) PROVE AbstractPresence!Next \/ Where' = Where
  <2>1. CASE LeaveHalts(s) = "no"
    BY <1>3, <2>1, LeaveMoves DEF AbstractPresence!Next
  <2>2. CASE LeaveHalts(s) # "no"
    BY <1>3, <2>2, NobodyMoves DEF LeaveRoom, Halt, roomVars
  <2> QED
    BY <2>1, <2>2
<1>4. ASSUME NEW s \in Sessions, ReleaseUser(s) PROVE AbstractPresence!Next \/ Where' = Where
  <2>1. CASE ReleaseHalts(s) = "no"
    BY <1>4, <2>1, ReleaseMoves DEF AbstractPresence!Next
  <2>2. CASE ReleaseHalts(s) # "no"
    BY <1>4, <2>2, NobodyMoves DEF ReleaseUser, Halt, roomVars
  <2> QED
    BY <2>1, <2>2
<1>5. CASE UNCHANGED <<accountKey, userMap>>
  BY <1>5, NobodyMoves
<1> QED
  BY <1>1, <1>2, <1>3, <1>4, <1>5
  DEF Next, CreateUser, RequestAfterRefusedLeave, ChangePosition, Ready, CancelReady, PutStone,
      Halt, roomVars, vars

\* The server keeps everybody offline, in the lobby or in one room with a place
\* for them, and nobody changes rooms without the lobby in between.
THEOREM ServerKeepsPresence == Spec => KeepsPresence
<1> QED
  BY PresenceInit, PresenceStep, ServerInvariant, PTL
  DEF Spec, KeepsPresence, AbstractPresence!Spec

-----------------------------------------------------------------------------
(* What the members of a room know of it.                                    *)

View == [members : SUBSET Accounts, seats : [Seats -> Accounts \union {None}],
         ready : SUBSET Accounts, game : BOOLEAN]

ToldType ==
    /\ told \in [Sessions -> View]
    /\ vanished \in [Sessions -> SUBSET Accounts]
    /\ halfTold \subseteq Sessions

\* Who vanished is not on the roster: without it, an account that comes back and
\* leaves again would be forgotten by those who saw it vanish.
KnowsMembers(t, r) ==
    /\ told[t].members = Members(r) \union vanished[t]
    /\ vanished[t] \intersect Members(r) = {}

KnowsGame(t, r) == told[t].game = board[r].gameFlag

KnowsSeat(t, r, k) ==
    LET seated == players[r][k]
        seen == told[t].seats[k]
    IN  /\ seated = NoPlayer => seen = None
        /\ seated.sId \in userManager =>
            \/ /\ seen = seated.accountNo
               /\ seen \in told[t].ready <=> ready[seated.sId]
            \/ t \in halfTold /\ seen = None

Informed(t, r) == KnowsMembers(t, r) /\ KnowsGame(t, r) /\ \A k \in Seats : KnowsSeat(t, r, k)

Everyone == \A t \in userManager : room[t] # None => Informed(t, room[t])

RoomInv == Running => IInv /\ ToldType /\ Everyone

-----------------------------------------------------------------------------
\* SendRoomAll reaches exactly the users in the room.
LEMMA RosterIsPresent ==
  ASSUME IInv, NEW r \in Rooms, NEW t \in Sessions
  PROVE  t \in Roster(r) <=> t \in userManager /\ room[t] = r
<1>1. ASSUME t \in Roster(r) PROVE t \in userManager /\ room[t] = r
  <2>1. PICK a \in Accounts : userMap[r][a] # None /\ t = userMap[r][a]
    BY <1>1 DEF Roster, Members
  <2> QED
    BY <2>1 DEF IInv, RosterMatchesUsers
<1>2. ASSUME t \in userManager, room[t] = r PROVE t \in Roster(r)
  <2>1. account[t] # None /\ userMap[r][account[t]] = t /\ account[t] \in Accounts
    BY <1>2, Nothing DEF IInv, TypeOK, RosterMatchesUsers
  <2>2. account[t] \in Members(r)
    BY <2>1, Nothing DEF Members
  <2> QED
    BY <2>1, <2>2 DEF Roster
<1> QED
  BY <1>1, <1>2

\* A user in a room has an account, which is its own and on that roster only.
LEMMA UserInRoom ==
  ASSUME IInv, NEW u \in userManager, room[u] # None
  PROVE  /\ u \in Sessions /\ room[u] \in Rooms /\ account[u] \in Accounts
         /\ account[u] \in Members(room[u])
         /\ userMap[room[u]][account[u]] = u
         /\ \A v \in userManager : account[v] = account[u] => v = u
<1>1. u \in Sessions /\ room[u] \in Rooms
  BY DEF IInv, TypeOK
<1>2. account[u] # None /\ userMap[room[u]][account[u]] = u /\ account[u] \in Accounts
  BY <1>1 DEF IInv, TypeOK, RosterMatchesUsers
<1>3. \A v \in userManager : account[v] = account[u] => v = u
  BY <1>2 DEF IInv, KeysMatchUsers
<1> QED
  BY <1>1, <1>2, <1>3, Nothing DEF Members

\* A user on a seat is in the room, with the account the seat names.
LEMMA SeatedUser ==
  ASSUME IInv, NEW r \in Rooms, NEW k \in Seats, players[r][k].sId \in userManager
  PROVE  /\ room[players[r][k].sId] = r /\ position[players[r][k].sId] = k
         /\ players[r][k].accountNo = account[players[r][k].sId]
         /\ players[r][k].accountNo \in Members(r)
         /\ players[r][k] # NoPlayer
<1>1. PICK u \in userManager : u = players[r][k].sId
  OBVIOUS
<1>2. room[u] = r /\ position[u] = k /\ u \in Sessions /\ u # None
  BY <1>1, Nothing DEF IInv, TypeOK, SeatsMatchPositions
<1>3. players[r][k] = [accountNo |-> account[u], sId |-> u]
  BY <1>2 DEF IInv, SeatsMatchPositions
<1>4. account[u] \in Members(r)
  BY <1>2, UserInRoom, Nothing
<1> QED
  BY <1>1, <1>2, <1>3, <1>4 DEF NoPlayer

\* A step that does not touch the room of t, nor what t knows.
LEMMA Elsewhere ==
  ASSUME NEW t \in Sessions, NEW r \in Rooms, Informed(t, r),
         told'[t] = told[t], vanished'[t] = vanished[t], t \in halfTold' <=> t \in halfTold,
         Members(r)' = Members(r), board'[r].gameFlag = board[r].gameFlag,
         \A k \in Seats :
            /\ players'[r][k] = players[r][k]
            /\ players[r][k].sId \in userManager' =>
                  players[r][k].sId \in userManager
                  /\ ready'[players[r][k].sId] = ready[players[r][k].sId]
  PROVE  Informed(t, r)'
<1>1. KnowsMembers(t, r)' /\ KnowsGame(t, r)'
  BY DEF Informed, KnowsMembers, KnowsGame
<1>2. ASSUME NEW k \in Seats PROVE KnowsSeat(t, r, k)'
  BY DEF Informed, KnowsSeat
<1> QED
  BY <1>1, <1>2 DEF Informed

\* What a member knows is looked at room by room.
LEMMA EveryoneNext ==
  ASSUME TypeOK', \A t \in Sessions, r \in Rooms : t \in userManager' /\ room'[t] = r => Informed(t, r)'
  PROVE  Everyone'
<1>1. ASSUME NEW t \in userManager', room'[t] # None PROVE Informed(t, room[t])'
  <2>1. t \in Sessions /\ room'[t] \in Rooms
    BY <1>1 DEF TypeOK
  <2>2. PICK r \in Rooms : r = room'[t]
    BY <2>1
  <2>3. Informed(t, r)'
    BY <1>1, <2>1, <2>2
  <2> QED
    BY <2>2, <2>3 DEF Informed, KnowsMembers, KnowsGame, KnowsSeat, Members
<1> QED
  BY <1>1 DEF Everyone

LEMMA WithoutSeatFields ==
  ASSUME NEW v \in View, NEW a
  PROVE  /\ WithoutSeat(v, a) \in View
         /\ WithoutSeat(v, a).members = v.members /\ WithoutSeat(v, a).game = v.game
         /\ WithoutSeat(v, a).ready = v.ready \ {a}
         /\ \A k \in Seats : WithoutSeat(v, a).seats[k] = IF v.seats[k] = a THEN None ELSE v.seats[k]
<1>1. PICK seats : seats = [k \in Seats |-> IF v.seats[k] = a THEN None ELSE v.seats[k]]
  OBVIOUS
<1>2. v.seats \in [Seats -> Accounts \union {None}]
  BY DEF View
<1>3. seats \in [Seats -> Accounts \union {None}]
  BY <1>1, <1>2
<1>4. WithoutSeat(v, a) = [v EXCEPT !.seats = seats, !.ready = v.ready \ {a}]
  BY <1>1 DEF WithoutSeat, View
<1>5. v.ready \ {a} \in SUBSET Accounts
  BY DEF View
<1>6. [v EXCEPT !.seats = seats, !.ready = v.ready \ {a}] \in View
  BY <1>3, <1>5 DEF View
<1>7. /\ WithoutSeat(v, a).members = v.members /\ WithoutSeat(v, a).game = v.game
      /\ WithoutSeat(v, a).ready = v.ready \ {a} /\ WithoutSeat(v, a).seats = seats
  BY <1>4 DEF View
<1> QED
  BY <1>1, <1>4, <1>6, <1>7

LEMMA SeatTakenFields ==
  ASSUME NEW v \in View, NEW a \in Accounts, NEW to
  PROVE  /\ SeatTaken(v, a, to) \in View
         /\ SeatTaken(v, a, to).members = v.members /\ SeatTaken(v, a, to).game = v.game
         /\ SeatTaken(v, a, to).ready = v.ready \ {a}
         /\ \A k \in Seats : SeatTaken(v, a, to).seats[k] =
                IF k = to THEN a ELSE IF v.seats[k] = a THEN None ELSE v.seats[k]
<1>1. PICK w \in View : w = WithoutSeat(v, a)
  BY WithoutSeatFields
<1>2. /\ w.members = v.members /\ w.game = v.game /\ w.ready = v.ready \ {a}
      /\ \A k \in Seats : w.seats[k] = IF v.seats[k] = a THEN None ELSE v.seats[k]
  BY <1>1, WithoutSeatFields
<1>3. PICK seats : seats = [k \in Seats |-> IF k = to THEN a ELSE w.seats[k]]
  OBVIOUS
<1>4. seats \in [Seats -> Accounts \union {None}]
  BY <1>3 DEF View
<1>5. SeatTaken(v, a, to) = [w EXCEPT !.seats = seats]
  BY <1>1, <1>3 DEF SeatTaken, View
<1> QED
  BY <1>2, <1>3, <1>4, <1>5 DEF View

-----------------------------------------------------------------------------
(* Sessions and accounts: nobody in a room is concerned.                     *)

LEMMA CreateUserUntold ==
  ASSUME IInv, ToldType, Everyone, NEW s \in Sessions, CreateUser(s), UNCHANGED toldVars
  PROVE  ToldType' /\ Everyone'
<1>1. /\ s \notin accepted /\ accepted' = accepted \union {s} /\ userManager' = userManager \union {s}
      /\ UNCHANGED <<account, room, position, ready, accountKey, userMap, players, board>>
      /\ UNCHANGED <<told, vanished, halfTold>>
  BY DEF CreateUser, userVars, roomVars, toldVars
<1>2. ToldType'
  BY <1>1 DEF ToldType
<1>3. TypeOK'
  BY CreateUserStep DEF IInv
<1>4. ASSUME NEW t \in Sessions, NEW r \in Rooms, t \in userManager', room'[t] = r PROVE Informed(t, r)'
  <2>1. t # s
    <3>1. room[s] = None
      BY <1>1 DEF IInv, TypeOK, AbsentUsersAreBlank
    <3> QED
      BY <1>1, <1>4, <3>1, Nothing
  <2>2. Informed(t, r)
    BY <1>1, <1>4, <2>1, Nothing DEF Everyone
  <2>3. \A k \in Seats : players[r][k].sId # s
    BY <1>1, Nothing DEF IInv, AbsentUsersAreBlank
  <2>4. Members(r)' = Members(r)
    BY <1>1 DEF Members
  <2> QED
    BY <1>1, <2>2, <2>3, <2>4, Elsewhere
<1> QED
  BY <1>2, <1>3, <1>4, EveryoneNext

LEMMA LoginUntold ==
  ASSUME IInv, ToldType, Everyone, NEW s \in Sessions, NEW a \in Accounts, Login(s, a), UNCHANGED toldVars
  PROVE  ToldType' /\ Everyone'
<1>1. /\ UNCHANGED <<userManager, room, position, ready, userMap, players, board>>
      /\ UNCHANGED <<told, vanished, halfTold>>
  BY DEF Login, roomVars, toldVars
<1>2. ToldType'
  BY <1>1 DEF ToldType
<1>3. TypeOK'
  BY LoginStep DEF IInv
<1>4. ASSUME NEW t \in Sessions, NEW r \in Rooms, t \in userManager', room'[t] = r PROVE Informed(t, r)'
  <2>1. Informed(t, r)
    BY <1>1, <1>4, Nothing DEF Everyone
  <2>2. Members(r)' = Members(r)
    BY <1>1 DEF Members
  <2> QED
    BY <1>1, <2>1, <2>2, Elsewhere
<1> QED
  BY <1>2, <1>3, <1>4, EveryoneNext

\* A release is told to nobody: the account moves from the roster to those who
\* vanished, in the eyes of everybody in the room.
LEMMA ReleaseIsUntold ==
  ASSUME IInv, ToldType, Everyone, NEW s \in Sessions, ReleaseUntold(s), halted' = "no"
  PROVE  ToldType' /\ Everyone'
<1>1. ReleaseHalts(s) = "no"
  BY DEF ReleaseUntold, ReleaseUser, Halt
<1>2. /\ s \in userManager /\ account[s] \in Accounts
      /\ userManager' = userManager \ {s}
      /\ Forget(s)
      /\ userMap' = IF room[s] = None THEN userMap ELSE LeavesRoster(s)
      /\ UNCHANGED <<players, board>>
  BY <1>1 DEF ReleaseUntold, ReleaseUser, ReleaseHalts, IInv, TypeOK
<1>3. /\ told' = [told EXCEPT ![s] = NobodyTold]
      /\ vanished' = [t \in Sessions |->
                       IF t = s THEN {}
                       ELSE IF room[s] # None /\ room[t] = room[s] THEN vanished[t] \union {account[s]}
                       ELSE vanished[t]]
      /\ halfTold' = halfTold \ {s}
  BY DEF ReleaseUntold, Outside
<1>4. NobodyTold \in View
  BY DEF NobodyTold, View
<1>5. ToldType'
  BY <1>2, <1>3, <1>4 DEF ToldType
<1>6. TypeOK'
  BY ReleaseUserStep DEF ReleaseUntold, IInv
<1>7. ASSUME NEW t \in Sessions, NEW r \in Rooms, t \in userManager', room'[t] = r PROVE Informed(t, r)'
  <2>1. t # s /\ t \in userManager /\ room[t] = r
    BY <1>2, <1>7, Nothing DEF Forget, IInv, TypeOK
  <2>2. Informed(t, r)
    BY <2>1, Nothing DEF Everyone
  <2>3. told'[t] = told[t] /\ (t \in halfTold' <=> t \in halfTold)
    BY <1>3, <2>1 DEF ToldType
  <2>4. \A u \in Sessions \ {s} : ready'[u] = ready[u]
    BY <1>2 DEF Forget, IInv, TypeOK
  <2>5. \A k \in Seats : players[r][k].sId \in userManager' =>
            players[r][k].sId \in userManager /\ ready'[players[r][k].sId] = ready[players[r][k].sId]
    BY <1>2, <2>4 DEF IInv, TypeOK
  <2>6. CASE room[s] = r
    <3>1. vanished'[t] = vanished[t] \union {account[s]}
      BY <1>3, <2>1, <2>6, Nothing
    <3>2. Members(r)' = Members(r) \ {account[s]} /\ account[s] \in Members(r)
      <4>1. userMap' = [userMap EXCEPT ![r][account[s]] = None]
        BY <1>2, <2>6, Nothing DEF LeavesRoster
      <4>2. \A a \in Accounts : userMap'[r][a] = IF a = account[s] THEN None ELSE userMap[r][a]
        BY <1>2, <4>1 DEF IInv, TypeOK
      <4>3. account[s] \in Members(r)
        BY <1>2, <2>6, UserInRoom, Nothing
      <4> QED
        BY <4>2, <4>3 DEF Members
    <3>3. KnowsMembers(t, r)'
      BY <2>2, <2>3, <3>1, <3>2 DEF Informed, KnowsMembers
    <3>4. KnowsGame(t, r)'
      BY <1>2, <2>2, <2>3 DEF Informed, KnowsGame
    <3>5. ASSUME NEW k \in Seats PROVE KnowsSeat(t, r, k)'
      BY <1>2, <2>2, <2>3, <2>5 DEF Informed, KnowsSeat
    <3> QED
      BY <3>3, <3>4, <3>5 DEF Informed
  <2>7. CASE room[s] # r
    <3>1. vanished'[t] = vanished[t]
      BY <1>3, <2>1, <2>7
    <3>2. Members(r)' = Members(r)
      BY <1>2, <2>7 DEF Members, LeavesRoster, IInv, TypeOK
    <3> QED
      BY <1>2, <2>2, <2>3, <2>5, <3>1, <3>2, Elsewhere
  <2> QED
    BY <2>6, <2>7
<1> QED
  BY <1>5, <1>6, <1>7, EveryoneNext

-----------------------------------------------------------------------------
(* Entering and leaving.                                                     *)

\* The answer to EnterRoom is a view, and the alarm of players names the users on
\* the seats, with their ready flags.
LEMMA ArrivalIsView ==
  ASSUME IInv, NEW s \in Sessions, NEW r \in Rooms, account[s] \in Accounts
  PROVE  /\ Arrival(s, r) \in View
         /\ \A k \in Seats : players[r][k] = NoPlayer => Arrival(s, r).seats[k] = None
         /\ \A k \in Seats : players[r][k].sId \in userManager =>
               \/ /\ Arrival(s, r).seats[k] = players[r][k].accountNo
                  /\ players[r][k].accountNo \in Arrival(s, r).ready <=> ready[players[r][k].sId]
               \/ ~AlarmSent(r) /\ Arrival(s, r).seats[k] = None
<1>1. SeatsTold(r) \in [Seats -> Accounts \union {None}] /\ ReadyTold(r) \in SUBSET Accounts
  BY DEF SeatsTold, ReadyTold, Members
<1>2. NobodyTold.seats = [k \in Seats |-> None]
  BY DEF NobodyTold
<1>3. Members(r) \union {account[s]} \in SUBSET Accounts /\ GameTold(r) \in BOOLEAN
  BY DEF Members, GameTold, IInv, TypeOK, BoardType
<1>4. PICK a : a = Arrival(s, r)
  OBVIOUS
<1>5. /\ a \in View
      /\ a.seats = IF AlarmSent(r) THEN SeatsTold(r) ELSE NobodyTold.seats
      /\ a.ready = IF AlarmSent(r) THEN ReadyTold(r) ELSE {}
  BY <1>1, <1>2, <1>3, <1>4 DEF Arrival, View
<1>6. ASSUME NEW k \in Seats, players[r][k] = NoPlayer PROVE a.seats[k] = None
  <2>1. None \notin Members(r) /\ players[r][k].accountNo = None
    BY <1>6, Nothing DEF Members, NoPlayer
  <2> QED
    BY <1>2, <1>5, <2>1 DEF SeatsTold
<1>7. ASSUME NEW k \in Seats, players[r][k].sId \in userManager
      PROVE  \/ /\ a.seats[k] = players[r][k].accountNo
                /\ players[r][k].accountNo \in a.ready <=> ready[players[r][k].sId]
             \/ ~AlarmSent(r) /\ a.seats[k] = None
  <2>1. PICK u \in userManager : u = players[r][k].sId
    BY <1>7
  <2>2. /\ room[u] = r /\ players[r][k].accountNo = account[u] /\ account[u] \in Members(r)
    BY <1>7, <2>1, SeatedUser
  <2>3. userMap[r][account[u]] = u
    BY <2>2, UserInRoom, Nothing
  <2>4. account[u] \in ReadyTold(r) <=> ready[u]
    BY <2>2, <2>3 DEF ReadyTold
  <2>5. SeatsTold(r)[k] = account[u]
    BY <2>2 DEF SeatsTold
  <2> QED
    BY <1>2, <1>5, <2>1, <2>2, <2>4, <2>5
<1> QED
  BY <1>4, <1>5, <1>6, <1>7

\* The newcomer is told the roster, and the roster of the newcomer.
LEMMA EnterIsTold ==
  ASSUME IInv, ToldType, Everyone, NEW s \in Sessions, NEW q \in Rooms, EnterTold(s, q)
  PROVE  ToldType' /\ Everyone'
<1>1. /\ s \in userManager /\ account[s] \in Accounts /\ room[s] = None
      /\ room' = [room EXCEPT ![s] = q]
      /\ userMap' = EntersRoster(s, q)
      /\ UNCHANGED <<userManager, account, ready, players, board>>
  BY DEF EnterTold, EnterRoom, IInv, TypeOK
<1>2. /\ told' = [Tell(Roster(q), [t \in Sessions |-> [told[t] EXCEPT !.members = @ \union {account[s]}]])
                    EXCEPT ![s] = Arrival(s, q)]
      /\ vanished' = [t \in Sessions |-> IF t \in Roster(q) THEN vanished[t] \ {account[s]}
                                          ELSE IF t = s THEN {} ELSE vanished[t]]
      /\ halfTold' = IF AlarmSent(q) THEN halfTold \ {s} ELSE halfTold \union {s}
  BY DEF EnterTold
<1>3. s \notin Roster(q)
  BY <1>1, RosterIsPresent, Nothing
<1>4. told'[s] = Arrival(s, q) /\ vanished'[s] = {} /\ (s \in halfTold' <=> ~AlarmSent(q))
  BY <1>2, <1>3 DEF Tell
<1>5. ASSUME NEW t \in Sessions, t # s
      PROVE  /\ told'[t] = IF t \in Roster(q) THEN [told[t] EXCEPT !.members = @ \union {account[s]}] ELSE told[t]
             /\ vanished'[t] = IF t \in Roster(q) THEN vanished[t] \ {account[s]} ELSE vanished[t]
             /\ t \in halfTold' <=> t \in halfTold
  BY <1>2, <1>5 DEF Tell
<1>6. ASSUME NEW v \in View
      PROVE  /\ [v EXCEPT !.members = @ \union {account[s]}] \in View
             /\ [v EXCEPT !.members = @ \union {account[s]}].members = v.members \union {account[s]}
             /\ [v EXCEPT !.members = @ \union {account[s]}].seats = v.seats
             /\ [v EXCEPT !.members = @ \union {account[s]}].ready = v.ready
             /\ [v EXCEPT !.members = @ \union {account[s]}].game = v.game
  BY <1>1 DEF View
<1>7. ToldType'
  <2>1. \A t \in Sessions : told'[t] \in View /\ vanished'[t] \in SUBSET Accounts
    <3>1. told'[s] \in View
      BY <1>1, <1>4, ArrivalIsView
    <3>2. ASSUME NEW t \in Sessions, t # s PROVE told'[t] \in View /\ vanished'[t] \in SUBSET Accounts
      <4>1. told[t] \in View /\ vanished[t] \in SUBSET Accounts
        BY DEF ToldType
      <4>2. CASE t \in Roster(q)
        BY <1>5, <1>6, <3>2, <4>1, <4>2
      <4>3. CASE t \notin Roster(q)
        BY <1>5, <3>2, <4>1, <4>3
      <4> QED
        BY <4>2, <4>3
    <3> QED
      BY <1>4, <3>1, <3>2
  <2>2. DOMAIN told' = Sessions /\ told' = [t \in Sessions |-> told'[t]]
    BY <1>2 DEF Tell
  <2>3. vanished' = [t \in Sessions |-> vanished'[t]]
    BY <1>2
  <2>4. halfTold' \subseteq Sessions
    BY <1>2 DEF ToldType
  <2> QED
    BY <2>1, <2>2, <2>3, <2>4 DEF ToldType
<1>8. TypeOK'
  BY EnterRoomStep DEF EnterTold, IInv
<1>9. account[s] \notin Members(q) /\ userMap' = [userMap EXCEPT ![q][account[s]] = s]
  <2>1. userMap[q][account[s]] = None
    BY <1>1, Nothing DEF IInv, KeysMatchUsers, RosterMatchesUsers
  <2> QED
    BY <1>1, <2>1 DEF EntersRoster, Members
<1>10. Members(q)' = Members(q) \union {account[s]} /\ \A r \in Rooms \ {q} : Members(r)' = Members(r)
  <2>1. \A r \in Rooms, a \in Accounts :
           userMap'[r][a] = IF r = q /\ a = account[s] THEN s ELSE userMap[r][a]
    BY <1>1, <1>9 DEF IInv, TypeOK
  <2> QED
    BY <1>1, <2>1, Nothing DEF Members
<1>11. ASSUME NEW t \in Sessions, NEW r \in Rooms, t \in userManager', room'[t] = r PROVE Informed(t, r)'
  <2>1. CASE t = s
    <3>1. r = q
      BY <1>1, <1>11, <2>1 DEF IInv, TypeOK
    <3>2. KnowsMembers(s, q)'
      <4>1. Arrival(s, q).members = Members(q) \union {account[s]}
        BY DEF Arrival
      <4> QED
        BY <1>4, <1>10, <4>1 DEF KnowsMembers
    <3>3. KnowsGame(s, q)'
      <4>1. Arrival(s, q).game = board[q].gameFlag
        BY DEF Arrival, GameTold
      <4> QED
        BY <1>1, <1>4, <4>1 DEF KnowsGame
    <3>4. ASSUME NEW k \in Seats PROVE KnowsSeat(s, q, k)'
      <4>1. players[q][k] = NoPlayer => told'[s].seats[k] = None
        BY <1>1, <1>4, ArrivalIsView
      <4>2. players[q][k].sId \in userManager =>
               \/ /\ told'[s].seats[k] = players[q][k].accountNo
                  /\ players[q][k].accountNo \in told'[s].ready <=> ready[players[q][k].sId]
               \/ ~AlarmSent(q) /\ told'[s].seats[k] = None
        BY <1>1, <1>4, ArrivalIsView
      <4> QED
        BY <1>1, <1>4, <4>1, <4>2 DEF KnowsSeat
    <3> QED
      BY <2>1, <3>1, <3>2, <3>3, <3>4 DEF Informed
  <2>2. CASE t # s /\ r = q
    <3>1. t \in userManager /\ room[t] = q
      BY <1>1, <1>11, <2>2 DEF IInv, TypeOK
    <3>2. t \in Roster(q) /\ Informed(t, q)
      BY <3>1, RosterIsPresent, Nothing DEF Everyone
    <3>3. told[t] \in View
      BY DEF ToldType
    <3>4. /\ told'[t].members = told[t].members \union {account[s]}
          /\ told'[t].seats = told[t].seats /\ told'[t].ready = told[t].ready /\ told'[t].game = told[t].game
          /\ vanished'[t] = vanished[t] \ {account[s]} /\ (t \in halfTold' <=> t \in halfTold)
      BY <1>5, <1>6, <2>2, <3>2, <3>3
    <3>5. KnowsMembers(t, q)'
      BY <1>10, <3>2, <3>4 DEF Informed, KnowsMembers
    <3>6. KnowsGame(t, q)'
      BY <1>1, <3>2, <3>4 DEF Informed, KnowsGame
    <3>7. ASSUME NEW k \in Seats PROVE KnowsSeat(t, q, k)'
      BY <1>1, <3>2, <3>4 DEF Informed, KnowsSeat
    <3> QED
      BY <2>2, <3>5, <3>6, <3>7 DEF Informed
  <2>3. CASE t # s /\ r # q
    <3>1. t \in userManager /\ room[t] = r
      BY <1>1, <1>11, <2>3 DEF IInv, TypeOK
    <3>2. t \notin Roster(q) /\ Informed(t, r)
      BY <2>3, <3>1, RosterIsPresent, Nothing DEF Everyone
    <3>3. told'[t] = told[t] /\ vanished'[t] = vanished[t] /\ (t \in halfTold' <=> t \in halfTold)
      BY <1>5, <2>3, <3>2
    <3>4. Members(r)' = Members(r)
      BY <1>10, <2>3
    <3> QED
      BY <1>1, <3>2, <3>3, <3>4, Elsewhere
  <2> QED
    BY <2>1, <2>2, <2>3
<1> QED
  BY <1>7, <1>8, <1>11, EveryoneNext

\* What the others know of a room after a member left.
WithoutMember(v, a) == [WithoutSeat(v, a) EXCEPT !.members = @ \ {a}]

LEMMA WithoutMemberFields ==
  ASSUME NEW v \in View, NEW a
  PROVE  /\ WithoutMember(v, a) \in View
         /\ WithoutMember(v, a).members = v.members \ {a} /\ WithoutMember(v, a).game = v.game
         /\ WithoutMember(v, a).ready = v.ready \ {a}
         /\ \A k \in Seats : WithoutMember(v, a).seats[k] = IF v.seats[k] = a THEN None ELSE v.seats[k]
<1>1. PICK x \in View : x = WithoutSeat(v, a)
  BY WithoutSeatFields
<1>2. /\ x.members = v.members /\ x.game = v.game /\ x.ready = v.ready \ {a}
      /\ \A k \in Seats : x.seats[k] = IF v.seats[k] = a THEN None ELSE v.seats[k]
  BY <1>1, WithoutSeatFields
<1>3. PICK w : w = [x EXCEPT !.members = @ \ {a}]
  OBVIOUS
<1>4. w \in View /\ w.members = x.members \ {a} /\ w.ready = x.ready /\ w.game = x.game /\ w.seats = x.seats
  BY <1>3 DEF View
<1>5. w = WithoutMember(v, a)
  BY <1>1, <1>3 DEF WithoutMember
<1> QED
  BY <1>2, <1>4, <1>5

\* A leave is told to the rest of the roster, which also takes the leaver off its
\* seat: the seat is the only one in their view with its account.
LEMMA LeaveIsToldToAll ==
  ASSUME IInv, ToldType, Everyone, NEW s \in Sessions, LeaveIsTold(s), halted' = "no"
  PROVE  ToldType' /\ Everyone'
<1>1. InRoom(s) /\ s \in userManager /\ room[s] # None /\ LeaveHalts(s) = "no" /\ ~SeatLost(s)
  BY SeatedInRoom DEF LeaveIsTold, LeaveRoom, InRoom, Halt
<1>2. PICK q \in Rooms : q = room[s]
  BY <1>1 DEF IInv, TypeOK
<1>3. PICK a \in Accounts : a = account[s]
  BY <1>1, SeatedInRoom
<1>4. /\ players' = SeatGivenUp(s)
      /\ ready' = [ready EXCEPT ![s] = FALSE]
      /\ userMap' = LeavesRoster(s)
      /\ room' = [room EXCEPT ![s] = None]
      /\ UNCHANGED <<userManager, account, board>>
  BY <1>1 DEF LeaveIsTold, LeaveRoom
<1>5. /\ told' = [Tell(Roster(q), [t \in Sessions |-> [WithoutSeat(told[t], a)
                                                      EXCEPT !.members = @ \ {a}]])
                    EXCEPT ![s] = NobodyTold]
      /\ vanished' = [vanished EXCEPT ![s] = {}]
      /\ halfTold' = halfTold \ {s}
  BY <1>2, <1>3 DEF LeaveIsTold, LeaveTold, Outside
<1>6. ASSUME NEW t \in Sessions, t # s
      PROVE  /\ told'[t] = IF t \in Roster(q) THEN WithoutMember(told[t], a) ELSE told[t]
             /\ vanished'[t] = vanished[t] /\ (t \in halfTold' <=> t \in halfTold)
  BY <1>5, <1>6 DEF Tell, ToldType, WithoutMember
<1>8. ToldType'
  <2>1. \A t \in Sessions : told'[t] \in View
    <3>1. NobodyTold \in View
      BY DEF NobodyTold, View
    <3>2. told'[s] = NobodyTold
      BY <1>5 DEF Tell
    <3>3. ASSUME NEW t \in Sessions, t # s PROVE told'[t] \in View
      <4>1. PICK v \in View : v = told[t]
        BY DEF ToldType
      <4>2. WithoutMember(v, a) \in View
        BY WithoutMemberFields
      <4> QED
        BY <1>6, <3>3, <4>1, <4>2
    <3> QED
      BY <3>1, <3>2, <3>3
  <2>2. told' = [t \in Sessions |-> told'[t]]
    BY <1>5 DEF Tell
  <2>3. vanished' \in [Sessions -> SUBSET Accounts] /\ halfTold' \subseteq Sessions
    BY <1>5 DEF ToldType
  <2> QED
    BY <2>1, <2>2, <2>3 DEF ToldType
<1>9. TypeOK'
  BY LeaveRoomStep DEF LeaveIsTold, IInv
<1>10. Members(q)' = Members(q) \ {a} /\ \A r \in Rooms \ {q} : Members(r)' = Members(r)
  <2>1. userMap' = [userMap EXCEPT ![q][a] = None]
    BY <1>2, <1>3, <1>4 DEF LeavesRoster
  <2>2. \A r \in Rooms, b \in Accounts :
           userMap'[r][b] = IF r = q /\ b = a THEN None ELSE userMap[r][b]
    BY <2>1 DEF IInv, TypeOK
  <2> QED
    BY <2>2 DEF Members
<1>11. \A r \in Rooms \ {q}, k \in Seats : players'[r][k] = players[r][k]
  BY <1>2, <1>4 DEF SeatGivenUp, IInv, TypeOK
<1>12. ASSUME NEW k \in Seats
       PROVE  players'[q][k] = IF position[s] = k THEN NoPlayer ELSE players[q][k]
  BY <1>2, <1>4 DEF SeatGivenUp, IInv, TypeOK
<1>13. ASSUME NEW t \in Sessions, NEW r \in Rooms, t \in userManager', room'[t] = r PROVE Informed(t, r)'
  <2>1. t # s /\ t \in userManager /\ room[t] = r
    BY <1>4, <1>13, Nothing DEF IInv, TypeOK
  <2>2. Informed(t, r)
    BY <2>1, Nothing DEF Everyone
  <2>3. vanished'[t] = vanished[t] /\ (t \in halfTold' <=> t \in halfTold)
    BY <1>6, <2>1
  <2>4. CASE r = q
    <3>1. t \in Roster(q) /\ told[t] \in View
      BY <2>1, <2>4, RosterIsPresent DEF ToldType
    <3>2. /\ told'[t].members = told[t].members \ {a} /\ told'[t].ready = told[t].ready \ {a}
          /\ told'[t].game = told[t].game
          /\ \A k \in Seats : told'[t].seats[k] = IF told[t].seats[k] = a THEN None ELSE told[t].seats[k]
      <4>1. PICK v \in View : v = told[t]
        BY <3>1
      <4>2. told'[t] = WithoutMember(v, a)
        BY <1>6, <2>1, <3>1, <4>1
      <4> QED
        BY <4>1, <4>2, WithoutMemberFields
    <3>3. a \in Members(q)
      BY <1>1, <1>2, <1>3, UserInRoom
    <3>4. KnowsMembers(t, q)'
      BY <1>10, <2>2, <2>3, <2>4, <3>2, <3>3 DEF Informed, KnowsMembers
    <3>5. KnowsGame(t, q)'
      BY <1>4, <2>2, <2>4, <3>2 DEF Informed, KnowsGame
    <3>6. ASSUME NEW k \in Seats PROVE KnowsSeat(t, q, k)'
      <4>1. CASE position[s] = k
        <5>1. players'[q][k] = NoPlayer
          BY <1>12, <4>1
        <5>2. players[q][k] = [accountNo |-> a, sId |-> s]
          BY <1>1, <1>2, <1>3, <4>1 DEF SeatLost
        <5>3. told[t].seats[k] = a \/ told[t].seats[k] = None
          BY <1>1, <2>2, <2>4, <5>2 DEF Informed, KnowsSeat
        <5>4. told'[t].seats[k] = None
          BY <3>2, <5>3
        <5>5. players'[q][k].sId \notin userManager'
          <6>1. NoPlayer.sId = None /\ None \notin userManager
            BY Nothing DEF NoPlayer, IInv, TypeOK
          <6> QED
            BY <1>4, <5>1, <6>1
        <5> QED
          BY <5>1, <5>4, <5>5 DEF KnowsSeat
      <4>2. CASE position[s] # k
        <5>1. players'[q][k] = players[q][k]
          BY <1>12, <4>2
        <5>2. ASSUME players[q][k] = NoPlayer PROVE told'[t].seats[k] = None
          <6>1. told[t].seats[k] = None
            BY <2>2, <2>4, <5>2 DEF Informed, KnowsSeat
          <6> QED
            BY <3>2, <6>1
        <5>3. ASSUME players[q][k].sId \in userManager
              PROVE  \/ /\ told'[t].seats[k] = players[q][k].accountNo
                        /\ told'[t].seats[k] \in told'[t].ready <=> ready'[players[q][k].sId]
                     \/ t \in halfTold /\ told'[t].seats[k] = None
          <6>1. PICK u \in userManager : u = players[q][k].sId
            BY <5>3
          <6>2. room[u] = q /\ position[u] = k /\ players[q][k].accountNo = account[u]
            BY <5>3, <6>1, SeatedUser
          <6>3. u # s /\ account[u] # a /\ u \in Sessions /\ account[u] # None
            BY <1>1, <1>2, <1>3, <4>2, <6>2, UserInRoom, Nothing
          <6>4. ready'[u] = ready[u]
            BY <1>4, <6>3 DEF IInv, TypeOK
          <6>5. \/ told[t].seats[k] = account[u] /\ (account[u] \in told[t].ready <=> ready[u])
                \/ t \in halfTold /\ told[t].seats[k] = None
            BY <2>2, <2>4, <5>3, <6>1, <6>2 DEF Informed, KnowsSeat
          <6>6. CASE told[t].seats[k] = account[u] /\ (account[u] \in told[t].ready <=> ready[u])
            <7>1. told'[t].seats[k] = account[u]
              BY <3>2, <6>3, <6>6
            <7>2. account[u] \in told'[t].ready <=> account[u] \in told[t].ready
              BY <3>2, <6>3
            <7> QED
              BY <6>1, <6>2, <6>4, <6>6, <7>1, <7>2
          <6>7. CASE t \in halfTold /\ told[t].seats[k] = None
            <7>1. told'[t].seats[k] = None
              BY <3>2, <6>7
            <7> QED
              BY <6>7, <7>1
          <6> QED
            BY <6>5, <6>6, <6>7
        <5> QED
          BY <1>4, <2>3, <5>1, <5>2, <5>3 DEF KnowsSeat
      <4> QED
        BY <4>1, <4>2
    <3> QED
      BY <2>4, <3>4, <3>5, <3>6 DEF Informed
  <2>5. CASE r # q
    <3>1. t \notin Roster(q)
      BY <2>1, <2>5, RosterIsPresent
    <3>2. told'[t] = told[t]
      BY <1>6, <2>1, <3>1
    <3>3. Members(r)' = Members(r)
      BY <1>10, <2>5
    <3>4. ASSUME NEW k \in Seats, players[r][k].sId \in userManager
          PROVE  ready'[players[r][k].sId] = ready[players[r][k].sId]
      <4>1. players[r][k].sId # s
        BY <1>2, <2>5, <3>4, SeatedUser
      <4> QED
        BY <1>4, <3>4, <4>1 DEF IInv, TypeOK
    <3> QED
      BY <1>4, <1>11, <2>2, <2>3, <2>5, <3>2, <3>3, <3>4, Elsewhere
  <2> QED
    BY <2>4, <2>5
<1> QED
  BY <1>8, <1>9, <1>13, EveryoneNext

-----------------------------------------------------------------------------
(* Seats and games: rosters stay, and one room is told.                      *)

LEMMA OneRoomIsTold ==
  ASSUME IInv, ToldType, Everyone, TypeOK', NEW q \in Rooms,
         UNCHANGED <<userManager, room, userMap, vanished, halfTold>>,
         told' = [t \in Sessions |-> told'[t]],
         \A t \in Sessions : t \notin Roster(q) => told'[t] = told[t],
         \A t \in Sessions : t \in Roster(q) /\ Informed(t, q) =>
            /\ told'[t] \in View /\ told'[t].members = told[t].members
            /\ KnowsGame(t, q)'
            /\ \A k \in Seats : KnowsSeat(t, q, k)',
         \A r \in Rooms \ {q} : board'[r] = board[r],
         \A r \in Rooms \ {q}, k \in Seats :
            /\ players'[r][k] = players[r][k]
            /\ players[r][k].sId \in userManager =>
                  ready'[players[r][k].sId] = ready[players[r][k].sId]
  PROVE  ToldType' /\ Everyone'
<1>1. \A t \in Sessions : t \in Roster(q) => Informed(t, q)
  BY RosterIsPresent, Nothing DEF Everyone
<1>2. ToldType'
  BY <1>1 DEF ToldType
<1>3. \A r \in Rooms : Members(r)' = Members(r)
  BY DEF Members
<1>4. ASSUME NEW t \in Sessions, NEW r \in Rooms, t \in userManager', room'[t] = r PROVE Informed(t, r)'
  <2>1. Informed(t, r)
    BY <1>4, Nothing DEF Everyone
  <2>2. CASE r = q
    <3>1. t \in Roster(q)
      BY <1>4, <2>2, RosterIsPresent
    <3>2. told'[t].members = told[t].members /\ KnowsGame(t, q)' /\ \A k \in Seats : KnowsSeat(t, q, k)'
      BY <1>1, <3>1
    <3>3. KnowsMembers(t, q)'
      BY <1>3, <2>1, <2>2, <3>2 DEF Informed, KnowsMembers
    <3> QED
      BY <2>2, <3>2, <3>3 DEF Informed
  <2>3. CASE r # q
    <3>1. told'[t] = told[t]
      BY <1>4, <2>3, RosterIsPresent
    <3> QED
      BY <1>3, <2>1, <2>3, <3>1, Elsewhere
  <2> QED
    BY <2>2, <2>3
<1> QED
  BY <1>2, <1>4, EveryoneNext

\* The seat of another, when a user gives up the one it has.
LEMMA OtherSeatIsKnown ==
  ASSUME IInv, NEW s \in userManager, account[s] \in Accounts,
         NEW q \in Rooms, NEW k \in Seats, position[s] # k, NEW t \in Sessions, KnowsSeat(t, q, k),
         t \in halfTold' <=> t \in halfTold,
         told'[t].seats[k] = IF told[t].seats[k] = account[s] THEN None ELSE told[t].seats[k],
         told'[t].ready = told[t].ready \ {account[s]},
         userManager' = userManager, ready' = [ready EXCEPT ![s] = FALSE],
         players'[q][k] = players[q][k]
  PROVE  KnowsSeat(t, q, k)'
<1>1. ASSUME players[q][k] = NoPlayer PROVE told'[t].seats[k] = None
  BY <1>1 DEF KnowsSeat
<1>2. ASSUME players[q][k].sId \in userManager
      PROVE  \/ /\ told'[t].seats[k] = players[q][k].accountNo
                /\ told'[t].seats[k] \in told'[t].ready <=> ready'[players[q][k].sId]
             \/ t \in halfTold /\ told'[t].seats[k] = None
  <2>1. PICK u \in userManager : u = players[q][k].sId
    BY <1>2
  <2>2. room[u] = q /\ position[u] = k /\ players[q][k].accountNo = account[u]
    BY <1>2, <2>1, SeatedUser
  <2>3. u # s /\ account[u] # account[s] /\ u \in Sessions /\ account[u] # None
    BY <2>2, UserInRoom, Nothing
  <2>4. ready'[u] = ready[u]
    BY <2>3 DEF IInv, TypeOK
  <2>5. CASE told[t].seats[k] = account[u] /\ (account[u] \in told[t].ready <=> ready[u])
    <3>1. told'[t].seats[k] = account[u] /\ (account[u] \in told'[t].ready <=> account[u] \in told[t].ready)
      BY <2>3, <2>5
    <3> QED
      BY <2>1, <2>2, <2>4, <2>5, <3>1
  <2>6. CASE t \in halfTold /\ told[t].seats[k] = None
    BY <2>6
  <2> QED
    BY <1>2, <2>1, <2>2, <2>5, <2>6 DEF KnowsSeat
<1> QED
  BY <1>1, <1>2 DEF KnowsSeat

\* The seats stay, and the ready flag of the player is told.
LEMMA ReadyIsKnown ==
  ASSUME IInv, NEW q \in Rooms, NEW k \in Seats, NEW t \in Sessions, KnowsSeat(t, q, k),
         UNCHANGED <<userManager, halfTold, players>>, told'[t].seats = told[t].seats,
         \A u \in userManager : room[u] = q /\ position[u] = k =>
            \/ account[u] \in told'[t].ready <=> ready'[u]
            \/ /\ ready'[u] = ready[u]
               /\ account[u] \in told'[t].ready <=> account[u] \in told[t].ready
  PROVE  KnowsSeat(t, q, k)'
<1>1. ASSUME players[q][k].sId \in userManager
      PROVE  \/ /\ told'[t].seats[k] = players[q][k].accountNo
                /\ told'[t].seats[k] \in told'[t].ready <=> ready'[players[q][k].sId]
             \/ t \in halfTold /\ told'[t].seats[k] = None
  <2>1. PICK u \in userManager : u = players[q][k].sId
    BY <1>1
  <2>2. room[u] = q /\ position[u] = k /\ players[q][k].accountNo = account[u]
    BY <1>1, <2>1, SeatedUser
  <2> QED
    BY <1>1, <2>1, <2>2 DEF KnowsSeat
<1> QED
  BY <1>1 DEF KnowsSeat

LEMMA ChangeIsTold ==
  ASSUME IInv, ToldType, Everyone, NEW s \in Sessions, NEW to \in 1 .. 3, ChangeTold(s, to), halted' = "no"
  PROVE  ToldType' /\ Everyone'
<1>1. InRoom(s) /\ s \in userManager /\ ~SeatLost(s) /\ position[s] # to
  BY SeatedInRoom DEF ChangeTold, ChangePosition, InRoom
<1>2. PICK q \in Rooms : q = room[s]
  BY <1>1, SeatedInRoom
<1>3. PICK a \in Accounts : a = account[s]
  BY <1>1, SeatedInRoom
<1>4. PICK me : me = [accountNo |-> a, sId |-> s]
  OBVIOUS
<1>5. /\ ready' = [ready EXCEPT ![s] = FALSE]
      /\ players' = IF to \in Seats THEN [SeatGivenUp(s) EXCEPT ![q][to] = me] ELSE SeatGivenUp(s)
      /\ UNCHANGED <<userManager, account, room, userMap, board>>
  BY <1>1, <1>2, <1>3, <1>4 DEF ChangeTold, ChangePosition
<1>6. /\ told' = Tell(Roster(q), [t \in Sessions |-> SeatTaken(told[t], a, to)])
      /\ UNCHANGED <<vanished, halfTold>>
  BY <1>2, <1>3 DEF ChangeTold
<1>7. TypeOK'
  BY ChangePositionStep DEF ChangeTold, IInv
<1>8. told' = [t \in Sessions |-> told'[t]] /\ \A t \in Sessions : t \notin Roster(q) => told'[t] = told[t]
  BY <1>6 DEF Tell
<1>9. SeatGivenUp(s) \in [Rooms -> [Seats -> Player]]
  BY <1>1, SeatGivenUpType
<1>10. /\ \A r \in Rooms \ {q}, k \in Seats : SeatGivenUp(s)[r][k] = players[r][k]
       /\ \A k \in Seats : SeatGivenUp(s)[q][k] = IF k = position[s] THEN NoPlayer ELSE players[q][k]
  BY <1>2 DEF SeatGivenUp, IInv, TypeOK
<1>11. /\ \A r \in Rooms \ {q}, k \in Seats : players'[r][k] = players[r][k]
       /\ \A k \in Seats : players'[q][k] =
             IF k = to THEN me ELSE IF k = position[s] THEN NoPlayer ELSE players[q][k]
  BY <1>5, <1>9, <1>10
<1>12. ASSUME NEW r \in Rooms \ {q}, NEW k \in Seats, players[r][k].sId \in userManager
       PROVE  ready'[players[r][k].sId] = ready[players[r][k].sId]
  <2>1. players[r][k].sId # s
    BY <1>2, <1>12, SeatedUser
  <2> QED
    BY <1>5, <1>12, <2>1 DEF IInv, TypeOK
<1>13. ASSUME NEW t \in Sessions, t \in Roster(q), Informed(t, q)
       PROVE  /\ told'[t] \in View /\ told'[t].members = told[t].members
              /\ KnowsGame(t, q)'
              /\ \A k \in Seats : KnowsSeat(t, q, k)'
  <2>1. PICK v \in View : v = told[t]
    BY DEF ToldType
  <2>2. told'[t] = SeatTaken(v, a, to)
    BY <1>6, <1>13, <2>1 DEF Tell
  <2>3. /\ told'[t] \in View /\ told'[t].members = told[t].members /\ told'[t].game = told[t].game
        /\ told'[t].ready = told[t].ready \ {a}
        /\ \A k \in Seats : told'[t].seats[k] =
              IF k = to THEN a ELSE IF told[t].seats[k] = a THEN None ELSE told[t].seats[k]
    BY <2>1, <2>2, SeatTakenFields
  <2>4. KnowsGame(t, q)'
    BY <1>5, <1>13, <2>3 DEF Informed, KnowsGame
  <2>5. ASSUME NEW k \in Seats PROVE KnowsSeat(t, q, k)'
    <3>1. CASE k = to
      <4>1. players'[q][k] = me /\ told'[t].seats[k] = a /\ a \notin told'[t].ready
        BY <1>11, <2>3, <3>1
      <4>2. me.sId = s /\ me.accountNo = a /\ me # NoPlayer /\ ready'[s] = FALSE
        BY <1>4, <1>5, Nothing DEF NoPlayer, IInv, TypeOK
      <4> QED
        BY <4>1, <4>2 DEF KnowsSeat
    <3>2. CASE k # to /\ k = position[s]
      <4>1. players'[q][k] = NoPlayer
        BY <1>11, <3>2
      <4>2. players[q][k] = me
        BY <1>1, <1>2, <1>3, <1>4, <3>2 DEF SeatLost
      <4>3. told[t].seats[k] = a \/ told[t].seats[k] = None
        BY <1>1, <1>4, <1>13, <4>2 DEF Informed, KnowsSeat
      <4>4. told'[t].seats[k] = None
        BY <2>3, <3>2, <4>3
      <4>5. NoPlayer.sId \notin userManager'
        BY <1>5, Nothing DEF NoPlayer, IInv, TypeOK
      <4> QED
        BY <4>1, <4>4, <4>5 DEF KnowsSeat
    <3>3. CASE k # to /\ k # position[s]
      <4>1. players'[q][k] = players[q][k]
        BY <1>11, <3>3
      <4>2. told'[t].seats[k] = IF told[t].seats[k] = account[s] THEN None ELSE told[t].seats[k]
        BY <1>3, <2>3, <3>3
      <4>3. KnowsSeat(t, q, k)
        BY <1>13 DEF Informed
      <4>4. t \in halfTold' <=> t \in halfTold
        BY <1>6
      <4> QED
        BY <1>1, <1>3, <1>5, <2>3, <3>3, <4>1, <4>2, <4>3, <4>4, OtherSeatIsKnown
    <3> QED
      BY <3>1, <3>2, <3>3
  <2> QED
    BY <2>3, <2>4, <2>5
<1> QED
  BY <1>5, <1>6, <1>7, <1>8, <1>11, <1>12, <1>13, OneRoomIsTold

LEMMA ReadyIsToldToAll ==
  ASSUME IInv, ToldType, Everyone, NEW s \in Sessions, ReadyIsTold(s), halted' = "no"
  PROVE  ToldType' /\ Everyone'
<1>1. InRoom(s) /\ s \in userManager /\ ~board[room[s]].gameFlag
  BY DEF ReadyIsTold, Ready, Halt, InRoom
<1>2. PICK q \in Rooms : q = room[s]
  BY <1>1, SeatedInRoom
<1>3. PICK a \in Accounts : a = account[s]
  BY <1>1, SeatedInRoom
<1>4. /\ ready' = [ready EXCEPT ![s] = TRUE]
      /\ board' = IF GameStarts(s) THEN [board EXCEPT ![q] = InitGameSetting(@)] ELSE board
      /\ UNCHANGED <<userManager, account, room, userMap, players>>
  BY <1>1, <1>2 DEF ReadyIsTold, Ready
<1>5. /\ told' = Tell(Roster(q), [t \in Sessions |-> [told[t] EXCEPT !.ready = @ \union {a},
                                                             !.game = @ \/ GameStarts(s)]])
      /\ UNCHANGED <<vanished, halfTold>>
  BY <1>2, <1>3 DEF ReadyIsTold
<1>6. TypeOK'
  BY ReadyStep DEF ReadyIsTold, IInv
<1>7. told' = [t \in Sessions |-> told'[t]] /\ \A t \in Sessions : t \notin Roster(q) => told'[t] = told[t]
  BY <1>5 DEF Tell
<1>8. /\ \A r \in Rooms \ {q} : board'[r] = board[r]
      /\ board'[q].gameFlag <=> board[q].gameFlag \/ GameStarts(s)
  <2>1. PICK b \in BoardType : b = board[q]
    BY DEF IInv, TypeOK
  <2>2. InitGameSetting(b).gameFlag = TRUE
    BY DEF InitGameSetting, GameStart, ResetOmok, BoardType
  <2>3. CASE GameStarts(s)
    BY <1>4, <2>1, <2>2, <2>3 DEF IInv, TypeOK
  <2>4. CASE ~GameStarts(s)
    BY <1>4, <2>4
  <2> QED
    BY <2>3, <2>4
<1>9. ASSUME NEW r \in Rooms \ {q}, NEW k \in Seats, players[r][k].sId \in userManager
      PROVE  ready'[players[r][k].sId] = ready[players[r][k].sId]
  <2>1. players[r][k].sId # s
    BY <1>2, <1>9, SeatedUser
  <2> QED
    BY <1>4, <1>9, <2>1 DEF IInv, TypeOK
<1>10. ASSUME NEW t \in Sessions, t \in Roster(q), Informed(t, q)
       PROVE  /\ told'[t] \in View /\ told'[t].members = told[t].members
              /\ KnowsGame(t, q)'
              /\ \A k \in Seats : KnowsSeat(t, q, k)'
  <2>1. PICK v \in View : v = told[t]
    BY DEF ToldType
  <2>2. PICK w : w = [v EXCEPT !.ready = v.ready \union {a}, !.game = v.game \/ GameStarts(s)]
    OBVIOUS
  <2>3. told'[t] = w
    BY <1>5, <1>10, <2>1, <2>2 DEF Tell, View
  <2>4. GameStarts(s) \in BOOLEAN
    BY DEF GameStarts, IInv, TypeOK
  <2>5. /\ w \in View /\ w.members = v.members /\ w.seats = v.seats
        /\ w.ready = v.ready \union {a} /\ w.game = (v.game \/ GameStarts(s))
    BY <2>2, <2>4 DEF View
  <2>6. KnowsGame(t, q)'
    <3>1. v.game = board[q].gameFlag
      BY <1>10, <2>1 DEF Informed, KnowsGame
    <3>2. board'[q].gameFlag \in BOOLEAN
      BY <1>6 DEF TypeOK, BoardType
    <3>3. told'[t].game = board'[q].gameFlag
      BY <1>8, <2>3, <2>5, <3>1, <3>2
    <3> QED
      BY <3>3 DEF KnowsGame
  <2>7. ASSUME NEW k \in Seats PROVE KnowsSeat(t, q, k)'
    <3>1. KnowsSeat(t, q, k) /\ told'[t].seats = told[t].seats /\ told'[t].ready = told[t].ready \union {a}
      BY <1>10, <2>1, <2>3, <2>5 DEF Informed
    <3>2. ASSUME NEW u \in userManager, room[u] = q, position[u] = k
          PROVE  \/ account[u] \in told'[t].ready <=> ready'[u]
                 \/ /\ ready'[u] = ready[u]
                    /\ account[u] \in told'[t].ready <=> account[u] \in told[t].ready
      <4>1. CASE u = s
        BY <1>3, <1>4, <3>1, <4>1 DEF IInv, TypeOK
      <4>2. CASE u # s
        <5>1. account[u] # a
          BY <1>1, <1>2, <1>3, <3>2, <4>2, UserInRoom, Nothing
        <5> QED
          BY <1>4, <3>1, <4>2, <5>1 DEF IInv, TypeOK
      <4> QED
        BY <4>1, <4>2
    <3> QED
      BY <1>4, <1>5, <3>1, <3>2, ReadyIsKnown
  <2> QED
    BY <2>1, <2>3, <2>5, <2>6, <2>7
<1> QED
  BY <1>4, <1>5, <1>6, <1>7, <1>8, <1>9, <1>10, OneRoomIsTold

LEMMA CancelIsTold ==
  ASSUME IInv, ToldType, Everyone, NEW s \in Sessions, CancelTold(s)
  PROVE  ToldType' /\ Everyone'
<1>1. InRoom(s) /\ s \in userManager
  BY DEF CancelTold, CancelReady, InRoom
<1>2. PICK q \in Rooms : q = room[s]
  BY <1>1, SeatedInRoom
<1>3. PICK a \in Accounts : a = account[s]
  BY <1>1, SeatedInRoom
<1>4. /\ ready' = [ready EXCEPT ![s] = FALSE]
      /\ UNCHANGED <<userManager, account, room, userMap, players, board>>
  BY DEF CancelTold, CancelReady, roomVars
<1>5. /\ told' = Tell(Roster(q), [t \in Sessions |-> [told[t] EXCEPT !.ready = @ \ {a}]])
      /\ UNCHANGED <<vanished, halfTold>>
  BY <1>2, <1>3 DEF CancelTold
<1>6. TypeOK'
  BY CancelReadyStep DEF CancelTold, IInv
<1>7. told' = [t \in Sessions |-> told'[t]] /\ \A t \in Sessions : t \notin Roster(q) => told'[t] = told[t]
  BY <1>5 DEF Tell
<1>8. ASSUME NEW r \in Rooms \ {q}, NEW k \in Seats, players[r][k].sId \in userManager
      PROVE  ready'[players[r][k].sId] = ready[players[r][k].sId]
  <2>1. players[r][k].sId # s
    BY <1>2, <1>8, SeatedUser
  <2> QED
    BY <1>4, <1>8, <2>1 DEF IInv, TypeOK
<1>9. ASSUME NEW t \in Sessions, t \in Roster(q), Informed(t, q)
      PROVE  /\ told'[t] \in View /\ told'[t].members = told[t].members
             /\ KnowsGame(t, q)'
             /\ \A k \in Seats : KnowsSeat(t, q, k)'
  <2>1. PICK v \in View : v = told[t]
    BY DEF ToldType
  <2>2. PICK w : w = [v EXCEPT !.ready = v.ready \ {a}]
    OBVIOUS
  <2>3. told'[t] = w
    BY <1>5, <1>9, <2>1, <2>2 DEF Tell, View
  <2>4. /\ w \in View /\ w.members = v.members /\ w.seats = v.seats
        /\ w.ready = v.ready \ {a} /\ w.game = v.game
    BY <2>2 DEF View
  <2>5. KnowsGame(t, q)'
    BY <1>4, <1>9, <2>1, <2>3, <2>4 DEF Informed, KnowsGame
  <2>6. ASSUME NEW k \in Seats PROVE KnowsSeat(t, q, k)'
    <3>1. KnowsSeat(t, q, k) /\ told'[t].seats = told[t].seats /\ told'[t].ready = told[t].ready \ {a}
      BY <1>9, <2>1, <2>3, <2>4 DEF Informed
    <3>2. ASSUME NEW u \in userManager, room[u] = q, position[u] = k
          PROVE  \/ account[u] \in told'[t].ready <=> ready'[u]
                 \/ /\ ready'[u] = ready[u]
                    /\ account[u] \in told'[t].ready <=> account[u] \in told[t].ready
      <4>1. CASE u = s
        BY <1>3, <1>4, <3>1, <4>1 DEF IInv, TypeOK
      <4>2. CASE u # s
        <5>1. account[u] # a
          BY <1>1, <1>2, <1>3, <3>2, <4>2, UserInRoom, Nothing
        <5> QED
          BY <1>4, <3>1, <4>2, <5>1 DEF IInv, TypeOK
      <4> QED
        BY <4>1, <4>2
    <3> QED
      BY <1>4, <1>5, <3>1, <3>2, ReadyIsKnown
  <2> QED
    BY <2>1, <2>3, <2>4, <2>5, <2>6
<1> QED
  BY <1>4, <1>5, <1>6, <1>7, <1>8, <1>9, OneRoomIsTold

\* The move that ends a game clears the ready flags of both players, and they are
\* the only users on a seat of the room.
LEMMA StoneIsTold ==
  ASSUME IInv, ToldType, Everyone, NEW s \in Sessions, NEW p \in Points, StoneTold(s, p), halted' = "no"
  PROVE  ToldType' /\ Everyone'
<1> DEFINE after == AfterMove(board[room[s]], p, position[s])
<1>1. InRoom(s) /\ s \in userManager /\ position[s] \in Seats /\ board[room[s]].gameFlag
  BY DEF StoneTold, PutStone, MoveAllowed, InRoom
<1>2. PICK q \in Rooms : q = room[s]
  BY <1>1, SeatedInRoom
<1>3. PICK a \in Accounts : a = account[s]
  BY <1>1, SeatedInRoom
<1>4. ~(~after.gameFlag /\ Opponent(s) = None)
  BY DEF StoneTold, PutStone, Halt
<1>5. /\ board' = [board EXCEPT ![q] = after]
      /\ ready' = IF after.gameFlag THEN ready ELSE ReadyAfterGame(s)
      /\ UNCHANGED <<userManager, account, room, userMap, players>>
  BY <1>2, <1>4 DEF StoneTold, PutStone
<1>6. TypeOK'
  BY PutStoneStep DEF StoneTold, IInv
<1>7. board'[q] = after /\ \A r \in Rooms \ {q} : board'[r] = board[r]
  BY <1>5 DEF IInv, TypeOK
<1>8. /\ told' = IF after.gameFlag THEN told
                 ELSE Tell(Roster(q), [t \in Sessions |->
                             [told[t] EXCEPT !.game = FALSE, !.ready = @ \ {a, account[Opponent(s)]}]])
      /\ UNCHANGED <<vanished, halfTold>>
  BY <1>1, <1>2, <1>3, <1>7 DEF StoneTold
<1>9. told' = [t \in Sessions |-> told'[t]] /\ \A t \in Sessions : t \notin Roster(q) => told'[t] = told[t]
  BY <1>8 DEF Tell, ToldType
<1>10. ASSUME NEW r \in Rooms \ {q}, NEW k \in Seats, players[r][k].sId \in userManager
       PROVE  ready'[players[r][k].sId] = ready[players[r][k].sId]
  <2>1. PICK u \in userManager : u = players[r][k].sId
    BY <1>10
  <2>2. room[u] = r /\ u \in Sessions
    BY <1>10, <2>1, SeatedUser DEF IInv, TypeOK
  <2>3. u # s /\ u # Opponent(s)
    BY <1>1, <1>2, <2>1, <2>2, Nothing DEF Opponent, IInv, TypeOK, RosterMatchesUsers, Seats, Player
  <2>4. ready'[u] = ready[u]
    BY <1>5, <2>2, <2>3 DEF ReadyAfterGame, IInv, TypeOK
  <2> QED
    BY <2>1, <2>4
<1>11. ASSUME NEW t \in Sessions, t \in Roster(q), Informed(t, q)
       PROVE  /\ told'[t] \in View /\ told'[t].members = told[t].members
              /\ KnowsGame(t, q)'
              /\ \A k \in Seats : KnowsSeat(t, q, k)'
  <2>1. PICK v \in View : v = told[t]
    BY DEF ToldType
  <2>2. CASE after.gameFlag
    <3>1. told' = told /\ ready' = ready
      BY <1>5, <1>8, <2>2
    <3>2. after.gameFlag = board[q].gameFlag
      BY <1>1, <1>2, <1>6, <1>7, <2>2 DEF IInv, TypeOK, BoardType
    <3>3. KnowsGame(t, q)'
      BY <1>7, <1>11, <3>1, <3>2 DEF Informed, KnowsGame
    <3>4. ASSUME NEW k \in Seats PROVE KnowsSeat(t, q, k)'
      BY <1>5, <1>8, <1>11, <3>1 DEF Informed, KnowsSeat
    <3> QED
      BY <2>1, <3>1, <3>3, <3>4
  <2>3. CASE ~after.gameFlag
    <3>1. PICK w : w = [v EXCEPT !.game = FALSE, !.ready = v.ready \ {a, account[Opponent(s)]}]
      OBVIOUS
    <3>2. told'[t] = w
      BY <1>8, <1>11, <2>1, <2>3, <3>1 DEF Tell, View
    <3>3. /\ w \in View /\ w.members = v.members /\ w.seats = v.seats
          /\ w.ready = v.ready \ {a, account[Opponent(s)]} /\ w.game = FALSE
      BY <3>1 DEF View
    <3>4. after.gameFlag = FALSE
      BY <1>6, <1>7, <2>3 DEF TypeOK, BoardType
    <3>5. KnowsGame(t, q)'
      BY <1>7, <3>2, <3>3, <3>4 DEF KnowsGame
    <3>6. ASSUME NEW k \in Seats PROVE KnowsSeat(t, q, k)'
      <4>1. KnowsSeat(t, q, k) /\ told'[t].seats = told[t].seats
        BY <1>11, <2>1, <3>2, <3>3 DEF Informed
      <4>2. ASSUME NEW u \in userManager, room[u] = q, position[u] = k
            PROVE  account[u] \notin told'[t].ready /\ ready'[u] = FALSE
        <5>1. u = s \/ u = Opponent(s)
          BY <1>1, <1>2, <4>2, OpponentIsSeated
        <5>2. u \in Sessions
          BY DEF IInv, TypeOK
        <5> QED
          BY <1>3, <1>5, <2>3, <3>2, <3>3, <5>1, <5>2 DEF ReadyAfterGame, IInv, TypeOK
      <4> QED
        BY <1>5, <1>8, <4>1, <4>2, ReadyIsKnown
    <3> QED
      BY <2>1, <3>2, <3>3, <3>5, <3>6
  <2> QED
    BY <2>2, <2>3
<1> QED
  BY <1>5, <1>6, <1>7, <1>8, <1>9, <1>10, <1>11, OneRoomIsTold
-----------------------------------------------------------------------------
(* Every job of the update thread, and the theorems.                         *)

LEMMA RoomInitialState == RoomInit => RoomInv
<1> SUFFICES ASSUME RoomInit PROVE RoomInv
  OBVIOUS
<1>1. IInv
  BY InitialState DEF RoomInit
<1>2. ToldType
  <2>1. NobodyTold \in View
    BY DEF NobodyTold, View
  <2> QED
    BY <2>1 DEF RoomInit, ToldType
<1>3. Everyone
  BY DEF RoomInit, Init, Everyone
<1> QED
  BY <1>1, <1>2, <1>3 DEF RoomInv

\* Stones are put on points of the board.
LEMMA NextPointIsPoint == ASSUME NEW s \in Sessions, NEW p \in NextPoint(s) PROVE p \in Points
<1> DEFINE free == {q \in Points : IsValidPos(board[room[s]].cells, q)}
<1>1. free # {} /\ p = CHOOSE q \in free : TRUE
  BY DEF NextPoint
<1>2. (CHOOSE q \in free : TRUE) \in free
  BY <1>1
<1> QED
  BY <1>1, <1>2

LEMMA RoomNextKeeps == RoomInv /\ [RoomNext]_<<vars, toldVars>> => RoomInv'
<1> DEFINE Told == IInv /\ ToldType /\ Everyone
<1> SUFFICES ASSUME RoomInv, [RoomNext]_<<vars, toldVars>>, Running' PROVE Told'
  BY DEF RoomInv
<1>1. halted' = "no"
  BY DEF Running
<1>2. ASSUME RoomNext PROVE Told'
  <2>1. PICK s \in Sessions :
           \/ CreateUser(s) /\ UNCHANGED toldVars
           \/ \E a \in Accounts : Login(s, a) /\ UNCHANGED toldVars
           \/ ReleaseUntold(s)
           \/ \E r \in Rooms : EnterTold(s, r) \/ EnterHalts(s, r)
           \/ LeaveIsTold(s)
           \/ RequestAfterRefusedLeave(s) /\ UNCHANGED toldVars
           \/ \E to \in 1 .. 3 : ChangeTold(s, to)
           \/ ReadyIsTold(s)
           \/ CancelTold(s)
           \/ \E p \in NextPoint(s) : StoneTold(s, p)
    BY <1>2 DEF RoomNext
  <2>2. Running
    BY <2>1 DEF CreateUser, Login, ReleaseUntold, ReleaseUser, EnterTold, EnterRoom, EnterHalts,
               LeaveIsTold, LeaveRoom, RequestAfterRefusedLeave, ChangeTold, ChangePosition,
               ReadyIsTold, Ready, CancelTold, CancelReady, StoneTold, PutStone, InRoom
  <2>3. IInv /\ ToldType /\ Everyone
    BY <2>2 DEF RoomInv
  <2>4. CASE CreateUser(s) /\ UNCHANGED toldVars
    BY <2>3, <2>4, CreateUserStep, CreateUserUntold
  <2>5. ASSUME NEW a \in Accounts, Login(s, a) /\ UNCHANGED toldVars PROVE Told'
    BY <2>3, <2>5, LoginStep, LoginUntold
  <2>6. CASE ReleaseUntold(s)
    <3>1. ReleaseUser(s)
      BY <2>6 DEF ReleaseUntold
    <3> QED
      BY <1>1, <2>3, <2>6, <3>1, ReleaseUserStep, ReleaseIsUntold
  <2>7. ASSUME NEW r \in Rooms, EnterTold(s, r) PROVE Told'
    <3>1. EnterRoom(s, r)
      BY <2>7 DEF EnterTold
    <3> QED
      BY <2>3, <2>7, <3>1, EnterRoomStep, EnterIsTold
  <2>8. ASSUME NEW r \in Rooms, EnterHalts(s, r) PROVE Told'
    BY <1>1, <2>8 DEF EnterHalts, Halt
  <2>9. CASE LeaveIsTold(s)
    <3>1. LeaveRoom(s)
      BY <2>9 DEF LeaveIsTold
    <3> QED
      BY <1>1, <2>3, <2>9, <3>1, LeaveRoomStep, LeaveIsToldToAll
  <2>10. CASE RequestAfterRefusedLeave(s)
    BY <1>1, <2>10 DEF RequestAfterRefusedLeave, Halt
  <2>11. ASSUME NEW to \in 1 .. 3, ChangeTold(s, to) PROVE Told'
    <3>1. ChangePosition(s, to)
      BY <2>11 DEF ChangeTold
    <3> QED
      BY <1>1, <2>3, <2>11, <3>1, ChangePositionStep, ChangeIsTold
  <2>12. CASE ReadyIsTold(s)
    <3>1. Ready(s)
      BY <2>12 DEF ReadyIsTold
    <3> QED
      BY <1>1, <2>3, <2>12, <3>1, ReadyStep, ReadyIsToldToAll
  <2>13. CASE CancelTold(s)
    <3>1. CancelReady(s)
      BY <2>13 DEF CancelTold
    <3> QED
      BY <2>3, <2>13, <3>1, CancelReadyStep, CancelIsTold
  <2>14. ASSUME NEW p \in NextPoint(s), StoneTold(s, p) PROVE Told'
    <3>1. p \in Points /\ PutStone(s, p)
      BY <2>14, NextPointIsPoint DEF StoneTold
    <3> QED
      BY <1>1, <2>3, <2>14, <3>1, PutStoneStep, StoneIsTold
  <2> QED
    BY <2>1, <2>4, <2>5, <2>6, <2>7, <2>8, <2>9, <2>10, <2>11, <2>12, <2>13, <2>14
<1>3. CASE UNCHANGED <<vars, toldVars>>
  <2>1. UNCHANGED vars /\ UNCHANGED <<told, vanished, halfTold>>
    BY <1>3 DEF toldVars
  <2>2. UNCHANGED <<userManager, account, room, ready, userMap, players, board, halted>>
    BY <2>1 DEF vars, userVars, roomVars
  <2>3. IInv /\ ToldType /\ Everyone
    BY <1>1, <2>2 DEF RoomInv, Running
  <2>4. IInv'
    BY <2>1, <2>3, NextKeepsIInv
  <2>5. ToldType'
    BY <2>1, <2>3 DEF ToldType
  <2>6. Everyone'
    BY <2>1, <2>2, <2>3 DEF Everyone, Informed, KnowsMembers, KnowsGame, KnowsSeat, Members
  <2> QED
    BY <2>4, <2>5, <2>6
<1> QED
  BY <1>2, <1>3

\* What the members know follows the tables of the server, as long as it runs.
THEOREM MembersAreInformed == RoomSpec => []RoomInv
<1> QED
  BY RoomInitialState, RoomNextKeeps, PTL DEF RoomSpec

\* A member knows who is in the room, but for those whose connection went, and
\* whether a game runs, in whatever order the others come, go and play.
THEOREM RoomIsSeen == RoomSpec => []MembersSeeTheRoom
<1>1. RoomInv => MembersSeeTheRoom
  <2> SUFFICES ASSUME RoomInv, Running, NEW r \in Rooms, NEW s \in Present(r)
               PROVE  /\ told[s].members = Members(r) \union vanished[s]
                      /\ told[s].game = board[r].gameFlag
    BY DEF MembersSeeTheRoom
  <2>1. Informed(s, r)
    BY Nothing DEF RoomInv, Everyone, Present
  <2> QED
    BY <2>1 DEF Informed, KnowsMembers, KnowsGame
<1> QED
  BY <1>1, MembersAreInformed, PTL

\* A member knows who sits where and is ready, as far as the session on the seat
\* is there and the member was told the seats when it entered.
THEOREM SeatsAreSeen == RoomSpec => []MembersSeeTheSeats
<1>1. RoomInv => MembersSeeTheSeats
  <2> SUFFICES ASSUME RoomInv, Running, NEW r \in Rooms, NEW s \in Present(r), NEW k \in Seats
               PROVE  KnowsSeat(s, r, k)
    BY DEF MembersSeeTheSeats, KnowsSeat
  <2>1. Informed(s, r)
    BY Nothing DEF RoomInv, Everyone, Present
  <2> QED
    BY <2>1 DEF Informed
<1> QED
  BY <1>1, MembersAreInformed, PTL

-----------------------------------------------------------------------------
(* What fits into a packet, for every name and every chat a client can send: *)
(* the buffer of the constructor of CPacket has 512 bytes, of which two are  *)
(* the header's; a nickname has up to 19 characters and a chat up to 127, by *)
(* the buffers that LoginProcedure and ChattingProcedure read them into.     *)

ServerBuffer == BufferSize = 512 /\ HeaderSize = 2
Names == 1 .. 19
Chats == 1 .. 127

ServerLayout == ServerBuffer /\ NameLength \in Names /\ ChatLength \in Chats

\* Every answer of the handlers fits, whatever the request was, because it is
\* written from the start of the request's packet.
THEOREM AnswersFit ==
  ASSUME ServerBuffer, NEW name \in Names, NEW chat \in Chats
  PROVE  /\ P!Fits(P!LoginAnswer(name)) /\ P!Fits(P!RoomListAnswer)
         /\ P!Fits(P!EnterAnswer) /\ P!Fits(P!LeaveAnswer)
         /\ P!Fits(P!ChatAnswer(name, chat)) /\ P!Fits(P!PositionAnswer(name))
         /\ P!Fits(P!ReadyAnswer) /\ P!Fits(P!CancelAnswer) /\ P!Fits(P!StoneAnswer)
         /\ P!Fits(P!ShutdownAnswer)
<1>1. /\ BufferSize = 512 /\ HeaderSize = 2
      /\ name \in Nat /\ name <= 19 /\ chat \in Nat /\ chat <= 127
  BY DEF ServerBuffer, Names, Chats
<1> USE <1>1 DEF P!Fits, P!Clear, P!Type, P!AccountNo, P!RoomNo, P!Byte, P!Text
<1>2. P!Fits(P!LoginAnswer(name)) /\ P!Fits(P!RoomListAnswer)
  BY DEF P!LoginAnswer, P!RoomListAnswer
<1>3. P!Fits(P!EnterAnswer) /\ P!Fits(P!LeaveAnswer)
  BY DEF P!EnterAnswer, P!LeaveAnswer
<1>4. P!Fits(P!ChatAnswer(name, chat)) /\ P!Fits(P!PositionAnswer(name))
  BY DEF P!ChatAnswer, P!PositionAnswer
<1>5. P!Fits(P!ReadyAnswer) /\ P!Fits(P!CancelAnswer) /\ P!Fits(P!StoneAnswer) /\ P!Fits(P!ShutdownAnswer)
  BY DEF P!ReadyAnswer, P!CancelAnswer, P!StoneAnswer, P!ShutdownAnswer
<1> QED
  BY <1>2, <1>3, <1>4, <1>5

\* Every alarm but the list of members fits.
THEOREM AlarmsFit ==
  ASSUME ServerBuffer, NEW name \in Names
  PROVE  /\ P!Fits(P!EnterAlarm(name)) /\ P!Fits(P!LeaveAlarm(name)) /\ P!Fits(P!PlayerAlarm(name))
         /\ P!Fits(P!StartAlarm) /\ P!Fits(P!GameOverAlarm(name))
<1>1. BufferSize = 512 /\ HeaderSize = 2 /\ name \in Nat /\ name <= 19
  BY DEF ServerBuffer, Names
<1> USE <1>1 DEF P!Fits, P!Clear, P!NewPacket, P!Type, P!RoomNo, P!Byte, P!Text
<1>2. P!Fits(P!EnterAlarm(name)) /\ P!Fits(P!LeaveAlarm(name)) /\ P!Fits(P!PlayerAlarm(name))
  BY DEF P!EnterAlarm, P!LeaveAlarm, P!PlayerAlarm
<1>3. P!Fits(P!StartAlarm) /\ P!Fits(P!GameOverAlarm(name))
  BY DEF P!StartAlarm, P!GameOverAlarm
<1> QED
  BY <1>2, <1>3

\* The list of members fits with the longest names as long as there are no more
\* than twelve of them: a room for twenty has room for lists that do not.
THEOREM RosterLimit ==
  ASSUME ServerBuffer, NEW others \in Nat
  PROVE  P!Fits(P!MembersAlarm(others, 19)) <=> others <= 12
<1>1. P!MembersAlarm(others, 19) = 15 + 39 * others
  BY DEF ServerBuffer, P!MembersAlarm, P!NewPacket, P!Clear, P!Type, P!AccountNo, P!RoomNo, P!Byte, P!Text
<1> QED
  BY <1>1 DEF ServerBuffer, P!Fits

\* Names that are short enough do not depend on it: up to eleven characters, the
\* list of a full room fits.
THEOREM ShortNamesFit ==
  ASSUME ServerBuffer, NEW others \in 0 .. 19, NEW name \in 1 .. 11
  PROVE  P!Fits(P!MembersAlarm(others, name))
<1>1. others * (1 + 2 * name) <= 19 * 23
  <2>1. 1 + 2 * name \in 0 .. 23 /\ others \in 0 .. 19
    OBVIOUS
  <2>2. ASSUME NEW n \in 0 .. 23, NEW k \in 0 .. 19 PROVE k * n <= 19 * 23
    <3>1. k * n <= 19 * n
      OBVIOUS
    <3> QED
      BY <3>1
  <2> QED
    BY <2>1, <2>2
<1>2. P!MembersAlarm(others, name) = 15 + others * (1 + 2 * name)
  BY DEF ServerBuffer, P!MembersAlarm, P!NewPacket, P!Clear, P!Type, P!AccountNo, P!RoomNo, P!Byte, P!Text
<1>3. others * (1 + 2 * name) \in Int
  OBVIOUS
<1> QED
  BY <1>1, <1>2, <1>3 DEF ServerBuffer, P!Fits

LEMMA OthersFit == ASSUME ServerLayout PROVE \A pPush \in OtherPackets : P!Fits(pPush)
  BY AnswersFit, AlarmsFit DEF ServerLayout, OtherPackets

\* A packet was found too short, by a user who entered a room that was not full.
RosterOverflows ==
  halted = "packetFull" => \E r \in Rooms : RosterTooLong(r) /\ Cardinality(Members(r)) < MaxRoomUsers

LEMMA RosterOverflowsNext == RosterOverflows /\ [RoomNext]_<<vars, toldVars>> => RosterOverflows'
<1> SUFFICES ASSUME RosterOverflows, [RoomNext]_<<vars, toldVars>>, halted' = "packetFull"
             PROVE  \E r \in Rooms : RosterTooLong(r)' /\ Cardinality(Members(r))' < MaxRoomUsers
  BY DEF RosterOverflows
<1>1. ASSUME NEW s \in Sessions, NEW r \in Rooms, EnterHalts(s, r)
      PROVE  RosterTooLong(r)' /\ Cardinality(Members(r))' < MaxRoomUsers
  <2>1. RosterTooLong(r) /\ ~RoomIsFull(r) /\ userMap' = userMap
    BY <1>1 DEF EnterHalts, Halt, roomVars
  <2>2. Members(r)' = Members(r)
    BY <2>1 DEF Members
  <2>3. IsFiniteSet(Members(r)) /\ Cardinality(Members(r)) \in Nat
    <3>1. Members(r) \in SUBSET Accounts
      BY DEF Members
    <3> QED
      BY <3>1, FS_Subset, FS_CardinalityType, ServerAssumption
  <2>4. Cardinality(Members(r)) < MaxRoomUsers
    BY <2>1, <2>3, ServerAssumption DEF RoomIsFull
  <2> QED
    BY <2>1, <2>2, <2>4 DEF RosterTooLong
<1>2. CASE RoomNext /\ ~\E s \in Sessions, r \in Rooms : EnterHalts(s, r)
  <2>1. ASSUME NEW s \in Sessions PROVE ReleaseHalts(s) # "packetFull" /\ LeaveHalts(s) # "packetFull"
    BY DEF ReleaseHalts, LeaveHalts
  <2>2. PICK s \in Sessions :
           \/ CreateUser(s) /\ UNCHANGED toldVars
           \/ \E a \in Accounts : Login(s, a) /\ UNCHANGED toldVars
           \/ ReleaseUntold(s)
           \/ \E r \in Rooms : EnterTold(s, r)
           \/ LeaveIsTold(s)
           \/ RequestAfterRefusedLeave(s) /\ UNCHANGED toldVars
           \/ \E to \in 1 .. 3 : ChangeTold(s, to)
           \/ ReadyIsTold(s)
           \/ CancelTold(s)
           \/ \E p \in NextPoint(s) : StoneTold(s, p)
    BY <1>2 DEF RoomNext
  <2>3. CASE ReleaseUntold(s)
    BY <2>1, <2>3 DEF ReleaseUntold, ReleaseUser, Running, Halt
  <2>4. CASE LeaveIsTold(s)
    BY <2>1, <2>4 DEF LeaveIsTold, LeaveRoom, InRoom, Running, Halt
  <2>5. CASE CreateUser(s) \/ \E a \in Accounts : Login(s, a)
    BY <2>5 DEF CreateUser, Login, Running
  <2>6. CASE \E r \in Rooms : EnterTold(s, r)
    BY <2>6 DEF EnterTold, EnterRoom, Running
  <2>7. CASE RequestAfterRefusedLeave(s)
    BY <2>7 DEF RequestAfterRefusedLeave, Halt
  <2>8. CASE \E to \in 1 .. 3 : ChangeTold(s, to)
    BY <2>8 DEF ChangeTold, ChangePosition, InRoom, Running, Halt
  <2>9. CASE ReadyIsTold(s)
    BY <2>9 DEF ReadyIsTold, Ready, InRoom, Running, Halt
  <2>10. CASE CancelTold(s)
    BY <2>10 DEF CancelTold, CancelReady, InRoom, Running
  <2>11. CASE \E p \in NextPoint(s) : StoneTold(s, p)
    <3>1. PICK p : PutStone(s, p)
      BY <2>11 DEF StoneTold
    <3> QED
      BY <3>1 DEF PutStone, InRoom, Running, Halt
  <2> QED
    BY <2>2, <2>3, <2>4, <2>5, <2>6, <2>7, <2>8, <2>9, <2>10, <2>11
<1>3. CASE UNCHANGED <<vars, toldVars>>
  <2>1. UNCHANGED <<halted, userMap>>
    BY <1>3 DEF vars, roomVars
  <2>2. \A r \in Rooms : Members(r)' = Members(r)
    BY <2>1 DEF Members
  <2> QED
    BY <2>1, <2>2 DEF RosterOverflows, RosterTooLong
<1> QED
  BY <1>1, <1>2, <1>3

\* With the server's buffer the list of members is the one packet that can
\* outgrow it, and it does in a room that is not full.
THEOREM RostersOverflowOnly == ServerLayout /\ RoomSpec => []OnlyRostersOverflow
<1>1. RoomInit => RosterOverflows
  BY DEF RoomInit, Init, RosterOverflows
<1>2. ServerLayout /\ RosterOverflows => OnlyRostersOverflow
  BY OthersFit DEF RosterOverflows, OnlyRostersOverflow
<1>3. ASSUME ServerLayout PROVE RoomSpec => []OnlyRostersOverflow
  <2>1. RosterOverflows => OnlyRostersOverflow
    BY <1>2, <1>3
  <2> QED
    BY <1>1, <2>1, RosterOverflowsNext, PTL DEF RoomSpec
<1> QED
  BY <1>3
=============================================================================
