----------------------------- MODULE GameServer -----------------------------
(* CServer: the users, rooms and games, changed only by the update thread,   *)
(* which takes one job after the other: a session was accepted, a session    *)
(* was released, a request arrived.  Each of these is one action.            *)
(*                                                                           *)
(* A handler that answers "no" and changes nothing is a stuttering step and  *)
(* has no action of its own.  DebugBreak, with no debugger attached, ends    *)
(* the process; so do a write through a null pointer and the erase of an     *)
(* iterator at the end.  They set `halted' to the reason, and nothing happens*)
(* afterwards.                                                               *)
(*                                                                           *)
(* Clients are taken to follow the protocol: they log in once, then send     *)
(* their own account, position and ready state and the room they were told   *)
(* they are in (`view'), and only players send player requests.              *)
EXTENDS OmokBoard

CONSTANTS
    Sessions,        \* session ids, never used twice (CNetLibrary counts them up)
    Accounts,        \* account numbers
    Rooms,           \* the rooms made by the constructor, 1 .. 500
    None,            \* no account, no session, no room (the 0 of the code)
    MaxRoomUsers,    \* the 20 of EnterRoomProcedure
    PlayerCntRange   \* bound: the values _playerCnt is followed over

\* Session ids and account numbers are 64 bits, room numbers are no names.
ASSUME ServerAssumption ==
    /\ None \notin Sessions \union Accounts \union Rooms
    /\ IsFiniteSet(Sessions) /\ IsFiniteSet(Accounts)
    /\ {"offline", "lobby"} \cap Rooms = {}
    /\ MaxRoomUsers \in Nat \ {0}
    /\ PlayerCntRange \subseteq Int /\ 0 \in PlayerCntRange

VARIABLES
    accepted,     \* the session ids given out so far
    userManager,  \* the sessions with a CUser
    account,      \* CUser::_accountNo
    room,         \* CUser::_roomInfo._inRoomNo
    position,     \* CUser::_roomInfo._state: 0 none, 1 and 2 players, 3 spectator
    ready,        \* CUser::_roomInfo._readyFlag
    accountKey,   \* CServer::_accountKey, the session logged in with an account
    userMap,      \* IRoom::_userMap, by room and account (the CUser* is its session)
    players,      \* CChatRoom::_players, by room and seat
    playerCnt,    \* CChatRoom::_playerCnt
    board,        \* CChatRoom::_omokBoard
    lobbyCount,   \* CServer::_lobbyPeopleCount
    roomCount,    \* CServer::_roomPeopleCount
    view,         \* the room the client was told it is in
    halted        \* "no", or why the process ended

userVars == <<account, room, position, ready, view>>
roomVars == <<userMap, players, playerCnt, board>>
countVars == <<lobbyCount, roomCount>>
vars == <<accepted, userManager, userVars, accountKey, roomVars, countVars, halted>>

Seats == 1 .. 2
Player == [accountNo : Accounts \union {None}, sId : Sessions \union {None}]
NoPlayer == [accountNo |-> None, sId |-> None]

Members(r) == {a \in Accounts : userMap[r][a] # None}

Init ==
    /\ accepted = {}
    /\ userManager = {}
    /\ account = [s \in Sessions |-> None]
    /\ room = [s \in Sessions |-> None]
    /\ position = [s \in Sessions |-> 0]
    /\ ready = [s \in Sessions |-> FALSE]
    /\ accountKey = [a \in Accounts |-> None]
    /\ userMap = [r \in Rooms |-> [a \in Accounts |-> None]]
    /\ players = [r \in Rooms |-> [k \in Seats |-> NoPlayer]]
    /\ playerCnt = [r \in Rooms |-> 0]
    /\ board \in [Rooms -> NewBoards]
    /\ lobbyCount = 0
    /\ roomCount = 0
    /\ view = [s \in Sessions |-> None]
    /\ halted = "no"

\* DebugBreak, or a bad pointer, has not ended the process yet.
Running == halted = "no"

Halt(why) ==
    /\ halted' = why
    /\ UNCHANGED <<accepted, userManager, userVars, accountKey, roomVars, countVars>>

-----------------------------------------------------------------------------
(* Joining, logging in, leaving the server.                                  *)

\* CServer::CreateUser, the job of OnClientJoin.
CreateUser(s) ==
    /\ Running
    /\ s \notin accepted
    /\ accepted' = accepted \union {s}
    /\ userManager' = userManager \union {s}
    /\ UNCHANGED <<userVars, accountKey, roomVars, countVars, halted>>

\* Mutant of LoginRefused: an account that is logged in may log in again.
LoginNeverRefused(a) == FALSE

\* An account with an entry in _accountKey is not logged in a second time: the
\* handler disconnects a session and returns.
LoginRefused(a) == accountKey[a] # None

\* CServer::LoginProcedure.
Login(s, a) ==
    /\ Running
    /\ s \in userManager
    /\ account[s] = None
    /\ ~LoginRefused(a)
    /\ account' = [account EXCEPT ![s] = a]
    /\ accountKey' = [accountKey EXCEPT ![a] = s]
    /\ lobbyCount' = lobbyCount + 1
    /\ UNCHANGED <<accepted, userManager, room, position, ready, view, roomVars, roomCount, halted>>

\* The CUser of s is freed: its fields are those the constructor gives the next one.
Forget(s) ==
    /\ account' = [account EXCEPT ![s] = None]
    /\ room' = [room EXCEPT ![s] = None]
    /\ position' = [position EXCEPT ![s] = 0]
    /\ ready' = [ready EXCEPT ![s] = FALSE]
    /\ view' = [view EXCEPT ![s] = None]

\* Mutant of LeavesRoster: the room keeps its pointer to the user.
StaysInRoster(s) == userMap

\* IRoom::EraseUser for the user of s, in the room it is in.
LeavesRoster(s) == [userMap EXCEPT ![room[s]][account[s]] = None]

\* Mutant of LobbyAfterRelease: a user who was in a room is counted down in the lobby too.
LobbyAfterReleaseAlwaysDown(s) == lobbyCount - 1

LobbyAfterRelease(s) == IF room[s] = None THEN lobbyCount - 1 ELSE lobbyCount

\* What the handler asserts or relies on while it releases s, "no" when all of it holds.
ReleaseHalts(s) ==
    IF account[s] = None THEN "notLoggedIn"
    ELSE IF accountKey[account[s]] = None THEN "noKey"
    ELSE IF room[s] # None /\ userMap[room[s]][account[s]] = None THEN "notInRoster"
    ELSE "no"

\* CServer::ReleaseUser, the job of OnClientLeave.  A user in a game leaves its
\* seat, the game flag and _playerCnt behind.
ReleaseUser(s) ==
    /\ Running
    /\ s \in userManager
    /\ IF ReleaseHalts(s) # "no" THEN Halt(ReleaseHalts(s))
       ELSE /\ userManager' = userManager \ {s}
            /\ accountKey' = [accountKey EXCEPT ![account[s]] = None]
            /\ Forget(s)
            /\ userMap' = IF room[s] = None THEN userMap ELSE LeavesRoster(s)
            /\ lobbyCount' = LobbyAfterRelease(s)
            /\ roomCount' = IF room[s] = None THEN roomCount ELSE roomCount - 1
            /\ UNCHANGED <<accepted, players, playerCnt, board, halted>>

-----------------------------------------------------------------------------
(* Entering and leaving a room.                                              *)

\* Mutant of RoomIsFull: a room takes one user more than it should.
RoomIsOverFull(r) == Cardinality(Members(r)) > MaxRoomUsers

RoomIsFull(r) == Cardinality(Members(r)) >= MaxRoomUsers

\* EnterSuccess puts the user on the roster.  AddUser inserts, it does not overwrite.
EntersRoster(s, r) ==
    IF userMap[r][account[s]] = None THEN [userMap EXCEPT ![r][account[s]] = s] ELSE userMap

\* CServer::EnterRoomProcedure.
EnterRoom(s, r) ==
    /\ Running
    /\ s \in userManager
    /\ account[s] # None
    /\ view[s] = None
    /\ room[s] = None
    /\ ~RoomIsFull(r)
    /\ room' = [room EXCEPT ![s] = r]
    /\ view' = [view EXCEPT ![s] = r]
    /\ position' = [position EXCEPT ![s] = 3]
    /\ userMap' = EntersRoster(s, r)
    /\ lobbyCount' = lobbyCount - 1
    /\ roomCount' = roomCount + 1
    /\ UNCHANGED <<accepted, userManager, account, ready, accountKey, players, playerCnt, board, halted>>

\* The client of s sends a request about the room it was told it is in, and is there.
InRoom(s) == Running /\ s \in userManager /\ room[s] # None /\ view[s] = room[s]

\* The seat of s does not hold s: CChatRoom::CancelPlayer asserts that it does.
SeatLost(s) ==
    /\ position[s] \in Seats
    /\ players[room[s]][position[s]] # [accountNo |-> account[s], sId |-> s]

\* CChatRoom::CancelPlayer.
SeatGivenUp(s) ==
    IF position[s] \in Seats THEN [players EXCEPT ![room[s]][position[s]] = NoPlayer] ELSE players

LeaveHalts(s) ==
    IF SeatLost(s) THEN "seatLost"
    ELSE IF userMap[room[s]][account[s]] = None THEN "notInRoster"
    ELSE "no"

\* The status of the answer to a leave: during a game it is "no".
ToldItLeft(s) == ~board[room[s]].gameFlag

\* CServer::LeaveRoomProcedure.  The user always leaves; if the answer says that
\* it did not, the client goes on as a member of the room.
LeaveRoom(s) ==
    /\ InRoom(s)
    /\ IF LeaveHalts(s) # "no" THEN Halt(LeaveHalts(s))
       ELSE /\ players' = SeatGivenUp(s)
            /\ ready' = [ready EXCEPT ![s] = FALSE]
            /\ position' = [position EXCEPT ![s] = 0]
            /\ userMap' = LeavesRoster(s)
            /\ room' = [room EXCEPT ![s] = None]
            /\ view' = IF ToldItLeft(s) THEN [view EXCEPT ![s] = None] ELSE view
            /\ lobbyCount' = lobbyCount + 1
            /\ roomCount' = roomCount - 1
            /\ UNCHANGED <<accepted, userManager, account, accountKey, playerCnt, board, halted>>

\* A client that was told its leave failed sends its next request about the
\* room: chat, position, ready, cancel and stone assert that the user is in that
\* room, a second leave erases the iterator at the end of the roster.
RequestAfterRefusedLeave(s) ==
    /\ Running
    /\ s \in userManager
    /\ view[s] # None
    /\ room[s] # view[s]
    /\ Halt("roomMismatch")

-----------------------------------------------------------------------------
(* Seats.                                                                    *)

\* Mutant of SeatFree: a taken seat may be taken.
SeatAlwaysFree(r, k) == TRUE

\* CChatRoom::IsPossibleChangePositionPlayer.
SeatFree(r, k) == players[r][k].accountNo = None

SeatChangeOpen(r) == ~board[r].gameFlag

\* pCountUp and pCountDown: a player who gives up a seat is counted down in
\* ChangePosition, and once more when the new position is spectator.
CountAfterChange(s, to) ==
    playerCnt[room[s]] + (IF position[s] \in Seats THEN -1 ELSE 0) + (IF to \in Seats THEN 1 ELSE -1)

\* CServer::ChangePosition and ChangeSuccess.
ChangePosition(s, to) ==
    /\ InRoom(s)
    /\ position[s] # to
    /\ SeatChangeOpen(room[s])
    /\ to \in Seats => SeatFree(room[s], to)
    /\ CountAfterChange(s, to) \in PlayerCntRange
    /\ IF SeatLost(s) THEN Halt("seatLost")
       ELSE /\ ready' = [ready EXCEPT ![s] = FALSE]
            /\ position' = [position EXCEPT ![s] = to]
            /\ playerCnt' = [playerCnt EXCEPT ![room[s]] = CountAfterChange(s, to)]
            /\ players' = IF to \in Seats
                          THEN [SeatGivenUp(s) EXCEPT
                                  ![room[s]][to] = [accountNo |-> account[s], sId |-> s]]
                          ELSE SeatGivenUp(s)
            /\ UNCHANGED <<accepted, userManager, account, room, view, accountKey, userMap,
                           board, countVars, halted>>

-----------------------------------------------------------------------------
(* Games.                                                                    *)

\* The session of the user that room[s] finds under the account on the other seat.
Opponent(s) ==
    LET a == players[room[s]][3 - position[s]].accountNo
    IN  IF a = None THEN None ELSE userMap[room[s]][a]

\* Mutants of GameStarts: the opponent need not be ready; the start is looked for
\* when the player on the first seat becomes ready only.
GameStartsUnready(s) == Opponent(s) # None
GameStartsFirstSeat(s) == position[s] = 1 /\ Opponent(s) # None /\ ready[Opponent(s)]

\* GameStartProcedure, after s has become ready.
GameStarts(s) == Opponent(s) # None /\ (ready[Opponent(s)] \/ Opponent(s) = s)

\* CServer::Ready.  Ready asserts that no game runs.
Ready(s) ==
    /\ InRoom(s)
    /\ position[s] \in Seats
    /\ ~ready[s]
    /\ IF board[room[s]].gameFlag THEN Halt("readyInGame")
       ELSE /\ ready' = [ready EXCEPT ![s] = TRUE]
            /\ board' = IF GameStarts(s)
                        THEN [board EXCEPT ![room[s]] = InitGameSetting(@)] ELSE board
            /\ UNCHANGED <<accepted, userManager, account, room, position, view, accountKey,
                           userMap, players, playerCnt, countVars, halted>>

\* Mutant of CancelRefused: ready can be taken back during a game.
CancelNeverRefused(r) == FALSE

CancelRefused(r) == board[r].gameFlag

\* CServer::CancelReady.
CancelReady(s) ==
    /\ InRoom(s)
    /\ position[s] \in Seats
    /\ ready[s]
    /\ ~CancelRefused(room[s])
    /\ ready' = [ready EXCEPT ![s] = FALSE]
    /\ UNCHANGED <<accepted, userManager, account, room, position, view, accountKey, roomVars,
                   countVars, halted>>

\* Mutant of ReadyAfterGame: only the winner's flag is cleared.
ReadyAfterGameOne(s) == [ready EXCEPT ![s] = FALSE]

\* CUser::GameClear for both players.
ReadyAfterGame(s) == [ready EXCEPT ![s] = FALSE, ![Opponent(s)] = FALSE]

\* CServer::PutStone and GameOverProcedure, which dereferences the opponent
\* without looking whether the room still has one.
PutStone(s, p) ==
    /\ InRoom(s)
    /\ position[s] \in Seats
    /\ MoveAllowed(board[room[s]], p, position[s])
    /\ LET after == AfterMove(board[room[s]], p, position[s])
       IN  IF ~after.gameFlag /\ Opponent(s) = None
           THEN Halt("nullOpponent")
           ELSE /\ board' = [board EXCEPT ![room[s]] = after]
                /\ ready' = IF after.gameFlag THEN ready ELSE ReadyAfterGame(s)
                /\ UNCHANGED <<accepted, userManager, account, room, position, view, accountKey,
                               userMap, players, playerCnt, countVars, halted>>

-----------------------------------------------------------------------------

\* CServer::UpdateThread and Recv: the next job.
Next ==
    \E s \in Sessions :
        \/ CreateUser(s)
        \/ \E a \in Accounts : Login(s, a)
        \/ ReleaseUser(s)
        \/ \E r \in Rooms : EnterRoom(s, r)
        \/ LeaveRoom(s)
        \/ RequestAfterRefusedLeave(s)
        \/ \E to \in 1 .. 3 : ChangePosition(s, to)
        \/ Ready(s)
        \/ CancelReady(s)
        \/ \E p \in Points : PutStone(s, p)

Spec == Init /\ [][Next]_vars

-----------------------------------------------------------------------------
(* Properties.                                                               *)

TypeOK ==
    /\ userManager \subseteq accepted /\ accepted \subseteq Sessions
    /\ account \in [Sessions -> Accounts \union {None}]
    /\ room \in [Sessions -> Rooms \union {None}]
    /\ position \in [Sessions -> 0 .. 3]
    /\ ready \in [Sessions -> BOOLEAN]
    /\ accountKey \in [Accounts -> Sessions \union {None}]
    /\ userMap \in [Rooms -> [Accounts -> Sessions \union {None}]]
    /\ players \in [Rooms -> [Seats -> Player]]
    /\ playerCnt \in [Rooms -> PlayerCntRange]
    /\ board \in [Rooms -> BoardType]
    /\ lobbyCount \in Int
    /\ roomCount \in Int
    /\ view \in [Sessions -> Rooms \union {None}]
    /\ halted \in {"no", "notLoggedIn", "noKey", "notInRoster", "seatLost", "readyInGame",
                  "roomMismatch", "nullOpponent"}

\* _accountKey holds exactly the logged in sessions, each under its account:
\* two sessions never share an account, and no entry outlives its user.
KeysMatchUsers ==
    /\ \A a \in Accounts : accountKey[a] # None =>
          accountKey[a] \in userManager /\ account[accountKey[a]] = a
    /\ \A s \in userManager : account[s] # None => accountKey[account[s]] = s

\* A room's roster and its users' room numbers say the same.  In particular no
\* roster points to a CUser that was freed.
RosterMatchesUsers ==
    /\ \A r \in Rooms, a \in Accounts : userMap[r][a] # None =>
          /\ userMap[r][a] \in userManager
          /\ account[userMap[r][a]] = a
          /\ room[userMap[r][a]] = r
    /\ \A s \in userManager : room[s] # None =>
          account[s] # None /\ userMap[room[s]][account[s]] = s

\* A player sits on the seat its position names, and a seat that names a live
\* session is the seat of that session: so no two users hold one seat, and no
\* user two.  A seat may outlive its session (ReleaseUser does not clear it).
SeatsMatchPositions ==
    /\ \A s \in userManager : position[s] \in Seats =>
          room[s] # None /\ players[room[s]][position[s]] = [accountNo |-> account[s], sId |-> s]
    /\ \A r \in Rooms, k \in Seats : players[r][k].sId \in userManager =>
          room[players[r][k].sId] = r /\ position[players[r][k].sId] = k

\* Only players are ready, and during a game every player still in the room is:
\* taking ready back never overlaps a game.
ReadyMatchesGame ==
    /\ \A s \in userManager : ready[s] => position[s] \in Seats
    /\ \A s \in userManager : position[s] \in Seats /\ room[s] # None =>
          (board[room[s]].gameFlag => ready[s])

\* The two counters the monitor prints are the people in the lobby and in rooms.
CountersMatchUsers ==
    /\ lobbyCount = Cardinality({s \in userManager : account[s] # None /\ room[s] = None})
    /\ roomCount = Cardinality({s \in userManager : room[s] # None})

\* The key table, the rosters, the seats, the ready flags and the counters, each
\* changed by several handlers, tell one story of who is where.
TablesMatchUsers ==
    /\ KeysMatchUsers
    /\ RosterMatchesUsers
    /\ SeatsMatchPositions
    /\ ReadyMatchesGame
    /\ CountersMatchUsers

\* The assertions of the handlers that clients following the protocol can never
\* trip: seat, key and roster are found where CancelPlayer, ReleaseUser and
\* EraseUser look for them, and no Ready arrives during a game.  The three they can
\* trip: a user released who never logged in (CServer.cpp:172), a request about a
\* room from a player whose leave was carried out and answered "no" (1198), the
\* opponent who is gone at the end of the game (1668).
OnlyKnownHalts == halted \in {"no", "notLoggedIn", "roomMismatch", "nullOpponent"}

\* Two ready users on the seats of a room never wait for a game.  Only a Ready
\* starts one, so neither the end of a game nor a change of seats may leave both
\* flags up: no Ready would follow.
ReadyPairsPlay ==
    \A r \in Rooms :
        (\A k \in Seats : players[r][k].sId \in userManager /\ ready[players[r][k].sId]) =>
            board[r].gameFlag

\* A game is started by two ready users of the room on its two seats.  The one
\* exception: a session that is gone left its account on one seat, the account has
\* come back to the other, and Ready takes the player for its own opponent (CServer.cpp:1412).
StartNeedsTwoPlayers ==
    [][\A r \in Rooms : ~board[r].gameFlag /\ board'[r].gameFlag =>
          \/ \A k \in Seats :
                /\ players[r][k].sId \in userManager
                /\ ready'[players[r][k].sId]
                /\ room[players[r][k].sId] = r
          \/ \E k \in Seats :
                /\ players[r][k] # NoPlayer
                /\ players[r][k].sId \notin userManager
                /\ players[r][3 - k].sId \in userManager
                /\ players[r][k].accountNo = players[r][3 - k].accountNo]_vars

\* Where an account is, read off the key table and the rosters.
Where ==
    [a \in Accounts |->
        IF accountKey[a] = None THEN "offline"
        ELSE IF \E r \in Rooms : userMap[r][a] # None
             THEN CHOOSE r \in Rooms : userMap[r][a] # None ELSE "lobby"]

AbstractPresence ==
    INSTANCE Presence WITH Capacity <- MaxRoomUsers, Offline <- "offline", Lobby <- "lobby",
                           where <- Where

KeepsPresence == AbstractPresence!Spec
=============================================================================
