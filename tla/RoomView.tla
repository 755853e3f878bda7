------------------------------ MODULE RoomView ------------------------------
(* What the members of a room have been told of it.  The handlers of         *)
(* GameServer send their answers and alarms to the requester, to the roster  *)
(* or to the rest of the roster; the packets of one session arrive in the    *)
(* order they were queued, so `told' is changed where they are queued: it is *)
(* what a client knows once it has read them.  Users are named by nickname   *)
(* in the packets, which stands for the account here.                        *)
EXTENDS GameServer

CONSTANTS
    BufferSize, HeaderSize,  \* of a packet
    NameLength,  \* the longest nickname, which every user has here
    ChatLength   \* the longest chat

P == INSTANCE Packet

ASSUME LayoutAssumption ==
    /\ BufferSize \in Nat /\ HeaderSize \in 0 .. BufferSize
    /\ NameLength \in Nat \ {0} /\ ChatLength \in Nat \ {0}

VARIABLES
    told,      \* what each session was told of the room it is in
    vanished,  \* the accounts told to it that were released without a word
    halfTold   \* the sessions that were not told the seats when they entered

toldVars == <<told, vanished, halfTold>>

NobodyTold == [members |-> {}, seats |-> [k \in Seats |-> None], ready |-> {}, game |-> FALSE]

RoomInit ==
    /\ Init
    /\ told = [s \in Sessions |-> NobodyTold]
    /\ vanished = [s \in Sessions |-> {}]
    /\ halfTold = {}

\* SendRoomAll sends to the sessions of the roster.
Roster(r) == {userMap[r][a] : a \in Members(r)}

\* The receivers know `news' from now on, the others what they knew.
Tell(receivers, news) == [t \in Sessions |-> IF t \in receivers THEN news[t] ELSE told[t]]

WithoutSeat(v, a) == [v EXCEPT !.seats = [k \in Seats |-> IF @[k] = a THEN None ELSE @[k]],
                               !.ready = @ \ {a}]

-----------------------------------------------------------------------------
(* Entering and leaving.                                                     *)

\* MakeRoomMembersPacket writes past the end of its packet.
RosterTooLong(r) == ~P!Fits(P!MembersAlarm(Cardinality(Members(r)), NameLength))

\* MakeEnterPlayerAlarmPacket: the seats whose account is on the roster.
SeatsTold(r) ==
    [k \in Seats |-> IF players[r][k].accountNo \in Members(r) THEN players[r][k].accountNo ELSE None]

ReadyTold(r) ==
    {a \in Members(r) : ready[userMap[r][a]] /\ \E k \in Seats : players[r][k].accountNo = a}

\* The player alarm is sent only if _playerCnt says that there are players.
AlarmSent(r) == playerCnt[r] > 0

\* The status of MakeResponseEnterRoomPacket is 2 during a game.
GameTold(r) == board[r].gameFlag

\* The answer, the roster and the seats, as told to the newcomer.
Arrival(s, r) ==
    [members |-> Members(r) \union {account[s]},
     seats |-> IF AlarmSent(r) THEN SeatsTold(r) ELSE NobodyTold.seats,
     ready |-> IF AlarmSent(r) THEN ReadyTold(r) ELSE {},
     game |-> GameTold(r)]

EnterTold(s, r) ==
    /\ EnterRoom(s, r)
    /\ ~RosterTooLong(r)
    /\ told' = [Tell(Roster(r), [t \in Sessions |-> [told[t] EXCEPT !.members = @ \union {account[s]}]])
                    EXCEPT ![s] = Arrival(s, r)]
    /\ vanished' = [t \in Sessions |-> IF t \in Roster(r) THEN vanished[t] \ {account[s]}
                                        ELSE IF t = s THEN {} ELSE vanished[t]]
    /\ halfTold' = IF AlarmSent(r) THEN halfTold \ {s} ELSE halfTold \union {s}

\* EnterRoom, when the roster is too long for the packet: PutData asserts.
EnterHalts(s, r) ==
    /\ Running /\ s \in userManager /\ account[s] # None
    /\ view[s] = None /\ room[s] = None
    /\ ~RoomIsFull(r) /\ RosterTooLong(r)
    /\ Halt("packetFull")
    /\ UNCHANGED toldVars

\* Mutant: the others are told of a leave only when the leaver is.
LeaveToldIfAnswered(s) == ToldItLeft(s)

\* LeaveSuccess, whose status is not the one of the answer, and tells the others.
LeaveTold(s) == TRUE

\* A user outside of a room: what it was told no longer matters.
Outside(s, views) == [views EXCEPT ![s] = NobodyTold]

LeaveIsTold(s) ==
    /\ LeaveRoom(s)
    /\ told' = Outside(s, Tell(IF LeaveTold(s) THEN Roster(room[s]) ELSE {},
                              [t \in Sessions |-> [WithoutSeat(told[t], account[s])
                                                   EXCEPT !.members = @ \ {account[s]}]]))
    /\ vanished' = [vanished EXCEPT ![s] = {}]
    /\ halfTold' = halfTold \ {s}

\* ReleaseUser tells nobody.
ReleaseUntold(s) ==
    /\ ReleaseUser(s)
    /\ told' = Outside(s, told)
    /\ vanished' = [t \in Sessions |->
                       IF t = s THEN {}
                       ELSE IF room[s] # None /\ room[t] = room[s] THEN vanished[t] \union {account[s]}
                       ELSE vanished[t]]
    /\ halfTold' = halfTold \ {s}

-----------------------------------------------------------------------------
(* Seats and games: told to the whole roster.                                *)

SeatTaken(v, a, to) ==
    [WithoutSeat(v, a) EXCEPT !.seats = [k \in Seats |-> IF k = to THEN a ELSE @[k]]]

ChangeTold(s, to) ==
    /\ ChangePosition(s, to)
    /\ told' = IF halted' = "no"
               THEN Tell(Roster(room[s]), [t \in Sessions |-> SeatTaken(told[t], account[s], to)]) ELSE told
    /\ UNCHANGED <<vanished, halfTold>>

\* The ready answer, and the start of the game if there is one.
ReadyIsTold(s) ==
    /\ Ready(s)
    /\ told' = IF halted' = "no"
               THEN Tell(Roster(room[s]),
                         [t \in Sessions |-> [told[t] EXCEPT !.ready = @ \union {account[s]},
                                                         !.game = @ \/ GameStarts(s)]])
               ELSE told
    /\ UNCHANGED <<vanished, halfTold>>

CancelTold(s) ==
    /\ CancelReady(s)
    /\ told' = Tell(Roster(room[s]), [t \in Sessions |-> [told[t] EXCEPT !.ready = @ \ {account[s]}]])
    /\ UNCHANGED <<vanished, halfTold>>

\* Of a move, the stone is left out: what is told here is the end of the game,
\* with the names of both players, whose ready flags are clear from then on.
StoneTold(s, p) ==
    /\ PutStone(s, p)
    /\ told' = IF halted' = "no" /\ board[room[s]].gameFlag /\ ~board'[room[s]].gameFlag
               THEN Tell(Roster(room[s]),
                         [t \in Sessions |->
                             [told[t] EXCEPT !.game = FALSE,
                                             !.ready = @ \ {account[s], account[Opponent(s)]}]])
               ELSE told
    /\ UNCHANGED <<vanished, halfTold>>

\* Bound: where a stone is put makes no difference here, so it is put on the
\* first free point.
NextPoint(s) ==
    IF room[s] = None THEN {}
    ELSE LET free == {p \in Points : IsValidPos(board[room[s]].cells, p)}
         IN  IF free = {} THEN {} ELSE {CHOOSE p \in free : TRUE}

-----------------------------------------------------------------------------
RoomNext ==
    \E s \in Sessions :
        \/ CreateUser(s) /\ UNCHANGED toldVars
        \/ \E a \in Accounts : Login(s, a) /\ UNCHANGED toldVars
        \/ ReleaseUntold(s)
        \/ \E r \in Rooms : EnterTold(s, r) \/ EnterHalts(s, r)
        \/ LeaveIsTold(s)
        \/ RequestAfterRefusedLeave(s) /\ UNCHANGED toldVars
        \/ \E to \in 1 .. 3 : ChangeTold(s, to)
        \/ ReadyIsTold(s)
        \/ CancelTold(s)
        \/ \E p \in NextPoint(s) : StoneTold(s, p)

RoomSpec == RoomInit /\ [][RoomNext]_<<vars, toldVars>>

-----------------------------------------------------------------------------
Present(r) == {s \in userManager : room[s] = r}

\* A member knows who is in the room and whether a game runs, however the
\* others came and went.  The one exception is a user whose connection went:
\* nobody is told, and it stays in the eyes of the others until it comes back.
MembersSeeTheRoom ==
    Running => \A r \in Rooms : \A s \in Present(r) :
        /\ told[s].members = Members(r) \union vanished[s]
        /\ told[s].game = board[r].gameFlag

\* A member knows who sits on a seat and is ready, as long as the session on the
\* seat is there; a seat it takes for its own or sees empty is so.  A newcomer
\* that got no player alarm may take a seat for free that is not.
MembersSeeTheSeats ==
    Running => \A r \in Rooms : \A s \in Present(r), k \in Seats :
        LET seated == players[r][k]
            seen == told[s].seats[k]
        IN  /\ seated = NoPlayer => seen = None
            /\ seated.sId \in userManager =>
                \/ /\ seen = seated.accountNo
                   /\ seen \in told[s].ready <=> ready[seated.sId]
                \/ s \in halfTold /\ seen = None

\* What the handlers write beside the roster, with the longest names and chat.
OtherPackets ==
    {P!LoginAnswer(NameLength), P!RoomListAnswer, P!EnterAnswer, P!LeaveAnswer, P!ReadyAnswer,
     P!ChatAnswer(NameLength, ChatLength), P!PositionAnswer(NameLength), P!CancelAnswer,
     P!StoneAnswer, P!ShutdownAnswer, P!EnterAlarm(NameLength), P!LeaveAlarm(NameLength),
     P!PlayerAlarm(NameLength), P!StartAlarm, P!GameOverAlarm(NameLength)}

\* Only the list of members can outgrow its packet, when a user enters a room
\* that has more members than fit although it is not full; no answer does, for
\* all that it is written over the request, which has names and chat of its own.
OnlyRostersOverflow ==
    /\ \A pPush \in OtherPackets : P!Fits(pPush)
    /\ halted = "packetFull" =>
        \E r \in Rooms : RosterTooLong(r) /\ Cardinality(Members(r)) < MaxRoomUsers
=============================================================================
