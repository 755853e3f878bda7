----------------------------- MODULE NetSession -----------------------------
(* CNetLibrary: the life of a session slot.  IOCount counts the reasons a    *)
(* slot is in use (operations of the kernel, entries of the completion port, *)
(* threads at work on it); the thread that takes it to 0 releases the        *)
(* session, which sets RELEASE in the count and gives the slot back to the   *)
(* accept thread.  Four threads interleave: accept, the workers and update.  *)
(*                                                                           *)
(* The threads' steps are the accesses other threads can tell apart: each    *)
(* Interlocked operation, each queue operation, each test of a shared flag.  *)
(* The job queue and the send queue are FIFO queues here.  A worker takes    *)
(* the entries of the completion port in any order.  What update does with a *)
(* message is in GameServer; here it sends to a user, disconnects the        *)
(* session it believes has the account, or does neither.                     *)
EXTENDS Integers, Sequences, FiniteSets

CONSTANTS
    Slots,       \* indices of sessionArray
    Workers,     \* the IOCP worker threads
    Accept,      \* the accept thread
    Update,      \* the update thread
    MaxSessions, \* bound: sessions accepted
    MaxMessages, \* bound: messages that arrive
    RELEASE      \* the flag 0x10000 of IOCount

Threads == Workers \union {Accept, Update}

\* sessionArray is not empty.  RELEASE is above every count of references the
\* slot can have.
ASSUME NetAssumption ==
    /\ IsFiniteSet(Slots) /\ Slots # {}
    /\ IsFiniteSet(Workers)
    /\ MaxSessions \in Nat \ {0}
    /\ MaxMessages \in Nat
    /\ Accept # Update /\ {Accept, Update} \cap Workers = {}
    /\ RELEASE \in Nat /\ RELEASE > 3 + MaxMessages + Cardinality(Threads)

VARIABLES
    session,    \* sessionArray, and the kernel's view of each slot (see SessionType)
    thread,     \* what each thread is doing, to which slot, with which session id
    indexPool,  \* the free slots
    lastID,     \* CNetLibrary::sessionID, the ids given out
    slotOf,     \* the slot an id was made for, its upper bits
    jobQ,       \* CServer's job queue
    users,      \* the keys of CServer::userManager
    loggedIn,   \* the sessions in CServer::_accountKey
    arrived,    \* the messages that have arrived, for the bound
    meant,      \* the session a login means to disconnect, 0 when none
    halted      \* "no", or the assertion that ended the process

vars == <<session, thread, indexPool, lastID, slotOf, jobQ, users, loggedIn, arrived, meant, halted>>

IDs == 1 .. MaxSessions

SessionType ==
    [ioCount : Int,                               \* IOCount
     sessionID : IDs \union {0},
     disconnectFlag : BOOLEAN,
     sendFlag : BOOLEAN,
     sendQ : Nat,                                 \* packets in sendQ
     sendCount : Nat,                             \* packets in sendingArray
     held : Nat,                                  \* references to packets the slot owns
     socket : {"closed", "open", "reset"},        \* reset: the peer is gone
     recv : {"none", "pending", "data", "end"},   \* WSARecv: pending, or in the port
     send : {"none", "pending", "done"},          \* WSASend: pending, or in the port
     request : Nat]                               \* entries without an overlapped structure

Labels ==
    {"idle", "setID", "unflag", "join", "recvCheck", "recvStart", "recvCancel", "message",
     "unlock", "sendCheck", "sendLock", "gather", "drop", "readID", "cas", "push", "leave",
     "enter", "compare", "undo", "enqueue", "wake", "mark"}

\* A session release, a join and a message are jobs.
Job(kind, id) == [kind |-> kind, id |-> id]

Init ==
    /\ session = [x \in Slots |->
          [ioCount |-> RELEASE, sessionID |-> 0, disconnectFlag |-> FALSE, sendFlag |-> FALSE,
           sendQ |-> 0, sendCount |-> 0, held |-> 0, socket |-> "closed", recv |-> "none",
           send |-> "none", request |-> 0]]
    /\ thread = [t \in Threads |-> [at |-> "idle", slot |-> CHOOSE x \in Slots : TRUE, id |-> 0]]
    /\ indexPool = Slots
    /\ lastID = 0
    /\ slotOf = [i \in IDs |-> CHOOSE x \in Slots : TRUE]
    /\ jobQ = <<>>
    /\ users = {}
    /\ loggedIn = {}
    /\ arrived = 0
    /\ meant = 0
    /\ halted = "no"

Running == halted = "no"

\* Thread t of the running process is at label.
At(t, label) == Running /\ thread[t].at = label
Slot(t) == thread[t].slot
Mine(t) == session[Slot(t)]

Goto(t, label) == thread' = [thread EXCEPT ![t].at = label]

Halt(why) ==
    /\ halted' = why
    /\ UNCHANGED <<session, thread, indexPool, lastID, slotOf, jobQ, users, loggedIn, arrived, meant>>

\* The rest of the state, for steps that change one session and one thread.
Elsewhere == UNCHANGED <<indexPool, lastID, slotOf, jobQ, users, loggedIn, arrived, meant, halted>>

-----------------------------------------------------------------------------
(* AcceptThread.                                                             *)

\* accept, indexPool.Pop, and the fields set before the slot is in use.
AcceptClient(x) ==
    /\ At(Accept, "idle")
    /\ lastID < MaxSessions
    /\ x \in indexPool
    /\ IF session[x].sendQ > 0 THEN Halt("sendQNotEmpty")
       ELSE /\ indexPool' = indexPool \ {x}
            /\ lastID' = lastID + 1
            /\ slotOf' = [slotOf EXCEPT ![lastID + 1] = x]
            /\ session' = [session EXCEPT ![x].socket = "open", ![x].sendFlag = FALSE,
                                          ![x].disconnectFlag = FALSE]
            /\ thread' = [thread EXCEPT ![Accept] = [at |-> "setID", slot |-> x, id |-> lastID + 1]]
            /\ UNCHANGED <<jobQ, users, loggedIn, arrived, meant, halted>>

SetSessionID ==
    /\ At(Accept, "setID")
    /\ session' = [session EXCEPT ![Slot(Accept)].sessionID = thread[Accept].id]
    /\ Goto(Accept, "unflag")
    /\ Elsewhere

\* InterlockedAdd(&IOCount, 0xffff0001): the flag goes, the accept thread's reference comes.
Unflag ==
    /\ At(Accept, "unflag")
    /\ IF Mine(Accept).ioCount + 1 - RELEASE <= 0 THEN Halt("unflagged")
       ELSE /\ session' = [session EXCEPT ![Slot(Accept)].ioCount = @ + 1 - RELEASE]
            /\ Goto(Accept, "join")
            /\ Elsewhere

\* OnClientJoin, before the first receive is posted.
Join ==
    /\ At(Accept, "join")
    /\ jobQ' = Append(jobQ, Job("join", Mine(Accept).sessionID))
    /\ Goto(Accept, "recvCheck")
    /\ UNCHANGED <<session, indexPool, lastID, slotOf, users, loggedIn, arrived, meant, halted>>

-----------------------------------------------------------------------------
(* RecvPost, called by accept and by the workers, which hold a reference.    *)

RecvCheck(t) ==
    /\ At(t, "recvCheck")
    /\ Goto(t, IF Mine(t).disconnectFlag THEN "drop" ELSE "recvStart")
    /\ UNCHANGED session /\ Elsewhere

\* Mutant of Receiving: the receive is posted without a reference of its own.
ReceivingUncounted(s) == [s EXCEPT !.recv = "pending"]

Receiving(s) == [s EXCEPT !.ioCount = @ + 1, !.recv = "pending"]

\* WSARecv on a connection that is gone fails, and the reference taken for it is dropped.
RecvStart(t) ==
    /\ At(t, "recvStart")
    /\ \/ /\ session' = [session EXCEPT ![Slot(t)] = Receiving(@)]
          /\ Goto(t, "recvCancel")
       \/ /\ Mine(t).socket = "reset"
          /\ Goto(t, "drop")
          /\ UNCHANGED session
    /\ Elsewhere

\* CancelIoEx: what is pending completes.
Cancelled(s) == [s EXCEPT !.recv = IF @ = "pending" THEN "end" ELSE @,
                          !.send = IF @ = "pending" THEN "done" ELSE @]

\* A Disconnect between RecvCheck and RecvStart found nothing to cancel: the flag is read again.
RecvCancel(t) ==
    /\ At(t, "recvCancel")
    /\ session' = [session EXCEPT ![Slot(t)].recv =
                      IF @ = "pending" /\ Mine(t).disconnectFlag THEN "end" ELSE @]
    /\ Goto(t, "drop")
    /\ Elsewhere

-----------------------------------------------------------------------------
(* IOCPWorkerThread and SendPost.                                            *)

\* An entry of the completion port.  It carries a reference, now the worker's.
TakeRecv(w, x) ==
    /\ At(w, "idle")
    /\ session[x].recv \in {"data", "end"}
    /\ session' = [session EXCEPT ![x].recv = "none"]
    /\ thread' = [thread EXCEPT ![w] = [at |-> IF session[x].recv = "data" THEN "message" ELSE "drop",
                                        slot |-> x, id |-> session[x].sessionID]]
    /\ Elsewhere

\* OnMessage.  The worker asserts that the slot still has the id it saved.
Message(w) ==
    /\ At(w, "message")
    /\ IF Mine(w).sessionID # thread[w].id THEN Halt("idChanged")
       ELSE /\ jobQ' = Append(jobQ, Job("message", Mine(w).sessionID))
            /\ Goto(w, "recvCheck")
            /\ UNCHANGED <<session, indexPool, lastID, slotOf, users, loggedIn, arrived, meant, halted>>

\* Mutant of PacketsSent: the array's count is not reset.
PacketsSentCountKept(s) == [s EXCEPT !.send = "none", !.held = @ - s.sendCount]

\* The packets of sendingArray are released, and the array is empty again.
PacketsSent(s) == [s EXCEPT !.send = "none", !.held = @ - s.sendCount, !.sendCount = 0]

TakeSend(w, x) ==
    /\ At(w, "idle")
    /\ session[x].send = "done"
    /\ session' = [session EXCEPT ![x] = PacketsSent(session[x])]
    /\ thread' = [thread EXCEPT ![w] = [at |-> "unlock", slot |-> x, id |-> 0]]
    /\ Elsewhere

\* Mutant of AfterUnlock: sendQ is not looked at again after the flag is cleared.
AfterUnlockDone(w) == "drop"

AfterUnlock(w) == "sendCheck"

Unlock(w) ==
    /\ At(w, "unlock")
    /\ session' = [session EXCEPT ![Slot(w)].sendFlag = FALSE]
    /\ Goto(w, AfterUnlock(w))
    /\ Elsewhere

TakeRequest(w, x) ==
    /\ At(w, "idle")
    /\ session[x].request > 0
    /\ session' = [session EXCEPT ![x].request = @ - 1]
    /\ thread' = [thread EXCEPT ![w] = [at |-> "sendCheck", slot |-> x, id |-> 0]]
    /\ Elsewhere

SendCheck(w) ==
    /\ At(w, "sendCheck")
    /\ Goto(w, IF Mine(w).sendQ > 0 THEN "sendLock" ELSE "drop")
    /\ UNCHANGED session /\ Elsewhere

\* Mutant of MaySend: the flag is set but its old value is not looked at.
MaySendAlways(w) == TRUE

MaySend(w) == ~Mine(w).sendFlag

\* SendPost: InterlockedExchange(&sendFlag, 1).
SendLock(w) ==
    /\ At(w, "sendLock")
    /\ session' = [session EXCEPT ![Slot(w)].sendFlag = TRUE]
    /\ Goto(w, IF MaySend(w) THEN "gather" ELSE "drop")
    /\ Elsewhere

\* SendPost with the flag taken.  An empty queue posts a completion of its own
\* to have the flag cleared.  When WSASend fails, which it does when the
\* connection is gone, the packets are released, sendFlag and sendCount are left.
Gather(w) ==
    /\ At(w, "gather")
    /\ Goto(w, "drop")
    /\ LET s == Mine(w) IN
       \/ /\ s.sendQ = 0
          /\ session' = [session EXCEPT ![Slot(w)].ioCount = @ + 1, ![Slot(w)].send = "done"]
       \/ /\ s.sendQ > 0
          /\ session' = [session EXCEPT ![Slot(w)].ioCount = @ + 1, ![Slot(w)].send = "pending",
                                        ![Slot(w)].sendQ = 0, ![Slot(w)].sendCount = s.sendQ]
       \/ /\ s.sendQ > 0 /\ s.socket = "reset"
          /\ session' = [session EXCEPT ![Slot(w)].sendQ = 0, ![Slot(w)].sendCount = s.sendQ,
                                        ![Slot(w)].held = @ - s.sendQ]
    /\ Elsewhere

-----------------------------------------------------------------------------
(* Dropping a reference, and ReleaseSession.                                 *)

\* InterlockedDecrement(&IOCount).  Accept and the workers take the id for
\* ReleaseSession from the slot, update has the one it was called with.
Drop(t) ==
    /\ At(t, "drop")
    /\ session' = [session EXCEPT ![Slot(t)].ioCount = @ - 1]
    /\ Goto(t, IF Mine(t).ioCount # 1 THEN "idle" ELSE IF t = Update THEN "cas" ELSE "readID")
    /\ Elsewhere

ReadID(t) ==
    /\ At(t, "readID")
    /\ thread' = [thread EXCEPT ![t].at = "cas", ![t].id = Mine(t).sessionID]
    /\ UNCHANGED session /\ Elsewhere

\* Mutant of Releasable: the count that is expected is the one before the decrement.
ReleasableByLast(t) == Mine(t).ioCount = 1

\* Mutant of Releasable: the count is taken, whatever it is.
ReleasableAlways(t) == Mine(t).ioCount < RELEASE

Releasable(t) == Mine(t).ioCount = 0

\* Mutant of Drained: the queue keeps its packets.
DrainedNothing(s) == [s EXCEPT !.ioCount = RELEASE, !.socket = "closed"]

Drained(s) ==
    [s EXCEPT !.ioCount = RELEASE, !.socket = "closed", !.sendQ = 0, !.held = @ - s.sendQ]

\* InterlockedCompareExchange(&IOCount, RELEASE, 0); whoever succeeds closes the
\* socket and empties sendQ.
Release(t) ==
    /\ At(t, "cas")
    /\ session' = IF Releasable(t) THEN [session EXCEPT ![Slot(t)] = Drained(@)] ELSE session
    /\ Goto(t, IF Releasable(t) THEN "push" ELSE "idle")
    /\ Elsewhere

\* The slot is free before the release job is in the queue.
PushIndex(t) ==
    /\ At(t, "push")
    /\ indexPool' = indexPool \union {Slot(t)}
    /\ Goto(t, "leave")
    /\ UNCHANGED <<session, lastID, slotOf, jobQ, users, loggedIn, arrived, meant, halted>>

\* OnClientLeave.
Leave(t) ==
    /\ At(t, "leave")
    /\ jobQ' = Append(jobQ, Job("leave", thread[t].id))
    /\ Goto(t, "idle")
    /\ UNCHANGED <<session, indexPool, lastID, slotOf, users, loggedIn, arrived, meant, halted>>

-----------------------------------------------------------------------------
(* The update thread: the job at the head, SendMessages and Disconnect.      *)

NextJob(kind) ==
    /\ At(Update, "idle")
    /\ jobQ # <<>>
    /\ Head(jobQ).kind = kind

\* The job is taken; the login that disconnected a session before it is over.
Taken == jobQ' = Tail(jobQ) /\ meant' = 0 /\ UNCHANGED <<session, indexPool, lastID, slotOf, arrived, halted>>

\* Update goes on to SendMessages or Disconnect for id, in the slot of session i.
Approach(i, id) == thread' = [thread EXCEPT ![Update] = [at |-> "enter", slot |-> slotOf[i], id |-> id]]

\* SendMessages does nothing for a session that is being disconnected.
Send(i) == IF session[slotOf[i]].disconnectFlag THEN UNCHANGED thread ELSE Approach(i, i)

\* CreateUser.
UserJoins ==
    /\ NextJob("join")
    /\ Taken
    /\ users' = users \union {Head(jobQ).id}
    /\ UNCHANGED <<thread, loggedIn>>

\* ReleaseUser, whose FindUser asserts that the session has a user.
UserLeaves ==
    /\ NextJob("leave")
    /\ IF Head(jobQ).id \notin users THEN Halt("noUserToRelease")
       ELSE /\ Taken
            /\ users' = users \ {Head(jobQ).id}
            /\ loggedIn' = loggedIn \ {Head(jobQ).id}
            /\ UNCHANGED thread

\* LoginProcedure for an account nobody is logged in with.
UserLogsIn ==
    /\ NextJob("message")
    /\ Head(jobQ).id \in users \ loggedIn
    /\ Taken
    /\ loggedIn' = loggedIn \union {Head(jobQ).id}
    /\ Send(Head(jobQ).id)
    /\ UNCHANGED users

\* Recv of any other request, whose handler asserts, in FindUser, that the
\* session has a user: a message goes to one user, or to none.  (A broadcast is
\* this for one user after the other.)
UserRequest ==
    /\ NextJob("message")
    /\ Head(jobQ).id \notin users \ loggedIn
    /\ IF Head(jobQ).id \notin users THEN Halt("noUserForMessage")
       ELSE /\ Taken
            /\ UNCHANGED thread \/ \E i \in loggedIn : Send(i)
            /\ UNCHANGED <<users, loggedIn>>

\* The id LoginProcedure disconnects for an account whose session is i: the one
\* in the slot of i.
OldSessionID(i) == session[slotOf[i]].sessionID

\* LoginProcedure for an account that another session is logged in with.
LoginAgain ==
    /\ NextJob("message")
    /\ Head(jobQ).id \in users \ loggedIn
    /\ jobQ' = Tail(jobQ)
    /\ \E i \in loggedIn : meant' = i /\ Approach(i, OldSessionID(i))
    /\ UNCHANGED <<session, indexPool, lastID, slotOf, arrived, halted, users, loggedIn>>

\* Disconnect and SendMessages take a reference, unless the slot is being released.
Enter ==
    /\ At(Update, "enter")
    /\ session' = [session EXCEPT ![Slot(Update)].ioCount = @ + 1]
    /\ Goto(Update, IF Mine(Update).ioCount + 1 >= RELEASE THEN "undo" ELSE "compare")
    /\ Elsewhere

\* Mutant of SameSession: the id is not compared.
SameSessionUnchecked == TRUE

SameSession == Mine(Update).sessionID = thread[Update].id

Compare ==
    /\ At(Update, "compare")
    /\ Goto(Update, IF ~SameSession THEN "undo" ELSE IF meant # 0 THEN "mark" ELSE "enqueue")
    /\ UNCHANGED session /\ Elsewhere

\* The reference is given back without a release: the code asserts that it was
\* not the last.
Undo ==
    /\ At(Update, "undo")
    /\ IF Mine(Update).ioCount - 1 <= 0 THEN Halt("lastReference")
       ELSE /\ session' = [session EXCEPT ![Slot(Update)].ioCount = @ - 1]
            /\ Goto(Update, "idle")
            /\ Elsewhere

\* SendMessages: sendQ.Enqueue.
Enqueue ==
    /\ At(Update, "enqueue")
    /\ session' = [session EXCEPT ![Slot(Update)].sendQ = @ + 1, ![Slot(Update)].held = @ + 1]
    /\ Goto(Update, "wake")
    /\ Elsewhere

\* SendMessages: a worker is woken unless somebody is sending.
Wake ==
    /\ At(Update, "wake")
    /\ session' = IF Mine(Update).sendFlag THEN session
                  ELSE [session EXCEPT ![Slot(Update)].ioCount = @ + 1, ![Slot(Update)].request = @ + 1]
    /\ Goto(Update, "drop")
    /\ Elsewhere

\* Disconnect: the first to set the flag cancels what is pending.
Mark ==
    /\ At(Update, "mark")
    /\ session' = IF Mine(Update).disconnectFlag THEN session
                  ELSE [session EXCEPT ![Slot(Update)] = [Cancelled(@) EXCEPT !.disconnectFlag = TRUE]]
    /\ Goto(Update, "drop")
    /\ Elsewhere

-----------------------------------------------------------------------------
(* The kernel and the peers.                                                 *)

\* A message arrives for a pending receive.
Arrive(x) ==
    /\ Running
    /\ session[x].recv = "pending" /\ session[x].socket = "open"
    /\ arrived < MaxMessages
    /\ arrived' = arrived + 1
    /\ session' = [session EXCEPT ![x].recv = "data"]
    /\ UNCHANGED <<thread, indexPool, lastID, slotOf, jobQ, users, loggedIn, meant, halted>>

\* The peer closes or resets the connection.
PeerGone(x) ==
    /\ Running
    /\ session[x].socket = "open"
    /\ session' = [session EXCEPT ![x].socket = "reset"]
    /\ UNCHANGED thread /\ Elsewhere

RecvEnds(x) ==
    /\ Running
    /\ session[x].recv = "pending" /\ session[x].socket = "reset"
    /\ session' = [session EXCEPT ![x].recv = "end"]
    /\ UNCHANGED thread /\ Elsewhere

SendEnds(x) ==
    /\ Running
    /\ session[x].send = "pending"
    /\ session' = [session EXCEPT ![x].send = "done"]
    /\ UNCHANGED thread /\ Elsewhere

-----------------------------------------------------------------------------

PostStep(t) == RecvCheck(t) \/ RecvStart(t) \/ RecvCancel(t)

ReleaseStep(t) == Drop(t) \/ ReadID(t) \/ Release(t) \/ PushIndex(t) \/ Leave(t)

AcceptThread ==
    \/ \E x \in Slots : AcceptClient(x)
    \/ SetSessionID \/ Unflag \/ Join
    \/ PostStep(Accept) \/ ReleaseStep(Accept)

IOCPWorkerThread(w) ==
    \/ \E x \in Slots : TakeRecv(w, x) \/ TakeSend(w, x) \/ TakeRequest(w, x)
    \/ Message(w) \/ Unlock(w) \/ SendCheck(w) \/ SendLock(w) \/ Gather(w)
    \/ PostStep(w) \/ ReleaseStep(w)

UpdateThread ==
    \/ UserJoins \/ UserLeaves \/ UserLogsIn \/ UserRequest \/ LoginAgain
    \/ Enter \/ Compare \/ Undo \/ Enqueue \/ Wake \/ Mark
    \/ ReleaseStep(Update)

KernelStep(x) == RecvEnds(x) \/ SendEnds(x)

PeerStep(x) == Arrive(x) \/ PeerGone(x)

Next ==
    \/ AcceptThread
    \/ \E w \in Workers : IOCPWorkerThread(w)
    \/ UpdateThread
    \/ \E x \in Slots : KernelStep(x) \/ PeerStep(x)

\* The scheduler runs every thread that can run; the kernel ends what a reset
\* connection leaves pending, and peers read what is sent to them.  Nothing is
\* assumed of arrivals or of peers leaving.
Fairness ==
    /\ WF_vars(AcceptThread)
    /\ \A w \in Workers : WF_vars(IOCPWorkerThread(w))
    /\ WF_vars(UpdateThread)
    /\ \A x \in Slots : WF_vars(KernelStep(x))

Spec == Init /\ [][Next]_vars /\ Fairness

-----------------------------------------------------------------------------
(* Properties.                                                               *)

TypeOK ==
    /\ session \in [Slots -> SessionType]
    /\ thread \in [Threads -> [at : Labels, slot : Slots, id : IDs \union {0}]]
    /\ indexPool \subseteq Slots
    /\ lastID \in 0 .. MaxSessions
    /\ slotOf \in [IDs -> Slots]
    /\ jobQ \in Seq([kind : {"join", "message", "leave"}, id : IDs])
    /\ users \subseteq IDs /\ loggedIn \subseteq users
    /\ arrived \in 0 .. MaxMessages
    /\ meant \in IDs \union {0}
    /\ halted \in {"no", "sendQNotEmpty", "unflagged", "idChanged", "noUserToRelease",
                   "noUserForMessage", "lastReference"}

\* The labels at which a thread holds a reference of its slot.
Holding == Labels \ {"idle", "setID", "unflag", "readID", "cas", "push", "leave", "enter"}

References(x) ==
    Cardinality({t \in Threads : Slot(t) = x /\ thread[t].at \in Holding})
    + (IF session[x].recv # "none" THEN 1 ELSE 0)
    + (IF session[x].send # "none" THEN 1 ELSE 0)
    + session[x].request

\* IOCount is exactly the number of references, plus RELEASE while the slot is
\* not in use: none is lost or counted twice in any interleaving.
CountIsReferences ==
    \A x \in Slots : session[x].ioCount \in {References(x), References(x) + RELEASE}

\* A slot given back has no operation of the old session that the kernel could
\* still complete into its buffers, no entry in the port and no packet.  Its jobs
\* may still be queued: the leave job comes after the index (CNetLibrary.cpp:117).
FreeSlotIsQuiet ==
    \A x \in indexPool :
        /\ session[x].ioCount >= RELEASE
        /\ session[x].recv = "none" /\ session[x].send = "none" /\ session[x].request = 0
        /\ session[x].sendQ = 0 /\ session[x].held = 0

\* sendQ and sendingArray have one user at a time: at most one send is under
\* way or being prepared, and sendFlag is set while one is.
OneSender ==
    \A x \in Slots :
        LET preparing == {t \in Threads : Slot(t) = x /\ thread[t].at \in {"gather", "unlock"}}
            sending == Cardinality(preparing) + (IF session[x].send # "none" THEN 1 ELSE 0)
        IN  sending <= 1 /\ (sending = 1 => session[x].sendFlag)

\* Every packet the slot took a reference to is in sendQ or in the send under
\* way: each is released once, also after a failed send left sendCount behind.
PacketsAreHeldOnce ==
    \A x \in Slots :
        session[x].held = session[x].sendQ + (IF session[x].send # "none" THEN session[x].sendCount ELSE 0)

\* The jobs of a session come in the order join, messages, leave: its messages
\* are handled while it has a user.
JobsInOrder ==
    \A i \in DOMAIN jobQ : jobQ[i].kind = "message" =>
        /\ jobQ[i].id \in users \/ \E j \in 1 .. i - 1 : jobQ[j] = Job("join", jobQ[i].id)
        /\ \A j \in 1 .. i - 1 : jobQ[j] # Job("leave", jobQ[i].id)

\* Of the assertions above only those two can be tripped: giving back the last
\* reference without a release (CNetLibrary.cpp:621 and 682, when another session
\* is in the slot and drops its own), and releasing a session that has no user
\* (CServer.cpp:112): two threads took the count to 0 one after the other, one of
\* them releases the session, and the other, which still has its id
\* (CNetLibrary.cpp:549, 716), finds the count of the slot's next session at 0 and
\* releases that one under the old id.
OnlyKnownHalts == halted \in {"no", "lastReference", "noUserToRelease"}

\* CServer.cpp:467: what a second login disconnects is the previous session.
LoginDisconnectsPrevious == meant # 0 /\ At(Update, "enter") => thread[Update].id = meant

\* The wake-up protocol of sendFlag and sendQ loses no packet: what is queued
\* is taken, by a send or by the release.
QueuedIsTaken == \A x \in Slots : session[x].sendQ > 0 ~> session[x].sendQ = 0 \/ halted # "no"

\* A session that was disconnected, or whose peer is gone, gives its slot back.
GoneIsReleased ==
    \A x \in Slots :
        session[x].disconnectFlag \/ session[x].socket = "reset"
            ~> session[x].socket = "closed" \/ halted # "no"
=============================================================================
