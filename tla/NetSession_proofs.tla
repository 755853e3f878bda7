-------------------------- MODULE NetSession_proofs --------------------------
(* The slots of the sessions, for any number of slots, clients and workers.  *)
(*                                                                           *)
(* A slot is safe because its count is: every thread that may still touch    *)
(* the slot is counted, so the one that takes the count to 0 is alone.  The  *)
(* invariant says of each thread, at each of its steps, which session it     *)
(* holds; the count, the send flag, the packets and the identifiers in the   *)
(* job queue follow from where the threads are.                              *)
EXTENDS NetSession, FiniteSetTheorems, TLAPS

-----------------------------------------------------------------------------
(* The inductive invariant.                                                  *)

AtAccept == {"setID", "unflag", "join"}
AtPost == {"recvCheck", "recvStart", "recvCancel"}
AtRelease == {"drop", "readID", "cas", "push", "leave"}
AtWorker == {"message", "unlock", "sendCheck", "sendLock", "gather"}
AtUpdate == {"enter", "compare", "undo", "enqueue", "wake", "mark"}

LabelsOf(t) ==
    {"idle"} \union (IF t = Accept THEN AtAccept \union AtPost \union AtRelease
                     ELSE IF t = Update THEN AtUpdate \union (AtRelease \ {"readID"})
                     ELSE AtWorker \union AtPost \union AtRelease)

\* Each thread is in its own code.
ThreadsInPlace == \A t \in Threads : thread[t].at \in LabelsOf(t)

In(t, x, labels) == thread[t].at \in labels /\ thread[t].slot = x

\* The slot is not in use: it is free, being accepted into, or about to be free.
Accepting(x) == In(Accept, x, {"setID", "unflag"})
Pushing(t, x) == In(t, x, {"push"})
Flagged(x) == x \in indexPool \/ Accepting(x) \/ \E t \in Threads : Pushing(t, x)

OneOwner ==
    \A x \in Slots :
        /\ x \in indexPool => ~Accepting(x)
        /\ \A t \in Threads : Pushing(t, x) => x \notin indexPool /\ ~Accepting(x)
        /\ \A t, u \in Threads : Pushing(t, x) /\ Pushing(u, x) => t = u

\* IOCount, exactly.
Threaded(x) == Cardinality({t \in Threads : Slot(t) = x /\ thread[t].at \in Holding})
Pending(s) ==
    (IF s.recv # "none" THEN 1 ELSE 0) + (IF s.send # "none" THEN 1 ELSE 0) + s.request
Flag(x) == IF Flagged(x) THEN RELEASE ELSE 0

Counted == \A x \in Slots : session[x].ioCount = Threaded(x) + Pending(session[x]) + Flag(x)

\* Nobody but update, who is on its way out, has a reference to a slot not in use.
FlaggedIsQuiet ==
    \A x \in Slots : Flagged(x) =>
        /\ session[x].recv = "none" /\ session[x].send = "none" /\ session[x].request = 0
        /\ session[x].sendQ = 0
        /\ \A t \in Threads : In(t, x, Holding) => t = Update /\ thread[t].at = "undo"

\* A receive is pending, or in the port, or somebody is about to post the next.
AtRecv == {"join", "message", "recvCheck", "recvStart"}

OneAtRecv ==
    \A x \in Slots :
        /\ \A t \in Threads : In(t, x, AtRecv) => session[x].recv = "none"
        /\ \A t, u \in Threads : In(t, x, AtRecv) /\ In(u, x, AtRecv) => t = u

\* sendFlag, and who has it.
OneAtSend ==
    \A x \in Slots :
        /\ session[x].send # "none" => session[x].sendFlag
        /\ \A t \in Threads : In(t, x, {"gather", "unlock"}) => session[x].sendFlag /\ session[x].send = "none"
        /\ \A t, u \in Threads : In(t, x, {"gather", "unlock"}) /\ In(u, x, {"gather", "unlock"}) => t = u

\* What a failed send leaves in sendCount is not taken for packets: in that
\* session nobody sends again, and in the next the first to send finds a packet.
LeftOver ==
    \A x \in Slots : session[x].send = "none" =>
        \/ session[x].sendCount = 0
        \/ session[x].sendFlag /\ \A t \in Threads : ~In(t, x, {"gather", "unlock"})
        \/ \A t \in Threads : In(t, x, {"sendLock", "gather"}) => session[x].sendQ > 0

\* A message is in one place at a time, which bounds the requests made for them.
Queued == Cardinality({i \in DOMAIN jobQ : jobQ[i].kind = "message"})
Received == Cardinality({x \in Slots : session[x].recv = "data"})
Delivering == Cardinality({t \in Threads : thread[t].at = "message"})
Answering == IF thread[Update].at \in {"enter", "compare", "enqueue", "wake"} THEN 1 ELSE 0

RequestsAreBounded ==
    \A x \in Slots : session[x].request + Queued + Received + Delivering + Answering <= arrived

\* Ids are given out in order and stay with their slot.
IDsInOrder ==
    /\ \A x \in Slots :
          /\ session[x].sessionID <= lastID
          /\ session[x].sessionID # 0 => slotOf[session[x].sessionID] = x
    /\ thread[Accept].at \in {"setID", "unflag", "join"} => thread[Accept].id = lastID /\ lastID # 0
    /\ thread[Accept].at = "setID" =>
          slotOf[lastID] = Slot(Accept) /\ session[Slot(Accept)].sessionID < lastID
    /\ thread[Accept].at \in {"unflag", "join"} => session[Slot(Accept)].sessionID = lastID
    /\ \A x \in Slots : ~Flagged(x) => session[x].sessionID # 0

\* Session i has been there: its slot has its id or a later one.
Seen(i) == i \in 1 .. lastID /\ i <= session[slotOf[i]].sessionID

\* Session i is there.
Live(i) == session[slotOf[i]].sessionID = i /\ (~Flagged(slotOf[i]) \/ In(Accept, slotOf[i], {"unflag"}))

Over(i) == Seen(i) /\ ~Live(i)

\* A thread knows the id of a session that is or was in its slot; the one that
\* announces the end of a session has ended it.
Knows(t, r) ==
    /\ r.at \in {"cas", "push", "leave"} \union AtUpdate \/ (t = Update /\ r.at = "drop") =>
          Seen(r.id) /\ slotOf[r.id] = r.slot
    /\ r.at = "readID" => session[r.slot].sessionID # 0
    /\ r.at \in {"push", "leave"} => Over(r.id)
    /\ r.at = "message" => session[r.slot].sessionID = r.id

IDsAreKnown == \A t \in Threads : Knows(t, thread[t])

JobsAreKnown ==
    /\ \A i \in users : Seen(i)
    /\ \A k \in DOMAIN jobQ : Seen(jobQ[k].id)
    /\ \A k \in DOMAIN jobQ : jobQ[k].kind = "leave" => Over(jobQ[k].id)

\* A session that is there has a user, or will have one.
LiveHasUser ==
    \A i \in 1 .. lastID :
        Live(i) /\ ~In(Accept, slotOf[i], {"unflag", "join"})
            => i \in users \/ \E k \in DOMAIN jobQ : jobQ[k] = Job("join", i)

IInv ==
    /\ TypeOK /\ ThreadsInPlace /\ OneOwner
    /\ Counted /\ FlaggedIsQuiet /\ OneAtRecv /\ OneAtSend /\ PacketsAreHeldOnce /\ LeftOver
    /\ RequestsAreBounded
    /\ IDsInOrder /\ IDsAreKnown /\ JobsAreKnown /\ LiveHasUser
    /\ JobsInOrder /\ OnlyKnownHalts
-----------------------------------------------------------------------------
(* What every step needs: thread t moves to r while slot x becomes s.        *)

ThreadType == [at : Labels, slot : Slots, id : IDs \union {0}]

Moves(t, x, r, s) == thread' = [thread EXCEPT ![t] = r] /\ session' = [session EXCEPT ![x] = s]

Owning == {"setID", "unflag", "push"}

One(r) == IF r.at \in Holding THEN 1 ELSE 0

LEMMA ThreadsAre ==
    /\ IsFiniteSet(Threads) /\ Accept \in Threads /\ Update \in Threads /\ Workers \subseteq Threads
    /\ Cardinality(Threads) \in Nat
<1>1. IsFiniteSet({Accept, Update})
  <2>1. IsFiniteSet({Accept}) /\ {Accept, Update} = {Accept} \union {Update}
    BY FS_Singleton
  <2> QED
    BY <2>1, FS_AddElement
<1>2. IsFiniteSet(Threads)
  BY <1>1, NetAssumption, FS_Union DEF Threads
<1> QED
  BY <1>2, FS_CardinalityType DEF Threads

\* A set of threads defined by what they are doing changes by the one that moves.
LEMMA ThreadedStep ==
  ASSUME TypeOK, NEW t \in Threads, NEW r \in ThreadType, thread' = [thread EXCEPT ![t] = r],
         NEW x \in Slots
  PROVE  /\ Threaded(x) \in 0 .. Cardinality(Threads)
         /\ Threaded(x)' = Threaded(x) - (IF In(t, x, Holding) THEN 1 ELSE 0)
                                       + (IF r.slot = x /\ r.at \in Holding THEN 1 ELSE 0)
<1> DEFINE Rest == {u \in Threads \ {t} : thread[u].slot = x /\ thread[u].at \in Holding}
           Now == {u \in Threads : thread[u].slot = x /\ thread[u].at \in Holding}
           Next1 == {u \in Threads : thread'[u].slot = x /\ thread'[u].at \in Holding}
<1>1. IsFiniteSet(Threads) /\ Rest \subseteq Threads /\ Now \subseteq Threads
  BY ThreadsAre
<1>2. IsFiniteSet(Rest) /\ Cardinality(Rest) \in Nat
  BY <1>1, FS_Subset, FS_CardinalityType
<1>3. Now = IF In(t, x, Holding) THEN Rest \union {t} ELSE Rest
  BY DEF In
<1>4. Next1 = IF r.slot = x /\ r.at \in Holding THEN Rest \union {t} ELSE Rest
  BY DEF TypeOK
<1>5. Cardinality(Rest \union {t}) = Cardinality(Rest) + 1
  BY <1>2, FS_AddElement
<1>6. Cardinality(Now) \in 0 .. Cardinality(Threads)
  BY <1>1, FS_Subset, FS_CardinalityType
<1>7. Threaded(x) = Cardinality(Now) /\ Threaded(x)' = Cardinality(Next1)
  BY DEF Threaded, Slot
<1> HIDE DEF Rest, Now, Next1
<1> QED
  BY <1>2, <1>3, <1>4, <1>5, <1>6, <1>7

LEMMA DeliveringStep ==
  ASSUME TypeOK, NEW t \in Threads, NEW r \in ThreadType, thread' = [thread EXCEPT ![t] = r]
  PROVE  /\ Delivering \in Nat
         /\ Delivering' = Delivering - (IF thread[t].at = "message" THEN 1 ELSE 0)
                                     + (IF r.at = "message" THEN 1 ELSE 0)
<1> DEFINE Rest == {u \in Threads \ {t} : thread[u].at = "message"}
           Now == {u \in Threads : thread[u].at = "message"}
           Next1 == {u \in Threads : thread'[u].at = "message"}
<1>1. IsFiniteSet(Threads) /\ Rest \subseteq Threads /\ Now \subseteq Threads
  BY ThreadsAre
<1>2. IsFiniteSet(Rest) /\ Cardinality(Rest) \in Nat
  BY <1>1, FS_Subset, FS_CardinalityType
<1>3. Now = IF thread[t].at = "message" THEN Rest \union {t} ELSE Rest
  OBVIOUS
<1>4. Next1 = IF r.at = "message" THEN Rest \union {t} ELSE Rest
  BY DEF TypeOK
<1>5. Cardinality(Rest \union {t}) = Cardinality(Rest) + 1
  BY <1>2, FS_AddElement
<1>6. Delivering = Cardinality(Now) /\ Delivering' = Cardinality(Next1)
  BY DEF Delivering
<1> HIDE DEF Rest, Now, Next1
<1> QED
  BY <1>2, <1>3, <1>4, <1>5, <1>6

LEMMA ReceivedStep ==
  ASSUME TypeOK, NEW x \in Slots, NEW s \in SessionType, session' = [session EXCEPT ![x] = s]
  PROVE  /\ Received \in Nat
         /\ Received' = Received - (IF session[x].recv = "data" THEN 1 ELSE 0)
                                 + (IF s.recv = "data" THEN 1 ELSE 0)
<1> DEFINE Rest == {y \in Slots \ {x} : session[y].recv = "data"}
           Now == {y \in Slots : session[y].recv = "data"}
           Next1 == {y \in Slots : session'[y].recv = "data"}
<1>1. IsFiniteSet(Slots) /\ Rest \subseteq Slots /\ Now \subseteq Slots
  BY NetAssumption
<1>2. IsFiniteSet(Rest) /\ Cardinality(Rest) \in Nat
  BY <1>1, FS_Subset, FS_CardinalityType
<1>3. Now = IF session[x].recv = "data" THEN Rest \union {x} ELSE Rest
  OBVIOUS
<1>4. Next1 = IF s.recv = "data" THEN Rest \union {x} ELSE Rest
  BY DEF TypeOK
<1>5. Cardinality(Rest \union {x}) = Cardinality(Rest) + 1
  BY <1>2, FS_AddElement
<1>6. Received = Cardinality(Now) /\ Received' = Cardinality(Next1)
  BY DEF Received
<1> HIDE DEF Rest, Now, Next1
<1> QED
  BY <1>2, <1>3, <1>4, <1>5, <1>6

LEMMA QueueIsCounted ==
  ASSUME TypeOK
  PROVE  Queued \in Nat
<1>1. DOMAIN jobQ = 1 .. Len(jobQ) /\ Len(jobQ) \in Nat
  BY DEF TypeOK
<1>2. IsFiniteSet(DOMAIN jobQ)
  BY <1>1, FS_Interval
<1> DEFINE Now == {k \in DOMAIN jobQ : jobQ[k].kind = "message"}
<1>3. Now \subseteq DOMAIN jobQ /\ Queued = Cardinality(Now)
  BY DEF Queued
<1> HIDE DEF Now
<1> QED
  BY <1>2, <1>3, FS_Subset, FS_CardinalityType

LEMMA QueuedAppend ==
  ASSUME TypeOK, NEW kind \in {"join", "message", "leave"}, NEW id \in IDs,
         jobQ' = Append(jobQ, Job(kind, id))
  PROVE  /\ Queued \in Nat
         /\ Queued' = Queued + (IF kind = "message" THEN 1 ELSE 0)
<1> DEFINE J == [kind : {"join", "message", "leave"}, id : IDs]
           Now == {k \in DOMAIN jobQ : jobQ[k].kind = "message"}
           Next1 == {k \in DOMAIN jobQ' : jobQ'[k].kind = "message"}
<1>1. /\ jobQ \in Seq(J) /\ Job(kind, id) \in J
      /\ Job(kind, id).kind = kind
  BY DEF TypeOK, Job
<1>2. /\ DOMAIN jobQ = 1 .. Len(jobQ) /\ Len(jobQ) \in Nat
      /\ DOMAIN jobQ' = 1 .. Len(jobQ) + 1
      /\ \A k \in DOMAIN jobQ : jobQ'[k] = jobQ[k]
      /\ jobQ'[Len(jobQ) + 1] = Job(kind, id)
  BY <1>1
<1>3. IsFiniteSet(Now) /\ Cardinality(Now) \in Nat
  <2>1. IsFiniteSet(DOMAIN jobQ) /\ Now \subseteq DOMAIN jobQ
    BY <1>2, FS_Interval
  <2> HIDE DEF Now
  <2> QED
    BY <2>1, FS_Subset, FS_CardinalityType
<1>4. Len(jobQ) + 1 \notin Now
  BY <1>2
<1>5. Next1 = IF kind = "message" THEN Now \union {Len(jobQ) + 1} ELSE Now
  BY <1>1, <1>2
<1>6. Cardinality(Now \union {Len(jobQ) + 1}) = Cardinality(Now) + 1
  BY <1>3, <1>4, FS_AddElement
<1>7. Queued = Cardinality(Now) /\ Queued' = Cardinality(Next1)
  BY DEF Queued
<1> HIDE DEF J, Now, Next1
<1> QED
  BY <1>3, <1>5, <1>6, <1>7

LEMMA QueuedTail ==
  ASSUME TypeOK, jobQ # <<>>, jobQ' = Tail(jobQ)
  PROVE  /\ Queued \in Nat
         /\ Queued' = Queued - (IF Head(jobQ).kind = "message" THEN 1 ELSE 0)
<1> DEFINE J == [kind : {"join", "message", "leave"}, id : IDs]
           Now == {k \in DOMAIN jobQ : jobQ[k].kind = "message"}
           Rest == Now \ {1}
           Next1 == {k \in DOMAIN jobQ' : jobQ'[k].kind = "message"}
           f == [k \in Next1 |-> k + 1]
<1>1. jobQ \in Seq(J)
  BY DEF TypeOK
<1>2. /\ DOMAIN jobQ = 1 .. Len(jobQ) /\ Len(jobQ) \in Nat \ {0}
      /\ DOMAIN jobQ' = 1 .. Len(jobQ) - 1
      /\ \A k \in DOMAIN jobQ' : jobQ'[k] = jobQ[k + 1]
      /\ Head(jobQ) = jobQ[1]
  BY <1>1
<1>3. IsFiniteSet(Now) /\ Cardinality(Now) \in Nat
  <2>1. IsFiniteSet(DOMAIN jobQ) /\ Now \subseteq DOMAIN jobQ
    BY <1>2, FS_Interval
  <2> HIDE DEF Now
  <2> QED
    BY <2>1, FS_Subset, FS_CardinalityType
<1>4. IsFiniteSet(Next1)
  <2>1. IsFiniteSet(DOMAIN jobQ') /\ Next1 \subseteq DOMAIN jobQ'
    BY <1>2, FS_Interval
  <2> HIDE DEF Next1
  <2> QED
    BY <2>1, FS_Subset
<1>5. f \in Bijection(Next1, Rest)
  <2>1. f \in [Next1 -> Rest]
    BY <1>2
  <2>2. f \in Injection(Next1, Rest)
    BY <2>1, <1>2 DEF Injection, IsInjective
  <2>3. ASSUME NEW k \in Rest PROVE k - 1 \in Next1 /\ f[k - 1] = k
    BY <1>2
  <2>4. f \in Surjection(Next1, Rest)
    BY <2>1, <2>3 DEF Surjection
  <2> QED
    BY <2>2, <2>4 DEF Bijection
<1>6. Cardinality(Rest) = Cardinality(Next1)
  BY <1>4, <1>5, FS_Bijection DEF ExistsBijection
<1>7. Cardinality(Rest) = IF 1 \in Now THEN Cardinality(Now) - 1 ELSE Cardinality(Now)
  BY <1>3, FS_RemoveElement
<1>8. 1 \in Now <=> Head(jobQ).kind = "message"
  BY <1>2
<1>9. Queued = Cardinality(Now) /\ Queued' = Cardinality(Next1)
  BY DEF Queued
<1> HIDE DEF J, Now, Next1, Rest, f
<1>10. Cardinality(Rest) = Cardinality(Now) - (IF Head(jobQ).kind = "message" THEN 1 ELSE 0)
  <2>1. CASE 1 \in Now
    BY <2>1, <1>3, <1>7, <1>8
  <2>2. CASE 1 \notin Now
    BY <2>2, <1>3, <1>7, <1>8
  <2> QED
    BY <2>1, <2>2
<1> QED
  BY <1>3, <1>6, <1>9, <1>10

-----------------------------------------------------------------------------
(* What a step leaves alone, and on which conditions.                        *)

LEMMA OwnersStay ==
  ASSUME TypeOK, OneOwner, NEW t \in Threads, NEW r \in ThreadType,
         thread' = [thread EXCEPT ![t] = r], indexPool' = indexPool,
         r = thread[t] \/ (thread[t].at \notin Owning /\ r.at \notin Owning)
  PROVE  OneOwner' /\ \A y \in Slots : Flagged(y)' <=> Flagged(y)
<1>1. \A u \in Threads : thread'[u] = IF u = t THEN r ELSE thread[u]
  BY DEF TypeOK
<1>2. \A u \in Threads, y \in Slots : Pushing(u, y)' <=> Pushing(u, y)
  BY <1>1 DEF Pushing, In, Owning
<1>3. \A y \in Slots : Accepting(y)' <=> Accepting(y)
  BY <1>1, ThreadsAre DEF Accepting, In, Owning
<1>4. \A y \in Slots : Flagged(y)' <=> Flagged(y)
  BY <1>2, <1>3 DEF Flagged
<1> QED
  BY <1>2, <1>3, <1>4 DEF OneOwner

LEMMA PendingIsCounted == \A s \in SessionType : Pending(s) \in Int
<1> SUFFICES ASSUME NEW s \in SessionType PROVE Pending(s) \in Int
  OBVIOUS
<1>1. s.request \in Int
  BY DEF SessionType
<1> QED
  BY <1>1 DEF Pending

LEMMA CountedStep ==
  ASSUME TypeOK, Counted, NEW t \in Threads, NEW x \in Slots, NEW r \in ThreadType, NEW s \in SessionType,
         Moves(t, x, r, s),
         \A y \in Slots \ {x} : Flagged(y)' <=> Flagged(y),
         \/ r = thread[t]
         \/ (thread[t].at \in Holding => thread[t].slot = x) /\ (r.at \in Holding => r.slot = x),
         s.ioCount - session[x].ioCount =
             (Pending(s) - Pending(session[x])) + (One(r) - One(thread[t])) + (Flag(x)' - Flag(x))
  PROVE  Counted'
<1>0. thread' = [thread EXCEPT ![t] = r]
  BY DEF Moves
<1>1. \A y \in Slots : /\ Threaded(y) \in Int
                       /\ Threaded(y)' = Threaded(y) - (IF In(t, y, Holding) THEN 1 ELSE 0)
                                               + (IF r.slot = y /\ r.at \in Holding THEN 1 ELSE 0)
  <2>1. ASSUME NEW y \in Slots
        PROVE  /\ Threaded(y) \in 0 .. Cardinality(Threads)
               /\ Threaded(y)' = Threaded(y) - (IF In(t, y, Holding) THEN 1 ELSE 0)
                                             + (IF r.slot = y /\ r.at \in Holding THEN 1 ELSE 0)
    BY <1>0, ThreadedStep
  <2> QED
    BY <2>1, ThreadsAre
<1>2. ASSUME NEW y \in Slots \ {x} PROVE session'[y].ioCount = Threaded(y)' + Pending(session'[y]) + Flag(y)'
  <2>1. session'[y] = session[y] /\ Flag(y)' = Flag(y)
    BY <1>2 DEF TypeOK, Moves, Flag
  <2>2. Threaded(y)' = Threaded(y)
    BY <1>1, <1>2 DEF In
  <2> QED
    BY <2>1, <2>2 DEF Counted
<1>3. session'[x].ioCount = Threaded(x)' + Pending(session'[x]) + Flag(x)'
  <2>1. session'[x] = s /\ s.ioCount \in Int /\ session[x].ioCount \in Int
    BY DEF TypeOK, Moves, SessionType
  <2>2. Threaded(x)' = Threaded(x) - One(thread[t]) + One(r)
    BY <1>1 DEF In, One
  <2>3. Pending(s) \in Int /\ Pending(session[x]) \in Int
    BY PendingIsCounted DEF TypeOK
  <2>4. Flag(x) \in Int /\ Flag(x)' \in Int /\ One(r) \in Int /\ One(thread[t]) \in Int
    BY NetAssumption DEF Flag, One
  <2>5. session[x].ioCount = Threaded(x) + Pending(session[x]) + Flag(x)
    BY DEF Counted
  <2>6. Threaded(x) \in Int
    BY <1>1
  <2>7. s.ioCount = Threaded(x)' + Pending(s) + Flag(x)'
    BY <2>1, <2>2, <2>3, <2>4, <2>5, <2>6
  <2> QED
    BY <2>1, <2>7
<1> QED
  BY <1>2, <1>3 DEF Counted

LEMMA QuietStep ==
  ASSUME TypeOK, FlaggedIsQuiet, NEW t \in Threads, NEW x \in Slots, NEW r \in ThreadType, NEW s \in SessionType,
         Moves(t, x, r, s),
         \A y \in Slots : Flagged(y)' => Flagged(y),
         Flagged(x)' => s.recv = "none" /\ s.send = "none" /\ s.request = 0 /\ s.sendQ = 0,
         r = thread[t] \/ r.at \notin Holding \/ ~Flagged(r.slot) \/ (t = Update /\ r.at = "undo")
  PROVE  FlaggedIsQuiet'
<1>1. \A u \in Threads : thread'[u] = IF u = t THEN r ELSE thread[u]
  BY DEF TypeOK, Moves
<1>2. \A y \in Slots : session'[y] = IF y = x THEN s ELSE session[y]
  BY DEF TypeOK, Moves
<1> QED
  BY <1>1, <1>2 DEF FlaggedIsQuiet, In

\* t posts the next receive only where it took the last one from, and there is
\* one pending only where somebody was about to post it.
RecvPassed(t, x, r, s) ==
    /\ r.at \in AtRecv /\ r # thread[t] =>
          r.slot = x /\ s.recv = "none" /\ (In(t, x, AtRecv) \/ session[x].recv # "none")
    /\ s.recv # "none" => session[x].recv # "none" \/ (In(t, x, AtRecv) /\ r.at \notin AtRecv)

LEMMA RecvStep ==
  ASSUME TypeOK, OneAtRecv,
         NEW t \in Threads, NEW x \in Slots, NEW r \in ThreadType, NEW s \in SessionType,
         Moves(t, x, r, s), RecvPassed(t, x, r, s)
  PROVE  OneAtRecv'
<1>1. \A u \in Threads : thread'[u] = IF u = t THEN r ELSE thread[u]
  BY DEF TypeOK, Moves
<1>2. \A y \in Slots : session'[y] = IF y = x THEN s ELSE session[y]
  BY DEF TypeOK, Moves
<1>3. \A u \in Threads, y \in Slots :
         In(u, y, AtRecv)' <=> IF u = t THEN r.at \in AtRecv /\ r.slot = y ELSE In(u, y, AtRecv)
  BY <1>1 DEF In
<1>4. ASSUME NEW y \in Slots, NEW u \in Threads, In(u, y, AtRecv)' PROVE session'[y].recv = "none"
  <2>1. CASE u = t
    BY <1>2, <1>3, <1>4, <2>1 DEF RecvPassed, OneAtRecv, In
  <2>2. CASE u # t
    BY <1>2, <1>3, <1>4, <2>2 DEF RecvPassed, OneAtRecv
  <2> QED
    BY <2>1, <2>2
<1>5. ASSUME NEW y \in Slots, NEW u \in Threads, NEW v \in Threads, In(u, y, AtRecv)', In(v, y, AtRecv)'
      PROVE  u = v
  BY <1>2, <1>3, <1>5 DEF RecvPassed, OneAtRecv, In
<1> QED
  BY <1>4, <1>5 DEF OneAtRecv

AtSend == {"sendLock", "gather", "unlock"}

LEMMA SendStays ==
  ASSUME TypeOK, OneAtSend, PacketsAreHeldOnce, LeftOver,
         NEW t \in Threads, NEW x \in Slots, NEW r \in ThreadType, NEW s \in SessionType,
         Moves(t, x, r, s),
         r = thread[t] \/ (thread[t].at \notin AtSend /\ r.at \notin AtSend),
         s.send = session[x].send \/ (s.send # "none" /\ session[x].send # "none"),
         s.sendFlag = session[x].sendFlag, s.sendCount = session[x].sendCount,
         s.held = session[x].held, s.sendQ = session[x].sendQ
  PROVE  OneAtSend' /\ PacketsAreHeldOnce' /\ LeftOver'
<1>1. \A u \in Threads : thread'[u] = IF u = t THEN r ELSE thread[u]
  BY DEF TypeOK, Moves
<1>2. \A y \in Slots : session'[y] = IF y = x THEN s ELSE session[y]
  BY DEF TypeOK, Moves
<1>3. \A u \in Threads, y \in Slots :
         /\ In(u, y, {"gather", "unlock"})' <=> In(u, y, {"gather", "unlock"})
         /\ In(u, y, {"sendLock", "gather"})' <=> In(u, y, {"sendLock", "gather"})
  BY <1>1 DEF In, AtSend
<1>4. OneAtSend'
  BY <1>2, <1>3 DEF OneAtSend
<1>5. PacketsAreHeldOnce'
  BY <1>2 DEF PacketsAreHeldOnce
<1>6. LeftOver'
  BY <1>2, <1>3 DEF LeftOver
<1> QED
  BY <1>4, <1>5, <1>6

Data(s) == IF s.recv = "data" THEN 1 ELSE 0
AtMessage(r) == IF r.at = "message" THEN 1 ELSE 0

LEMMA LoadStep ==
  ASSUME TypeOK, RequestsAreBounded,
         NEW t \in Threads, NEW x \in Slots, NEW r \in ThreadType, NEW s \in SessionType,
         Moves(t, x, r, s), arrived' \in Nat, Queued \in Int, Queued' \in Int,
         NEW d \in Int,
         d = (Data(s) - Data(session[x])) + (AtMessage(r) - AtMessage(thread[t]))
             + (Answering' - Answering) + (Queued' - Queued) - (arrived' - arrived),
         d <= 0, d + (s.request - session[x].request) <= 0
  PROVE  RequestsAreBounded'
<1>1. \A y \in Slots : session'[y] = IF y = x THEN s ELSE session[y]
  BY DEF TypeOK, Moves
<1>2. /\ Received \in Int /\ Received' = Received - Data(session[x]) + Data(s)
  <2>1. session' = [session EXCEPT ![x] = s]
    BY DEF Moves
  <2>2. /\ Received \in Nat
        /\ Received' = Received - (IF session[x].recv = "data" THEN 1 ELSE 0)
                                + (IF s.recv = "data" THEN 1 ELSE 0)
    BY <2>1, ReceivedStep
  <2> QED
    BY <2>2 DEF Data
<1>3. /\ Delivering \in Int /\ Delivering' = Delivering - AtMessage(thread[t]) + AtMessage(r)
  <2>1. thread' = [thread EXCEPT ![t] = r]
    BY DEF Moves
  <2>2. /\ Delivering \in Nat
        /\ Delivering' = Delivering - (IF thread[t].at = "message" THEN 1 ELSE 0)
                                    + (IF r.at = "message" THEN 1 ELSE 0)
    BY <2>1, DeliveringStep
  <2> QED
    BY <2>2 DEF AtMessage
<1>4. /\ Data(s) \in Int /\ Data(session[x]) \in Int /\ AtMessage(r) \in Int /\ AtMessage(thread[t]) \in Int
      /\ Answering \in Int /\ Answering' \in Int
  BY DEF Data, AtMessage, Answering
<1>5. arrived \in Int /\ \A y \in Slots : session[y].request \in Int
  BY DEF TypeOK, SessionType
<1>6. s.request \in Int
  BY DEF SessionType
<1>7. ASSUME NEW y \in Slots
      PROVE  session'[y].request + Queued' + Received' + Delivering' + Answering' <= arrived'
  <2>1. session[y].request + Queued + Received + Delivering + Answering <= arrived
    BY DEF RequestsAreBounded
  <2>2. Queued' + Received' + Delivering' + Answering' - arrived'
           = Queued + Received + Delivering + Answering - arrived + d
    BY <1>2, <1>3, <1>4, <1>5
  <2>3. session'[y].request + d <= session[y].request /\ session'[y].request \in Int
    BY <1>1, <1>5, <1>6
  <2> QED
    BY <1>2, <1>3, <1>4, <1>5, <2>1, <2>2, <2>3
<1> QED
  BY <1>7 DEF RequestsAreBounded

\* Ids, in steps that give out none: sessions stay there and stay over.
LEMMA SessionsStay ==
  ASSUME TypeOK, NEW t \in Threads, NEW x \in Slots, NEW r \in ThreadType, NEW s \in SessionType,
         Moves(t, x, r, s), s.sessionID = session[x].sessionID, UNCHANGED <<lastID, slotOf>>,
         \A y \in Slots : Flagged(y)' <=> Flagged(y),
         t # Accept \/ r = thread[t] \/ (thread[t].at # "unflag" /\ r.at # "unflag")
  PROVE  /\ \A y \in Slots : session'[y].sessionID = session[y].sessionID
         /\ \A i : Seen(i)' <=> Seen(i)
         /\ \A i \in IDs : Live(i)' <=> Live(i)
         /\ \A i : Over(i)' <=> Over(i)
<1>1. \A y \in Slots : session'[y].sessionID = session[y].sessionID
  BY DEF TypeOK, Moves
<1>2. /\ \A i \in IDs : slotOf'[i] = slotOf[i] /\ slotOf[i] \in Slots
      /\ \A i \in 1 .. lastID : i \in IDs
  BY NetAssumption DEF TypeOK, IDs
<1>3. \A i : Seen(i)' <=> Seen(i)
  BY <1>1, <1>2 DEF Seen
<1>4. \A y \in Slots : In(Accept, y, {"unflag"})' <=> In(Accept, y, {"unflag"})
  BY ThreadsAre DEF TypeOK, Moves, In
<1>5. \A i \in IDs : Live(i)' <=> Live(i)
  BY <1>1, <1>2, <1>4 DEF Live
<1>6. \A i : Seen(i) => i \in IDs
  BY <1>2 DEF Seen
<1> QED
  BY <1>1, <1>3, <1>5, <1>6 DEF Over

LEMMA IDsStay ==
  ASSUME TypeOK, IDsInOrder, IDsAreKnown,
         NEW t \in Threads, NEW x \in Slots, NEW r \in ThreadType, NEW s \in SessionType,
         Moves(t, x, r, s), s.sessionID = session[x].sessionID, UNCHANGED <<lastID, slotOf>>,
         \A y \in Slots : Flagged(y)' <=> Flagged(y),
         t # Accept \/ r = thread[t] \/ (thread[t].at \notin {"setID", "unflag"} /\ r.at \notin AtAccept),
         Knows(t, r)
  PROVE  IDsInOrder' /\ IDsAreKnown'
<1>1. /\ \A y \in Slots : session'[y].sessionID = session[y].sessionID
      /\ \A i : Seen(i)' <=> Seen(i)
      /\ \A i : Over(i)' <=> Over(i)
  <2>1. t # Accept \/ r = thread[t] \/ (thread[t].at # "unflag" /\ r.at # "unflag")
    BY DEF AtAccept
  <2> QED
    BY <2>1, SessionsStay
<1>2. \A u \in Threads : thread'[u] = IF u = t THEN r ELSE thread[u]
  BY DEF TypeOK, Moves
<1>3. \A u \in Threads : thread[u].slot \in Slots /\ r.slot \in Slots
  BY DEF TypeOK, ThreadType
<1>4. ASSUME NEW u \in Threads PROVE Knows(u, thread[u])' <=> Knows(u, thread'[u])
  BY <1>1, <1>2, <1>3 DEF Knows
<1>5. IDsAreKnown'
  BY <1>2, <1>4 DEF IDsAreKnown
<1>6. IDsInOrder'
  <2>1. \A y \in Slots : /\ session'[y].sessionID <= lastID'
                         /\ session'[y].sessionID # 0 => slotOf'[session'[y].sessionID] = y
                         /\ ~Flagged(y)' => session'[y].sessionID # 0
    BY <1>1 DEF IDsInOrder
  <2>2. thread'[Accept].at \in AtAccept => thread'[Accept] = thread[Accept]
    BY <1>2, ThreadsAre
  <2>3. thread[Accept].slot \in Slots
    BY <1>3, ThreadsAre
  <2> QED
    BY <1>1, <2>1, <2>2, <2>3 DEF IDsInOrder, AtAccept, Slot
<1> QED
  BY <1>5, <1>6

LEMMA JobsStay ==
  ASSUME TypeOK, JobsAreKnown, LiveHasUser, JobsInOrder,
         NEW t \in Threads, NEW x \in Slots, NEW r \in ThreadType, NEW s \in SessionType,
         Moves(t, x, r, s), s.sessionID = session[x].sessionID, UNCHANGED <<lastID, slotOf, jobQ, users>>,
         \A y \in Slots : Flagged(y)' <=> Flagged(y),
         t # Accept \/ r = thread[t] \/ (thread[t].at \notin AtAccept /\ r.at \notin AtAccept)
  PROVE  JobsAreKnown' /\ LiveHasUser' /\ JobsInOrder'
<1>1. /\ \A i : Seen(i)' <=> Seen(i)
      /\ \A i \in IDs : Live(i)' <=> Live(i)
      /\ \A i : Over(i)' <=> Over(i)
  <2>1. t # Accept \/ r = thread[t] \/ (thread[t].at # "unflag" /\ r.at # "unflag")
    BY DEF AtAccept
  <2> QED
    BY <2>1, SessionsStay
<1>2. \A y \in Slots : In(Accept, y, {"unflag", "join"})' <=> In(Accept, y, {"unflag", "join"})
  BY ThreadsAre DEF TypeOK, Moves, In, AtAccept
<1>3. \A i \in 1 .. lastID : i \in IDs /\ slotOf[i] \in Slots
  BY NetAssumption DEF TypeOK, IDs
<1>4. JobsAreKnown'
  BY <1>1 DEF JobsAreKnown
<1>5. LiveHasUser'
  BY <1>1, <1>2, <1>3 DEF LiveHasUser
<1>6. JobsInOrder'
  BY DEF JobsInOrder
<1> QED
  BY <1>4, <1>5, <1>6

\* A step that changes nothing but one session and one thread.
LEMMA ElsewhereStep ==
  ASSUME IInv, NEW t \in Threads, NEW x \in Slots, NEW r \in ThreadType, NEW s \in SessionType,
         Moves(t, x, r, s), Elsewhere,
         r.at \in LabelsOf(t),
         \/ r = thread[t]
         \/ /\ thread[t].at \notin Owning \union AtAccept /\ r.at \notin Owning \union AtAccept
            /\ (thread[t].at \in Holding => thread[t].slot = x) /\ (r.at \in Holding => r.slot = x),
         s.ioCount - session[x].ioCount =
             (Pending(s) - Pending(session[x])) + (One(r) - One(thread[t])),
         Flagged(x) => s.recv = "none" /\ s.send = "none" /\ s.request = 0 /\ s.sendQ = 0,
         r = thread[t] \/ r.at \notin Holding \/ ~Flagged(r.slot) \/ (t = Update /\ r.at = "undo"),
         RecvPassed(t, x, r, s), OneAtSend', PacketsAreHeldOnce', LeftOver',
         NEW d \in Int,
         d = (Data(s) - Data(session[x])) + (AtMessage(r) - AtMessage(thread[t])) + (Answering' - Answering),
         d <= 0, d + (s.request - session[x].request) <= 0,
         s.sessionID = session[x].sessionID,
         Knows(t, r)
  PROVE  IInv'
<1> USE DEF IInv
<1>1. /\ UNCHANGED <<indexPool, lastID, slotOf, jobQ, users, loggedIn, arrived, meant, halted>>
  BY DEF Elsewhere
<1>2. TypeOK'
  BY <1>1 DEF TypeOK, Moves, ThreadType
<1>3. ThreadsInPlace'
  BY DEF ThreadsInPlace, LabelsOf, Moves, TypeOK
<1>4. OneOwner' /\ \A y \in Slots : Flagged(y)' <=> Flagged(y)
  <2>1. thread' = [thread EXCEPT ![t] = r]
    BY DEF Moves
  <2> QED
    BY <1>1, <2>1, OwnersStay
<1>5. Counted'
  <2>1. Flag(x)' = Flag(x) /\ Flag(x) \in Int
    BY <1>4, NetAssumption DEF Flag
  <2>2. Pending(s) \in Int /\ Pending(session[x]) \in Int /\ One(r) \in Int /\ One(thread[t]) \in Int
    BY PendingIsCounted DEF TypeOK, One
  <2>3. s.ioCount - session[x].ioCount =
             (Pending(s) - Pending(session[x])) + (One(r) - One(thread[t])) + (Flag(x)' - Flag(x))
    BY <2>1, <2>2
  <2> QED
    BY <1>4, <2>3, CountedStep
<1>6. FlaggedIsQuiet'
  BY <1>4, QuietStep
<1>7. RequestsAreBounded'
  <2>1. Queued' = Queued /\ Queued \in Int /\ arrived' = arrived /\ arrived \in Nat /\ Answering \in Int /\ Answering' \in Int
    BY <1>1, QueueIsCounted DEF Queued, TypeOK, Answering
  <2>2. Data(s) \in Int /\ Data(session[x]) \in Int /\ AtMessage(r) \in Int /\ AtMessage(thread[t]) \in Int
    BY DEF Data, AtMessage
  <2>3. d = (Data(s) - Data(session[x])) + (AtMessage(r) - AtMessage(thread[t]))
             + (Answering' - Answering) + (Queued' - Queued) - (arrived' - arrived)
    BY <2>1, <2>2
  <2> QED
    BY <2>1, <2>3, LoadStep
<1>8. t # Accept \/ r = thread[t] \/ (thread[t].at \notin AtAccept /\ r.at \notin AtAccept)
  OBVIOUS
<1>9. t # Accept \/ r = thread[t] \/ (thread[t].at \notin {"setID", "unflag"} /\ r.at \notin AtAccept)
  BY <1>8 DEF AtAccept
<1>10. IDsInOrder' /\ IDsAreKnown'
  BY <1>1, <1>4, <1>9, IDsStay
<1>11. JobsAreKnown' /\ LiveHasUser' /\ JobsInOrder'
  BY <1>1, <1>4, <1>8, JobsStay
<1>12. OnlyKnownHalts'
  BY <1>1 DEF OnlyKnownHalts
<1>13. OneAtRecv'
  BY RecvStep
<1> QED
  BY <1>2, <1>3, <1>4, <1>5, <1>6, <1>7, <1>10, <1>11, <1>12, <1>13

-----------------------------------------------------------------------------
(* A thread that holds a reference goes on to use the slot.                  *)

LEMMA HolderIsUsing ==
  ASSUME IInv, NEW t \in Threads, thread[t].at \in Holding \ {"undo"}
  PROVE  thread[t].slot \in Slots /\ ~Flagged(thread[t].slot)
<1>1. thread[t].slot \in Slots
  BY DEF IInv, TypeOK
<1> QED
  BY <1>1 DEF IInv, FlaggedIsQuiet, In

LEMMA HolderStep ==
  ASSUME IInv, NEW t \in Threads, thread[t].at \in Holding \ {"undo", "join", "message"},
         NEW m \in Holding \ {"join", "message"}, m \in LabelsOf(t), Goto(t, m),
         NEW x \in Slots, x = thread[t].slot,
         NEW s \in SessionType, session' = [session EXCEPT ![x] = s], Elsewhere,
         s.ioCount - session[x].ioCount = Pending(s) - Pending(session[x]),
         m \in AtRecv => thread[t].at \in AtRecv /\ s.recv = session[x].recv,
         s.recv # "none" => session[x].recv # "none" \/ (thread[t].at \in AtRecv /\ m \notin AtRecv),
         OneAtSend', PacketsAreHeldOnce', LeftOver',
         Data(s) = Data(session[x]), s.sessionID = session[x].sessionID,
         Answering' <= Answering, Answering' + s.request <= Answering + session[x].request
  PROVE  IInv'
<1> DEFINE r == [thread[t] EXCEPT !.at = m]
           d == Answering' - Answering
<1>1. thread[t] \in ThreadType /\ m \in Labels
  BY DEF IInv, TypeOK, ThreadType, Holding
<1>2. r \in ThreadType /\ r.at = m /\ r.slot = x /\ r.id = thread[t].id
  BY <1>1 DEF ThreadType
<1>3. Moves(t, x, r, s)
  BY DEF Moves, Goto
<1>4. ~Flagged(x)
  BY HolderIsUsing
<1>5. thread[t].at \notin Owning \union AtAccept /\ r.at \notin Owning \union AtAccept
  BY <1>2 DEF Owning, AtAccept, Holding
<1>6. One(r) = 1 /\ One(thread[t]) = 1
  BY <1>2 DEF One
<1>7. s.ioCount - session[x].ioCount = (Pending(s) - Pending(session[x])) + (One(r) - One(thread[t]))
  <2>1. Pending(s) \in Int /\ Pending(session[x]) \in Int
    BY PendingIsCounted DEF IInv, TypeOK
  <2> QED
    BY <1>6, <2>1
<1>8. /\ d \in Int /\ d <= 0 /\ d + (s.request - session[x].request) <= 0
      /\ d = (Data(s) - Data(session[x])) + (AtMessage(r) - AtMessage(thread[t])) + (Answering' - Answering)
  <2>1. Answering' \in Int /\ Answering \in Int
    BY DEF Answering
  <2>2. session[x].request \in Int /\ s.request \in Int
    BY DEF IInv, TypeOK, SessionType
  <2>3. AtMessage(r) = 0 /\ AtMessage(thread[t]) = 0 /\ Data(s) \in Int
    BY <1>2 DEF AtMessage, Data
  <2> QED
    BY <2>1, <2>2, <2>3
<1>9. Knows(t, r)
  <2>1. m \notin {"cas", "push", "leave", "readID", "message"}
    BY DEF Holding
  <2>2. CASE t = Update
    <3>1. thread[t].at \in AtUpdate \/ thread[t].at = "drop"
      BY <2>2, NetAssumption DEF IInv, ThreadsInPlace, LabelsOf, Holding, AtRelease
    <3>2. Seen(thread[t].id) /\ slotOf[thread[t].id] = thread[t].slot
      BY <2>2, <3>1 DEF IInv, IDsAreKnown, Knows
    <3> QED
      BY <1>2, <2>1, <3>2 DEF Knows
  <2>3. CASE t # Update
    <3>1. m \notin AtUpdate
      BY <2>3 DEF LabelsOf, AtAccept, AtPost, AtRelease, AtWorker, AtUpdate
    <3> QED
      BY <1>2, <2>1, <2>3, <3>1 DEF Knows
  <2> QED
    BY <2>2, <2>3
<1>10. RecvPassed(t, x, r, s)
  BY <1>2 DEF RecvPassed, IInv, OneAtRecv, In
<1> HIDE DEF r, d
<1> QED
  BY <1>2, <1>3, <1>4, <1>5, <1>7, <1>8, <1>9, <1>10, ElsewhereStep

LEMMA SomeAnswering ==
  ASSUME IInv, NEW t \in Threads, NEW m, Goto(t, m), t # Update \/ m \notin {"enter", "compare", "enqueue", "wake"}
  PROVE  Answering \in Int /\ Answering' \in Int /\ Answering' <= Answering
<1>1. t # Update => thread'[Update] = thread[Update]
  BY ThreadsAre DEF Goto, IInv, TypeOK
<1>2. t = Update => thread'[Update].at = m
  BY ThreadsAre DEF Goto, IInv, TypeOK
<1> QED
  BY <1>1, <1>2 DEF Answering

\* The same when the thread is not sending.
LEMMA HolderRests ==
  ASSUME IInv, NEW t \in Threads, thread[t].at \in Holding \ {"undo", "join", "message"},
         NEW m \in Holding \ {"join", "message"}, m \in LabelsOf(t), Goto(t, m),
         thread[t].at \notin AtSend, m \notin AtSend,
         NEW x \in Slots, x = thread[t].slot,
         NEW s \in SessionType, session' = [session EXCEPT ![x] = s], Elsewhere,
         s.ioCount - session[x].ioCount = Pending(s) - Pending(session[x]),
         m \in AtRecv => thread[t].at \in AtRecv /\ s.recv = session[x].recv,
         s.recv # "none" => session[x].recv # "none" \/ (thread[t].at \in AtRecv /\ m \notin AtRecv),
         s.send = session[x].send \/ (s.send # "none" /\ session[x].send # "none"),
         s.sendFlag = session[x].sendFlag, s.sendCount = session[x].sendCount,
         s.held = session[x].held, s.sendQ = session[x].sendQ,
         Data(s) = Data(session[x]), s.sessionID = session[x].sessionID,
         Answering' <= Answering, Answering' + s.request <= Answering + session[x].request
  PROVE  IInv'
<1>1. OneAtSend' /\ PacketsAreHeldOnce' /\ LeftOver'
  <2> DEFINE r == [thread[t] EXCEPT !.at = m]
  <2>1. r \in ThreadType /\ r.at = m /\ Moves(t, x, r, s)
    BY DEF IInv, TypeOK, ThreadType, Moves, Goto, Holding
  <2> HIDE DEF r
  <2> QED
    BY <2>1, SendStays DEF IInv
<1> QED
  BY <1>1, HolderStep

-----------------------------------------------------------------------------
(* RecvPost.                                                                 *)

LEMMA UnchangedSession ==
  ASSUME IInv, NEW x \in Slots, UNCHANGED session
  PROVE  /\ session' = [session EXCEPT ![x] = session[x]] /\ session[x] \in SessionType
         /\ session[x].ioCount - session[x].ioCount = Pending(session[x]) - Pending(session[x])
<1>1. session[x] \in SessionType /\ session' = [session EXCEPT ![x] = session[x]]
  BY DEF IInv, TypeOK
<1>2. session[x].ioCount \in Int /\ Pending(session[x]) \in Int
  BY <1>1, PendingIsCounted DEF SessionType
<1>3. session[x].ioCount - session[x].ioCount = Pending(session[x]) - Pending(session[x])
  BY <1>2
<1> QED
  BY <1>1, <1>3

LEMMA SameLoad ==
  ASSUME IInv, NEW t \in Threads, NEW m, Goto(t, m), t # Update \/ m \notin {"enter", "compare", "enqueue", "wake"},
         NEW x \in Slots, NEW n \in Nat, n = session[x].request
  PROVE  Answering' <= Answering /\ Answering' + n <= Answering + session[x].request
BY SomeAnswering

LEMMA RecvCheckStep ==
  ASSUME IInv, NEW t \in Threads, t # Update, RecvCheck(t)
  PROVE  IInv'
<1> DEFINE x == thread[t].slot
           m == IF session[x].disconnectFlag THEN "drop" ELSE "recvStart"
<1>1. /\ thread[t].at = "recvCheck" /\ Goto(t, m) /\ x \in Slots /\ Elsewhere /\ UNCHANGED session
  BY DEF RecvCheck, At, Mine, Slot, IInv, TypeOK
<1>2. m \in Holding \ {"join", "message"} /\ m \in LabelsOf(t) /\ m \notin AtSend
  BY DEF Holding, Labels, LabelsOf, AtPost, AtRelease, AtSend
<1>3. /\ thread[t].at \in Holding \ {"undo", "join", "message"} /\ thread[t].at \notin AtSend
      /\ thread[t].at \in AtRecv
  BY <1>1 DEF Holding, Labels, AtSend, AtRecv
<1>4. session[x].request \in Nat
  BY <1>1 DEF IInv, TypeOK, SessionType
<1> HIDE DEF m
<1>5. Answering' <= Answering /\ Answering' + session[x].request <= Answering + session[x].request
  BY <1>1, <1>4, SameLoad
<1>6. /\ session' = [session EXCEPT ![x] = session[x]] /\ session[x] \in SessionType
      /\ session[x].ioCount - session[x].ioCount = Pending(session[x]) - Pending(session[x])
  BY <1>1, UnchangedSession
<1> HIDE DEF x
<1>7. x = thread[t].slot
  BY DEF x
<1> QED
  BY <1>1, <1>2, <1>3, <1>5, <1>6, <1>7, HolderRests

LEMMA RecvStartStep ==
  ASSUME IInv, NEW t \in Threads, t # Update, RecvStart(t)
  PROVE  IInv'
<1>1. PICK x \in Slots : x = thread[t].slot
  BY DEF IInv, TypeOK
<1>2. thread[t].at = "recvStart" /\ Elsewhere /\ session[x] \in SessionType /\ session[x].request \in Nat
  BY DEF RecvStart, At, IInv, TypeOK, SessionType
<1>3. /\ thread[t].at \in Holding \ {"undo", "join", "message"} /\ thread[t].at \notin AtSend
      /\ thread[t].at \in AtRecv
  BY <1>2 DEF Holding, Labels, AtSend, AtRecv
<1>4. /\ "drop" \in Holding \ {"join", "message"} /\ "drop" \in LabelsOf(t)
      /\ "drop" \notin AtSend /\ "drop" \notin AtRecv
  BY DEF Holding, Labels, LabelsOf, AtRelease, AtSend, AtRecv
<1>5. CASE Goto(t, "recvCancel") /\ session' = [session EXCEPT ![x] = Receiving(session[x])]
  <2> DEFINE s == Receiving(session[x])
  <2>1. session[x].recv = "none"
    BY <1>1, <1>3 DEF IInv, OneAtRecv, In
  <2>2. /\ s \in SessionType /\ s.recv = "pending" /\ s.send = session[x].send
        /\ s.ioCount = session[x].ioCount + 1 /\ s.request = session[x].request
        /\ s.sendFlag = session[x].sendFlag /\ s.sendCount = session[x].sendCount
        /\ s.held = session[x].held /\ s.sendQ = session[x].sendQ /\ s.sessionID = session[x].sessionID
    <3>1. session[x].ioCount + 1 \in Int
      BY <1>2 DEF SessionType
    <3>2. s \in SessionType
      BY <1>2, <3>1 DEF SessionType, Receiving
    <3> QED
      BY <1>2, <3>2 DEF SessionType, Receiving
  <2>3. Data(s) = Data(session[x])
    BY <2>1, <2>2 DEF Data
  <2>4. s.ioCount - session[x].ioCount = Pending(s) - Pending(session[x])
    BY <1>2, <2>1, <2>2 DEF Pending, SessionType
  <2>5. Answering' <= Answering /\ Answering' + s.request <= Answering + session[x].request
    BY <1>2, <1>5, <2>2, SameLoad
  <2> HIDE DEF s
  <2>6. session' = [session EXCEPT ![x] = s]
    BY <1>5 DEF s
  <2>7. /\ "recvCancel" \in Holding \ {"join", "message"} /\ "recvCancel" \in LabelsOf(t)
        /\ "recvCancel" \notin AtSend /\ "recvCancel" \notin AtRecv
    BY DEF Holding, Labels, LabelsOf, AtPost, AtSend, AtRecv
  <2>8. Goto(t, "recvCancel")
    BY <1>5
  <2> QED
    BY <1>1, <1>2, <1>3, <2>7, <2>8, <2>2, <2>3, <2>4, <2>5, <2>6, HolderRests
<1>6. CASE Goto(t, "drop") /\ UNCHANGED session
  <2>1. Answering' <= Answering /\ Answering' + session[x].request <= Answering + session[x].request
    BY <1>2, <1>6, SameLoad
  <2>2. /\ session' = [session EXCEPT ![x] = session[x]]
        /\ session[x].ioCount - session[x].ioCount = Pending(session[x]) - Pending(session[x])
    BY <1>6, UnchangedSession
  <2> QED
    BY <1>1, <1>2, <1>3, <1>4, <1>6, <2>1, <2>2, HolderRests
<1> QED
  BY <1>1, <1>5, <1>6 DEF RecvStart, Slot

LEMMA RecvCancelStep ==
  ASSUME IInv, NEW t \in Threads, t # Update, RecvCancel(t)
  PROVE  IInv'
<1>1. PICK x \in Slots : x = thread[t].slot
  BY DEF IInv, TypeOK
<1> DEFINE s == [session[x] EXCEPT !.recv = IF @ = "pending" /\ session[x].disconnectFlag THEN "end" ELSE @]
<1>2. /\ thread[t].at = "recvCancel" /\ Goto(t, "drop") /\ Elsewhere
      /\ session[x] \in SessionType /\ session[x].request \in Nat
      /\ session' = [session EXCEPT ![x] = s]
  BY <1>1 DEF RecvCancel, At, Mine, Slot, IInv, TypeOK, SessionType
<1>3. /\ thread[t].at \in Holding \ {"undo", "join", "message"} /\ thread[t].at \notin AtSend
      /\ "drop" \in Holding \ {"join", "message"} /\ "drop" \in LabelsOf(t) /\ "drop" \notin AtSend \union AtRecv
  BY <1>2 DEF Holding, Labels, LabelsOf, AtRelease, AtSend, AtRecv
<1>4. /\ s \in SessionType /\ s.send = session[x].send /\ (s.recv = "none" <=> session[x].recv = "none")
      /\ (s.recv = "data" <=> session[x].recv = "data")
      /\ s.ioCount = session[x].ioCount /\ s.request = session[x].request
      /\ s.sendFlag = session[x].sendFlag /\ s.sendCount = session[x].sendCount
      /\ s.held = session[x].held /\ s.sendQ = session[x].sendQ /\ s.sessionID = session[x].sessionID
  BY <1>2 DEF SessionType
<1>5. Data(s) = Data(session[x])
  BY <1>4 DEF Data
<1>6. s.ioCount - session[x].ioCount = Pending(s) - Pending(session[x])
  BY <1>2, <1>4 DEF Pending, SessionType
<1>7. Answering' <= Answering /\ Answering' + s.request <= Answering + session[x].request
  BY <1>2, <1>4, SameLoad
<1> HIDE DEF s
<1> QED
  BY <1>1, <1>2, <1>3, <1>4, <1>5, <1>6, <1>7, HolderRests

\* A thread that only looks at the slot.
SessionsSame == UNCHANGED session

LEMMA HolderLooks ==
  ASSUME IInv, NEW t \in Threads, thread[t].at \in Holding \ {"undo", "join", "message"},
         NEW m \in Holding \ {"join", "message"}, m \in LabelsOf(t), Goto(t, m),
         SessionsSame, Elsewhere,
         m \in AtRecv => thread[t].at \in AtRecv,
         OneAtSend', PacketsAreHeldOnce', LeftOver', Answering' <= Answering
  PROVE  IInv'
<1>1. PICK x \in Slots : x = thread[t].slot
  BY DEF IInv, TypeOK
<1>2. PICK s \in SessionType : s = session[x]
  BY DEF IInv, TypeOK
<1>3. /\ session' = [session EXCEPT ![x] = s]
      /\ s.ioCount - session[x].ioCount = Pending(s) - Pending(session[x])
  BY <1>2, UnchangedSession DEF SessionsSame
<1>4. Answering' + s.request <= Answering + session[x].request
  <2>1. s.request \in Int /\ Answering \in Int /\ Answering' \in Int
    BY DEF SessionType, Answering
  <2> QED
    BY <1>2, <2>1
<1>5. /\ m \in AtRecv => thread[t].at \in AtRecv /\ s.recv = session[x].recv
      /\ s.recv # "none" => session[x].recv # "none" \/ (thread[t].at \in AtRecv /\ m \notin AtRecv)
      /\ Data(s) = Data(session[x]) /\ s.sessionID = session[x].sessionID
  BY <1>2
<1> QED
  BY <1>1, <1>3, <1>4, <1>5, HolderStep

-----------------------------------------------------------------------------
(* SendPost, by the workers.                                                 *)

LEMMA WorkerIs ==
  ASSUME NEW w \in Workers
  PROVE  w \in Threads /\ w # Update /\ w # Accept
BY NetAssumption DEF Threads

LEMMA MovedTo ==
  ASSUME IInv, NEW t \in Threads, NEW m, Goto(t, m)
  PROVE  \A u \in Threads : /\ thread'[u].at = IF u = t THEN m ELSE thread[u].at
                            /\ thread'[u].slot = thread[u].slot
BY DEF IInv, TypeOK, Goto

LEMMA UnlockStep ==
  ASSUME IInv, NEW w \in Workers, Unlock(w)
  PROVE  IInv'
<1>0. w \in Threads /\ w # Update /\ w # Accept
  BY WorkerIs
<1>1. PICK x \in Slots : x = thread[w].slot
  BY <1>0 DEF IInv, TypeOK
<1> DEFINE s == [session[x] EXCEPT !.sendFlag = FALSE]
<1>2. /\ thread[w].at = "unlock" /\ Goto(w, "sendCheck") /\ Elsewhere
      /\ session[x] \in SessionType /\ session[x].request \in Nat
      /\ session' = [session EXCEPT ![x] = s]
  BY <1>1 DEF Unlock, At, AfterUnlock, Slot, IInv, TypeOK, SessionType
<1>3. /\ thread[w].at \in Holding \ {"undo", "join", "message"}
      /\ "sendCheck" \in Holding \ {"join", "message"} /\ "sendCheck" \in LabelsOf(w) /\ "sendCheck" \notin AtRecv
      /\ "sendCheck" \in Labels
  BY <1>2, <1>0 DEF Holding, Labels, LabelsOf, AtWorker, AtRecv
<1>4. /\ s \in SessionType /\ s.send = session[x].send /\ s.recv = session[x].recv
      /\ s.ioCount = session[x].ioCount /\ s.request = session[x].request
      /\ ~s.sendFlag /\ s.sendCount = session[x].sendCount
      /\ s.held = session[x].held /\ s.sendQ = session[x].sendQ /\ s.sessionID = session[x].sessionID
  BY <1>2 DEF SessionType
<1>5. Data(s) = Data(session[x])
  BY <1>4 DEF Data
<1>6. s.ioCount - session[x].ioCount = Pending(s) - Pending(session[x])
  BY <1>2, <1>4 DEF Pending, SessionType
<1>7. Answering' <= Answering /\ Answering' + s.request <= Answering + session[x].request
  BY <1>2, <1>4, <1>0, SameLoad
<1> HIDE DEF s
<1>8. OneAtSend' /\ PacketsAreHeldOnce' /\ LeftOver'
  <2>1. /\ \A y \in Slots : session'[y] = IF y = x THEN s ELSE session[y]
        /\ \A u \in Threads, y \in Slots :
              In(u, y, {"gather", "unlock"})' <=> u # w /\ In(u, y, {"gather", "unlock"})
        /\ \A u \in Threads, y \in Slots :
              In(u, y, {"sendLock", "gather"})' <=> u # w /\ In(u, y, {"sendLock", "gather"})
    <3>1. \A u \in Threads : /\ thread'[u].at = IF u = w THEN "sendCheck" ELSE thread[u].at
                             /\ thread'[u].slot = thread[u].slot
      BY <1>0, <1>2, MovedTo
    <3> QED
      BY <1>0, <1>1, <1>2, <3>1 DEF In, IInv, TypeOK
  <2>2. In(w, x, {"gather", "unlock"}) /\ session[x].send = "none"
    BY <1>0, <1>1, <1>2 DEF In, IInv, OneAtSend
  <2>3. \A u \in Threads : ~In(u, x, {"gather", "unlock"})'
    BY <2>1, <2>2, <1>0 DEF IInv, OneAtSend
  <2>4. OneAtSend'
    BY <1>4, <2>1, <2>2, <2>3 DEF IInv, OneAtSend
  <2>5. PacketsAreHeldOnce'
    BY <1>4, <2>1 DEF IInv, PacketsAreHeldOnce
  <2>6. LeftOver'
    BY <1>4, <2>1, <2>2, <1>0 DEF IInv, LeftOver
  <2> QED
    BY <2>4, <2>5, <2>6
<1> QED
  BY <1>1, <1>2, <1>3, <1>4, <1>5, <1>6, <1>7, <1>8, <1>0, HolderStep

LEMMA SendCheckStep ==
  ASSUME IInv, NEW w \in Workers, SendCheck(w)
  PROVE  IInv'
<1>0. w \in Threads /\ w # Update /\ w # Accept
  BY WorkerIs
<1>1. PICK x \in Slots : x = thread[w].slot
  BY <1>0 DEF IInv, TypeOK
<1> DEFINE m == IF session[x].sendQ > 0 THEN "sendLock" ELSE "drop"
<1>2. thread[w].at = "sendCheck" /\ Goto(w, m) /\ Elsewhere /\ UNCHANGED session
      /\ session[x] \in SessionType /\ session[x].request \in Nat
  BY <1>1 DEF SendCheck, At, Mine, Slot, IInv, TypeOK, SessionType
<1>3. /\ thread[w].at \in Holding \ {"undo", "join", "message"}
      /\ m \in Holding \ {"join", "message"} /\ m \in LabelsOf(w) /\ m \notin AtRecv
      /\ m \in Labels /\ m \notin {"gather", "unlock"}
  BY <1>2, <1>0 DEF Holding, Labels, LabelsOf, AtWorker, AtRelease, AtRecv
<1>4. m \in {"sendLock", "gather"} => session[x].sendQ > 0
  OBVIOUS
<1> HIDE DEF m
<1>5. Answering' <= Answering
  BY <1>0, <1>2, SomeAnswering
<1>7. OneAtSend' /\ PacketsAreHeldOnce' /\ LeftOver'
  <2>1. /\ \A u \in Threads, y \in Slots :
              In(u, y, {"gather", "unlock"})' <=> u # w /\ In(u, y, {"gather", "unlock"})
        /\ \A u \in Threads, y \in Slots :
              In(u, y, {"sendLock", "gather"})' <=>
                  IF u = w THEN y = x /\ m \in {"sendLock", "gather"} ELSE In(u, y, {"sendLock", "gather"})
    <3>1. \A u \in Threads : /\ thread'[u].at = IF u = w THEN m ELSE thread[u].at
                             /\ thread'[u].slot = thread[u].slot
      BY <1>0, <1>2, MovedTo
    <3> QED
      BY <1>0, <1>1, <1>3, <3>1 DEF In
  <2>2. ~In(w, x, {"gather", "unlock"})
    BY <1>2 DEF In
  <2>3. OneAtSend'
    BY <1>2, <2>1 DEF IInv, OneAtSend
  <2>4. PacketsAreHeldOnce'
    BY <1>2 DEF IInv, PacketsAreHeldOnce
  <2>5. LeftOver'
    BY <1>2, <1>4, <2>1, <1>0 DEF IInv, LeftOver
  <2> QED
    BY <2>3, <2>4, <2>5
<1>8. /\ thread[w].at \in Holding \ {"undo", "join", "message"}
      /\ m \in Holding \ {"join", "message"} /\ m \in LabelsOf(w)
      /\ m \in AtRecv => thread[w].at \in AtRecv
  BY <1>3
<1>9. Goto(w, m) /\ Elsewhere /\ SessionsSame /\ w \in Threads /\ Answering' <= Answering
  BY <1>0, <1>2, <1>5 DEF SessionsSame
<1> QED
  BY <1>7, <1>8, <1>9, HolderLooks

LEMMA SendLockStep ==
  ASSUME IInv, NEW w \in Workers, SendLock(w)
  PROVE  IInv'
<1>0. w \in Threads /\ w # Update /\ w # Accept
  BY WorkerIs
<1>1. PICK x \in Slots : x = thread[w].slot
  BY <1>0 DEF IInv, TypeOK
<1> DEFINE m == IF session[x].sendFlag THEN "drop" ELSE "gather"
           s == [session[x] EXCEPT !.sendFlag = TRUE]
<1>2. /\ thread[w].at = "sendLock" /\ Goto(w, m) /\ Elsewhere
      /\ session[x] \in SessionType /\ session[x].request \in Nat
      /\ session' = [session EXCEPT ![x] = s]
  BY <1>1 DEF SendLock, At, MaySend, Mine, Slot, IInv, TypeOK, SessionType
<1>3. /\ thread[w].at \in Holding \ {"undo", "join", "message"}
      /\ m \in Holding \ {"join", "message"} /\ m \in LabelsOf(w) /\ m \notin AtRecv
  BY <1>0, <1>2 DEF Holding, Labels, LabelsOf, AtWorker, AtRelease, AtRecv
<1>4. m = IF session[x].sendFlag THEN "drop" ELSE "gather"
  OBVIOUS
<1> HIDE DEF m
<1>5. /\ s \in SessionType /\ s.send = session[x].send /\ s.recv = session[x].recv
      /\ s.ioCount = session[x].ioCount /\ s.request = session[x].request
      /\ s.sendFlag /\ s.sendCount = session[x].sendCount
      /\ s.held = session[x].held /\ s.sendQ = session[x].sendQ /\ s.sessionID = session[x].sessionID
  BY <1>2 DEF SessionType
<1>6. Data(s) = Data(session[x])
  BY <1>5 DEF Data
<1>7. s.ioCount - session[x].ioCount = Pending(s) - Pending(session[x])
  BY <1>2, <1>5 DEF Pending, SessionType
<1>8. Answering' <= Answering /\ Answering' + s.request <= Answering + session[x].request
  BY <1>0, <1>2, <1>5, SameLoad
<1> HIDE DEF s
<1>9. OneAtSend' /\ PacketsAreHeldOnce' /\ LeftOver'
  <2>1. \A y \in Slots : session'[y] = IF y = x THEN s ELSE session[y]
    BY <1>2 DEF IInv, TypeOK
  <2>2. /\ \A u \in Threads, y \in Slots :
              In(u, y, {"gather", "unlock"})' <=> IF u = w THEN y = x /\ m = "gather" ELSE In(u, y, {"gather", "unlock"})
        /\ \A u \in Threads, y \in Slots :
              In(u, y, {"sendLock", "gather"})' <=> IF u = w THEN y = x /\ m = "gather" ELSE In(u, y, {"sendLock", "gather"})
    <3>1. \A u \in Threads : /\ thread'[u].at = IF u = w THEN m ELSE thread[u].at
                             /\ thread'[u].slot = thread[u].slot
      BY <1>0, <1>2, MovedTo
    <3> QED
      BY <1>0, <1>1, <1>4, <3>1 DEF In
  <2>3. m = "gather" => session[x].send = "none" /\ \A u \in Threads : ~In(u, x, {"gather", "unlock"})
    BY <1>2, <1>4 DEF IInv, OneAtSend, SessionType
  <2>4. In(w, x, {"sendLock", "gather"})
    BY <1>1, <1>2 DEF In
  <2>5. OneAtSend'
    BY <1>0, <1>5, <2>1, <2>2, <2>3 DEF IInv, OneAtSend
  <2>6. PacketsAreHeldOnce'
    BY <1>5, <2>1 DEF IInv, PacketsAreHeldOnce
  <2>7. LeftOver'
    BY <1>0, <1>4, <1>5, <2>1, <2>2, <2>4 DEF IInv, LeftOver
  <2> QED
    BY <2>5, <2>6, <2>7
<1>10. /\ thread[w].at \in Holding \ {"undo", "join", "message"}
       /\ m \in Holding \ {"join", "message"} /\ m \in LabelsOf(w)
       /\ m \in AtRecv => thread[w].at \in AtRecv /\ s.recv = session[x].recv
       /\ s.recv # "none" => session[x].recv # "none"
  BY <1>3, <1>5
<1> QED
  BY <1>0, <1>1, <1>2, <1>5, <1>6, <1>7, <1>8, <1>9, <1>10, HolderStep

LEMMA GatherStep ==
  ASSUME IInv, NEW w \in Workers, Gather(w)
  PROVE  IInv'
<1>0. w \in Threads /\ w # Update /\ w # Accept
  BY WorkerIs
<1>1. PICK x \in Slots : x = thread[w].slot
  BY <1>0 DEF IInv, TypeOK
<1>2. /\ thread[w].at = "gather" /\ Goto(w, "drop") /\ Elsewhere
      /\ session[x] \in SessionType /\ session[x].request \in Nat
      /\ session[x].sendQ \in Nat /\ session[x].ioCount \in Int
  BY DEF Gather, At, IInv, TypeOK, SessionType
<1>a. session[x].ioCount + 1 \in Int
  BY <1>2
<1>3. /\ session[x].send = "none" /\ session[x].sendFlag
      /\ session[x].held = session[x].sendQ
      /\ session[x].sendCount = 0 \/ session[x].sendQ > 0
      /\ \A u \in Threads \ {w} : ~In(u, x, {"gather", "unlock"})
  <2>1. In(w, x, {"gather", "unlock"}) /\ In(w, x, {"sendLock", "gather"})
    BY <1>1, <1>2 DEF In
  <2>2. /\ session[x].send = "none" /\ session[x].sendFlag
        /\ \A u \in Threads \ {w} : ~In(u, x, {"gather", "unlock"})
    BY <1>0, <2>1 DEF IInv, OneAtSend
  <2>3. session[x].sendCount = 0 \/ session[x].sendQ > 0
    BY <1>0, <2>1, <2>2 DEF IInv, LeftOver
  <2>4. session[x].held = session[x].sendQ
    BY <1>2, <2>2 DEF IInv, PacketsAreHeldOnce
  <2> QED
    BY <2>2, <2>3, <2>4
<1>4. PICK s \in SessionType :
        /\ session' = [session EXCEPT ![x] = s]
        /\ s.recv = session[x].recv /\ s.request = session[x].request /\ s.sessionID = session[x].sessionID
        /\ s.sendFlag /\ s.sendQ = 0
        /\ \/ s.send # "none" /\ s.ioCount = session[x].ioCount + 1 /\ s.held = s.sendCount
           \/ s.send = "none" /\ s.ioCount = session[x].ioCount /\ s.held = 0
  <2>1. CASE /\ session[x].sendQ = 0
             /\ session' = [session EXCEPT ![x] = [session[x] EXCEPT !.ioCount = @ + 1, !.send = "done"]]
    <3> DEFINE s == [session[x] EXCEPT !.ioCount = @ + 1, !.send = "done"]
    <3>0. s \in SessionType
      BY <1>2, <1>a DEF SessionType
    <3>1. s.send = "done" /\ s.ioCount = session[x].ioCount + 1
          /\ s.sendQ = 0 /\ s.held = 0 /\ s.sendCount = 0 /\ s.sendFlag
      BY <1>2, <1>3, <2>1 DEF SessionType
    <3>2. s.recv = session[x].recv /\ s.request = session[x].request /\ s.sessionID = session[x].sessionID
      BY <1>2 DEF SessionType
    <3> HIDE DEF s
    <3>3. session' = [session EXCEPT ![x] = s]
      BY <2>1 DEF s
    <3> QED
      BY <3>0, <3>1, <3>2, <3>3
  <2>2. CASE session' = [session EXCEPT ![x] = [session[x] EXCEPT !.ioCount = @ + 1, !.send = "pending",
                                                                 !.sendQ = 0, !.sendCount = session[x].sendQ]]
    <3> DEFINE s == [session[x] EXCEPT !.ioCount = @ + 1, !.send = "pending",
                                       !.sendQ = 0, !.sendCount = session[x].sendQ]
    <3>1. s \in SessionType
      BY <1>2, <1>a DEF SessionType
    <3>2. /\ s.send = "pending" /\ s.ioCount = session[x].ioCount + 1
          /\ s.sendQ = 0 /\ s.sendCount = session[x].sendQ
          /\ s.held = session[x].held /\ s.sendFlag = session[x].sendFlag
          /\ s.recv = session[x].recv /\ s.request = session[x].request /\ s.sessionID = session[x].sessionID
      BY <1>2 DEF SessionType
    <3> HIDE DEF s
    <3>3. session' = [session EXCEPT ![x] = s]
      BY <2>2 DEF s
    <3>4. s.held = s.sendCount /\ s.sendFlag /\ s.send # "none"
      BY <1>3, <3>2
    <3> QED
      BY <3>1, <3>2, <3>3, <3>4
  <2>3. CASE session' = [session EXCEPT ![x] = [session[x] EXCEPT !.sendQ = 0, !.sendCount = session[x].sendQ,
                                                                 !.held = @ - session[x].sendQ]]
    <3> DEFINE s == [session[x] EXCEPT !.sendQ = 0, !.sendCount = session[x].sendQ,
                                       !.held = @ - session[x].sendQ]
    <3>0. session[x].held - session[x].sendQ \in Nat /\ 0 \in Nat
      BY <1>2, <1>3
    <3>1. session[x].held - session[x].sendQ = 0
      BY <1>2, <1>3
    <3>2. s \in SessionType
      BY <1>2, <3>0 DEF SessionType
    <3>3. /\ s.send = session[x].send /\ s.ioCount = session[x].ioCount
          /\ s.sendQ = 0 /\ s.held = 0 /\ s.sendFlag = session[x].sendFlag
          /\ s.recv = session[x].recv /\ s.request = session[x].request /\ s.sessionID = session[x].sessionID
      BY <1>2, <3>1 DEF SessionType
    <3> HIDE DEF s
    <3>4. session' = [session EXCEPT ![x] = s]
      BY <2>3 DEF s
    <3> QED
      BY <1>3, <3>2, <3>3, <3>4
  <2>4. \/ /\ session[x].sendQ = 0
           /\ session' = [session EXCEPT ![x] = [session[x] EXCEPT !.ioCount = @ + 1, !.send = "done"]]
        \/ session' = [session EXCEPT ![x] = [session[x] EXCEPT !.ioCount = @ + 1, !.send = "pending",
                                                                !.sendQ = 0, !.sendCount = session[x].sendQ]]
        \/ session' = [session EXCEPT ![x] = [session[x] EXCEPT !.sendQ = 0, !.sendCount = session[x].sendQ,
                                                                !.held = @ - session[x].sendQ]]
    BY <1>1 DEF Gather, Mine, Slot
  <2> QED
    BY <2>1, <2>2, <2>3, <2>4, Zenon
<1>5. Data(s) = Data(session[x])
  BY <1>4 DEF Data
<1>6. s.ioCount - session[x].ioCount = Pending(s) - Pending(session[x])
  BY <1>2, <1>3, <1>4 DEF Pending
<1>7. Answering' <= Answering /\ Answering' + s.request <= Answering + session[x].request
  BY <1>0, <1>2, <1>4, SameLoad
<1>8. OneAtSend' /\ PacketsAreHeldOnce' /\ LeftOver'
  <2>1. \A y \in Slots : session'[y] = IF y = x THEN s ELSE session[y]
    BY <1>4 DEF IInv, TypeOK
  <2>2. /\ \A u \in Threads, y \in Slots :
              In(u, y, {"gather", "unlock"})' <=> u # w /\ In(u, y, {"gather", "unlock"})
        /\ \A u \in Threads, y \in Slots :
              In(u, y, {"sendLock", "gather"})' <=> u # w /\ In(u, y, {"sendLock", "gather"})
    <3>1. \A u \in Threads : /\ thread'[u].at = IF u = w THEN "drop" ELSE thread[u].at
                             /\ thread'[u].slot = thread[u].slot
      BY <1>0, <1>2, MovedTo
    <3> QED
      BY <1>0, <1>1, <3>1 DEF In
  <2>3. OneAtSend'
    BY <1>0, <1>3, <1>4, <2>1, <2>2 DEF IInv, OneAtSend
  <2>4. PacketsAreHeldOnce'
    BY <1>4, <2>1 DEF IInv, PacketsAreHeldOnce, SessionType
  <2>5. LeftOver'
    BY <1>0, <1>3, <1>4, <2>1, <2>2 DEF IInv, LeftOver
  <2> QED
    BY <2>3, <2>4, <2>5
<1>9. /\ thread[w].at \in Holding \ {"undo", "join", "message"}
      /\ "drop" \in Holding \ {"join", "message"} /\ "drop" \in LabelsOf(w)
      /\ "drop" \in AtRecv => thread[w].at \in AtRecv /\ s.recv = session[x].recv
      /\ s.recv # "none" => session[x].recv # "none"
  BY <1>0, <1>2, <1>4 DEF Holding, Labels, LabelsOf, AtRelease, AtRecv
<1> QED
  BY <1>0, <1>1, <1>2, <1>4, <1>5, <1>6, <1>7, <1>8, <1>9, HolderStep

-----------------------------------------------------------------------------
(* Disconnect and SendMessages, by update.                                   *)

LEMMA LastOfUpdate ==
  ASSUME IInv, NEW m, Goto(Update, m)
  PROVE  /\ Answering = (IF thread[Update].at \in {"enter", "compare", "enqueue", "wake"} THEN 1 ELSE 0)
         /\ Answering' = (IF m \in {"enter", "compare", "enqueue", "wake"} THEN 1 ELSE 0)
<1>1. thread'[Update].at = m
  BY ThreadsAre, MovedTo
<1> QED
  BY <1>1 DEF Answering

LEMMA CompareStep ==
  ASSUME IInv, Compare
  PROVE  IInv'
<1> DEFINE t == Update
           m == IF ~SameSession THEN "undo" ELSE IF meant # 0 THEN "mark" ELSE "enqueue"
<1>1. /\ thread[t].at = "compare" /\ Goto(t, m) /\ Elsewhere /\ SessionsSame
  BY DEF Compare, At, SessionsSame
<1>2. t \in Threads
  BY ThreadsAre
<1>3. PICK x \in Slots : x = thread[t].slot
  BY <1>2 DEF IInv, TypeOK
<1>4. /\ m \in Holding \ {"join", "message"} /\ m \in LabelsOf(t) /\ m \notin AtSend /\ m \notin AtRecv
      /\ m \in Labels
  BY NetAssumption DEF Holding, Labels, LabelsOf, AtUpdate, AtSend, AtRecv
<1>5. thread[t].at \in Holding \ {"undo", "join", "message"} /\ thread[t].at \notin AtSend
  BY <1>1 DEF Holding, Labels, AtSend
<1> HIDE DEF m, t
<1>6. Answering' <= Answering
  BY <1>1, LastOfUpdate DEF t
<1>7. OneAtSend' /\ PacketsAreHeldOnce' /\ LeftOver'
  <2> DEFINE r == [thread[t] EXCEPT !.at = m]
  <2>1. r \in ThreadType /\ r.at = m
    BY <1>2, <1>4 DEF IInv, TypeOK, ThreadType
  <2>2. Moves(t, x, r, session[x]) /\ session[x] \in SessionType
    BY <1>1, <1>2 DEF IInv, TypeOK, Moves, Goto, SessionsSame
  <2> HIDE DEF r
  <2> QED
    BY <1>2, <1>4, <1>5, <2>1, <2>2, SendStays DEF IInv
<1>8. /\ thread[t].at \in Holding \ {"undo", "join", "message"}
      /\ m \in Holding \ {"join", "message"} /\ m \in LabelsOf(t)
      /\ m \in AtRecv => thread[t].at \in AtRecv
  BY <1>4, <1>5
<1> QED
  BY <1>1, <1>2, <1>6, <1>7, <1>8, HolderLooks

LEMMA EnqueueStep ==
  ASSUME IInv, Enqueue
  PROVE  IInv'
<1> DEFINE t == Update
<1>0. t \in Threads
  BY ThreadsAre
<1>1. PICK x \in Slots : x = thread[t].slot
  BY <1>0 DEF IInv, TypeOK
<1>2. /\ thread[t].at = "enqueue" /\ Goto(t, "wake") /\ Elsewhere
      /\ session[x] \in SessionType /\ session[x].request \in Int
      /\ session[x].sendQ + 1 \in Nat /\ session[x].held + 1 \in Nat
      /\ session[x].sendQ \in Nat /\ session[x].held \in Nat /\ session[x].sendCount \in Nat
      /\ session' = [session EXCEPT ![x] = [session[x] EXCEPT !.sendQ = @ + 1, !.held = @ + 1]]
  <2>1. session[x] \in SessionType
    BY DEF IInv, TypeOK
  <2>2. /\ session[x].request \in Int
        /\ session[x].sendQ \in Nat /\ session[x].held \in Nat /\ session[x].sendCount \in Nat
    BY <2>1 DEF SessionType
  <2>3. session[x].sendQ + 1 \in Nat /\ session[x].held + 1 \in Nat
    BY <2>2
  <2> QED
    BY <1>1, <2>1, <2>2, <2>3 DEF Enqueue, At, Slot
<1> DEFINE s == [session[x] EXCEPT !.sendQ = @ + 1, !.held = @ + 1]
<1>3. s \in SessionType
  BY <1>2 DEF SessionType
<1>4. /\ s.send = session[x].send /\ s.recv = session[x].recv
      /\ s.ioCount = session[x].ioCount /\ s.request = session[x].request
      /\ s.sendFlag = session[x].sendFlag /\ s.sendCount = session[x].sendCount
      /\ s.held = session[x].held + 1 /\ s.sendQ = session[x].sendQ + 1 /\ s.sessionID = session[x].sessionID
  BY <1>2 DEF SessionType
<1> HIDE DEF s
<1>5. session' = [session EXCEPT ![x] = s]
  BY <1>2 DEF s
<1>6. Data(s) = Data(session[x])
  BY <1>4 DEF Data
<1>7. s.ioCount - session[x].ioCount = Pending(s) - Pending(session[x])
  <2>1. Pending(s) = Pending(session[x]) /\ s.ioCount = session[x].ioCount
    BY <1>4 DEF Pending
  <2>2. session[x].ioCount \in Int /\ Pending(session[x]) \in Int
    BY <1>2, PendingIsCounted DEF SessionType
  <2> QED
    BY <2>1, <2>2
<1>8. Answering' <= Answering /\ Answering' + s.request <= Answering + session[x].request
  BY <1>2, <1>4, LastOfUpdate
<1>9. OneAtSend' /\ PacketsAreHeldOnce' /\ LeftOver'
  <2>1. \A y \in Slots : session'[y] = IF y = x THEN s ELSE session[y]
    BY <1>5 DEF IInv, TypeOK
  <2>2. /\ \A u \in Threads, y \in Slots :
              In(u, y, {"gather", "unlock"})' <=> In(u, y, {"gather", "unlock"})
        /\ \A u \in Threads, y \in Slots :
              In(u, y, {"sendLock", "gather"})' <=> In(u, y, {"sendLock", "gather"})
    <3>1. \A u \in Threads : /\ thread'[u].at = IF u = t THEN "wake" ELSE thread[u].at
                             /\ thread'[u].slot = thread[u].slot
      BY <1>0, <1>2, MovedTo
    <3> QED
      BY <1>2, <3>1 DEF In
  <2>3. OneAtSend'
    BY <1>4, <2>1, <2>2 DEF IInv, OneAtSend
  <2>4. PacketsAreHeldOnce'
    BY <1>2, <1>4, <2>1 DEF IInv, PacketsAreHeldOnce
  <2>5. LeftOver'
    BY <1>2, <1>4, <2>1, <2>2 DEF IInv, LeftOver
  <2> QED
    BY <2>3, <2>4, <2>5
<1>10. /\ thread[t].at \in Holding \ {"undo", "join", "message"}
       /\ "wake" \in Holding \ {"join", "message"} /\ "wake" \in LabelsOf(t)
       /\ "wake" \in AtRecv => thread[t].at \in AtRecv /\ s.recv = session[x].recv
       /\ s.recv # "none" => session[x].recv # "none"
  BY <1>2, <1>4, NetAssumption DEF Holding, Labels, LabelsOf, AtUpdate, AtRecv
<1>11. Goto(t, "wake") /\ Elsewhere /\ s.sessionID = session[x].sessionID
  BY <1>2, <1>4
<1> HIDE DEF t
<1> QED
  BY <1>0, <1>1, <1>3, <1>5, <1>6, <1>7, <1>8, <1>9, <1>10, <1>11, HolderStep

LEMMA WakeStep ==
  ASSUME IInv, Wake
  PROVE  IInv'
<1> DEFINE t == Update
<1>0. t \in Threads
  BY ThreadsAre
<1>1. PICK x \in Slots : x = thread[t].slot
  BY <1>0 DEF IInv, TypeOK
<1>2. session[x] \in SessionType /\ session[x].ioCount \in Int /\ session[x].request \in Nat
  BY DEF IInv, TypeOK, SessionType
<1>3. session[x].ioCount + 1 \in Int /\ session[x].request + 1 \in Nat
  BY <1>2
<1>4. /\ thread[t].at = "wake" /\ Goto(t, "drop") /\ Elsewhere
  BY DEF Wake, At
<1>5. PICK s \in SessionType :
        /\ session' = [session EXCEPT ![x] = s]
        /\ s.send = session[x].send /\ s.recv = session[x].recv
        /\ s.ioCount - session[x].ioCount = s.request - session[x].request
        /\ s.request <= session[x].request + 1
        /\ s.sendFlag = session[x].sendFlag /\ s.sendCount = session[x].sendCount
        /\ s.held = session[x].held /\ s.sendQ = session[x].sendQ /\ s.sessionID = session[x].sessionID
  <2>1. CASE session' = session
    <3>1. session' = [session EXCEPT ![x] = session[x]]
      BY <2>1 DEF IInv, TypeOK
    <3>2. /\ session[x].ioCount - session[x].ioCount = session[x].request - session[x].request
          /\ session[x].request <= session[x].request + 1
      BY <1>2
    <3> QED
      BY <1>2, <3>1, <3>2
  <2>2. CASE session' = [session EXCEPT ![x] = [session[x] EXCEPT !.ioCount = @ + 1, !.request = @ + 1]]
    <3> DEFINE s == [session[x] EXCEPT !.ioCount = @ + 1, !.request = @ + 1]
    <3>1. s \in SessionType
      BY <1>2, <1>3 DEF SessionType
    <3>2. /\ s.send = session[x].send /\ s.recv = session[x].recv
          /\ s.ioCount = session[x].ioCount + 1 /\ s.request = session[x].request + 1
          /\ s.sendFlag = session[x].sendFlag /\ s.sendCount = session[x].sendCount
          /\ s.held = session[x].held /\ s.sendQ = session[x].sendQ /\ s.sessionID = session[x].sessionID
      BY <1>2 DEF SessionType
    <3> HIDE DEF s
    <3>3. session' = [session EXCEPT ![x] = s]
      BY <2>2 DEF s
    <3>4. s.ioCount - session[x].ioCount = s.request - session[x].request /\ s.request <= session[x].request + 1
      BY <1>2, <3>2
    <3> QED
      BY <3>1, <3>2, <3>3, <3>4
  <2> QED
    BY <1>1, <2>1, <2>2 DEF Wake, Slot
<1>6. Data(s) = Data(session[x])
  BY <1>5 DEF Data
<1>7. s.ioCount - session[x].ioCount = Pending(s) - Pending(session[x])
  <2>1. s.request \in Int
    BY DEF SessionType
  <2> QED
    BY <1>2, <1>5, <2>1 DEF Pending
<1>8. Answering' <= Answering /\ Answering' + s.request <= Answering + session[x].request
  <2>1. s.request \in Int
    BY DEF SessionType
  <2> QED
    BY <1>2, <1>4, <1>5, <2>1, LastOfUpdate
<1>9. /\ thread[t].at \in Holding \ {"undo", "join", "message"} /\ thread[t].at \notin AtSend
      /\ "drop" \in Holding \ {"join", "message"} /\ "drop" \in LabelsOf(t) /\ "drop" \notin AtSend
      /\ "drop" \in AtRecv => thread[t].at \in AtRecv /\ s.recv = session[x].recv
      /\ s.recv # "none" => session[x].recv # "none"
  BY <1>4, <1>5, NetAssumption DEF Holding, Labels, LabelsOf, AtRelease, AtRecv, AtSend
<1> HIDE DEF t
<1> QED
  BY <1>0, <1>1, <1>4, <1>5, <1>6, <1>7, <1>8, <1>9, HolderRests

LEMMA MarkStep ==
  ASSUME IInv, Mark
  PROVE  IInv'
<1> DEFINE t == Update
<1>0. t \in Threads
  BY ThreadsAre
<1>1. PICK x \in Slots : x = thread[t].slot
  BY <1>0 DEF IInv, TypeOK
<1>2. session[x] \in SessionType /\ session[x].ioCount \in Int /\ session[x].request \in Nat
  BY DEF IInv, TypeOK, SessionType
<1>4. /\ thread[t].at = "mark" /\ Goto(t, "drop") /\ Elsewhere
  BY DEF Mark, At
<1>5. PICK s \in SessionType :
        /\ session' = [session EXCEPT ![x] = s]
        /\ s.send = session[x].send \/ (s.send # "none" /\ session[x].send # "none")
        /\ s.recv = "none" <=> session[x].recv = "none"
        /\ s.recv = "data" <=> session[x].recv = "data"
        /\ s.ioCount = session[x].ioCount /\ s.request = session[x].request
        /\ s.sendFlag = session[x].sendFlag /\ s.sendCount = session[x].sendCount
        /\ s.held = session[x].held /\ s.sendQ = session[x].sendQ /\ s.sessionID = session[x].sessionID
  <2>1. CASE session' = session
    <3>1. session' = [session EXCEPT ![x] = session[x]]
      BY <2>1 DEF IInv, TypeOK
    <3> QED
      BY <1>2, <3>1
  <2>2. CASE session' = [session EXCEPT ![x] = [Cancelled(session[x]) EXCEPT !.disconnectFlag = TRUE]]
    <3> DEFINE c == Cancelled(session[x])
               s == [c EXCEPT !.disconnectFlag = TRUE]
    <3>1. c \in SessionType
      BY <1>2 DEF SessionType, Cancelled
    <3>2. /\ c.send = session[x].send \/ (c.send # "none" /\ session[x].send # "none")
          /\ c.recv = "none" <=> session[x].recv = "none"
          /\ c.recv = "data" <=> session[x].recv = "data"
          /\ c.ioCount = session[x].ioCount /\ c.request = session[x].request
          /\ c.sendFlag = session[x].sendFlag /\ c.sendCount = session[x].sendCount
          /\ c.held = session[x].held /\ c.sendQ = session[x].sendQ /\ c.sessionID = session[x].sessionID
      BY <1>2 DEF SessionType, Cancelled
    <3> HIDE DEF c
    <3>3. /\ s \in SessionType /\ s.send = c.send /\ s.recv = c.recv
          /\ s.ioCount = c.ioCount /\ s.request = c.request
          /\ s.sendFlag = c.sendFlag /\ s.sendCount = c.sendCount
          /\ s.held = c.held /\ s.sendQ = c.sendQ /\ s.sessionID = c.sessionID
      BY <3>1 DEF SessionType
    <3>4. session' = [session EXCEPT ![x] = s]
      BY <2>2 DEF c
    <3> HIDE DEF s
    <3> QED
      BY <3>2, <3>3, <3>4
  <2> QED
    BY <1>1, <2>1, <2>2 DEF Mark, Slot
<1>6. Data(s) = Data(session[x])
  BY <1>5 DEF Data
<1>7. s.ioCount - session[x].ioCount = Pending(s) - Pending(session[x])
  BY <1>2, <1>5 DEF Pending
<1>8. Answering' <= Answering /\ Answering' + s.request <= Answering + session[x].request
  BY <1>2, <1>4, <1>5, LastOfUpdate
<1>9. /\ thread[t].at \in Holding \ {"undo", "join", "message"} /\ thread[t].at \notin AtSend
      /\ "drop" \in Holding \ {"join", "message"} /\ "drop" \in LabelsOf(t) /\ "drop" \notin AtSend
      /\ "drop" \in AtRecv => thread[t].at \in AtRecv /\ s.recv = session[x].recv
      /\ s.recv # "none" => session[x].recv # "none"
  BY <1>4, <1>5, NetAssumption DEF Holding, Labels, LabelsOf, AtRelease, AtRecv, AtSend
<1> HIDE DEF t
<1> QED
  BY <1>0, <1>1, <1>4, <1>5, <1>6, <1>7, <1>8, <1>9, HolderRests

-----------------------------------------------------------------------------
(* Taking an entry of the completion port, and dropping a reference.         *)

\* What ElsewhereStep asks of the load when nothing but update's label changes.
LEMMA NoneAnswers ==
  ASSUME IInv, NEW t \in Threads, NEW r \in ThreadType, thread' = [thread EXCEPT ![t] = r],
         t # Update \/ r.at \notin {"enter", "compare", "enqueue", "wake"}
  PROVE  Answering \in Int /\ Answering' \in Int /\ Answering' <= Answering
<1>1. thread'[Update] = IF t = Update THEN r ELSE thread[Update]
  BY ThreadsAre DEF IInv, TypeOK
<1> QED
  BY <1>1 DEF Answering

LEMMA TakeRecvStep ==
  ASSUME IInv, NEW w \in Workers, NEW x \in Slots, TakeRecv(w, x)
  PROVE  IInv'
<1>0. w \in Threads /\ w # Update /\ w # Accept
  BY WorkerIs
<1>1. /\ thread[w].at = "idle" /\ session[x].recv \in {"data", "end"} /\ Elsewhere
      /\ session[x] \in SessionType /\ session[x].sessionID \in IDs \union {0}
      /\ session[x].ioCount \in Int
  BY DEF TakeRecv, At, IInv, TypeOK, SessionType
<1>2. PICK s \in SessionType :
        /\ session' = [session EXCEPT ![x] = s]
        /\ s.recv = "none" /\ s.send = session[x].send
        /\ s.ioCount = session[x].ioCount /\ s.request = session[x].request
        /\ s.sendFlag = session[x].sendFlag /\ s.sendCount = session[x].sendCount
        /\ s.held = session[x].held /\ s.sendQ = session[x].sendQ /\ s.sessionID = session[x].sessionID
  <2> DEFINE s == [session[x] EXCEPT !.recv = "none"]
  <2>1. /\ s \in SessionType
        /\ s.recv = "none" /\ s.send = session[x].send
        /\ s.ioCount = session[x].ioCount /\ s.request = session[x].request
        /\ s.sendFlag = session[x].sendFlag /\ s.sendCount = session[x].sendCount
        /\ s.held = session[x].held /\ s.sendQ = session[x].sendQ /\ s.sessionID = session[x].sessionID
    BY <1>1 DEF SessionType
  <2>2. session' = [session EXCEPT ![x] = s]
    BY DEF TakeRecv
  <2> HIDE DEF s
  <2> QED
    BY <2>1, <2>2
<1>3. PICK r \in ThreadType :
        /\ thread' = [thread EXCEPT ![w] = r]
        /\ r.at = (IF session[x].recv = "data" THEN "message" ELSE "drop")
        /\ r.slot = x /\ r.id = session[x].sessionID
  <2> DEFINE r == [at |-> IF session[x].recv = "data" THEN "message" ELSE "drop",
                   slot |-> x, id |-> session[x].sessionID]
  <2>1. r \in ThreadType
    BY <1>1 DEF ThreadType, Labels
  <2>2. thread' = [thread EXCEPT ![w] = r]
    BY DEF TakeRecv
  <2> QED
    BY <2>1, <2>2
<1>4. Moves(w, x, r, s)
  BY <1>2, <1>3 DEF Moves
<1>5. ~Flagged(x)
  BY <1>1 DEF IInv, FlaggedIsQuiet
<1>6. /\ r.at \in LabelsOf(w)
      /\ thread[w].at \notin Owning \union AtAccept /\ r.at \notin Owning \union AtAccept
      /\ thread[w].at \notin Holding /\ r.at \in Holding
      /\ thread[w].at \notin AtSend /\ r.at \notin AtSend
  BY <1>0, <1>1, <1>3 DEF LabelsOf, AtWorker, AtRelease, Owning, AtAccept, Holding, Labels, AtSend
<1>7. s.ioCount - session[x].ioCount = (Pending(s) - Pending(session[x])) + (One(r) - One(thread[w]))
  <2>1. s.request \in Int
    BY DEF SessionType
  <2> QED
    BY <1>1, <1>2, <1>6, <2>1 DEF Pending, One
<1>8. RecvPassed(w, x, r, s)
  BY <1>1, <1>2, <1>3 DEF RecvPassed
<1>9. OneAtSend' /\ PacketsAreHeldOnce' /\ LeftOver'
  BY <1>0, <1>2, <1>4, <1>6, SendStays DEF IInv
<1>10. PICK d \in Int :
         /\ d = (Data(s) - Data(session[x])) + (AtMessage(r) - AtMessage(thread[w])) + (Answering' - Answering)
         /\ d <= 0 /\ d + (s.request - session[x].request) <= 0
  <2>1. Answering \in Int /\ Answering' \in Int /\ Answering' <= Answering
    BY <1>0, <1>3, NoneAnswers
  <2>2. (Data(s) - Data(session[x])) + (AtMessage(r) - AtMessage(thread[w])) = 0
    BY <1>1, <1>2, <1>3 DEF Data, AtMessage
  <2>3. s.request \in Int
    BY DEF SessionType
  <2> QED
    BY <1>2, <2>1, <2>2, <2>3
<1>11. Knows(w, r)
  BY <1>0, <1>3 DEF Knows, AtUpdate
<1>12. s.sessionID = session[x].sessionID /\ Elsewhere /\ (r.at \in Holding => r.slot = x)
  BY <1>1, <1>2, <1>3
<1>13. ~Flagged(r.slot)
  BY <1>3, <1>5
<1> QED
  BY <1>0, <1>4, <1>5, <1>6, <1>7, <1>8, <1>9, <1>10, <1>11, <1>12, <1>13, ElsewhereStep

LEMMA TakeSendStep ==
  ASSUME IInv, NEW w \in Workers, NEW x \in Slots, TakeSend(w, x)
  PROVE  IInv'
<1>0. w \in Threads /\ w # Update /\ w # Accept
  BY WorkerIs
<1>1. /\ thread[w].at = "idle" /\ session[x].send = "done" /\ Elsewhere
      /\ session[x] \in SessionType /\ session[x].ioCount \in Int /\ session[x].sendQ \in Nat
      /\ session[x].sendFlag /\ session[x].held - session[x].sendCount = session[x].sendQ
  <2>1. /\ thread[w].at = "idle" /\ session[x].send = "done" /\ Elsewhere
        /\ session[x] \in SessionType /\ session[x].ioCount \in Int /\ session[x].sendQ \in Nat
        /\ session[x].sendFlag /\ session[x].sendCount \in Nat
    BY DEF TakeSend, At, IInv, TypeOK, SessionType, OneAtSend
  <2>2. session[x].held = session[x].sendQ + session[x].sendCount
    BY <2>1 DEF IInv, PacketsAreHeldOnce
  <2> QED
    BY <2>1, <2>2
<1>2. PICK s \in SessionType :
        /\ session' = [session EXCEPT ![x] = s]
        /\ s.recv = session[x].recv /\ s.send = "none"
        /\ s.ioCount = session[x].ioCount /\ s.request = session[x].request
        /\ s.sendFlag /\ s.sendCount = 0 /\ s.held = session[x].sendQ
        /\ s.sendQ = session[x].sendQ /\ s.sessionID = session[x].sessionID
  <2> DEFINE s == PacketsSent(session[x])
  <2>1. s = [session[x] EXCEPT !.send = "none", !.held = session[x].sendQ, !.sendCount = 0]
    BY <1>1 DEF PacketsSent
  <2> HIDE DEF s
  <2>2. s \in SessionType
    BY <1>1, <2>1 DEF SessionType
  <2>3. /\ s.recv = session[x].recv /\ s.send = "none"
        /\ s.ioCount = session[x].ioCount /\ s.request = session[x].request
        /\ s.sendFlag = session[x].sendFlag /\ s.sendCount = 0 /\ s.held = session[x].sendQ
        /\ s.sendQ = session[x].sendQ /\ s.sessionID = session[x].sessionID
    BY <1>1, <2>1 DEF SessionType
  <2>4. session' = [session EXCEPT ![x] = s]
    BY DEF TakeSend, s
  <2> QED
    BY <1>1, <2>2, <2>3, <2>4
<1>3. PICK r \in ThreadType : thread' = [thread EXCEPT ![w] = r] /\ r.at = "unlock" /\ r.slot = x
  <2> DEFINE r == [at |-> "unlock", slot |-> x, id |-> 0]
  <2>1. r \in ThreadType
    BY DEF ThreadType, Labels
  <2>2. thread' = [thread EXCEPT ![w] = r]
    BY DEF TakeSend
  <2> QED
    BY <2>1, <2>2
<1>4. Moves(w, x, r, s)
  BY <1>2, <1>3 DEF Moves
<1>5. ~Flagged(x)
  BY <1>1 DEF IInv, FlaggedIsQuiet
<1>6. /\ r.at \in LabelsOf(w)
      /\ thread[w].at \notin Owning \union AtAccept /\ r.at \notin Owning \union AtAccept
      /\ thread[w].at \notin Holding /\ r.at \in Holding
  BY <1>0, <1>1, <1>3 DEF LabelsOf, AtWorker, Owning, AtAccept, Holding, Labels
<1>7. s.ioCount - session[x].ioCount = (Pending(s) - Pending(session[x])) + (One(r) - One(thread[w]))
  <2>1. s.request \in Int
    BY DEF SessionType
  <2> QED
    BY <1>1, <1>2, <1>6, <2>1 DEF Pending, One
<1>8. RecvPassed(w, x, r, s)
  BY <1>1, <1>2, <1>3 DEF RecvPassed, AtRecv
<1>9. OneAtSend' /\ PacketsAreHeldOnce' /\ LeftOver'
  <2>1. /\ \A y \in Slots : session'[y] = IF y = x THEN s ELSE session[y]
        /\ \A u \in Threads : thread'[u] = IF u = w THEN r ELSE thread[u]
    BY <1>2, <1>3 DEF IInv, TypeOK
  <2>2. /\ \A u \in Threads, y \in Slots :
              In(u, y, {"gather", "unlock"})' <=> IF u = w THEN y = x ELSE In(u, y, {"gather", "unlock"})
        /\ \A u \in Threads, y \in Slots :
              In(u, y, {"sendLock", "gather"})' <=> u # w /\ In(u, y, {"sendLock", "gather"})
    BY <1>3, <2>1 DEF In
  <2>3. \A u \in Threads : ~In(u, x, {"gather", "unlock"})
    BY <1>1 DEF IInv, OneAtSend
  <2>4. OneAtSend'
    BY <1>2, <2>1, <2>2, <2>3 DEF IInv, OneAtSend
  <2>5. PacketsAreHeldOnce'
    BY <1>1, <1>2, <2>1 DEF IInv, PacketsAreHeldOnce
  <2>6. ~In(w, x, {"gather", "unlock"}) /\ \A y \in Slots : ~In(w, y, {"gather", "unlock"})
    BY <1>1 DEF In
  <2>7. LeftOver'
    BY <1>2, <2>1, <2>2, <2>6 DEF IInv, LeftOver
  <2> QED
    BY <2>4, <2>5, <2>7
<1>10. PICK d \in Int :
         /\ d = (Data(s) - Data(session[x])) + (AtMessage(r) - AtMessage(thread[w])) + (Answering' - Answering)
         /\ d <= 0 /\ d + (s.request - session[x].request) <= 0
  <2>1. Answering \in Int /\ Answering' \in Int /\ Answering' <= Answering
    BY <1>0, <1>3, NoneAnswers
  <2>2. (Data(s) - Data(session[x])) + (AtMessage(r) - AtMessage(thread[w])) = 0
    BY <1>1, <1>2, <1>3 DEF Data, AtMessage
  <2>3. s.request \in Int
    BY DEF SessionType
  <2> QED
    BY <1>2, <2>1, <2>2, <2>3
<1>11. Knows(w, r)
  BY <1>0, <1>3 DEF Knows, AtUpdate
<1>12. s.sessionID = session[x].sessionID /\ Elsewhere /\ (r.at \in Holding => r.slot = x)
  BY <1>1, <1>2, <1>3
<1>13. ~Flagged(r.slot)
  BY <1>3, <1>5
<1> QED
  BY <1>0, <1>4, <1>5, <1>6, <1>7, <1>8, <1>9, <1>10, <1>11, <1>12, <1>13, ElsewhereStep

LEMMA TakeRequestStep ==
  ASSUME IInv, NEW w \in Workers, NEW x \in Slots, TakeRequest(w, x)
  PROVE  IInv'
<1>0. w \in Threads /\ w # Update /\ w # Accept
  BY WorkerIs
<1>1. /\ thread[w].at = "idle" /\ session[x].request > 0 /\ Elsewhere
      /\ session[x] \in SessionType /\ session[x].ioCount \in Int /\ session[x].request \in Nat
  BY DEF TakeRequest, At, IInv, TypeOK, SessionType
<1>2. PICK s \in SessionType :
        /\ session' = [session EXCEPT ![x] = s]
        /\ s.recv = session[x].recv /\ s.send = session[x].send
        /\ s.ioCount = session[x].ioCount /\ s.request = session[x].request - 1
        /\ s.sendFlag = session[x].sendFlag /\ s.sendCount = session[x].sendCount
        /\ s.held = session[x].held /\ s.sendQ = session[x].sendQ /\ s.sessionID = session[x].sessionID
  <2> DEFINE s == [session[x] EXCEPT !.request = @ - 1]
  <2>0. session[x].request - 1 \in Nat
    BY <1>1
  <2>1. s \in SessionType
    BY <1>1, <2>0 DEF SessionType
  <2>2. /\ s.recv = session[x].recv /\ s.send = session[x].send
        /\ s.ioCount = session[x].ioCount /\ s.request = session[x].request - 1
        /\ s.sendFlag = session[x].sendFlag /\ s.sendCount = session[x].sendCount
        /\ s.held = session[x].held /\ s.sendQ = session[x].sendQ /\ s.sessionID = session[x].sessionID
    BY <1>1 DEF SessionType
  <2>3. session' = [session EXCEPT ![x] = s]
    BY DEF TakeRequest
  <2> HIDE DEF s
  <2> QED
    BY <2>1, <2>2, <2>3
<1>3. PICK r \in ThreadType : thread' = [thread EXCEPT ![w] = r] /\ r.at = "sendCheck" /\ r.slot = x
  <2> DEFINE r == [at |-> "sendCheck", slot |-> x, id |-> 0]
  <2>1. r \in ThreadType
    BY DEF ThreadType, Labels
  <2>2. thread' = [thread EXCEPT ![w] = r]
    BY DEF TakeRequest
  <2> QED
    BY <2>1, <2>2
<1>4. Moves(w, x, r, s)
  BY <1>2, <1>3 DEF Moves
<1>5. ~Flagged(x)
  BY <1>1 DEF IInv, FlaggedIsQuiet
<1>6. /\ r.at \in LabelsOf(w)
      /\ thread[w].at \notin Owning \union AtAccept /\ r.at \notin Owning \union AtAccept
      /\ thread[w].at \notin Holding /\ r.at \in Holding
      /\ thread[w].at \notin AtSend /\ r.at \notin AtSend
  BY <1>0, <1>1, <1>3 DEF LabelsOf, AtWorker, Owning, AtAccept, Holding, Labels, AtSend
<1>7. s.ioCount - session[x].ioCount = (Pending(s) - Pending(session[x])) + (One(r) - One(thread[w]))
  BY <1>1, <1>2, <1>6 DEF Pending, One
<1>8. RecvPassed(w, x, r, s)
  BY <1>1, <1>2, <1>3 DEF RecvPassed, AtRecv
<1>9. OneAtSend' /\ PacketsAreHeldOnce' /\ LeftOver'
  BY <1>0, <1>2, <1>4, <1>6, SendStays DEF IInv
<1>10. PICK d \in Int :
         /\ d = (Data(s) - Data(session[x])) + (AtMessage(r) - AtMessage(thread[w])) + (Answering' - Answering)
         /\ d <= 0 /\ d + (s.request - session[x].request) <= 0
  <2>1. Answering \in Int /\ Answering' \in Int /\ Answering' <= Answering
    BY <1>0, <1>3, NoneAnswers
  <2>2. (Data(s) - Data(session[x])) + (AtMessage(r) - AtMessage(thread[w])) = 0
    BY <1>1, <1>2, <1>3 DEF Data, AtMessage
  <2> QED
    BY <1>1, <1>2, <2>1, <2>2
<1>11. Knows(w, r)
  BY <1>0, <1>3 DEF Knows, AtUpdate
<1>12. s.sessionID = session[x].sessionID /\ Elsewhere /\ (r.at \in Holding => r.slot = x)
  BY <1>1, <1>2, <1>3
<1>13. ~Flagged(r.slot)
  BY <1>3, <1>5
<1> QED
  BY <1>0, <1>4, <1>5, <1>6, <1>7, <1>8, <1>9, <1>10, <1>11, <1>12, <1>13, ElsewhereStep

LEMMA DropStep ==
  ASSUME IInv, NEW t \in Threads, Drop(t)
  PROVE  IInv'
<1>1. PICK x \in Slots : x = thread[t].slot
  BY DEF IInv, TypeOK
<1> DEFINE m == IF session[x].ioCount # 1 THEN "idle" ELSE IF t = Update THEN "cas" ELSE "readID"
           r0 == [thread[t] EXCEPT !.at = m]
           s0 == [session[x] EXCEPT !.ioCount = @ - 1]
<1>2. /\ thread[t].at = "drop" /\ Elsewhere /\ thread[t] \in ThreadType
      /\ session[x] \in SessionType /\ session[x].ioCount \in Int
  BY DEF Drop, At, IInv, TypeOK, SessionType, ThreadType
<1>3. PICK s \in SessionType :
        /\ session' = [session EXCEPT ![x] = s]
        /\ s.recv = session[x].recv /\ s.send = session[x].send
        /\ s.ioCount = session[x].ioCount - 1 /\ s.request = session[x].request
        /\ s.sendFlag = session[x].sendFlag /\ s.sendCount = session[x].sendCount
        /\ s.held = session[x].held /\ s.sendQ = session[x].sendQ /\ s.sessionID = session[x].sessionID
  <2>0. session[x].ioCount - 1 \in Int
    BY <1>2
  <2>1. s0 \in SessionType
    BY <1>2, <2>0 DEF SessionType
  <2>2. /\ s0.recv = session[x].recv /\ s0.send = session[x].send
        /\ s0.ioCount = session[x].ioCount - 1 /\ s0.request = session[x].request
        /\ s0.sendFlag = session[x].sendFlag /\ s0.sendCount = session[x].sendCount
        /\ s0.held = session[x].held /\ s0.sendQ = session[x].sendQ /\ s0.sessionID = session[x].sessionID
    BY <1>2 DEF SessionType
  <2>3. session' = [session EXCEPT ![x] = s0]
    BY <1>1 DEF Drop, Slot
  <2> HIDE DEF s0
  <2> QED
    BY <2>1, <2>2, <2>3
<1>4. PICK r \in ThreadType :
        /\ thread' = [thread EXCEPT ![t] = r] /\ r.slot = x /\ r.id = thread[t].id
        /\ r.at \in {"idle", "cas", "readID"} /\ (r.at = "cas" => t = Update) /\ (r.at = "readID" => t # Update)
  <2>1. /\ r0 \in ThreadType /\ r0.slot = x /\ r0.id = thread[t].id
        /\ r0.at \in {"idle", "cas", "readID"} /\ (r0.at = "cas" => t = Update) /\ (r0.at = "readID" => t # Update)
    BY <1>1, <1>2 DEF ThreadType, Labels
  <2>2. thread' = [thread EXCEPT ![t] = r0]
    BY <1>1 DEF Drop, Goto, Mine, Slot
  <2> QED
    BY <2>1, <2>2
<1>5. Moves(t, x, r, s)
  BY <1>3, <1>4 DEF Moves
<1>6. ~Flagged(x)
  <2>1. thread[t].at \in Holding \ {"undo"}
    BY <1>2 DEF Holding, Labels
  <2> QED
    BY <1>1, <2>1, HolderIsUsing
<1>7. /\ r.at \in LabelsOf(t)
      /\ thread[t].at \notin Owning \union AtAccept /\ r.at \notin Owning \union AtAccept
      /\ thread[t].at \in Holding /\ r.at \notin Holding
      /\ thread[t].at \notin AtSend /\ r.at \notin AtSend
  BY <1>2, <1>4 DEF LabelsOf, AtRelease, Owning, AtAccept, Holding, Labels, AtSend
<1>8. s.ioCount - session[x].ioCount = (Pending(s) - Pending(session[x])) + (One(r) - One(thread[t]))
  <2>1. s.request \in Int
    BY DEF SessionType
  <2> QED
    BY <1>2, <1>3, <1>7, <2>1 DEF Pending, One
<1>9. RecvPassed(t, x, r, s)
  BY <1>2, <1>3, <1>4 DEF RecvPassed, AtRecv
<1>10. OneAtSend' /\ PacketsAreHeldOnce' /\ LeftOver'
  BY <1>3, <1>5, <1>7, SendStays DEF IInv
<1>11. PICK d \in Int :
         /\ d = (Data(s) - Data(session[x])) + (AtMessage(r) - AtMessage(thread[t])) + (Answering' - Answering)
         /\ d <= 0 /\ d + (s.request - session[x].request) <= 0
  <2>1. Answering \in Int /\ Answering' \in Int /\ Answering' <= Answering
    BY <1>4, NoneAnswers
  <2>2. (Data(s) - Data(session[x])) + (AtMessage(r) - AtMessage(thread[t])) = 0
    BY <1>2, <1>3, <1>4 DEF Data, AtMessage
  <2>3. s.request \in Int
    BY DEF SessionType
  <2> QED
    BY <1>3, <2>1, <2>2, <2>3
<1>12. Knows(t, r)
  <2>1. session[x].sessionID # 0
    BY <1>6 DEF IInv, IDsInOrder
  <2>2. t = Update => Seen(thread[t].id) /\ slotOf[thread[t].id] = thread[t].slot
    BY <1>2 DEF IInv, IDsAreKnown, Knows
  <2> QED
    BY <1>1, <1>4, <2>1, <2>2 DEF Knows, AtUpdate
<1>13. s.sessionID = session[x].sessionID /\ (thread[t].at \in Holding => thread[t].slot = x)
  BY <1>1, <1>3
<1> QED
  BY <1>2, <1>5, <1>6, <1>7, <1>8, <1>9, <1>10, <1>11, <1>12, <1>13, ElsewhereStep

\* A step outside of every slot that changes no session.
LEMMA OutsideStep ==
  ASSUME IInv, NEW t \in Threads, NEW r \in ThreadType, thread' = [thread EXCEPT ![t] = r],
         SessionsSame, Elsewhere, r.at \in LabelsOf(t),
         thread[t].at \notin Owning \union AtAccept \union Holding,
         r.at \notin Owning \union AtAccept \union Holding \union {"enter"},
         Knows(t, r)
  PROVE  IInv'
<1>1. PICK x \in Slots : x = r.slot
  BY DEF ThreadType
<1>2. PICK s \in SessionType : s = session[x]
  BY DEF IInv, TypeOK
<1>3. session' = [session EXCEPT ![x] = s]
  BY <1>2, UnchangedSession DEF SessionsSame
<1>4. Moves(t, x, r, s)
  BY <1>3 DEF Moves
<1>5. /\ thread[t].at \notin AtSend \union AtRecv \union {"message"}
      /\ r.at \notin AtSend \union AtRecv \union {"message", "enter", "compare", "enqueue", "wake"}
      /\ thread[t].at \notin Holding /\ r.at \notin Holding
      /\ thread[t].at \notin Owning \union AtAccept /\ r.at \notin Owning \union AtAccept
  BY DEF AtSend, AtRecv, Holding, Labels
<1>6. OneAtSend' /\ PacketsAreHeldOnce' /\ LeftOver'
  BY <1>2, <1>4, <1>5, SendStays DEF IInv
<1>7. s.ioCount - session[x].ioCount = (Pending(s) - Pending(session[x])) + (One(r) - One(thread[t]))
  <2>1. s.ioCount \in Int /\ Pending(s) \in Int
    BY PendingIsCounted DEF SessionType
  <2>2. One(r) = 0 /\ One(thread[t]) = 0
    BY <1>5 DEF One
  <2> QED
    BY <1>2, <2>1, <2>2
<1>8. Flagged(x) => s.recv = "none" /\ s.send = "none" /\ s.request = 0 /\ s.sendQ = 0
  BY <1>2 DEF IInv, FlaggedIsQuiet
<1>9. RecvPassed(t, x, r, s)
  BY <1>2, <1>5 DEF RecvPassed
<1>10. PICK d \in Int :
         /\ d = (Data(s) - Data(session[x])) + (AtMessage(r) - AtMessage(thread[t])) + (Answering' - Answering)
         /\ d <= 0 /\ d + (s.request - session[x].request) <= 0
  <2>1. Answering \in Int /\ Answering' \in Int /\ Answering' <= Answering
    BY <1>5, NoneAnswers
  <2>2. (Data(s) - Data(session[x])) + (AtMessage(r) - AtMessage(thread[t])) = 0
    BY <1>2, <1>5 DEF Data, AtMessage
  <2>3. s.request \in Int
    BY DEF SessionType
  <2> QED
    BY <1>2, <2>1, <2>2, <2>3
<1>11. s.sessionID = session[x].sessionID
  BY <1>2
<1> QED
  BY <1>4, <1>5, <1>6, <1>7, <1>8, <1>9, <1>10, <1>11, ElsewhereStep

LEMMA ReadIDStep ==
  ASSUME IInv, NEW t \in Threads, ReadID(t)
  PROVE  IInv'
<1>1. /\ thread[t].at = "readID" /\ Elsewhere /\ SessionsSame /\ thread[t] \in ThreadType
  BY DEF ReadID, At, IInv, TypeOK, SessionsSame, ThreadType
<1>2. PICK x \in Slots : x = thread[t].slot
  BY DEF IInv, TypeOK
<1>3. session[x].sessionID \in IDs \union {0} /\ session[x].sessionID # 0
  BY <1>1, <1>2 DEF IInv, TypeOK, SessionType, IDsAreKnown, Knows
<1>4. t # Update
  BY <1>1, NetAssumption DEF IInv, ThreadsInPlace, LabelsOf, AtUpdate, AtRelease, AtAccept
<1>5. PICK r \in ThreadType :
        /\ thread' = [thread EXCEPT ![t] = r] /\ r.at = "cas" /\ r.slot = x /\ r.id = session[x].sessionID
  <2> DEFINE r == [thread[t] EXCEPT !.at = "cas", !.id = session[x].sessionID]
  <2>1. r \in ThreadType /\ r.at = "cas" /\ r.slot = x /\ r.id = session[x].sessionID
    BY <1>1, <1>2, <1>3 DEF ThreadType, Labels
  <2>2. thread' = [thread EXCEPT ![t] = r]
    BY <1>2 DEF ReadID, Mine, Slot
  <2> QED
    BY <2>1, <2>2
<1>6. /\ r.at \in LabelsOf(t)
      /\ thread[t].at \notin Owning \union AtAccept \union Holding
      /\ r.at \notin Owning \union AtAccept \union Holding \union {"enter"}
  BY <1>1, <1>5 DEF LabelsOf, AtRelease, Owning, AtAccept, Holding
<1>7. Seen(session[x].sessionID) /\ slotOf[session[x].sessionID] = x
  <2>1. slotOf[session[x].sessionID] = x /\ session[x].sessionID <= lastID
    BY <1>3 DEF IInv, IDsInOrder
  <2>2. lastID \in Int /\ session[x].sessionID \in 1 .. MaxSessions
    BY <1>3, NetAssumption DEF IInv, TypeOK, IDs
  <2> QED
    BY <2>1, <2>2, NetAssumption DEF Seen
<1>8. Knows(t, r)
  BY <1>4, <1>5, <1>7 DEF Knows
<1> QED
  BY <1>1, <1>5, <1>6, <1>8, OutsideStep
LEMMA UndoStep ==
  ASSUME IInv, Undo, halted' = "no"
  PROVE  IInv'
<1> DEFINE t == Update
<1>0. t \in Threads
  BY ThreadsAre
<1>1. PICK x \in Slots : x = thread[t].slot
  BY <1>0 DEF IInv, TypeOK
<1>2. /\ thread[t].at = "undo" /\ Elsewhere /\ thread[t] \in ThreadType /\ Goto(t, "idle")
      /\ session[x] \in SessionType /\ session[x].ioCount \in Int
      /\ session' = [session EXCEPT ![x].ioCount = @ - 1]
  BY <1>0, <1>1 DEF Undo, Halt, At, Slot, IInv, TypeOK, SessionType, ThreadType
<1>3. PICK s \in SessionType :
        /\ session' = [session EXCEPT ![x] = s]
        /\ s.recv = session[x].recv /\ s.send = session[x].send
        /\ s.ioCount = session[x].ioCount - 1 /\ s.request = session[x].request
        /\ s.sendFlag = session[x].sendFlag /\ s.sendCount = session[x].sendCount
        /\ s.held = session[x].held /\ s.sendQ = session[x].sendQ /\ s.sessionID = session[x].sessionID
  <2> DEFINE s0 == [session[x] EXCEPT !.ioCount = @ - 1]
  <2>0. session[x].ioCount - 1 \in Int
    BY <1>2
  <2>1. s0 \in SessionType
    BY <1>2, <2>0 DEF SessionType
  <2>2. /\ s0.recv = session[x].recv /\ s0.send = session[x].send
        /\ s0.ioCount = session[x].ioCount - 1 /\ s0.request = session[x].request
        /\ s0.sendFlag = session[x].sendFlag /\ s0.sendCount = session[x].sendCount
        /\ s0.held = session[x].held /\ s0.sendQ = session[x].sendQ /\ s0.sessionID = session[x].sessionID
    BY <1>2 DEF SessionType
  <2>3. session' = [session EXCEPT ![x] = s0]
    BY <1>2
  <2> HIDE DEF s0
  <2> QED
    BY <2>1, <2>2, <2>3
<1>4. PICK r \in ThreadType : thread' = [thread EXCEPT ![t] = r] /\ r.slot = x /\ r.at = "idle"
  <2> DEFINE r0 == [thread[t] EXCEPT !.at = "idle"]
  <2>1. r0 \in ThreadType /\ r0.slot = x /\ r0.at = "idle"
    BY <1>1, <1>2 DEF ThreadType, Labels
  <2>2. thread' = [thread EXCEPT ![t] = r0]
    BY <1>2 DEF Goto
  <2> QED
    BY <2>1, <2>2
<1>5. Moves(t, x, r, s)
  BY <1>3, <1>4 DEF Moves
<1>6. /\ r.at \in LabelsOf(t)
      /\ thread[t].at \notin Owning \union AtAccept /\ r.at \notin Owning \union AtAccept
      /\ thread[t].at \in Holding /\ r.at \notin Holding
      /\ thread[t].at \notin AtSend /\ r.at \notin AtSend
  BY <1>2, <1>4 DEF LabelsOf, Owning, AtAccept, Holding, Labels, AtSend
<1>7. s.ioCount - session[x].ioCount = (Pending(s) - Pending(session[x])) + (One(r) - One(thread[t]))
  <2>1. s.request \in Int
    BY DEF SessionType
  <2> QED
    BY <1>2, <1>3, <1>6, <2>1 DEF Pending, One
<1>8. Flagged(x) => s.recv = "none" /\ s.send = "none" /\ s.request = 0 /\ s.sendQ = 0
  BY <1>3 DEF IInv, FlaggedIsQuiet
<1>9. RecvPassed(t, x, r, s)
  BY <1>2, <1>3, <1>4 DEF RecvPassed, AtRecv
<1>10. OneAtSend' /\ PacketsAreHeldOnce' /\ LeftOver'
  BY <1>0, <1>3, <1>5, <1>6, SendStays DEF IInv
<1>11. PICK d \in Int :
         /\ d = (Data(s) - Data(session[x])) + (AtMessage(r) - AtMessage(thread[t])) + (Answering' - Answering)
         /\ d <= 0 /\ d + (s.request - session[x].request) <= 0
  <2>1. Answering \in Int /\ Answering' \in Int /\ Answering' <= Answering
    BY <1>0, <1>4, NoneAnswers
  <2>2. (Data(s) - Data(session[x])) + (AtMessage(r) - AtMessage(thread[t])) = 0
    BY <1>2, <1>3, <1>4 DEF Data, AtMessage
  <2>3. s.request \in Int
    BY DEF SessionType
  <2> QED
    BY <1>3, <2>1, <2>2, <2>3
<1>12. Knows(t, r)
  BY <1>4 DEF Knows, AtUpdate
<1>13. s.sessionID = session[x].sessionID /\ (thread[t].at \in Holding => thread[t].slot = x)
  BY <1>1, <1>3
<1> HIDE DEF t
<1> QED
  BY <1>0, <1>2, <1>5, <1>6, <1>7, <1>8, <1>9, <1>10, <1>11, <1>12, <1>13, ElsewhereStep

\* The count that update finds tells whether the slot is in use.
LEMMA FlagIsSeen ==
  ASSUME IInv, NEW x \in Slots
  PROVE  Flagged(x) => session[x].ioCount >= RELEASE
<1>1. /\ Threaded(x) \in Int /\ Threaded(x) >= 0 /\ RELEASE \in Int
  <2>1. IsFiniteSet({t \in Threads : Slot(t) = x /\ thread[t].at \in Holding})
    BY ThreadsAre, FS_Subset
  <2> QED
    BY <2>1, FS_CardinalityType, NetAssumption DEF Threaded
<1>2. session[x].request \in Nat
  BY DEF IInv, TypeOK, SessionType
<1>3. Pending(session[x]) \in Int /\ Pending(session[x]) >= 0
  BY <1>2 DEF Pending
<1>4. session[x].ioCount = Threaded(x) + Pending(session[x]) + Flag(x)
  BY DEF IInv, Counted
<1> QED
  BY <1>1, <1>3, <1>4 DEF Flag

LEMMA EnterStep ==
  ASSUME IInv, Enter
  PROVE  IInv'
<1> DEFINE t == Update
<1>0. t \in Threads
  BY ThreadsAre
<1>1. PICK x \in Slots : x = thread[t].slot
  BY <1>0 DEF IInv, TypeOK
<1> DEFINE m == IF session[x].ioCount + 1 >= RELEASE THEN "undo" ELSE "compare"
<1>2. /\ thread[t].at = "enter" /\ Elsewhere /\ thread[t] \in ThreadType /\ Goto(t, m)
      /\ session[x] \in SessionType /\ session[x].ioCount \in Int
      /\ session' = [session EXCEPT ![x].ioCount = @ + 1]
  BY <1>0, <1>1 DEF Enter, At, Mine, Slot, IInv, TypeOK, SessionType, ThreadType
<1>3. PICK s \in SessionType :
        /\ session' = [session EXCEPT ![x] = s]
        /\ s.recv = session[x].recv /\ s.send = session[x].send
        /\ s.ioCount = session[x].ioCount + 1 /\ s.request = session[x].request
        /\ s.sendFlag = session[x].sendFlag /\ s.sendCount = session[x].sendCount
        /\ s.held = session[x].held /\ s.sendQ = session[x].sendQ /\ s.sessionID = session[x].sessionID
  <2> DEFINE s0 == [session[x] EXCEPT !.ioCount = @ + 1]
  <2>0. session[x].ioCount + 1 \in Int
    BY <1>2
  <2>1. s0 \in SessionType
    BY <1>2, <2>0 DEF SessionType
  <2>2. /\ s0.recv = session[x].recv /\ s0.send = session[x].send
        /\ s0.ioCount = session[x].ioCount + 1 /\ s0.request = session[x].request
        /\ s0.sendFlag = session[x].sendFlag /\ s0.sendCount = session[x].sendCount
        /\ s0.held = session[x].held /\ s0.sendQ = session[x].sendQ /\ s0.sessionID = session[x].sessionID
    BY <1>2 DEF SessionType
  <2>3. session' = [session EXCEPT ![x] = s0]
    BY <1>2
  <2> HIDE DEF s0
  <2> QED
    BY <2>1, <2>2, <2>3
<1>4. PICK r \in ThreadType :
        /\ thread' = [thread EXCEPT ![t] = r] /\ r.slot = x /\ r.id = thread[t].id
        /\ r.at = m /\ r.at \in {"undo", "compare"}
  <2> DEFINE r0 == [thread[t] EXCEPT !.at = m]
  <2>1. r0 \in ThreadType /\ r0.slot = x /\ r0.id = thread[t].id
        /\ r0.at = m /\ r0.at \in {"undo", "compare"}
    BY <1>1, <1>2 DEF ThreadType, Labels
  <2>2. thread' = [thread EXCEPT ![t] = r0]
    BY <1>2 DEF Goto
  <2> QED
    BY <2>1, <2>2
<1>5. Moves(t, x, r, s)
  BY <1>3, <1>4 DEF Moves
<1>6. /\ r.at \in LabelsOf(t)
      /\ thread[t].at \notin Owning \union AtAccept /\ r.at \notin Owning \union AtAccept
      /\ thread[t].at \notin Holding /\ r.at \in Holding
      /\ thread[t].at \notin AtSend /\ r.at \notin AtSend
  BY <1>2, <1>4, NetAssumption DEF LabelsOf, AtUpdate, Owning, AtAccept, Holding, Labels, AtSend
<1>7. s.ioCount - session[x].ioCount = (Pending(s) - Pending(session[x])) + (One(r) - One(thread[t]))
  <2>1. s.request \in Int
    BY DEF SessionType
  <2> QED
    BY <1>2, <1>3, <1>6, <2>1 DEF Pending, One
<1>8. Flagged(x) => s.recv = "none" /\ s.send = "none" /\ s.request = 0 /\ s.sendQ = 0
  BY <1>3 DEF IInv, FlaggedIsQuiet
<1>9. RecvPassed(t, x, r, s)
  BY <1>2, <1>3, <1>4 DEF RecvPassed, AtRecv
<1>10. OneAtSend' /\ PacketsAreHeldOnce' /\ LeftOver'
  BY <1>0, <1>3, <1>5, <1>6, SendStays DEF IInv
<1>11. PICK d \in Int :
         /\ d = (Data(s) - Data(session[x])) + (AtMessage(r) - AtMessage(thread[t])) + (Answering' - Answering)
         /\ d <= 0 /\ d + (s.request - session[x].request) <= 0
  <2>1. Answering \in Int /\ Answering' \in Int /\ Answering' <= Answering
    BY <1>0, <1>2, <1>4, LastOfUpdate
  <2>2. (Data(s) - Data(session[x])) + (AtMessage(r) - AtMessage(thread[t])) = 0
    BY <1>2, <1>3, <1>4 DEF Data, AtMessage
  <2>3. s.request \in Int
    BY DEF SessionType
  <2> QED
    BY <1>3, <2>1, <2>2, <2>3
<1>12. Knows(t, r)
  <2>1. Seen(thread[t].id) /\ slotOf[thread[t].id] = thread[t].slot
    BY <1>0, <1>2 DEF IInv, IDsAreKnown, Knows, AtUpdate
  <2> QED
    BY <1>1, <1>4, <2>1 DEF Knows
<1>13. r.at \notin Holding \/ ~Flagged(r.slot) \/ (t = Update /\ r.at = "undo")
  <2>1. Flagged(x) => session[x].ioCount >= RELEASE
    BY FlagIsSeen
  <2>2. RELEASE \in Int /\ session[x].ioCount \in Int
    BY <1>2, NetAssumption
  <2>3. Flagged(x) => m = "undo"
    BY <2>1, <2>2
  <2> HIDE DEF m
  <2> QED
    BY <1>4, <2>3
<1>14. s.sessionID = session[x].sessionID /\ (r.at \in Holding => r.slot = x)
  BY <1>3, <1>4
<1> HIDE DEF t, m
<1> QED
  BY <1>0, <1>2, <1>5, <1>6, <1>7, <1>8, <1>9, <1>10, <1>11, <1>12, <1>13, <1>14, ElsewhereStep

-----------------------------------------------------------------------------
(* Steps that change nothing, and those that end the process.                *)

LEMMA SameSteps ==
  ASSUME IInv,
         UNCHANGED <<session, thread, indexPool, lastID, slotOf, jobQ, users, loggedIn, arrived, meant>>,
         OnlyKnownHalts'
  PROVE  IInv'
<1>1. TypeOK'
  BY DEF IInv, TypeOK, OnlyKnownHalts
<1>2. ThreadsInPlace' /\ OneOwner'
  BY DEF IInv, ThreadsInPlace, OneOwner, LabelsOf, Accepting, Pushing, In
<1>3. \A x \in Slots : Flagged(x)' <=> Flagged(x)
  BY DEF Flagged, Accepting, Pushing, In
<1>4. Counted'
  <2>1. \A x \in Slots : Threaded(x)' = Threaded(x) /\ Flag(x)' = Flag(x)
    BY <1>3 DEF Threaded, Slot, Flag
  <2> QED
    BY <2>1 DEF IInv, Counted
<1>5. FlaggedIsQuiet' /\ OneAtRecv' /\ OneAtSend' /\ PacketsAreHeldOnce' /\ LeftOver'
  BY <1>3 DEF IInv, FlaggedIsQuiet, OneAtRecv, OneAtSend, PacketsAreHeldOnce, LeftOver, In
<1>6. RequestsAreBounded'
  BY DEF IInv, RequestsAreBounded, Queued, Received, Delivering, Answering
<1>7. /\ \A i : Seen(i)' <=> Seen(i)
      /\ \A i \in IDs : Live(i)' <=> Live(i)
      /\ \A i : Over(i)' <=> Over(i)
  <2>1. \A i : Seen(i)' <=> Seen(i)
    BY DEF Seen
  <2>2. \A i \in IDs : Live(i)' <=> Live(i)
    BY <1>3 DEF Live, In, IInv, TypeOK
  <2>3. \A i : Seen(i) => i \in IDs
    BY NetAssumption DEF Seen, IDs, IInv, TypeOK
  <2> QED
    BY <2>1, <2>2, <2>3 DEF Over
<1>8. IDsInOrder' /\ IDsAreKnown'
  <2>1. IDsInOrder'
    BY <1>3 DEF IInv, IDsInOrder, Slot
  <2>2. \A t \in Threads : Knows(t, thread[t])' <=> Knows(t, thread[t])
    BY <1>7 DEF Knows
  <2> QED
    BY <2>1, <2>2 DEF IInv, IDsAreKnown
<1>9. JobsAreKnown' /\ JobsInOrder'
  BY <1>7 DEF IInv, JobsAreKnown, JobsInOrder
<1>10. LiveHasUser'
  <2>1. \A i \in 1 .. lastID : i \in IDs
    BY NetAssumption DEF IDs, IInv, TypeOK
  <2> QED
    BY <1>7, <2>1 DEF IInv, LiveHasUser, In
<1> QED
  BY <1>1, <1>2, <1>4, <1>5, <1>6, <1>8, <1>9, <1>10 DEF IInv

LEMMA HaltStep ==
  ASSUME IInv, NEW why \in {"lastReference", "noUserToRelease"}, Halt(why)
  PROVE  IInv'
<1>1. OnlyKnownHalts'
  BY DEF Halt, OnlyKnownHalts
<1> QED
  BY <1>1, SameSteps DEF Halt

LEMMA StutterStep ==
  ASSUME IInv, UNCHANGED vars
  PROVE  IInv'
<1>1. OnlyKnownHalts'
  BY DEF vars, IInv, TypeOK, OnlyKnownHalts
<1> QED
  BY <1>1, SameSteps DEF vars

-----------------------------------------------------------------------------
(* Steps that change the job queue or the users.                             *)

JobType == [kind : {"join", "message", "leave"}, id : IDs]

LEMMA Difference ==
  ASSUME NEW a \in Int, NEW b \in Int, NEW c \in Int, NEW d \in Int, NEW e \in Int, NEW f \in Int,
         a + b + c <= d + e + f
  PROVE  (b - e) + (c - f) + (a - d) \in Int /\ (b - e) + (c - f) + (a - d) <= 0
OBVIOUS

LEMMA QueueStep ==
  ASSUME IInv, NEW t \in Threads, NEW r \in ThreadType, thread' = [thread EXCEPT ![t] = r],
         SessionsSame, UNCHANGED <<indexPool, lastID, slotOf, arrived, halted>>,
         jobQ' \in Seq(JobType), users' \subseteq IDs, loggedIn' \subseteq users', meant' \in IDs \union {0},
         r.at \in LabelsOf(t),
         r = thread[t] \/ (thread[t].at \notin Owning /\ r.at \notin Owning \union AtAccept \union AtSend),
         thread[t].at \notin AtSend,
         r = thread[t] \/ (thread[t].at \notin Holding /\ r.at \notin Holding)
                       \/ (thread[t].at \in Holding \ {"undo"} /\ r.at \in Holding /\ r.slot = thread[t].slot),
         r.at \in AtRecv /\ r # thread[t] => thread[t].at \in AtRecv,
         Knows(t, r), Queued' \in Int,
         Queued' + AtMessage(r) + Answering' <= Queued + AtMessage(thread[t]) + Answering
  PROVE  /\ TypeOK' /\ ThreadsInPlace' /\ OneOwner'
         /\ Counted' /\ FlaggedIsQuiet' /\ OneAtRecv' /\ OneAtSend' /\ PacketsAreHeldOnce' /\ LeftOver'
         /\ RequestsAreBounded' /\ IDsInOrder' /\ IDsAreKnown' /\ OnlyKnownHalts'
         /\ \A i : Seen(i)' <=> Seen(i)
         /\ \A i \in IDs : Live(i)' <=> Live(i)
         /\ \A i : Over(i)' <=> Over(i)
<1>1. PICK x \in Slots : x = thread[t].slot
  BY DEF IInv, TypeOK
<1>2. PICK s \in SessionType : s = session[x]
  BY DEF IInv, TypeOK
<1>3. session' = [session EXCEPT ![x] = s]
  BY <1>2, UnchangedSession DEF SessionsSame
<1>4. Moves(t, x, r, s)
  BY <1>3 DEF Moves
<1>5. TypeOK'
  BY DEF IInv, TypeOK, JobType, ThreadType, SessionsSame
<1>6. ThreadsInPlace'
  BY DEF IInv, ThreadsInPlace, LabelsOf, TypeOK
<1>7. OneOwner' /\ \A y \in Slots : Flagged(y)' <=> Flagged(y)
  <2>1. indexPool' = indexPool /\ (r = thread[t] \/ (thread[t].at \notin Owning /\ r.at \notin Owning))
    OBVIOUS
  <2> QED
    BY <2>1, OwnersStay DEF IInv
<1>8. Counted'
  <2>1. Flag(x)' = Flag(x) /\ Flag(x) \in Int
    BY <1>7, NetAssumption DEF Flag
  <2>2. s.ioCount \in Int /\ Pending(s) \in Int /\ One(r) \in Int /\ One(r) = One(thread[t])
    BY PendingIsCounted DEF One, SessionType
  <2>3. s.ioCount - session[x].ioCount =
             (Pending(s) - Pending(session[x])) + (One(r) - One(thread[t])) + (Flag(x)' - Flag(x))
    BY <1>2, <2>1, <2>2
  <2>4. \/ r = thread[t]
        \/ (thread[t].at \in Holding => thread[t].slot = x) /\ (r.at \in Holding => r.slot = x)
    BY <1>1
  <2>5. \A y \in Slots \ {x} : Flagged(y)' <=> Flagged(y)
    BY <1>7
  <2> QED
    BY <1>4, <2>3, <2>4, <2>5, CountedStep DEF IInv
<1>9. FlaggedIsQuiet'
  <2>1. \A y \in Slots : Flagged(y)' => Flagged(y)
    BY <1>7
  <2>2. Flagged(x)' => s.recv = "none" /\ s.send = "none" /\ s.request = 0 /\ s.sendQ = 0
    BY <1>2, <1>7 DEF IInv, FlaggedIsQuiet
  <2>3. r = thread[t] \/ r.at \notin Holding \/ ~Flagged(r.slot) \/ (t = Update /\ r.at = "undo")
    BY HolderIsUsing
  <2> QED
    BY <1>4, <2>1, <2>2, <2>3, QuietStep DEF IInv
<1>10. OneAtRecv'
  <2>1. RecvPassed(t, x, r, s)
    BY <1>1, <1>2 DEF RecvPassed, In, IInv, OneAtRecv, AtRecv, Holding, Labels
  <2> QED
    BY <1>4, <2>1, RecvStep DEF IInv
<1>11. OneAtSend' /\ PacketsAreHeldOnce' /\ LeftOver'
  <2>1. r = thread[t] \/ (thread[t].at \notin AtSend /\ r.at \notin AtSend)
    OBVIOUS
  <2> QED
    BY <1>2, <1>4, <2>1, SendStays DEF IInv
<1>12. RequestsAreBounded'
  <2>1. /\ Answering \in Int /\ Answering' \in Int /\ AtMessage(r) \in Int /\ AtMessage(thread[t]) \in Int
        /\ Data(s) \in Int /\ s.request \in Int /\ Queued \in Int
    BY QueueIsCounted DEF Answering, AtMessage, Data, SessionType, IInv
  <2>2. arrived' = arrived /\ arrived \in Nat
    BY DEF IInv, TypeOK
  <2>3. PICK d \in Int :
          /\ d = (Data(s) - Data(session[x])) + (AtMessage(r) - AtMessage(thread[t]))
                 + (Answering' - Answering) + (Queued' - Queued) - (arrived' - arrived)
          /\ d <= 0 /\ d + (s.request - session[x].request) <= 0
    <3>1. Data(s) - Data(session[x]) = 0 /\ s.request - session[x].request = 0 /\ arrived' - arrived = 0
      BY <1>2, <2>1, <2>2
    <3>2. (AtMessage(r) - AtMessage(thread[t])) + (Answering' - Answering) + (Queued' - Queued) <= 0
      BY <2>1, Difference
    <3>3. (Data(s) - Data(session[x])) + (AtMessage(r) - AtMessage(thread[t]))
             + (Answering' - Answering) + (Queued' - Queued) - (arrived' - arrived)
          = (AtMessage(r) - AtMessage(thread[t])) + (Answering' - Answering) + (Queued' - Queued)
      BY <2>1, <3>1
    <3>4. (AtMessage(r) - AtMessage(thread[t])) + (Answering' - Answering) + (Queued' - Queued) \in Int
      BY <2>1, Difference
    <3> QED
      BY <3>1, <3>2, <3>3, <3>4
  <2>4. arrived' \in Nat /\ Queued' \in Int /\ Queued \in Int
    BY <2>1, <2>2
  <2> QED
    BY <1>4, <2>3, <2>4, LoadStep DEF IInv
<1>13. IDsInOrder' /\ IDsAreKnown'
  <2>1. t # Accept \/ r = thread[t] \/ (thread[t].at \notin {"setID", "unflag"} /\ r.at \notin AtAccept)
    BY DEF Owning
  <2>2. s.sessionID = session[x].sessionID /\ UNCHANGED <<lastID, slotOf>>
    BY <1>2
  <2> QED
    BY <1>4, <1>7, <2>1, <2>2, IDsStay DEF IInv
<1>14. /\ \A i : Seen(i)' <=> Seen(i)
       /\ \A i \in IDs : Live(i)' <=> Live(i)
       /\ \A i : Over(i)' <=> Over(i)
  <2>1. t # Accept \/ r = thread[t] \/ (thread[t].at # "unflag" /\ r.at # "unflag")
    BY DEF Owning, AtAccept
  <2>2. s.sessionID = session[x].sessionID /\ UNCHANGED <<lastID, slotOf>>
    BY <1>2
  <2> QED
    BY <1>4, <1>7, <2>1, <2>2, SessionsStay DEF IInv
<1>15. OnlyKnownHalts'
  BY DEF IInv, OnlyKnownHalts
<1> QED
  BY <1>5, <1>6, <1>7, <1>8, <1>9, <1>10, <1>11, <1>12, <1>13, <1>14, <1>15

LEMMA JobsAppend ==
  ASSUME IInv, NEW kind \in {"join", "message", "leave"}, NEW id \in IDs,
         jobQ' = Append(jobQ, Job(kind, id)), UNCHANGED <<users, lastID, slotOf>>,
         \A i : Seen(i)' <=> Seen(i), \A i \in IDs : Live(i)' <=> Live(i), \A i : Over(i)' <=> Over(i),
         Seen(id), kind = "leave" => Over(id),
         kind = "message" => Live(id) /\ ~In(Accept, slotOf[id], {"unflag", "join"}),
         \A i \in IDs : Live(i) /\ ~In(Accept, slotOf[i], {"unflag", "join"})'
             => ~In(Accept, slotOf[i], {"unflag", "join"}) \/ (kind = "join" /\ i = id)
  PROVE  JobsAreKnown' /\ LiveHasUser' /\ JobsInOrder'
<1>1. jobQ \in Seq(JobType) /\ Job(kind, id) \in JobType
  BY DEF IInv, TypeOK, JobType, Job
<1>2. /\ DOMAIN jobQ = 1 .. Len(jobQ) /\ Len(jobQ) \in Nat
      /\ DOMAIN jobQ' = 1 .. Len(jobQ) + 1
      /\ \A k \in DOMAIN jobQ : jobQ'[k] = jobQ[k]
      /\ jobQ'[Len(jobQ) + 1] = Job(kind, id)
  BY <1>1
<1>3. Job(kind, id).kind = kind /\ Job(kind, id).id = id
  BY DEF Job
<1>4. JobsAreKnown'
  BY <1>2, <1>3 DEF IInv, JobsAreKnown
<1>5. ASSUME NEW i \in 1 .. lastID PROVE i \in IDs
  BY NetAssumption DEF IInv, TypeOK, IDs
<1>6. LiveHasUser'
  <2> SUFFICES ASSUME NEW i \in 1 .. lastID', Live(i)', ~In(Accept, slotOf[i], {"unflag", "join"})'
               PROVE  i \in users' \/ \E k \in DOMAIN jobQ' : jobQ'[k] = Job("join", i)
    BY DEF LiveHasUser
  <2>1. i \in 1 .. lastID /\ i \in IDs /\ Live(i)
    BY <1>5
  <2>2. CASE kind = "join" /\ i = id
    <3>1. Len(jobQ) + 1 \in DOMAIN jobQ'
      BY <1>2
    <3> QED
      BY <1>2, <2>2, <3>1
  <2>3. CASE ~In(Accept, slotOf[i], {"unflag", "join"})
    <3>1. i \in users \/ \E k \in DOMAIN jobQ : jobQ[k] = Job("join", i)
      BY <2>1, <2>3 DEF IInv, LiveHasUser
    <3> QED
      BY <1>2, <3>1
  <2> QED
    BY <2>1, <2>2, <2>3
<1>7. JobsInOrder'
  <2> SUFFICES ASSUME NEW k \in DOMAIN jobQ', jobQ'[k].kind = "message"
               PROVE  /\ jobQ'[k].id \in users' \/ \E j \in 1 .. k - 1 : jobQ'[j] = Job("join", jobQ'[k].id)
                      /\ \A j \in 1 .. k - 1 : jobQ'[j] # Job("leave", jobQ'[k].id)
    BY DEF JobsInOrder
  <2>1. CASE k \in DOMAIN jobQ
    <3>1. \A j \in 1 .. k - 1 : j \in DOMAIN jobQ
      BY <1>2, <2>1
    <3>2. /\ jobQ[k].id \in users \/ \E j \in 1 .. k - 1 : jobQ[j] = Job("join", jobQ[k].id)
          /\ \A j \in 1 .. k - 1 : jobQ[j] # Job("leave", jobQ[k].id)
      BY <1>2, <2>1 DEF IInv, JobsInOrder
    <3> QED
      BY <1>2, <2>1, <3>1, <3>2
  <2>2. CASE k = Len(jobQ) + 1
    <3>1. kind = "message" /\ jobQ'[k].id = id /\ \A j \in 1 .. k - 1 : j \in DOMAIN jobQ
      BY <1>2, <1>3, <2>2
    <3>2. id \in 1 .. lastID
      BY DEF Seen
    <3>3. id \in users \/ \E j \in DOMAIN jobQ : jobQ[j] = Job("join", id)
      BY <3>1, <3>2 DEF IInv, LiveHasUser
    <3>4. \A j \in DOMAIN jobQ : jobQ[j] # Job("leave", id)
      BY <3>1 DEF IInv, JobsAreKnown, Over, Job
    <3> QED
      BY <1>2, <2>2, <3>1, <3>3, <3>4
  <2> QED
    BY <1>2, <2>1, <2>2
<1> QED
  BY <1>4, <1>6, <1>7

UsersAfter(job) ==
    IF job.kind = "join" THEN users \union {job.id}
    ELSE IF job.kind = "leave" THEN users \ {job.id} ELSE users

LEMMA JobsTail ==
  ASSUME IInv, jobQ # <<>>, jobQ' = Tail(jobQ), users' = UsersAfter(Head(jobQ)), UNCHANGED <<lastID, slotOf>>,
         \A i : Seen(i)' <=> Seen(i), \A i \in IDs : Live(i)' <=> Live(i), \A i : Over(i)' <=> Over(i),
         thread'[Accept] = thread[Accept]
  PROVE  JobsAreKnown' /\ LiveHasUser' /\ JobsInOrder'
<1>1. jobQ \in Seq(JobType)
  BY DEF IInv, TypeOK, JobType
<1>2. /\ DOMAIN jobQ = 1 .. Len(jobQ) /\ Len(jobQ) \in Nat \ {0}
      /\ DOMAIN jobQ' = 1 .. Len(jobQ) - 1
      /\ \A k \in DOMAIN jobQ' : k + 1 \in DOMAIN jobQ /\ jobQ'[k] = jobQ[k + 1]
      /\ Head(jobQ) = jobQ[1] /\ 1 \in DOMAIN jobQ /\ jobQ[1] \in JobType
  BY <1>1
<1>3. \A k \in DOMAIN jobQ \ {1} : k - 1 \in DOMAIN jobQ' /\ jobQ'[k - 1] = jobQ[k]
  BY <1>2
<1>4. JobsAreKnown'
  BY <1>2 DEF IInv, JobsAreKnown, UsersAfter
<1>5. \A i \in 1 .. lastID : i \in IDs
  BY NetAssumption DEF IInv, TypeOK, IDs
<1>6. \A i : jobQ[1] = Job("join", i) => i \in users'
  BY <1>2 DEF UsersAfter, Job
<1>7. \A i \in users : i \in users' \/ (jobQ[1].kind = "leave" /\ jobQ[1].id = i)
  BY <1>2 DEF UsersAfter
<1>8. LiveHasUser'
  <2> SUFFICES ASSUME NEW i \in 1 .. lastID', Live(i)', ~In(Accept, slotOf[i], {"unflag", "join"})'
               PROVE  i \in users' \/ \E k \in DOMAIN jobQ' : jobQ'[k] = Job("join", i)
    BY DEF LiveHasUser
  <2>1. i \in 1 .. lastID /\ i \in IDs /\ Live(i) /\ ~In(Accept, slotOf[i], {"unflag", "join"})
    BY <1>5 DEF In
  <2>2. CASE i \in users
    <3>1. ~(jobQ[1].kind = "leave" /\ jobQ[1].id = i)
      BY <1>2, <2>1 DEF IInv, JobsAreKnown, Over
    <3> QED
      BY <1>7, <2>2, <3>1
  <2>3. CASE \E k \in DOMAIN jobQ : jobQ[k] = Job("join", i)
    BY <1>3, <1>6, <2>3
  <2> QED
    BY <2>1, <2>2, <2>3 DEF IInv, LiveHasUser
<1>9. JobsInOrder'
  <2> SUFFICES ASSUME NEW k \in DOMAIN jobQ', jobQ'[k].kind = "message"
               PROVE  /\ jobQ'[k].id \in users' \/ \E j \in 1 .. k - 1 : jobQ'[j] = Job("join", jobQ'[k].id)
                      /\ \A j \in 1 .. k - 1 : jobQ'[j] # Job("leave", jobQ'[k].id)
    BY DEF JobsInOrder
  <2> DEFINE i == jobQ'[k].id
  <2>1. k + 1 \in DOMAIN jobQ /\ jobQ[k + 1].kind = "message" /\ jobQ[k + 1].id = i /\ k \in Nat /\ k >= 1
    BY <1>2
  <2>2. /\ i \in users \/ \E j \in 1 .. (k + 1) - 1 : jobQ[j] = Job("join", i)
        /\ \A j \in 1 .. (k + 1) - 1 : jobQ[j] # Job("leave", i)
    BY <2>1 DEF IInv, JobsInOrder
  <2>3. /\ i \in users \/ \E j \in 1 .. k : jobQ[j] = Job("join", i)
        /\ \A j \in 1 .. k : jobQ[j] # Job("leave", i)
    BY <2>1, <2>2
  <2>4. \A j \in 1 .. k - 1 : j + 1 \in 1 .. k /\ jobQ'[j] = jobQ[j + 1]
    BY <1>2, <2>1
  <2>5. \A j \in 1 .. k : j # 1 => j - 1 \in 1 .. k - 1 /\ jobQ'[j - 1] = jobQ[j]
    BY <1>3, <1>2, <2>1
  <2>6. ~(jobQ[1].kind = "leave" /\ jobQ[1].id = i)
    BY <1>2, <2>1, <2>3 DEF Job, JobType
  <2> HIDE DEF i
  <2>7. i \in users' \/ \E j \in 1 .. k - 1 : jobQ'[j] = Job("join", i)
    BY <1>6, <1>7, <2>3, <2>5, <2>6
  <2>8. \A j \in 1 .. k - 1 : jobQ'[j] # Job("leave", i)
    BY <2>3, <2>4
  <2> QED
    BY <2>7, <2>8 DEF i
<1> QED
  BY <1>4, <1>8, <1>9

LEMMA SeenIsAnID ==
  ASSUME IInv, NEW i, Seen(i)
  PROVE  i \in 1 .. lastID /\ i \in IDs
BY NetAssumption DEF IInv, TypeOK, IDs, Seen

LEMMA AppendedType ==
  ASSUME IInv, NEW kind \in {"join", "message", "leave"}, NEW id \in IDs, jobQ' = Append(jobQ, Job(kind, id)),
         UNCHANGED <<users, loggedIn, meant>>
  PROVE  jobQ' \in Seq(JobType) /\ users' \subseteq IDs /\ loggedIn' \subseteq users' /\ meant' \in IDs \union {0}
BY DEF IInv, TypeOK, JobType, Job

LEMMA QueueLoad ==
  ASSUME NEW q \in Int, NEW a \in Int, NEW b \in Int, b <= a, NEW m \in Int, NEW n \in Int,
         NEW p \in Int, p + n = q + m
  PROVE  p + n + b <= q + m + a
OBVIOUS

LEMMA LeaveStep ==
  ASSUME IInv, NEW t \in Threads, Leave(t)
  PROVE  IInv'
<1> DEFINE id == thread[t].id
<1>1. /\ thread[t].at = "leave" /\ SessionsSame /\ thread[t] \in ThreadType /\ Goto(t, "idle")
      /\ UNCHANGED <<indexPool, lastID, slotOf, arrived, halted, users, loggedIn, meant>>
      /\ jobQ' = Append(jobQ, Job("leave", id))
  BY DEF Leave, At, IInv, TypeOK, SessionsSame, ThreadType
<1>2. PICK r \in ThreadType : thread' = [thread EXCEPT ![t] = r] /\ r.at = "idle"
  <2> DEFINE r0 == [thread[t] EXCEPT !.at = "idle"]
  <2>1. r0 \in ThreadType /\ r0.at = "idle"
    BY <1>1 DEF ThreadType, Labels
  <2>2. thread' = [thread EXCEPT ![t] = r0]
    BY <1>1 DEF Goto
  <2> QED
    BY <2>1, <2>2
<1>3. Seen(id) /\ Over(id)
  BY <1>1 DEF IInv, IDsAreKnown, Knows
<1>4. id \in IDs
  BY <1>3, SeenIsAnID
<1>5. Queued \in Int /\ Queued' = Queued
  BY <1>1, <1>4, QueuedAppend DEF IInv
<1>6. Answering \in Int /\ Answering' \in Int /\ Answering' <= Answering
  BY <1>2, NoneAnswers
<1>7. Queued' \in Int /\ Queued' + AtMessage(r) + Answering' <= Queued + AtMessage(thread[t]) + Answering
  <2>1. AtMessage(r) = 0 /\ AtMessage(thread[t]) = 0
    BY <1>1, <1>2 DEF AtMessage
  <2>2. Queued' + AtMessage(r) = Queued + AtMessage(thread[t]) /\ Queued' \in Int
    BY <1>5, <2>1
  <2>3. AtMessage(r) \in Int /\ AtMessage(thread[t]) \in Int
    BY <2>1
  <2> QED
    BY <1>5, <1>6, <2>2, <2>3, QueueLoad
<1>8. /\ r.at \in LabelsOf(t)
      /\ thread[t].at \notin Owning /\ r.at \notin Owning \union AtAccept \union AtSend
      /\ thread[t].at \notin AtSend
      /\ thread[t].at \notin Holding /\ r.at \notin Holding
      /\ r.at \notin AtRecv
  BY <1>1, <1>2 DEF LabelsOf, Owning, AtAccept, AtSend, Holding, AtRecv
<1>9. Knows(t, r)
  BY <1>2 DEF Knows, AtUpdate
<1>10. jobQ' \in Seq(JobType) /\ users' \subseteq IDs /\ loggedIn' \subseteq users' /\ meant' \in IDs \union {0}
  BY <1>1, <1>4, AppendedType
<1> HIDE DEF id
<1>11. /\ TypeOK' /\ ThreadsInPlace' /\ OneOwner'
       /\ Counted' /\ FlaggedIsQuiet' /\ OneAtRecv' /\ OneAtSend' /\ PacketsAreHeldOnce' /\ LeftOver'
       /\ RequestsAreBounded' /\ IDsInOrder' /\ IDsAreKnown' /\ OnlyKnownHalts'
       /\ \A i : Seen(i)' <=> Seen(i)
       /\ \A i \in IDs : Live(i)' <=> Live(i)
       /\ \A i : Over(i)' <=> Over(i)
  BY <1>1, <1>2, <1>7, <1>8, <1>9, <1>10, QueueStep
<1>12. \A i \in IDs : In(Accept, slotOf[i], {"unflag", "join"})' <=> In(Accept, slotOf[i], {"unflag", "join"})
  BY <1>1, <1>2, ThreadsAre DEF In, IInv, TypeOK
<1>13. JobsAreKnown' /\ LiveHasUser' /\ JobsInOrder'
  BY <1>1, <1>3, <1>4, <1>11, <1>12, JobsAppend
<1> QED
  BY <1>11, <1>13 DEF IInv

\* The worker that hands on a message has its session, which has joined.
LEMMA MessageStep ==
  ASSUME IInv, NEW w \in Workers, Message(w)
  PROVE  IInv'
<1>0. w \in Threads /\ w # Update /\ w # Accept
  BY WorkerIs
<1>1. PICK x \in Slots : x = thread[w].slot
  BY <1>0 DEF IInv, TypeOK
<1> DEFINE id == session[x].sessionID
<1>2. thread[w].at = "message" /\ id = thread[w].id
  BY <1>0, <1>1 DEF Message, At, IInv, IDsAreKnown, Knows
<1>3. /\ SessionsSame /\ thread[w] \in ThreadType /\ Goto(w, "recvCheck")
      /\ UNCHANGED <<indexPool, lastID, slotOf, arrived, halted, users, loggedIn, meant>>
      /\ jobQ' = Append(jobQ, Job("message", id))
  BY <1>0, <1>1, <1>2 DEF Message, Mine, Slot, IInv, TypeOK, SessionsSame, ThreadType
<1>4. PICK r \in ThreadType : thread' = [thread EXCEPT ![w] = r] /\ r.at = "recvCheck" /\ r.slot = x
  <2> DEFINE r0 == [thread[w] EXCEPT !.at = "recvCheck"]
  <2>1. r0 \in ThreadType /\ r0.at = "recvCheck" /\ r0.slot = x
    BY <1>1, <1>3 DEF ThreadType, Labels
  <2>2. thread' = [thread EXCEPT ![w] = r0]
    BY <1>3 DEF Goto
  <2> QED
    BY <2>1, <2>2
<1>5. ~Flagged(x)
  <2>1. thread[w].at \in Holding \ {"undo"}
    BY <1>2 DEF Holding, Labels
  <2> QED
    BY <1>0, <1>1, <2>1, HolderIsUsing
<1>6. id \in IDs \union {0} /\ id # 0 /\ id <= lastID /\ slotOf[id] = x
  BY <1>5 DEF IInv, TypeOK, SessionType, IDsInOrder
<1>7. Seen(id) /\ Live(id) /\ id \in IDs
  BY <1>5, <1>6, NetAssumption DEF Seen, Live, IInv, TypeOK, IDs
<1>8. ~In(Accept, x, {"unflag", "join"})
  <2>1. ~In(Accept, x, {"unflag"})
    BY <1>5 DEF Flagged, Accepting, In
  <2>2. ~In(Accept, x, {"join"})
    BY <1>0, <1>1, <1>2, ThreadsAre DEF IInv, OneAtRecv, In, AtRecv
  <2> QED
    BY <2>1, <2>2 DEF In
<1>9. Queued \in Int /\ Queued' = Queued + 1
  BY <1>3, <1>7, QueuedAppend DEF IInv
<1>10. Answering \in Int /\ Answering' \in Int /\ Answering' <= Answering
  BY <1>0, <1>4, NoneAnswers
<1>11. Queued' \in Int /\ Queued' + AtMessage(r) + Answering' <= Queued + AtMessage(thread[w]) + Answering
  <2>1. AtMessage(r) = 0 /\ AtMessage(thread[w]) = 1
    BY <1>2, <1>4 DEF AtMessage
  <2>2. Queued' + AtMessage(r) = Queued + AtMessage(thread[w]) /\ Queued' \in Int
    BY <1>9, <2>1
  <2>3. AtMessage(r) \in Int /\ AtMessage(thread[w]) \in Int
    BY <2>1
  <2> QED
    BY <1>9, <1>10, <2>2, <2>3, QueueLoad
<1>12. /\ r.at \in LabelsOf(w)
       /\ thread[w].at \notin Owning /\ r.at \notin Owning \union AtAccept \union AtSend
       /\ thread[w].at \notin AtSend
       /\ thread[w].at \in Holding \ {"undo"} /\ r.at \in Holding /\ r.slot = thread[w].slot
       /\ thread[w].at \in AtRecv
  BY <1>0, <1>1, <1>2, <1>4 DEF LabelsOf, AtPost, Owning, AtAccept, AtSend, Holding, Labels, AtRecv
<1>13. Knows(w, r)
  BY <1>0, <1>4 DEF Knows, AtUpdate
<1>14. jobQ' \in Seq(JobType) /\ users' \subseteq IDs /\ loggedIn' \subseteq users' /\ meant' \in IDs \union {0}
  BY <1>3, <1>7, AppendedType
<1> HIDE DEF id
<1>15. /\ TypeOK' /\ ThreadsInPlace' /\ OneOwner'
       /\ Counted' /\ FlaggedIsQuiet' /\ OneAtRecv' /\ OneAtSend' /\ PacketsAreHeldOnce' /\ LeftOver'
       /\ RequestsAreBounded' /\ IDsInOrder' /\ IDsAreKnown' /\ OnlyKnownHalts'
       /\ \A i : Seen(i)' <=> Seen(i)
       /\ \A i \in IDs : Live(i)' <=> Live(i)
       /\ \A i : Over(i)' <=> Over(i)
  BY <1>0, <1>3, <1>4, <1>11, <1>12, <1>13, <1>14, QueueStep
<1>16. \A i \in IDs : In(Accept, slotOf[i], {"unflag", "join"})' <=> In(Accept, slotOf[i], {"unflag", "join"})
  BY <1>0, <1>3, <1>4, ThreadsAre DEF In, IInv, TypeOK
<1>17. ~In(Accept, slotOf[id], {"unflag", "join"})
  BY <1>6, <1>8
<1>18. JobsAreKnown' /\ LiveHasUser' /\ JobsInOrder'
  BY <1>3, <1>7, <1>15, <1>16, <1>17, JobsAppend
<1> QED
  BY <1>15, <1>18 DEF IInv

LEMMA JoinStep ==
  ASSUME IInv, Join
  PROVE  IInv'
<1> DEFINE t == Accept
<1>0. t \in Threads
  BY ThreadsAre
<1>1. PICK x \in Slots : x = thread[t].slot
  BY <1>0 DEF IInv, TypeOK
<1> DEFINE id == session[x].sessionID
<1>2. /\ SessionsSame /\ thread[t] \in ThreadType /\ Goto(t, "recvCheck") /\ thread[t].at = "join"
      /\ UNCHANGED <<indexPool, lastID, slotOf, arrived, halted, users, loggedIn, meant>>
      /\ jobQ' = Append(jobQ, Job("join", id))
  BY <1>0, <1>1 DEF Join, At, Mine, Slot, IInv, TypeOK, SessionsSame, ThreadType
<1>3. PICK r \in ThreadType : thread' = [thread EXCEPT ![t] = r] /\ r.at = "recvCheck" /\ r.slot = x
  <2> DEFINE r0 == [thread[t] EXCEPT !.at = "recvCheck"]
  <2>1. r0 \in ThreadType /\ r0.at = "recvCheck" /\ r0.slot = x
    BY <1>1, <1>2 DEF ThreadType, Labels
  <2>2. thread' = [thread EXCEPT ![t] = r0]
    BY <1>2 DEF Goto
  <2> QED
    BY <2>1, <2>2
<1>4. ~Flagged(x)
  <2>1. thread[t].at \in Holding \ {"undo"}
    BY <1>2 DEF Holding, Labels
  <2> QED
    BY <1>0, <1>1, <2>1, HolderIsUsing
<1>5. id \in IDs \union {0} /\ id # 0 /\ id <= lastID /\ slotOf[id] = x
  BY <1>4 DEF IInv, TypeOK, SessionType, IDsInOrder
<1>6. Seen(id) /\ Live(id) /\ id \in IDs
  BY <1>4, <1>5, NetAssumption DEF Seen, Live, IInv, TypeOK, IDs
<1>7. Queued \in Int /\ Queued' = Queued
  BY <1>2, <1>6, QueuedAppend DEF IInv
<1>8. Answering \in Int /\ Answering' \in Int /\ Answering' <= Answering
  BY <1>0, <1>3, NoneAnswers
<1>9. Queued' \in Int /\ Queued' + AtMessage(r) + Answering' <= Queued + AtMessage(thread[t]) + Answering
  <2>1. AtMessage(r) = 0 /\ AtMessage(thread[t]) = 0
    BY <1>2, <1>3 DEF AtMessage
  <2>2. Queued' + AtMessage(r) = Queued + AtMessage(thread[t]) /\ Queued' \in Int
    BY <1>7, <2>1
  <2>3. AtMessage(r) \in Int /\ AtMessage(thread[t]) \in Int
    BY <2>1
  <2> QED
    BY <1>7, <1>8, <2>2, <2>3, QueueLoad
<1>10. /\ r.at \in LabelsOf(t)
       /\ thread[t].at \notin Owning /\ r.at \notin Owning \union AtAccept \union AtSend
       /\ thread[t].at \notin AtSend
       /\ thread[t].at \in Holding \ {"undo"} /\ r.at \in Holding /\ r.slot = thread[t].slot
       /\ thread[t].at \in AtRecv
  BY <1>1, <1>2, <1>3 DEF LabelsOf, AtPost, Owning, AtAccept, AtSend, Holding, Labels, AtRecv
<1>11. Knows(t, r)
  BY <1>3, NetAssumption DEF Knows, AtUpdate
<1>12. jobQ' \in Seq(JobType) /\ users' \subseteq IDs /\ loggedIn' \subseteq users' /\ meant' \in IDs \union {0}
  BY <1>2, <1>6, AppendedType
<1>13. \A i \in IDs : Live(i) /\ ~In(Accept, slotOf[i], {"unflag", "join"})'
             => ~In(Accept, slotOf[i], {"unflag", "join"}) \/ i = id
  <2>1. \A i \in IDs : Live(i) /\ In(Accept, slotOf[i], {"unflag", "join"}) => i = id
    BY <1>1 DEF Live, In
  <2> QED
    BY <2>1
<1> HIDE DEF id, t
<1>14. /\ TypeOK' /\ ThreadsInPlace' /\ OneOwner'
       /\ Counted' /\ FlaggedIsQuiet' /\ OneAtRecv' /\ OneAtSend' /\ PacketsAreHeldOnce' /\ LeftOver'
       /\ RequestsAreBounded' /\ IDsInOrder' /\ IDsAreKnown' /\ OnlyKnownHalts'
       /\ \A i : Seen(i)' <=> Seen(i)
       /\ \A i \in IDs : Live(i)' <=> Live(i)
       /\ \A i : Over(i)' <=> Over(i)
  BY <1>0, <1>2, <1>3, <1>9, <1>10, <1>11, <1>12, QueueStep
<1>15. JobsAreKnown' /\ LiveHasUser' /\ JobsInOrder'
  BY <1>2, <1>6, <1>13, <1>14, JobsAppend
<1> QED
  BY <1>14, <1>15 DEF IInv

\* Update takes a job, and may go on to the slot of a session that a user had.
Answers == \E i \in users, id \in IDs : Seen(id) /\ slotOf[id] = slotOf[i] /\ Approach(i, id)

LEMMA JobTaken ==
  ASSUME IInv, At(Update, "idle"), jobQ # <<>>, jobQ' = Tail(jobQ), SessionsSame,
         UNCHANGED <<indexPool, lastID, slotOf, arrived, halted>>,
         users' = UsersAfter(Head(jobQ)), loggedIn' \subseteq users', meant' \in IDs \union {0},
         thread' = thread \/ (Head(jobQ).kind = "message" /\ Answers)
  PROVE  IInv'
<1> DEFINE t == Update
<1>0. t \in Threads
  BY ThreadsAre
<1>1. thread[t].at = "idle" /\ thread[t] \in ThreadType
  BY <1>0 DEF At, IInv, TypeOK, ThreadType
<1>2. jobQ \in Seq(JobType) /\ Head(jobQ) \in JobType /\ jobQ' \in Seq(JobType)
  <2>1. jobQ \in Seq(JobType)
    BY DEF IInv, TypeOK, JobType
  <2>2. Head(jobQ) \in JobType /\ Tail(jobQ) \in Seq(JobType)
    BY <2>1
  <2> QED
    BY <2>1, <2>2
<1>3. PICK r \in ThreadType :
        /\ thread' = [thread EXCEPT ![t] = r]
        /\ \/ r = thread[t]
           \/ Head(jobQ).kind = "message" /\ r.at = "enter" /\ Seen(r.id) /\ slotOf[r.id] = r.slot
  <2>1. CASE thread' = thread
    <3>1. thread' = [thread EXCEPT ![t] = thread[t]]
      BY <2>1 DEF IInv, TypeOK
    <3> QED
      BY <1>1, <3>1
  <2>2. CASE Head(jobQ).kind = "message" /\ Answers
    <3>1. PICK i \in users, id \in IDs : Seen(id) /\ slotOf[id] = slotOf[i] /\ Approach(i, id)
      BY <2>2 DEF Answers
    <3> DEFINE r == [at |-> "enter", slot |-> slotOf[i], id |-> id]
    <3>2. slotOf[i] \in Slots
      BY DEF IInv, TypeOK
    <3>3. r \in ThreadType /\ r.at = "enter" /\ r.id = id /\ r.slot = slotOf[i]
      BY <3>2 DEF ThreadType, Labels
    <3>4. thread' = [thread EXCEPT ![t] = r]
      BY <3>1 DEF Approach
    <3> HIDE DEF r
    <3> QED
      BY <2>2, <3>1, <3>3, <3>4
  <2> QED
    BY <2>1, <2>2
<1>4. thread'[t] = r /\ thread'[Accept] = thread[Accept]
  BY <1>0, <1>3, ThreadsAre, NetAssumption DEF IInv, TypeOK
<1>5. users' \subseteq IDs
  BY <1>2 DEF UsersAfter, JobType, IInv, TypeOK
<1>6. /\ Queued \in Int
      /\ Queued' = Queued - (IF Head(jobQ).kind = "message" THEN 1 ELSE 0)
  BY QueuedTail DEF IInv
<1>7. Queued' \in Int /\ Queued' + AtMessage(r) + Answering' <= Queued + AtMessage(thread[t]) + Answering
  <2>1. AtMessage(r) = 0 /\ AtMessage(thread[t]) = 0
    BY <1>1, <1>3 DEF AtMessage
  <2>2. Answering = 0
    BY <1>1 DEF Answering
  <2>3. CASE r = thread[t]
    <3>1. Answering' = 0
      BY <1>1, <1>4, <2>3 DEF Answering
    <3> QED
      BY <1>6, <2>1, <2>2, <3>1
  <2>4. CASE Head(jobQ).kind = "message" /\ r.at = "enter"
    <3>1. Answering' = 1
      BY <1>4, <2>4 DEF Answering
    <3>2. Queued' = Queued - 1
      BY <1>6, <2>4
    <3> QED
      BY <1>6, <2>1, <2>2, <3>1, <3>2
  <2> QED
    BY <1>3, <2>3, <2>4
<1>8. /\ r.at \in LabelsOf(t)
      /\ r.at \in {"idle", "enter"}
  BY <1>1, <1>3, NetAssumption DEF LabelsOf, AtUpdate
<1>9. /\ thread[t].at \notin Owning /\ r.at \notin Owning \union AtAccept \union AtSend
      /\ thread[t].at \notin AtSend
      /\ thread[t].at \notin Holding /\ r.at \notin Holding
      /\ r.at \notin AtRecv
  BY <1>1, <1>8 DEF Owning, AtAccept, AtSend, Holding, AtRecv
<1>10. Knows(t, r)
  <2>1. CASE r = thread[t]
    BY <1>0, <2>1 DEF IInv, IDsAreKnown
  <2>2. CASE r.at = "enter" /\ Seen(r.id) /\ slotOf[r.id] = r.slot
    BY <2>2 DEF Knows
  <2> QED
    BY <1>3, <2>1, <2>2
<1> HIDE DEF t
<1>11. /\ TypeOK' /\ ThreadsInPlace' /\ OneOwner'
       /\ Counted' /\ FlaggedIsQuiet' /\ OneAtRecv' /\ OneAtSend' /\ PacketsAreHeldOnce' /\ LeftOver'
       /\ RequestsAreBounded' /\ IDsInOrder' /\ IDsAreKnown' /\ OnlyKnownHalts'
       /\ \A i : Seen(i)' <=> Seen(i)
       /\ \A i \in IDs : Live(i)' <=> Live(i)
       /\ \A i : Over(i)' <=> Over(i)
  BY <1>0, <1>2, <1>3, <1>5, <1>7, <1>8, <1>9, <1>10, QueueStep
<1>12. JobsAreKnown' /\ LiveHasUser' /\ JobsInOrder'
  BY <1>4, <1>11, JobsTail
<1> QED
  BY <1>11, <1>12 DEF IInv

LEMMA UserJoinsStep ==
  ASSUME IInv, UserJoins
  PROVE  IInv'
<1>1. /\ At(Update, "idle") /\ jobQ # <<>> /\ jobQ' = Tail(jobQ) /\ SessionsSame
      /\ UNCHANGED <<indexPool, lastID, slotOf, arrived, halted>>
      /\ thread' = thread
  BY DEF UserJoins, NextJob, Taken, SessionsSame
<1>2. users' = UsersAfter(Head(jobQ))
  BY DEF UserJoins, NextJob, UsersAfter
<1>3. loggedIn' \subseteq users' /\ meant' \in IDs \union {0}
  BY DEF UserJoins, Taken, IInv, TypeOK
<1> QED
  BY <1>1, <1>2, <1>3, JobTaken

LEMMA UserLeavesStep ==
  ASSUME IInv, UserLeaves
  PROVE  IInv'
<1>1. CASE Halt("noUserToRelease")
  BY <1>1, HaltStep
<1>2. CASE ~Halt("noUserToRelease")
  <2>1. /\ At(Update, "idle") /\ jobQ # <<>> /\ jobQ' = Tail(jobQ) /\ SessionsSame
        /\ UNCHANGED <<indexPool, lastID, slotOf, arrived, halted>>
        /\ thread' = thread
    BY <1>2 DEF UserLeaves, NextJob, Taken, SessionsSame
  <2>2. users' = UsersAfter(Head(jobQ))
    BY <1>2 DEF UserLeaves, NextJob, UsersAfter
  <2>3. loggedIn' \subseteq users' /\ meant' \in IDs \union {0}
    BY <1>2 DEF UserLeaves, Taken, IInv, TypeOK
  <2> QED
    BY <2>1, <2>2, <2>3, JobTaken
<1> QED
  BY <1>1, <1>2

LEMMA SentTo ==
  ASSUME IInv, NEW i \in users, Send(i)
  PROVE  thread' = thread \/ Answers
<1>1. Seen(i) /\ i \in IDs
  BY DEF IInv, TypeOK, JobsAreKnown
<1> QED
  BY <1>1 DEF Send, Answers

LEMMA UserLogsInStep ==
  ASSUME IInv, UserLogsIn
  PROVE  IInv'
<1>1. /\ At(Update, "idle") /\ jobQ # <<>> /\ jobQ' = Tail(jobQ) /\ SessionsSame
      /\ UNCHANGED <<indexPool, lastID, slotOf, arrived, halted>>
      /\ Head(jobQ).kind = "message"
  BY DEF UserLogsIn, NextJob, Taken, SessionsSame
<1>2. users' = UsersAfter(Head(jobQ))
  BY <1>1 DEF UserLogsIn, UsersAfter
<1>3. loggedIn' \subseteq users' /\ meant' \in IDs \union {0}
  BY DEF UserLogsIn, Taken, IInv, TypeOK
<1>4. thread' = thread \/ Answers
  BY SentTo DEF UserLogsIn
<1> QED
  BY <1>1, <1>2, <1>3, <1>4, JobTaken

\* A message of a session with no user is never at the head of the queue.
LEMMA UserRequestStep ==
  ASSUME IInv, UserRequest
  PROVE  IInv'
<1>1. At(Update, "idle") /\ jobQ # <<>> /\ Head(jobQ).kind = "message"
  BY DEF UserRequest, NextJob
<1>2. Head(jobQ).id \in users
  <2>1. 1 \in DOMAIN jobQ /\ Head(jobQ) = jobQ[1]
    BY <1>1 DEF IInv, TypeOK
  <2>2. ~ \E j \in 1 .. 1 - 1 : jobQ[j] = Job("join", jobQ[1].id)
    OBVIOUS
  <2> QED
    BY <1>1, <2>1, <2>2 DEF IInv, JobsInOrder
<1>3. /\ jobQ' = Tail(jobQ) /\ SessionsSame
      /\ UNCHANGED <<indexPool, lastID, slotOf, arrived, halted, users, loggedIn>>
      /\ meant' = 0
      /\ UNCHANGED thread \/ \E i \in loggedIn : Send(i)
  BY <1>2 DEF UserRequest, Taken, SessionsSame
<1>4. users' = UsersAfter(Head(jobQ))
  BY <1>1, <1>3 DEF UsersAfter
<1>5. loggedIn' \subseteq users' /\ meant' \in IDs \union {0}
  BY <1>3 DEF IInv, TypeOK
<1>6. thread' = thread \/ Answers
  <2>1. loggedIn \subseteq users
    BY DEF IInv, TypeOK
  <2> QED
    BY <1>3, <2>1, SentTo
<1> QED
  BY <1>1, <1>3, <1>4, <1>5, <1>6, JobTaken

LEMMA LoginAgainStep ==
  ASSUME IInv, LoginAgain
  PROVE  IInv'
<1>1. /\ At(Update, "idle") /\ jobQ # <<>> /\ jobQ' = Tail(jobQ) /\ SessionsSame
      /\ UNCHANGED <<indexPool, lastID, slotOf, arrived, halted, users, loggedIn>>
      /\ Head(jobQ).kind = "message"
  BY DEF LoginAgain, NextJob, SessionsSame
<1>2. users' = UsersAfter(Head(jobQ))
  BY <1>1 DEF UsersAfter
<1>3. PICK i \in loggedIn : meant' = i /\ Approach(i, OldSessionID(i))
  BY DEF LoginAgain
<1>4. i \in users /\ i \in IDs /\ Seen(i) /\ slotOf[i] \in Slots
  BY DEF IInv, TypeOK, JobsAreKnown
<1>5. loggedIn' \subseteq users' /\ meant' \in IDs \union {0}
  BY <1>1, <1>3, <1>4 DEF IInv, TypeOK
<1> DEFINE id == OldSessionID(i)
<1>6. /\ id \in IDs /\ id <= lastID /\ slotOf[id] = slotOf[i] /\ session[slotOf[id]].sessionID = id
  <2>1. session[slotOf[i]].sessionID = id /\ id \in IDs \union {0}
    BY <1>4 DEF OldSessionID, IInv, TypeOK, SessionType
  <2>2. id # 0
    BY <1>4, <2>1 DEF Seen, IDs
  <2> QED
    BY <1>4, <2>1, <2>2 DEF IInv, IDsInOrder
<1>7. Seen(id)
  BY <1>6, NetAssumption DEF Seen, IDs, IInv, TypeOK
<1>8. Answers
  BY <1>3, <1>4, <1>6, <1>7 DEF Answers
<1> QED
  BY <1>1, <1>2, <1>5, <1>8, JobTaken

-----------------------------------------------------------------------------
(* The kernel and the peers.                                                 *)

\* What is pending ends, or the connection does.
Ends(x, s) ==
    /\ session' = [session EXCEPT ![x] = s]
    /\ s.recv = "none" <=> session[x].recv = "none"
    /\ s.send = "none" <=> session[x].send = "none"
    /\ s.ioCount = session[x].ioCount /\ s.request = session[x].request
    /\ s.sendFlag = session[x].sendFlag /\ s.sendCount = session[x].sendCount
    /\ s.held = session[x].held /\ s.sendQ = session[x].sendQ /\ s.sessionID = session[x].sessionID

LEMMA EndsStep ==
  ASSUME IInv, NEW x \in Slots, NEW s \in SessionType, Ends(x, s), thread' = thread,
         UNCHANGED <<indexPool, lastID, slotOf, jobQ, users, loggedIn, meant, halted>>,
         arrived' \in 0 .. MaxMessages, Data(s) - Data(session[x]) <= arrived' - arrived, arrived <= arrived'
  PROVE  IInv'
<1>1. PICK t \in Threads, r \in ThreadType : t = Update /\ r = thread[t]
  BY ThreadsAre DEF IInv, TypeOK, ThreadType
<1>2. Moves(t, x, r, s)
  BY <1>1 DEF Moves, Ends, IInv, TypeOK
<1>3. TypeOK'
  BY DEF IInv, TypeOK, Ends
<1>4. ThreadsInPlace'
  BY DEF IInv, ThreadsInPlace, LabelsOf
<1>5. OneOwner' /\ \A y \in Slots : Flagged(y)' <=> Flagged(y)
  <2>1. thread' = [thread EXCEPT ![t] = r]
    BY <1>2 DEF Moves
  <2> QED
    BY <1>1, <2>1, OwnersStay DEF IInv
<1>6. Counted'
  <2>1. Flag(x)' = Flag(x) /\ Flag(x) \in Int
    BY <1>5, NetAssumption DEF Flag
  <2>2. s.ioCount = session[x].ioCount /\ s.ioCount \in Int /\ Pending(s) = Pending(session[x])
    BY DEF Ends, Pending, SessionType
  <2>3. Pending(s) \in Int /\ One(r) \in Int /\ One(r) = One(thread[t])
    BY <1>1, PendingIsCounted DEF One
  <2>4. s.ioCount - session[x].ioCount =
             (Pending(s) - Pending(session[x])) + (One(r) - One(thread[t])) + (Flag(x)' - Flag(x))
    BY <2>1, <2>2, <2>3
  <2> QED
    BY <1>1, <1>2, <1>5, <2>4, CountedStep DEF IInv
<1>7. FlaggedIsQuiet'
  <2>1. \A y \in Slots : Flagged(y)' => Flagged(y)
    BY <1>5
  <2>2. Flagged(x)' => s.recv = "none" /\ s.send = "none" /\ s.request = 0 /\ s.sendQ = 0
    BY <1>5 DEF Ends, IInv, FlaggedIsQuiet
  <2> QED
    BY <1>1, <1>2, <2>1, <2>2, QuietStep DEF IInv
<1>8. OneAtRecv'
  <2>1. RecvPassed(t, x, r, s)
    BY <1>1 DEF RecvPassed, Ends
  <2> QED
    BY <1>2, <2>1, RecvStep DEF IInv
<1>9. OneAtSend' /\ PacketsAreHeldOnce' /\ LeftOver'
  <2>1. /\ s.send = session[x].send \/ (s.send # "none" /\ session[x].send # "none")
        /\ s.sendFlag = session[x].sendFlag /\ s.sendCount = session[x].sendCount
        /\ s.held = session[x].held /\ s.sendQ = session[x].sendQ
    BY DEF Ends
  <2> QED
    BY <1>1, <1>2, <2>1, SendStays DEF IInv
<1>10. RequestsAreBounded'
  <2>1. /\ Answering' = Answering /\ Queued' = Queued /\ AtMessage(r) = AtMessage(thread[t])
        /\ s.request = session[x].request
    BY <1>1 DEF Answering, Queued, AtMessage, Ends
  <2>2. /\ Answering \in Int /\ AtMessage(r) \in Int /\ Data(s) \in Int /\ Data(session[x]) \in Int
        /\ s.request \in Int /\ Queued \in Int /\ arrived \in Nat /\ arrived' \in Nat
    <3>1. arrived \in 0 .. MaxMessages /\ TypeOK /\ MaxMessages \in Nat
      BY NetAssumption DEF IInv, TypeOK
    <3>2. arrived \in Nat /\ arrived' \in Nat
      BY <3>1
    <3>3. Queued \in Int
      BY <3>1, QueueIsCounted
    <3>4. s.request \in Int
      BY DEF SessionType
    <3> QED
      BY <3>2, <3>3, <3>4 DEF Answering, AtMessage, Data
  <2>3. /\ AtMessage(r) - AtMessage(thread[t]) = 0 /\ Answering' - Answering = 0 /\ Queued' - Queued = 0
        /\ s.request - session[x].request = 0
    BY <2>1, <2>2
  <2>4. Data(s) - Data(session[x]) - (arrived' - arrived) \in Int /\ Data(s) - Data(session[x]) - (arrived' - arrived) <= 0
    BY <2>2
  <2>5. PICK d \in Int :
          /\ d = (Data(s) - Data(session[x])) + (AtMessage(r) - AtMessage(thread[t]))
                 + (Answering' - Answering) + (Queued' - Queued) - (arrived' - arrived)
          /\ d <= 0 /\ d + (s.request - session[x].request) <= 0
    BY <2>2, <2>3, <2>4
  <2>6. arrived' \in Nat /\ Queued \in Int /\ Queued' \in Int
    BY <2>1, <2>2
  <2> QED
    BY <1>2, <2>5, <2>6, LoadStep DEF IInv
<1>11. s.sessionID = session[x].sessionID /\ UNCHANGED <<lastID, slotOf, jobQ, users>>
  BY DEF Ends
<1>12. IDsInOrder' /\ IDsAreKnown'
  <2>1. Knows(t, r)
    BY <1>1 DEF IInv, IDsAreKnown
  <2> QED
    BY <1>1, <1>2, <1>5, <1>11, <2>1, IDsStay DEF IInv
<1>13. JobsAreKnown' /\ LiveHasUser' /\ JobsInOrder'
  BY <1>1, <1>2, <1>5, <1>11, JobsStay DEF IInv
<1>14. OnlyKnownHalts'
  BY DEF IInv, OnlyKnownHalts
<1> QED
  BY <1>3, <1>4, <1>5, <1>6, <1>7, <1>8, <1>9, <1>10, <1>12, <1>13, <1>14 DEF IInv

LEMMA ArriveStep ==
  ASSUME IInv, NEW x \in Slots, Arrive(x)
  PROVE  IInv'
<1>1. session[x] \in SessionType /\ session[x].recv = "pending"
  BY DEF Arrive, IInv, TypeOK
<1>2. PICK s \in SessionType : Ends(x, s) /\ s.recv = "data"
  <2> DEFINE s == [session[x] EXCEPT !.recv = "data"]
  <2>1. s \in SessionType /\ s.recv = "data"
    BY <1>1 DEF SessionType
  <2>2. /\ s.send = session[x].send
        /\ s.ioCount = session[x].ioCount /\ s.request = session[x].request
        /\ s.sendFlag = session[x].sendFlag /\ s.sendCount = session[x].sendCount
        /\ s.held = session[x].held /\ s.sendQ = session[x].sendQ /\ s.sessionID = session[x].sessionID
    BY <1>1 DEF SessionType
  <2>3. session' = [session EXCEPT ![x] = s]
    BY DEF Arrive
  <2> HIDE DEF s
  <2> QED
    BY <1>1, <2>1, <2>2, <2>3 DEF Ends
<1>3. arrived' = arrived + 1 /\ arrived < MaxMessages /\ arrived \in 0 .. MaxMessages /\ MaxMessages \in Nat
  BY NetAssumption DEF Arrive, IInv, TypeOK
<1>4. arrived' \in 0 .. MaxMessages /\ Data(s) - Data(session[x]) <= arrived' - arrived /\ arrived <= arrived'
  BY <1>1, <1>2, <1>3 DEF Data
<1>5. thread' = thread /\ UNCHANGED <<indexPool, lastID, slotOf, jobQ, users, loggedIn, meant, halted>>
  BY DEF Arrive
<1> QED
  BY <1>2, <1>4, <1>5, EndsStep

LEMMA KernelEnds ==
  ASSUME IInv, NEW x \in Slots, NEW s \in SessionType, Ends(x, s), UNCHANGED thread, Elsewhere,
         s.recv = "data" <=> session[x].recv = "data"
  PROVE  IInv'
<1>1. /\ thread' = thread /\ UNCHANGED <<indexPool, lastID, slotOf, jobQ, users, loggedIn, meant, halted>>
      /\ arrived' = arrived /\ arrived \in 0 .. MaxMessages /\ MaxMessages \in Nat
  BY NetAssumption DEF Elsewhere, IInv, TypeOK
<1>2. Data(s) - Data(session[x]) = 0
  BY DEF Data
<1>3. arrived' \in 0 .. MaxMessages /\ Data(s) - Data(session[x]) <= arrived' - arrived /\ arrived <= arrived'
  BY <1>1, <1>2
<1> QED
  BY <1>1, <1>3, EndsStep

LEMMA PeerGoneStep ==
  ASSUME IInv, NEW x \in Slots, PeerGone(x)
  PROVE  IInv'
<1>1. session[x] \in SessionType
  BY DEF IInv, TypeOK
<1> DEFINE s == [session[x] EXCEPT !.socket = "reset"]
<1>2. s \in SessionType
  BY <1>1 DEF SessionType
<1>3. /\ s.recv = session[x].recv /\ s.send = session[x].send
      /\ s.ioCount = session[x].ioCount /\ s.request = session[x].request
      /\ s.sendFlag = session[x].sendFlag /\ s.sendCount = session[x].sendCount
      /\ s.held = session[x].held /\ s.sendQ = session[x].sendQ /\ s.sessionID = session[x].sessionID
  BY <1>1 DEF SessionType
<1>4. session' = [session EXCEPT ![x] = s] /\ UNCHANGED thread /\ Elsewhere
  BY DEF PeerGone
<1> HIDE DEF s
<1>5. Ends(x, s) /\ (s.recv = "data" <=> session[x].recv = "data")
  BY <1>3, <1>4 DEF Ends
<1> QED
  BY <1>2, <1>4, <1>5, KernelEnds

LEMMA RecvEndsStep ==
  ASSUME IInv, NEW x \in Slots, RecvEnds(x)
  PROVE  IInv'
<1>1. session[x] \in SessionType /\ session[x].recv = "pending"
  BY DEF IInv, TypeOK, RecvEnds
<1> DEFINE s == [session[x] EXCEPT !.recv = "end"]
<1>2. s \in SessionType
  BY <1>1 DEF SessionType
<1>3. /\ s.recv = "end" /\ s.send = session[x].send
      /\ s.ioCount = session[x].ioCount /\ s.request = session[x].request
      /\ s.sendFlag = session[x].sendFlag /\ s.sendCount = session[x].sendCount
      /\ s.held = session[x].held /\ s.sendQ = session[x].sendQ /\ s.sessionID = session[x].sessionID
  BY <1>1 DEF SessionType
<1>4. session' = [session EXCEPT ![x] = s] /\ UNCHANGED thread /\ Elsewhere
  BY DEF RecvEnds
<1> HIDE DEF s
<1>5. Ends(x, s) /\ (s.recv = "data" <=> session[x].recv = "data")
  BY <1>1, <1>3, <1>4 DEF Ends
<1> QED
  BY <1>2, <1>4, <1>5, KernelEnds

LEMMA SendEndsStep ==
  ASSUME IInv, NEW x \in Slots, SendEnds(x)
  PROVE  IInv'
<1>1. session[x] \in SessionType /\ session[x].send = "pending"
  BY DEF IInv, TypeOK, SendEnds
<1> DEFINE s == [session[x] EXCEPT !.send = "done"]
<1>2. s \in SessionType
  BY <1>1 DEF SessionType
<1>3. /\ s.recv = session[x].recv /\ s.send = "done"
      /\ s.ioCount = session[x].ioCount /\ s.request = session[x].request
      /\ s.sendFlag = session[x].sendFlag /\ s.sendCount = session[x].sendCount
      /\ s.held = session[x].held /\ s.sendQ = session[x].sendQ /\ s.sessionID = session[x].sessionID
  BY <1>1 DEF SessionType
<1>4. session' = [session EXCEPT ![x] = s] /\ UNCHANGED thread /\ Elsewhere
  BY DEF SendEnds
<1> HIDE DEF s
<1>5. Ends(x, s) /\ (s.recv = "data" <=> session[x].recv = "data")
  BY <1>1, <1>3, <1>4 DEF Ends
<1> QED
  BY <1>2, <1>4, <1>5, KernelEnds

-----------------------------------------------------------------------------
(* Steps that give a slot away or take it back.                              *)

\* What is known of ids stays known, when sessions only come and go.
LEMMA KnownStays ==
  ASSUME IInv, NEW t \in Threads, NEW r \in ThreadType, thread' = [thread EXCEPT ![t] = r],
         \A i : Seen(i) => Seen(i)' /\ slotOf'[i] = slotOf[i], \A i : Over(i) => Over(i)',
         \A u \in Threads : thread[u].at = "message"
             => session'[thread[u].slot].sessionID = session[thread[u].slot].sessionID,
         \A y \in Slots : session[y].sessionID # 0 => session'[y].sessionID # 0,
         Knows(t, r)'
  PROVE  IDsAreKnown'
<1>1. \A u \in Threads : thread'[u] = IF u = t THEN r ELSE thread[u]
  BY DEF IInv, TypeOK
<1>2. ASSUME NEW u \in Threads, u # t PROVE Knows(u, thread[u])'
  <2>1. PICK k \in ThreadType : k = thread[u]
    BY DEF IInv, TypeOK, ThreadType
  <2>2. Knows(u, k) /\ thread'[u] = k /\ k.slot \in Slots
    BY <1>1, <1>2, <2>1 DEF IInv, IDsAreKnown, ThreadType
  <2>3. /\ Seen(k.id) => Seen(k.id)' /\ slotOf'[k.id] = slotOf[k.id]
        /\ Over(k.id) => Over(k.id)'
    OBVIOUS
  <2>4. Knows(u, k)'
    BY <2>1, <2>2, <2>3 DEF Knows
  <2> QED
    BY <2>2, <2>4
<1>3. Knows(t, thread[t])'
  BY <1>1
<1> QED
  BY <1>2, <1>3 DEF IDsAreKnown

LEMMA PushIndexStep ==
  ASSUME IInv, NEW t \in Threads, PushIndex(t)
  PROVE  IInv'
<1>1. PICK x \in Slots : x = thread[t].slot
  BY DEF IInv, TypeOK
<1>2. /\ thread[t].at = "push" /\ thread[t] \in ThreadType /\ indexPool' = indexPool \union {x}
      /\ UNCHANGED <<lastID, slotOf, jobQ, users, loggedIn, arrived, meant, halted>>
  BY <1>1 DEF PushIndex, At, Slot, IInv, TypeOK, ThreadType
<1>3. PICK s \in SessionType : s = session[x] /\ session' = [session EXCEPT ![x] = s]
  BY UnchangedSession DEF IInv, TypeOK, PushIndex
<1>4. PICK r \in ThreadType :
        thread' = [thread EXCEPT ![t] = r] /\ r.at = "leave" /\ r.slot = x /\ r.id = thread[t].id
  <2> DEFINE r0 == [thread[t] EXCEPT !.at = "leave"]
  <2>1. r0 \in ThreadType /\ r0.at = "leave" /\ r0.slot = x /\ r0.id = thread[t].id
    BY <1>1, <1>2 DEF ThreadType, Labels
  <2>2. thread' = [thread EXCEPT ![t] = r0]
    BY DEF PushIndex, Goto
  <2> QED
    BY <2>1, <2>2
<1>5. Moves(t, x, r, s)
  BY <1>3, <1>4 DEF Moves
<1>6. \A u \in Threads : thread'[u] = IF u = t THEN r ELSE thread[u]
  BY <1>4 DEF IInv, TypeOK
<1>7. TypeOK'
  BY <1>2, <1>3, <1>4 DEF IInv, TypeOK, ThreadType
<1>8. ThreadsInPlace'
  BY <1>2, <1>4, <1>6 DEF IInv, ThreadsInPlace, LabelsOf, AtRelease
<1>9. Pushing(t, x)
  BY <1>1, <1>2 DEF Pushing, In
<1>10. \A y \in Slots : Accepting(y)' <=> Accepting(y)
  BY <1>2, <1>4, <1>6, ThreadsAre DEF Accepting, In
<1>11. \A u \in Threads, y \in Slots : Pushing(u, y)' <=> Pushing(u, y) /\ u # t
  BY <1>4, <1>6 DEF Pushing, In
<1>12. \A u \in Threads, y \in Slots : u = t /\ Pushing(u, y) => y = x
  BY <1>1 DEF Pushing, In
<1>13. OneOwner'
  BY <1>2, <1>9, <1>10, <1>11 DEF IInv, OneOwner
<1>14. \A y \in Slots : Flagged(y)' <=> Flagged(y)
  BY <1>2, <1>9, <1>10, <1>11, <1>12 DEF Flagged
<1>15. Counted'
  <2>1. Flag(x)' = Flag(x) /\ Flag(x) \in Int
    BY <1>14, NetAssumption DEF Flag
  <2>2. s.ioCount \in Int /\ Pending(s) \in Int /\ One(r) = 0 /\ One(thread[t]) = 0
    BY <1>2, <1>4, PendingIsCounted DEF One, Holding, SessionType
  <2>3. s.ioCount - session[x].ioCount =
             (Pending(s) - Pending(session[x])) + (One(r) - One(thread[t])) + (Flag(x)' - Flag(x))
    BY <1>3, <2>1, <2>2
  <2>4. (thread[t].at \in Holding => thread[t].slot = x) /\ (r.at \in Holding => r.slot = x)
    BY <1>1, <1>4
  <2> QED
    BY <1>5, <1>14, <2>3, <2>4, CountedStep DEF IInv
<1>16. FlaggedIsQuiet'
  <2>1. \A y \in Slots : Flagged(y)' => Flagged(y)
    BY <1>14
  <2>2. Flagged(x)' => s.recv = "none" /\ s.send = "none" /\ s.request = 0 /\ s.sendQ = 0
    BY <1>3, <1>14 DEF IInv, FlaggedIsQuiet
  <2>3. r.at \notin Holding
    BY <1>4 DEF Holding
  <2> QED
    BY <1>5, <2>1, <2>2, <2>3, QuietStep DEF IInv
<1>17. OneAtRecv'
  <2>1. RecvPassed(t, x, r, s)
    BY <1>3, <1>4 DEF RecvPassed, AtRecv
  <2> QED
    BY <1>5, <2>1, RecvStep DEF IInv
<1>18. OneAtSend' /\ PacketsAreHeldOnce' /\ LeftOver'
  <2>1. thread[t].at \notin AtSend /\ r.at \notin AtSend
    BY <1>2, <1>4 DEF AtSend
  <2> QED
    BY <1>3, <1>5, <2>1, SendStays DEF IInv
<1>19. RequestsAreBounded'
  <2>1. /\ Answering' = Answering /\ Queued' = Queued /\ AtMessage(r) = 0 /\ AtMessage(thread[t]) = 0
    BY <1>2, <1>4, <1>6, ThreadsAre DEF Answering, Queued, AtMessage
  <2>2. /\ Answering \in Int /\ Data(s) \in Int /\ s.request \in Int
    BY DEF Answering, Data, SessionType
  <2>3. arrived' = arrived /\ arrived \in Nat
    BY <1>2 DEF IInv, TypeOK
  <2>4. Queued \in Int
    BY QueueIsCounted DEF IInv
  <2>5. 0 = (Data(s) - Data(session[x])) + (AtMessage(r) - AtMessage(thread[t]))
             + (Answering' - Answering) + (Queued' - Queued) - (arrived' - arrived)
    BY <1>3, <2>1, <2>2, <2>3, <2>4
  <2>6. 0 <= 0 /\ 0 + (s.request - session[x].request) <= 0 /\ 0 \in Int
    BY <1>3, <2>2
  <2>7. arrived' \in Nat /\ Queued \in Int /\ Queued' \in Int
    BY <2>1, <2>3, <2>4
  <2> QED
    BY <1>5, <2>5, <2>6, <2>7, LoadStep DEF IInv
<1>20. s.sessionID = session[x].sessionID /\ UNCHANGED <<lastID, slotOf, jobQ, users>>
  BY <1>2, <1>3
<1>21. IDsInOrder' /\ IDsAreKnown'
  <2>1. thread[t].at \notin {"setID", "unflag"} /\ r.at \notin AtAccept
    BY <1>2, <1>4 DEF AtAccept
  <2>2. Knows(t, r)
    <3>1. Knows(t, thread[t])
      BY DEF IInv, IDsAreKnown
    <3> QED
      BY <1>1, <1>2, <1>4, <3>1 DEF Knows
  <2> QED
    BY <1>5, <1>14, <1>20, <2>1, <2>2, IDsStay DEF IInv
<1>22. JobsAreKnown' /\ LiveHasUser' /\ JobsInOrder'
  <2>1. thread[t].at \notin AtAccept /\ r.at \notin AtAccept
    BY <1>2, <1>4 DEF AtAccept
  <2> QED
    BY <1>5, <1>14, <1>20, <2>1, JobsStay DEF IInv
<1>23. OnlyKnownHalts'
  BY <1>2 DEF IInv, OnlyKnownHalts
<1> QED
  BY <1>7, <1>8, <1>13, <1>15, <1>16, <1>17, <1>18, <1>19, <1>21, <1>22, <1>23 DEF IInv

\* A slot whose count is 0 is referred to by nobody and nothing, and in use.
LEMMA NoneRefers ==
  ASSUME IInv, NEW x \in Slots, session[x].ioCount = 0
  PROVE  /\ ~Flagged(x)
         /\ session[x].recv = "none" /\ session[x].send = "none" /\ session[x].request = 0
         /\ \A t \in Threads : ~In(t, x, Holding)
<1> DEFINE T == {t \in Threads : Slot(t) = x /\ thread[t].at \in Holding}
<1>1. IsFiniteSet(T) /\ Cardinality(T) \in Nat
  <2>1. T \subseteq Threads
    OBVIOUS
  <2> HIDE DEF T
  <2> QED
    BY <2>1, ThreadsAre, FS_Subset, FS_CardinalityType
<1>2. session[x].request \in Nat
  BY DEF IInv, TypeOK, SessionType
<1>3. Pending(session[x]) \in Nat /\ (Pending(session[x]) = 0 =>
         session[x].recv = "none" /\ session[x].send = "none" /\ session[x].request = 0)
  <2> DEFINE a == IF session[x].recv # "none" THEN 1 ELSE 0
             b == IF session[x].send # "none" THEN 1 ELSE 0
  <2>1. a \in Nat /\ b \in Nat /\ (a = 0 => session[x].recv = "none") /\ (b = 0 => session[x].send = "none")
    OBVIOUS
  <2>2. Pending(session[x]) = a + b + session[x].request
    BY DEF Pending
  <2> HIDE DEF a, b
  <2> QED
    BY <1>2, <2>1, <2>2
<1>4. Cardinality(T) + Pending(session[x]) + Flag(x) = 0
  BY DEF IInv, Counted, Threaded
<1>5. Flag(x) \in Nat /\ (Flagged(x) => Flag(x) > 0)
  <2>1. RELEASE \in Nat /\ RELEASE > 0
    BY NetAssumption, ThreadsAre
  <2> QED
    BY <2>1 DEF Flag
<1> HIDE DEF T
<1>6. Cardinality(T) = 0 /\ Pending(session[x]) = 0 /\ Flag(x) = 0
  BY <1>1, <1>3, <1>4, <1>5
<1>7. T = {}
  BY <1>1, <1>6, FS_EmptySet
<1>8. \A t \in Threads : ~In(t, x, Holding)
  BY <1>7 DEF T, In, Slot
<1> QED
  BY <1>3, <1>5, <1>6, <1>8

LEMMA ReleaseStepInv ==
  ASSUME IInv, NEW t \in Threads, Release(t)
  PROVE  IInv'
<1>1. PICK x \in Slots : x = thread[t].slot
  BY DEF IInv, TypeOK
<1>2. /\ thread[t].at = "cas" /\ thread[t] \in ThreadType /\ Elsewhere
      /\ session[x] \in SessionType
  BY DEF Release, At, IInv, TypeOK, ThreadType
<1>3. CASE ~Releasable(t)
  <2>1. SessionsSame /\ Goto(t, "idle")
    BY <1>3 DEF Release, SessionsSame
  <2>2. PICK r \in ThreadType : thread' = [thread EXCEPT ![t] = r] /\ r.at = "idle"
    <3> DEFINE r0 == [thread[t] EXCEPT !.at = "idle"]
    <3>1. r0 \in ThreadType /\ r0.at = "idle"
      BY <1>2 DEF ThreadType, Labels
    <3>2. thread' = [thread EXCEPT ![t] = r0]
      BY <2>1 DEF Goto
    <3> QED
      BY <3>1, <3>2
  <2>3. /\ r.at \in LabelsOf(t)
        /\ thread[t].at \notin Owning \union AtAccept \union Holding
        /\ r.at \notin Owning \union AtAccept \union Holding \union {"enter"}
    BY <1>2, <2>2 DEF LabelsOf, Owning, AtAccept, Holding
  <2>4. Knows(t, r)
    BY <2>2 DEF Knows, AtUpdate
  <2> QED
    BY <1>2, <2>1, <2>2, <2>3, <2>4, OutsideStep
<1>4. CASE Releasable(t)
  <2>1. session[x].ioCount = 0 /\ Goto(t, "push") /\ session' = [session EXCEPT ![x] = Drained(session[x])]
    BY <1>1, <1>4 DEF Release, Releasable, Mine, Slot
  <2>2. /\ ~Flagged(x)
        /\ session[x].recv = "none" /\ session[x].send = "none" /\ session[x].request = 0
        /\ \A u \in Threads : ~In(u, x, Holding)
    BY <2>1, NoneRefers
  <2>3. session[x].sendQ \in Nat /\ session[x].held = session[x].sendQ /\ RELEASE \in Int
    BY <1>2, <2>2, NetAssumption DEF SessionType, IInv, PacketsAreHeldOnce
  <2>4. PICK s \in SessionType :
          /\ session' = [session EXCEPT ![x] = s]
          /\ s.recv = "none" /\ s.send = "none" /\ s.request = 0 /\ s.sendQ = 0 /\ s.held = 0
          /\ s.ioCount = RELEASE /\ s.sessionID = session[x].sessionID
    <3> DEFINE s == Drained(session[x])
    <3>1. session[x].held - session[x].sendQ = 0
      BY <2>3
    <3>2. s = [session[x] EXCEPT !.ioCount = RELEASE, !.socket = "closed", !.sendQ = 0, !.held = 0]
      BY <1>2, <3>1 DEF Drained, SessionType
    <3> HIDE DEF s
    <3>3. s \in SessionType
      BY <1>2, <2>3, <3>2 DEF SessionType
    <3>4. /\ s.recv = "none" /\ s.send = "none" /\ s.request = 0 /\ s.sendQ = 0 /\ s.held = 0
          /\ s.ioCount = RELEASE /\ s.sessionID = session[x].sessionID
      BY <1>2, <2>2, <3>2 DEF SessionType
    <3> QED
      BY <2>1, <3>3, <3>4 DEF s
  <2>5. PICK r \in ThreadType :
          thread' = [thread EXCEPT ![t] = r] /\ r.at = "push" /\ r.slot = x /\ r.id = thread[t].id
    <3> DEFINE r0 == [thread[t] EXCEPT !.at = "push"]
    <3>1. r0 \in ThreadType /\ r0.at = "push" /\ r0.slot = x /\ r0.id = thread[t].id
      BY <1>1, <1>2 DEF ThreadType, Labels
    <3>2. thread' = [thread EXCEPT ![t] = r0]
      BY <2>1 DEF Goto
    <3> QED
      BY <3>1, <3>2
  <2>6. Moves(t, x, r, s)
    BY <2>4, <2>5 DEF Moves
  <2>7. \A u \in Threads : thread'[u] = IF u = t THEN r ELSE thread[u]
    BY <2>5 DEF IInv, TypeOK
  <2>8. \A y \in Slots : session'[y] = IF y = x THEN s ELSE session[y]
    BY <2>4 DEF IInv, TypeOK
  <2>9. UNCHANGED <<indexPool, lastID, slotOf, jobQ, users, loggedIn, arrived, meant, halted>>
    BY <1>2 DEF Elsewhere
  <2>10. TypeOK'
    BY <2>4, <2>5, <2>9 DEF IInv, TypeOK, ThreadType
  <2>11. ThreadsInPlace'
    BY <1>2, <2>5, <2>7 DEF IInv, ThreadsInPlace, LabelsOf, AtRelease
  <2>12. \A y \in Slots : Accepting(y)' <=> Accepting(y)
    BY <1>2, <2>5, <2>7, ThreadsAre DEF Accepting, In
  <2>13. \A u \in Threads, y \in Slots : Pushing(u, y)' <=> Pushing(u, y) \/ (u = t /\ y = x)
    BY <1>2, <2>5, <2>7 DEF Pushing, In
  <2>14. OneOwner'
    BY <2>2, <2>9, <2>12, <2>13 DEF IInv, OneOwner, Flagged
  <2>15. \A y \in Slots : Flagged(y)' <=> Flagged(y) \/ y = x
    BY <2>9, <2>12, <2>13 DEF Flagged
  <2>16. Counted'
    <3>1. Flag(x)' = RELEASE /\ Flag(x) = 0
      BY <2>2, <2>15 DEF Flag
    <3>2. Pending(s) = 0 /\ Pending(session[x]) = 0
      BY <2>2, <2>4 DEF Pending
    <3>3. One(r) = 0 /\ One(thread[t]) = 0
      BY <1>2, <2>5 DEF One, Holding
    <3>4. s.ioCount - session[x].ioCount =
             (Pending(s) - Pending(session[x])) + (One(r) - One(thread[t])) + (Flag(x)' - Flag(x))
      BY <2>1, <2>3, <2>4, <3>1, <3>2, <3>3
    <3>5. (thread[t].at \in Holding => thread[t].slot = x) /\ (r.at \in Holding => r.slot = x)
      BY <1>1, <2>5
    <3>6. \A y \in Slots \ {x} : Flagged(y)' <=> Flagged(y)
      BY <2>15
    <3> QED
      BY <2>6, <3>4, <3>5, <3>6, CountedStep DEF IInv
  <2>17. FlaggedIsQuiet'
    <3>1. \A u \in Threads, y \in Slots : In(u, y, Holding)' <=> In(u, y, Holding)
      BY <1>2, <2>5, <2>7 DEF In, Holding
    <3>2. \A u \in Threads : u # t => thread'[u] = thread[u]
      BY <2>7
    <3>3. thread[t].at \notin Holding
      BY <1>2 DEF Holding
    <3> QED
      BY <2>2, <2>4, <2>8, <2>15, <3>1, <3>2, <3>3 DEF IInv, FlaggedIsQuiet, In
  <2>18. OneAtRecv'
    <3>1. RecvPassed(t, x, r, s)
      BY <2>4, <2>5 DEF RecvPassed, AtRecv
    <3> QED
      BY <2>6, <3>1, RecvStep DEF IInv
  <2>19. \A u \in Threads, y \in Slots :
            /\ In(u, y, {"gather", "unlock"})' <=> In(u, y, {"gather", "unlock"})
            /\ In(u, y, {"sendLock", "gather"})' <=> In(u, y, {"sendLock", "gather"})
    BY <1>2, <2>5, <2>7 DEF In
  <2>20. \A u \in Threads : ~In(u, x, {"gather", "unlock"}) /\ ~In(u, x, {"sendLock", "gather"})
    BY <2>2 DEF In, Holding, Labels
  <2>21. OneAtSend'
    BY <2>4, <2>8, <2>19, <2>20 DEF IInv, OneAtSend
  <2>22. PacketsAreHeldOnce'
    BY <2>4, <2>8 DEF IInv, PacketsAreHeldOnce
  <2>23. LeftOver'
    BY <2>4, <2>8, <2>19, <2>20 DEF IInv, LeftOver
  <2>24. RequestsAreBounded'
    <3>1. /\ Queued' = Queued /\ AtMessage(r) = 0 /\ AtMessage(thread[t]) = 0
          /\ Data(s) = 0 /\ Data(session[x]) = 0
      BY <1>2, <2>2, <2>4, <2>5, <2>9 DEF Queued, AtMessage, Data
    <3>2. Answering \in Int /\ Answering' \in Int /\ Answering' = Answering
      BY <1>2, <2>5, <2>7, ThreadsAre DEF Answering
    <3>3. arrived' = arrived /\ arrived \in Nat
      BY <2>9 DEF IInv, TypeOK
    <3>4. Queued \in Int
      BY QueueIsCounted DEF IInv
    <3>5. 0 = (Data(s) - Data(session[x])) + (AtMessage(r) - AtMessage(thread[t]))
             + (Answering' - Answering) + (Queued' - Queued) - (arrived' - arrived)
      BY <3>1, <3>2, <3>3, <3>4
    <3>6. 0 <= 0 /\ 0 + (s.request - session[x].request) <= 0 /\ 0 \in Int
      BY <2>2, <2>4
    <3>7. arrived' \in Nat /\ Queued \in Int /\ Queued' \in Int
      BY <3>1, <3>3, <3>4
    <3> QED
      BY <2>6, <3>5, <3>6, <3>7, LoadStep DEF IInv
  <2>25. \A y \in Slots : session'[y].sessionID = session[y].sessionID
    BY <2>4, <2>8
  <2>26. \A i \in 1 .. lastID : i \in IDs /\ slotOf[i] \in Slots
    BY NetAssumption DEF IInv, TypeOK, IDs
  <2>27. \A i : Seen(i)' <=> Seen(i)
    BY <2>9, <2>25, <2>26 DEF Seen
  <2>28. \A y \in Slots : In(Accept, y, {"unflag"})' <=> In(Accept, y, {"unflag"})
    BY <1>2, <2>5, <2>7, ThreadsAre DEF In
  <2>29. ~In(Accept, x, {"unflag"})
    BY <2>2 DEF Flagged, Accepting, In
  <2>30. \A i \in 1 .. lastID : Live(i)' <=> Live(i) /\ slotOf[i] # x
    BY <2>9, <2>15, <2>25, <2>26, <2>28, <2>29 DEF Live
  <2>31. \A i : Over(i) => Over(i)'
    BY <2>27, <2>30 DEF Over, Seen
  <2>32. IDsInOrder'
    <3>1. thread'[Accept].at \in AtAccept => thread'[Accept] = thread[Accept] /\ thread[Accept].slot \in Slots
      BY <2>5, <2>7, ThreadsAre DEF AtAccept, IInv, TypeOK
    <3> QED
      BY <2>9, <2>15, <2>25, <3>1 DEF IInv, IDsInOrder, AtAccept, Slot
  <2>33. IDsAreKnown'
    <3>1. Seen(r.id) /\ slotOf[r.id] = x
      BY <1>1, <1>2, <2>5 DEF IInv, IDsAreKnown, Knows
    <3>2. Knows(t, r)'
      <4>1. Seen(r.id)' /\ slotOf'[r.id] = r.slot
        BY <2>5, <2>9, <2>27, <3>1
      <4>2. r.id \in 1 .. lastID
        BY <3>1 DEF Seen
      <4>3. Over(r.id)'
        BY <2>30, <3>1, <4>1, <4>2 DEF Over
      <4> QED
        BY <2>5, <4>1, <4>3 DEF Knows
    <3>3. \A u \in Threads : thread[u].at = "message"
             => session'[thread[u].slot].sessionID = session[thread[u].slot].sessionID
      BY <2>25 DEF IInv, TypeOK
    <3>4. \A i : Seen(i) => Seen(i)' /\ slotOf'[i] = slotOf[i]
      BY <2>9, <2>27
    <3>5. \A y \in Slots : session[y].sessionID # 0 => session'[y].sessionID # 0
      BY <2>25
    <3> QED
      BY <2>5, <2>31, <3>2, <3>3, <3>4, <3>5, KnownStays
  <2>34. JobsAreKnown'
    BY <2>9, <2>27, <2>31 DEF IInv, JobsAreKnown
  <2>35. LiveHasUser'
    <3>1. \A y \in Slots : In(Accept, y, {"unflag", "join"})' <=> In(Accept, y, {"unflag", "join"})
      BY <1>2, <2>5, <2>7, ThreadsAre DEF In
    <3> QED
      BY <2>9, <2>26, <2>30, <3>1 DEF IInv, LiveHasUser
  <2>36. JobsInOrder' /\ OnlyKnownHalts'
    BY <2>9 DEF IInv, JobsInOrder, OnlyKnownHalts
  <2> QED
    BY <2>10, <2>11, <2>14, <2>16, <2>17, <2>18, <2>21, <2>22, <2>23, <2>24, <2>32, <2>33, <2>34, <2>35, <2>36
    DEF IInv
<1> QED
  BY <1>3, <1>4

LEMMA AcceptClientStep ==
  ASSUME IInv, NEW x \in Slots, AcceptClient(x)
  PROVE  IInv'
<1> DEFINE t == Accept
<1>0. t \in Threads
  BY ThreadsAre
<1>1. /\ thread[t].at = "idle" /\ x \in indexPool /\ session[x] \in SessionType /\ lastID < MaxSessions
      /\ lastID \in 0 .. MaxSessions /\ MaxSessions \in Nat
  BY NetAssumption DEF AcceptClient, At, IInv, TypeOK
<1>2. Flagged(x)
  BY <1>1 DEF Flagged
<1>3. PICK n \in IDs : n = lastID + 1 /\ n \in Nat /\ lastID \in Nat /\ n > lastID
  BY <1>1 DEF IDs
<1>4. /\ session[x].recv = "none" /\ session[x].send = "none" /\ session[x].request = 0 /\ session[x].sendQ = 0
      /\ \A u \in Threads : In(u, x, Holding) => u = Update /\ thread[u].at = "undo"
  BY <1>2 DEF IInv, FlaggedIsQuiet
<1>5. /\ indexPool' = indexPool \ {x} /\ lastID' = n /\ slotOf' = [slotOf EXCEPT ![n] = x]
      /\ session' = [session EXCEPT ![x].socket = "open", ![x].sendFlag = FALSE, ![x].disconnectFlag = FALSE]
      /\ thread' = [thread EXCEPT ![t] = [at |-> "setID", slot |-> x, id |-> n]]
      /\ UNCHANGED <<jobQ, users, loggedIn, arrived, meant, halted>>
  BY <1>4, <1>3 DEF AcceptClient
<1>6. PICK s \in SessionType :
        /\ session' = [session EXCEPT ![x] = s]
        /\ s.recv = "none" /\ s.send = "none" /\ s.request = 0 /\ s.sendQ = 0 /\ s.held = session[x].held
        /\ s.sendCount = session[x].sendCount /\ s.ioCount = session[x].ioCount /\ s.sessionID = session[x].sessionID
  <2> DEFINE s0 == [session[x] EXCEPT !.socket = "open", !.sendFlag = FALSE, !.disconnectFlag = FALSE]
  <2>1. s0 \in SessionType
    BY <1>1 DEF SessionType
  <2>2. /\ s0.recv = "none" /\ s0.send = "none" /\ s0.request = 0 /\ s0.sendQ = 0 /\ s0.held = session[x].held
        /\ s0.sendCount = session[x].sendCount /\ s0.ioCount = session[x].ioCount
        /\ s0.sessionID = session[x].sessionID
    BY <1>1, <1>4 DEF SessionType
  <2>3. session' = [session EXCEPT ![x] = s0]
    BY <1>5 DEF IInv, TypeOK
  <2> HIDE DEF s0
  <2> QED
    BY <2>1, <2>2, <2>3
<1>7. PICK r \in ThreadType :
        thread' = [thread EXCEPT ![t] = r] /\ r.at = "setID" /\ r.slot = x /\ r.id = n
  <2> DEFINE r0 == [at |-> "setID", slot |-> x, id |-> n]
  <2>1. r0 \in ThreadType /\ r0.at = "setID" /\ r0.slot = x /\ r0.id = n
    BY <1>3 DEF ThreadType, Labels
  <2>2. thread' = [thread EXCEPT ![t] = r0]
    BY <1>5
  <2> QED
    BY <2>1, <2>2
<1>8. Moves(t, x, r, s)
  BY <1>6, <1>7 DEF Moves
<1>9. \A u \in Threads : thread'[u] = IF u = t THEN r ELSE thread[u]
  BY <1>7 DEF IInv, TypeOK
<1>10. \A y \in Slots : session'[y] = IF y = x THEN s ELSE session[y]
  BY <1>6 DEF IInv, TypeOK
<1>11. \A i \in IDs : slotOf'[i] = IF i = n THEN x ELSE slotOf[i]
  BY <1>5 DEF IInv, TypeOK
<1>12. TypeOK'
  <2>1. lastID' \in 0 .. MaxSessions
    BY <1>1, <1>5, <1>3 DEF IDs
  <2>2. session' \in [Slots -> SessionType]
    BY <1>6 DEF IInv, TypeOK
  <2>3. thread' \in [Threads -> [at : Labels, slot : Slots, id : IDs \union {0}]]
    BY <1>7 DEF IInv, TypeOK, ThreadType
  <2>4. slotOf' \in [IDs -> Slots]
    BY <1>5 DEF IInv, TypeOK
  <2>5. indexPool' \subseteq Slots
    BY <1>5 DEF IInv, TypeOK
  <2> QED
    BY <1>5, <2>1, <2>2, <2>3, <2>4, <2>5 DEF IInv, TypeOK
<1>13. ThreadsInPlace'
  BY <1>7, <1>9 DEF IInv, ThreadsInPlace, LabelsOf, AtAccept
<1>14. \A y \in Slots : ~Accepting(y) /\ (Accepting(y)' <=> y = x)
  BY <1>0, <1>1, <1>7, <1>9 DEF Accepting, In
<1>15. \A u \in Threads, y \in Slots : Pushing(u, y)' <=> Pushing(u, y)
  BY <1>1, <1>7, <1>9 DEF Pushing, In
<1>16. OneOwner'
  BY <1>1, <1>5, <1>14, <1>15 DEF IInv, OneOwner
<1>17. \A y \in Slots : Flagged(y)' <=> Flagged(y)
  BY <1>1, <1>5, <1>14, <1>15 DEF Flagged
<1>18. Counted'
  <2>1. Flag(x)' = Flag(x) /\ Flag(x) \in Int
    BY <1>17, NetAssumption DEF Flag
  <2>2. One(r) = 0 /\ One(thread[t]) = 0 /\ Pending(s) = 0 /\ Pending(session[x]) = 0
    BY <1>1, <1>4, <1>6, <1>7 DEF One, Holding, Pending
  <2>3. s.ioCount = session[x].ioCount /\ s.ioCount \in Int
    BY <1>6 DEF SessionType
  <2>4. s.ioCount - session[x].ioCount =
             (Pending(s) - Pending(session[x])) + (One(r) - One(thread[t])) + (Flag(x)' - Flag(x))
    BY <2>1, <2>2, <2>3
  <2>5. (thread[t].at \in Holding => thread[t].slot = x) /\ (r.at \in Holding => r.slot = x)
    BY <1>1, <1>7 DEF Holding
  <2> QED
    BY <1>0, <1>8, <1>17, <2>4, <2>5, CountedStep DEF IInv
<1>19. FlaggedIsQuiet'
  <2>1. \A y \in Slots : Flagged(y)' => Flagged(y)
    BY <1>17
  <2>2. r.at \notin Holding
    BY <1>7 DEF Holding
  <2> QED
    BY <1>0, <1>6, <1>8, <2>1, <2>2, QuietStep DEF IInv
<1>20. OneAtRecv'
  <2>1. RecvPassed(t, x, r, s)
    BY <1>6, <1>7 DEF RecvPassed, AtRecv
  <2> QED
    BY <1>0, <1>8, <2>1, RecvStep DEF IInv
<1>21. \A u \in Threads, y \in Slots :
          /\ In(u, y, {"gather", "unlock"})' <=> In(u, y, {"gather", "unlock"})
          /\ In(u, y, {"sendLock", "gather"})' <=> In(u, y, {"sendLock", "gather"})
  BY <1>0, <1>1, <1>7, <1>9 DEF In
<1>22. \A u \in Threads : ~In(u, x, {"gather", "unlock"}) /\ ~In(u, x, {"sendLock", "gather"})
  BY <1>4 DEF In, Holding, Labels
<1>23. OneAtSend' /\ LeftOver'
  BY <1>6, <1>10, <1>21, <1>22 DEF IInv, OneAtSend, LeftOver
<1>24. PacketsAreHeldOnce'
  BY <1>4, <1>6, <1>10 DEF IInv, PacketsAreHeldOnce
<1>25. RequestsAreBounded'
  <2>1. /\ Queued' = Queued /\ AtMessage(r) = 0 /\ AtMessage(thread[t]) = 0
        /\ Data(s) = 0 /\ Data(session[x]) = 0
    BY <1>1, <1>4, <1>5, <1>6, <1>7 DEF Queued, AtMessage, Data
  <2>2. Answering \in Int /\ Answering' \in Int /\ Answering' = Answering
    BY <1>9, ThreadsAre, NetAssumption DEF Answering
  <2>3. arrived' = arrived /\ arrived \in Nat
    BY <1>5 DEF IInv, TypeOK
  <2>4. Queued \in Int
    BY QueueIsCounted DEF IInv
  <2>5. 0 = (Data(s) - Data(session[x])) + (AtMessage(r) - AtMessage(thread[t]))
             + (Answering' - Answering) + (Queued' - Queued) - (arrived' - arrived)
    BY <2>1, <2>2, <2>3, <2>4
  <2>6. 0 <= 0 /\ 0 + (s.request - session[x].request) <= 0 /\ 0 \in Int
    BY <1>4, <1>6
  <2>7. arrived' \in Nat /\ Queued \in Int /\ Queued' \in Int
    BY <2>1, <2>3, <2>4
  <2> QED
    BY <1>0, <1>8, <2>5, <2>6, <2>7, LoadStep DEF IInv
<1>26. \A y \in Slots : /\ session'[y].sessionID = session[y].sessionID
                        /\ session[y].sessionID \in IDs \union {0} /\ session[y].sessionID <= lastID
  BY <1>6, <1>10 DEF IInv, TypeOK, SessionType, IDsInOrder
<1>27. \A i \in 1 .. lastID : i \in IDs /\ i # n /\ slotOf'[i] = slotOf[i] /\ slotOf[i] \in Slots /\ i \in 1 .. lastID'
  BY <1>1, <1>5, <1>3, <1>11 DEF IInv, TypeOK, IDs
<1>28. \A i : Seen(i) => Seen(i)' /\ slotOf'[i] = slotOf[i]
  BY <1>26, <1>27 DEF Seen
<1>29. \A y \in Slots : ~In(Accept, y, {"unflag"}) /\ ~In(Accept, y, {"unflag"})'
  BY <1>0, <1>1, <1>7, <1>9 DEF In
<1>30. \A i \in 1 .. lastID : Live(i)' <=> Live(i)
  BY <1>17, <1>26, <1>27, <1>29 DEF Live
<1>31. \A i : Over(i) => Over(i)'
  BY <1>28, <1>30 DEF Over, Seen
<1>32. ~Live(n)'
  BY <1>3, <1>11, <1>26 DEF Live, IDs
<1>33. IDsInOrder'
  <2>1. \A y \in Slots : /\ session'[y].sessionID <= lastID'
                         /\ session'[y].sessionID # 0 => slotOf'[session'[y].sessionID] = y
    <3>1. ASSUME NEW y \in Slots PROVE session'[y].sessionID <= lastID'
      <4>1. session[y].sessionID \in Int /\ session[y].sessionID <= lastID
        BY <1>1, <1>26 DEF IDs
      <4>2. lastID' = lastID + 1 /\ lastID \in Int
        BY <1>5, <1>3
      <4>3. session'[y].sessionID = session[y].sessionID
        BY <1>26
      <4> QED
        BY <4>1, <4>2, <4>3
    <3>2. ASSUME NEW y \in Slots, session'[y].sessionID # 0 PROVE slotOf'[session'[y].sessionID] = y
      <4>1. session[y].sessionID \in 1 .. lastID /\ slotOf[session[y].sessionID] = y
        BY <1>3, <1>26, <3>2 DEF IInv, IDsInOrder, IDs
      <4> QED
        BY <1>26, <1>27, <4>1
    <3> QED
      BY <3>1, <3>2
  <2>2. thread'[Accept] = r
    BY <1>0, <1>9
  <2>3. slotOf'[n] = x /\ session'[x].sessionID < n
    BY <1>3, <1>11, <1>26 DEF IDs
  <2>4. \A y \in Slots : ~Flagged(y)' => session'[y].sessionID # 0
    BY <1>17, <1>26 DEF IInv, IDsInOrder
  <2>5. /\ thread'[Accept].at = "setID" /\ thread'[Accept].id = lastID' /\ lastID' # 0
        /\ thread'[Accept].slot = x
    BY <1>5, <1>3, <1>7, <2>2
  <2>6. slotOf'[lastID'] = x /\ session'[x].sessionID < lastID'
    BY <1>5, <1>3, <2>3
  <2> QED
    BY <2>1, <2>4, <2>5, <2>6 DEF IDsInOrder, Slot
<1>34. IDsAreKnown'
  <2>1. Knows(t, r)'
    BY <1>7 DEF Knows, AtUpdate
  <2>2. \A u \in Threads : thread[u].at = "message"
             => session'[thread[u].slot].sessionID = session[thread[u].slot].sessionID
    BY <1>26 DEF IInv, TypeOK
  <2>3. \A y \in Slots : session[y].sessionID # 0 => session'[y].sessionID # 0
    BY <1>26
  <2> QED
    BY <1>0, <1>7, <1>28, <1>31, <2>1, <2>2, <2>3, KnownStays
<1>35. JobsAreKnown'
  BY <1>5, <1>28, <1>31 DEF IInv, JobsAreKnown
<1>36. LiveHasUser'
  <2> SUFFICES ASSUME NEW i \in 1 .. lastID', Live(i)'
               PROVE  i \in users' \/ \E k \in DOMAIN jobQ' : jobQ'[k] = Job("join", i)
    BY DEF LiveHasUser
  <2>1. i \in 1 .. lastID \/ i = n
    BY <1>5, <1>3
  <2>2. i \in 1 .. lastID /\ Live(i)
    <3>1. i # n
      BY <1>32
    <3> QED
      BY <1>30, <2>1, <3>1
  <2>3. ~In(Accept, slotOf[i], {"unflag", "join"})
    BY <1>1 DEF In
  <2> QED
    BY <1>5, <2>2, <2>3 DEF IInv, LiveHasUser
<1>37. JobsInOrder' /\ OnlyKnownHalts'
  BY <1>5 DEF IInv, JobsInOrder, OnlyKnownHalts
<1> QED
  BY <1>12, <1>13, <1>16, <1>18, <1>19, <1>20, <1>23, <1>24, <1>25, <1>33, <1>34, <1>35, <1>36, <1>37 DEF IInv

LEMMA SetSessionIDStep ==
  ASSUME IInv, SetSessionID
  PROVE  IInv'
<1>0. Accept \in Threads
  BY ThreadsAre
<1>1. PICK t \in Threads : t = Accept
  BY <1>0
<1>2. PICK x \in Slots : x = thread[t].slot
  BY DEF IInv, TypeOK
<1>3. /\ thread[t].at = "setID" /\ thread[t].id = lastID /\ lastID # 0 /\ thread[t] \in ThreadType
      /\ slotOf[lastID] = x /\ session[x].sessionID < lastID /\ session[x] \in SessionType
  BY <1>1, <1>2 DEF SetSessionID, At, IInv, IDsInOrder, Slot, TypeOK, ThreadType
<1>4. /\ session' = [session EXCEPT ![x].sessionID = lastID] /\ Goto(t, "unflag")
      /\ UNCHANGED <<indexPool, lastID, slotOf, jobQ, users, loggedIn, arrived, meant, halted>>
  BY <1>1, <1>2, <1>3 DEF SetSessionID, Slot, Elsewhere
<1>5. lastID \in 1 .. MaxSessions /\ lastID \in IDs /\ MaxSessions \in Nat
  BY <1>3, NetAssumption DEF IInv, TypeOK, IDs
<1>6. Accepting(x) /\ Flagged(x)
  BY <1>1, <1>2, <1>3 DEF Flagged, Accepting, In
<1>7. /\ session[x].recv = "none" /\ session[x].send = "none" /\ session[x].request = 0 /\ session[x].sendQ = 0
      /\ \A u \in Threads : In(u, x, Holding) => u = Update /\ thread[u].at = "undo"
  BY <1>6 DEF IInv, FlaggedIsQuiet
<1>8. PICK s \in SessionType :
        /\ session' = [session EXCEPT ![x] = s]
        /\ s.recv = "none" /\ s.send = session[x].send /\ s.request = 0
        /\ s.sendFlag = session[x].sendFlag /\ s.sendCount = session[x].sendCount
        /\ s.held = session[x].held /\ s.sendQ = session[x].sendQ
        /\ s.ioCount = session[x].ioCount /\ s.sessionID = lastID
  <2> DEFINE s0 == [session[x] EXCEPT !.sessionID = lastID]
  <2>1. s0 \in SessionType
    BY <1>3, <1>5 DEF SessionType
  <2>2. /\ s0.recv = "none" /\ s0.send = session[x].send /\ s0.request = 0
        /\ s0.sendFlag = session[x].sendFlag /\ s0.sendCount = session[x].sendCount
        /\ s0.held = session[x].held /\ s0.sendQ = session[x].sendQ
        /\ s0.ioCount = session[x].ioCount /\ s0.sessionID = lastID
    BY <1>3, <1>7 DEF SessionType
  <2>3. session' = [session EXCEPT ![x] = s0]
    BY <1>4
  <2> HIDE DEF s0
  <2> QED
    BY <2>1, <2>2, <2>3
<1>9. PICK r \in ThreadType :
        thread' = [thread EXCEPT ![t] = r] /\ r.at = "unflag" /\ r.slot = x /\ r.id = lastID
  <2> DEFINE r0 == [thread[t] EXCEPT !.at = "unflag"]
  <2>1. r0 \in ThreadType /\ r0.at = "unflag" /\ r0.slot = x /\ r0.id = lastID
    BY <1>2, <1>3 DEF ThreadType, Labels
  <2>2. thread' = [thread EXCEPT ![t] = r0]
    BY <1>4 DEF Goto
  <2> QED
    BY <2>1, <2>2
<1>10. Moves(t, x, r, s)
  BY <1>8, <1>9 DEF Moves
<1>11. \A u \in Threads : thread'[u] = IF u = t THEN r ELSE thread[u]
  BY <1>9 DEF IInv, TypeOK
<1>12. \A y \in Slots : session'[y] = IF y = x THEN s ELSE session[y]
  BY <1>8 DEF IInv, TypeOK
<1>13. TypeOK'
  BY <1>4, <1>8, <1>9 DEF IInv, TypeOK, ThreadType
<1>14. ThreadsInPlace'
  BY <1>1, <1>9, <1>11 DEF IInv, ThreadsInPlace, LabelsOf, AtAccept
<1>15. \A y \in Slots : Accepting(y)' <=> Accepting(y)
  BY <1>0, <1>1, <1>2, <1>3, <1>9, <1>11 DEF Accepting, In
<1>16. \A u \in Threads, y \in Slots : Pushing(u, y)' <=> Pushing(u, y)
  BY <1>3, <1>9, <1>11 DEF Pushing, In
<1>17. OneOwner'
  BY <1>4, <1>15, <1>16 DEF IInv, OneOwner
<1>18. \A y \in Slots : Flagged(y)' <=> Flagged(y)
  BY <1>4, <1>15, <1>16 DEF Flagged
<1>19. Counted'
  <2>1. Flag(x)' = Flag(x) /\ Flag(x) \in Int
    BY <1>18, NetAssumption DEF Flag
  <2>2. One(r) = 0 /\ One(thread[t]) = 0 /\ Pending(s) = 0 /\ Pending(session[x]) = 0
    BY <1>3, <1>7, <1>8, <1>9 DEF One, Holding, Pending
  <2>3. s.ioCount = session[x].ioCount /\ s.ioCount \in Int
    BY <1>8 DEF SessionType
  <2>4. s.ioCount - session[x].ioCount =
             (Pending(s) - Pending(session[x])) + (One(r) - One(thread[t])) + (Flag(x)' - Flag(x))
    BY <2>1, <2>2, <2>3
  <2>5. (thread[t].at \in Holding => thread[t].slot = x) /\ (r.at \in Holding => r.slot = x)
    BY <1>2, <1>9
  <2> QED
    BY <1>10, <1>18, <2>4, <2>5, CountedStep DEF IInv
<1>20. FlaggedIsQuiet'
  <2>1. \A y \in Slots : Flagged(y)' => Flagged(y)
    BY <1>18
  <2>2. r.at \notin Holding
    BY <1>9 DEF Holding
  <2>3. Flagged(x)' => s.recv = "none" /\ s.send = "none" /\ s.request = 0 /\ s.sendQ = 0
    BY <1>7, <1>8
  <2> QED
    BY <1>10, <2>1, <2>2, <2>3, QuietStep DEF IInv
<1>21. OneAtRecv'
  <2>1. RecvPassed(t, x, r, s)
    BY <1>8, <1>9 DEF RecvPassed, AtRecv
  <2> QED
    BY <1>10, <2>1, RecvStep DEF IInv
<1>22. OneAtSend' /\ PacketsAreHeldOnce' /\ LeftOver'
  <2>1. thread[t].at \notin AtSend /\ r.at \notin AtSend
    BY <1>3, <1>9 DEF AtSend
  <2> QED
    BY <1>8, <1>10, <2>1, SendStays DEF IInv
<1>23. RequestsAreBounded'
  <2>1. /\ Queued' = Queued /\ AtMessage(r) = 0 /\ AtMessage(thread[t]) = 0
        /\ Data(s) = 0 /\ Data(session[x]) = 0
    BY <1>3, <1>4, <1>7, <1>8, <1>9 DEF Queued, AtMessage, Data
  <2>2. Answering \in Int /\ Answering' \in Int /\ Answering' = Answering
    BY <1>1, <1>11, ThreadsAre, NetAssumption DEF Answering
  <2>3. arrived' = arrived /\ arrived \in Nat
    BY <1>4 DEF IInv, TypeOK
  <2>4. Queued \in Int
    BY QueueIsCounted DEF IInv
  <2>5. 0 = (Data(s) - Data(session[x])) + (AtMessage(r) - AtMessage(thread[t]))
             + (Answering' - Answering) + (Queued' - Queued) - (arrived' - arrived)
    BY <2>1, <2>2, <2>3, <2>4
  <2>6. 0 <= 0 /\ 0 + (s.request - session[x].request) <= 0 /\ 0 \in Int
    BY <1>7, <1>8
  <2>7. arrived' \in Nat /\ Queued \in Int /\ Queued' \in Int
    BY <2>1, <2>3, <2>4
  <2> QED
    BY <1>10, <2>5, <2>6, <2>7, LoadStep DEF IInv
<1>24. /\ \A y \in Slots : session[y].sessionID \in Int /\ session'[y].sessionID \in Int
       /\ \A y \in Slots : session'[y].sessionID = IF y = x THEN lastID ELSE session[y].sessionID
       /\ lastID \in Int /\ session[x].sessionID < lastID
       /\ \A i \in 1 .. lastID : i \in IDs /\ i \in Int /\ slotOf[i] \in Slots
  <2>1. lastID \in Int /\ session[x].sessionID < lastID
    BY <1>3, <1>5
  <2>2. \A i \in 1 .. lastID : i \in IDs /\ i \in Int
    BY <1>5 DEF IDs
  <2>3. \A i \in 1 .. lastID : slotOf[i] \in Slots
    BY <2>2 DEF IInv, TypeOK
  <2>4. \A y \in Slots : session[y].sessionID \in Int
    <3>1. \A y \in Slots : session[y].sessionID \in IDs \union {0}
      BY DEF IInv, TypeOK, SessionType
    <3>2. \A n \in IDs \union {0} : n \in Int
      BY DEF IDs
    <3> QED
      BY <3>1, <3>2
  <2>5. \A y \in Slots : session'[y].sessionID = IF y = x THEN lastID ELSE session[y].sessionID
    BY <1>8, <1>12
  <2>6. \A y \in Slots : session'[y].sessionID \in Int
    BY <2>1, <2>4, <2>5
  <2> QED
    BY <2>1, <2>2, <2>3, <2>4, <2>5, <2>6
<1>25. \A i : Seen(i) => Seen(i)' /\ slotOf'[i] = slotOf[i]
  <2> SUFFICES ASSUME NEW i, Seen(i) PROVE Seen(i)'
    BY <1>4
  <2>1. /\ i \in 1 .. lastID /\ i <= session[slotOf[i]].sessionID /\ slotOf[i] \in Slots
        /\ slotOf' = slotOf /\ lastID' = lastID
    BY <1>4, <1>24 DEF Seen
  <2>2. i <= session'[slotOf[i]].sessionID
    BY <1>24, <2>1
  <2> QED
    BY <2>1, <2>2 DEF Seen
<1>26. \A y \in Slots : ~In(Accept, y, {"unflag"}) /\ (In(Accept, y, {"unflag"})' <=> y = x)
  BY <1>0, <1>1, <1>3, <1>9, <1>11 DEF In
<1>27. \A i \in 1 .. lastID : Live(i)' => i = lastID \/ (slotOf[i] # x /\ Live(i))
  <2> SUFFICES ASSUME NEW i \in 1 .. lastID, Live(i)' PROVE i = lastID \/ (slotOf[i] # x /\ Live(i))
    OBVIOUS
  <2>1. slotOf'[i] = slotOf[i] /\ slotOf[i] \in Slots
    BY <1>4, <1>24
  <2> QED
    BY <1>18, <1>24, <1>26, <2>1 DEF Live
<1>28. \A i : Over(i) => Over(i)'
  <2>1. ~Seen(lastID)
    BY <1>3, <1>24 DEF Seen
  <2>2. ASSUME NEW i, Over(i) PROVE Over(i)'
    <3>1. Seen(i) /\ i \in 1 .. lastID /\ i # lastID /\ ~Live(i)
      BY <2>1, <2>2 DEF Over, Seen
    <3> QED
      BY <1>25, <1>27, <3>1 DEF Over
  <2> QED
    BY <2>2
<1>29. IDsInOrder'
  <2>1. \A y \in Slots : /\ session'[y].sessionID <= lastID'
                         /\ session'[y].sessionID # 0 => slotOf'[session'[y].sessionID] = y
                         /\ ~Flagged(y)' => session'[y].sessionID # 0
    BY <1>3, <1>4, <1>18, <1>24 DEF IInv, IDsInOrder
  <2>2. thread'[Accept].at = "unflag" /\ thread'[Accept].id = lastID' /\ lastID' # 0 /\ thread'[Accept].slot = x
    BY <1>1, <1>3, <1>4, <1>9, <1>11
  <2>3. session'[x].sessionID = lastID'
    BY <1>4, <1>24
  <2> QED
    BY <2>1, <2>2, <2>3 DEF IDsInOrder, Slot
<1>30. IDsAreKnown'
  <2>1. Knows(t, r)'
    BY <1>1, <1>9, NetAssumption DEF Knows, AtUpdate
  <2>2. ASSUME NEW u \in Threads, thread[u].at = "message"
        PROVE  session'[thread[u].slot].sessionID = session[thread[u].slot].sessionID
    <3>1. thread[u].slot \in Slots /\ thread[u].slot # x
      BY <1>7, <2>2 DEF IInv, TypeOK, In, Holding, Labels
    <3> QED
      BY <1>24, <3>1
  <2>3. \A y \in Slots : session[y].sessionID # 0 => session'[y].sessionID # 0
    BY <1>3, <1>24
  <2> QED
    BY <1>9, <1>25, <1>28, <2>1, <2>2, <2>3, KnownStays
<1>31. JobsAreKnown'
  BY <1>4, <1>25, <1>28 DEF IInv, JobsAreKnown
<1>32. LiveHasUser'
  <2> SUFFICES ASSUME NEW i \in 1 .. lastID', Live(i)', ~In(Accept, slotOf[i], {"unflag", "join"})'
               PROVE  i \in users' \/ \E k \in DOMAIN jobQ' : jobQ'[k] = Job("join", i)
    BY DEF LiveHasUser
  <2>1. i \in 1 .. lastID /\ slotOf'[i] = slotOf[i] /\ slotOf[i] \in Slots
    BY <1>4, <1>24
  <2>2. slotOf[i] # x
    BY <1>0, <1>1, <1>9, <1>11, <2>1 DEF In
  <2>3. i # lastID
    BY <1>3, <2>2
  <2>4. Live(i) /\ ~In(Accept, slotOf[i], {"unflag", "join"})
    BY <1>1, <1>3, <1>27, <2>1, <2>3 DEF In
  <2> QED
    BY <1>4, <2>1, <2>4 DEF IInv, LiveHasUser
<1>33. JobsInOrder' /\ OnlyKnownHalts'
  BY <1>4 DEF IInv, JobsInOrder, OnlyKnownHalts
<1> QED
  BY <1>13, <1>14, <1>17, <1>19, <1>20, <1>21, <1>22, <1>23, <1>29, <1>30, <1>31, <1>32, <1>33 DEF IInv

\* The flag that the accept thread takes away is there.
LEMMA UnflagStep ==
  ASSUME IInv, Unflag
  PROVE  IInv'
<1>0. Accept \in Threads
  BY ThreadsAre
<1>1. PICK t \in Threads : t = Accept
  BY <1>0
<1>2. PICK x \in Slots : x = thread[t].slot
  BY DEF IInv, TypeOK
<1>3. /\ thread[t].at = "unflag" /\ thread[t] \in ThreadType /\ session[x] \in SessionType
      /\ session[x].sessionID = lastID /\ lastID # 0 /\ session[x].ioCount \in Int /\ RELEASE \in Int
      /\ thread[t].id = lastID
  BY <1>1, <1>2, NetAssumption DEF Unflag, At, IInv, IDsInOrder, Slot, TypeOK, ThreadType, SessionType
<1>4. Accepting(x) /\ Flagged(x)
  BY <1>1, <1>2, <1>3 DEF Flagged, Accepting, In
<1>5. /\ session[x].recv = "none" /\ session[x].send = "none" /\ session[x].request = 0 /\ session[x].sendQ = 0
      /\ \A u \in Threads : In(u, x, Holding) => u = Update /\ thread[u].at = "undo"
  BY <1>4 DEF IInv, FlaggedIsQuiet
<1>6. ~(session[x].ioCount + 1 - RELEASE <= 0) /\ session[x].ioCount + 1 - RELEASE \in Int
  <2>1. session[x].ioCount >= RELEASE
    BY <1>4, FlagIsSeen
  <2> QED
    BY <1>3, <2>1
<1>7. /\ session' = [session EXCEPT ![x].ioCount = @ + 1 - RELEASE] /\ Goto(t, "join")
      /\ UNCHANGED <<indexPool, lastID, slotOf, jobQ, users, loggedIn, arrived, meant, halted>>
  <2>1. ~(Mine(Accept).ioCount + 1 - RELEASE <= 0)
    BY <1>1, <1>2, <1>6 DEF Mine, Slot
  <2> QED
    BY <1>1, <1>2, <2>1 DEF Unflag, Slot, Elsewhere
<1>8. PICK s \in SessionType :
        /\ session' = [session EXCEPT ![x] = s]
        /\ s.recv = "none" /\ s.send = session[x].send /\ s.request = 0
        /\ s.sendFlag = session[x].sendFlag /\ s.sendCount = session[x].sendCount
        /\ s.held = session[x].held /\ s.sendQ = session[x].sendQ
        /\ s.ioCount = session[x].ioCount + 1 - RELEASE /\ s.sessionID = session[x].sessionID
  <2> DEFINE s0 == [session[x] EXCEPT !.ioCount = @ + 1 - RELEASE]
  <2>1. s0 \in SessionType
    BY <1>3, <1>6 DEF SessionType
  <2>2. /\ s0.recv = "none" /\ s0.send = session[x].send /\ s0.request = 0
        /\ s0.sendFlag = session[x].sendFlag /\ s0.sendCount = session[x].sendCount
        /\ s0.held = session[x].held /\ s0.sendQ = session[x].sendQ
        /\ s0.ioCount = session[x].ioCount + 1 - RELEASE /\ s0.sessionID = session[x].sessionID
    BY <1>3, <1>5 DEF SessionType
  <2>3. session' = [session EXCEPT ![x] = s0]
    BY <1>7
  <2> HIDE DEF s0
  <2> QED
    BY <2>1, <2>2, <2>3
<1>9. PICK r \in ThreadType :
        thread' = [thread EXCEPT ![t] = r] /\ r.at = "join" /\ r.slot = x /\ r.id = lastID
  <2> DEFINE r0 == [thread[t] EXCEPT !.at = "join"]
  <2>1. r0 \in ThreadType /\ r0.at = "join" /\ r0.slot = x /\ r0.id = lastID
    BY <1>2, <1>3 DEF ThreadType, Labels
  <2>2. thread' = [thread EXCEPT ![t] = r0]
    BY <1>7 DEF Goto
  <2> QED
    BY <2>1, <2>2
<1>10. Moves(t, x, r, s)
  BY <1>8, <1>9 DEF Moves
<1>11. \A u \in Threads : thread'[u] = IF u = t THEN r ELSE thread[u]
  BY <1>9 DEF IInv, TypeOK
<1>12. \A y \in Slots : session'[y] = IF y = x THEN s ELSE session[y]
  BY <1>8 DEF IInv, TypeOK
<1>13. TypeOK'
  <2>1. session' \in [Slots -> SessionType]
    BY <1>8 DEF IInv, TypeOK
  <2>2. thread' \in [Threads -> [at : Labels, slot : Slots, id : IDs \union {0}]]
    BY <1>9 DEF IInv, TypeOK, ThreadType
  <2> QED
    BY <1>7, <2>1, <2>2 DEF IInv, TypeOK
<1>14. ThreadsInPlace'
  BY <1>1, <1>9, <1>11 DEF IInv, ThreadsInPlace, LabelsOf, AtAccept
<1>15. \A y \in Slots : ~Accepting(y)' /\ (Accepting(y) <=> y = x)
  BY <1>0, <1>1, <1>2, <1>3, <1>9, <1>11 DEF Accepting, In
<1>16. \A u \in Threads, y \in Slots : Pushing(u, y)' <=> Pushing(u, y)
  BY <1>3, <1>9, <1>11 DEF Pushing, In
<1>17. OneOwner'
  BY <1>7, <1>15, <1>16 DEF IInv, OneOwner
<1>18. \A y \in Slots : Flagged(y)' <=> Flagged(y) /\ y # x
  BY <1>4, <1>7, <1>15, <1>16 DEF IInv, OneOwner, Flagged
<1>19. Counted'
  <2>1. Flag(x)' = 0 /\ Flag(x) = RELEASE
    BY <1>4, <1>18 DEF Flag
  <2>2. One(r) = 1 /\ One(thread[t]) = 0 /\ Pending(s) = 0 /\ Pending(session[x]) = 0
    BY <1>3, <1>5, <1>8, <1>9 DEF One, Holding, Labels, Pending
  <2>3. s.ioCount = session[x].ioCount + 1 - RELEASE
    BY <1>8
  <2>4. s.ioCount - session[x].ioCount =
             (Pending(s) - Pending(session[x])) + (One(r) - One(thread[t])) + (Flag(x)' - Flag(x))
    BY <1>3, <2>1, <2>2, <2>3
  <2>5. (thread[t].at \in Holding => thread[t].slot = x) /\ (r.at \in Holding => r.slot = x)
    BY <1>2, <1>9
  <2>6. \A y \in Slots \ {x} : Flagged(y)' <=> Flagged(y)
    BY <1>18
  <2> QED
    BY <1>10, <2>4, <2>5, <2>6, CountedStep DEF IInv
<1>20. FlaggedIsQuiet'
  <2>1. \A u \in Threads, y \in Slots : y # x => (In(u, y, Holding)' <=> In(u, y, Holding))
    BY <1>3, <1>9, <1>11 DEF In, Holding
  <2>2. \A u \in Threads : u # t => thread'[u] = thread[u]
    BY <1>11
  <2>3. thread[t].at \notin Holding
    BY <1>3 DEF Holding
  <2> QED
    BY <1>12, <1>18, <2>1, <2>2, <2>3 DEF IInv, FlaggedIsQuiet, In
<1>21. OneAtRecv'
  <2>1. \A u \in Threads : In(u, x, AtRecv)' => u = t
    BY <1>5, <1>11 DEF In, AtRecv, Holding, Labels
  <2>2. \A u \in Threads, y \in Slots : y # x => (In(u, y, AtRecv)' <=> In(u, y, AtRecv))
    BY <1>3, <1>9, <1>11 DEF In, AtRecv
  <2>3. session'[x].recv = "none"
    BY <1>8, <1>12
  <2>4. ASSUME NEW y \in Slots
        PROVE  /\ \A u \in Threads : In(u, y, AtRecv)' => session'[y].recv = "none"
               /\ \A u, v \in Threads : In(u, y, AtRecv)' /\ In(v, y, AtRecv)' => u = v
    <3>1. CASE y = x
      BY <2>1, <2>3, <3>1
    <3>2. CASE y # x
      BY <1>12, <2>2, <3>2 DEF IInv, OneAtRecv
    <3> QED
      BY <3>1, <3>2
  <2> QED
    BY <2>4 DEF OneAtRecv
<1>22. OneAtSend' /\ PacketsAreHeldOnce' /\ LeftOver'
  <2>1. thread[t].at \notin AtSend /\ r.at \notin AtSend
    BY <1>3, <1>9 DEF AtSend
  <2> QED
    BY <1>8, <1>10, <2>1, SendStays DEF IInv
<1>23. RequestsAreBounded'
  <2>1. /\ Queued' = Queued /\ AtMessage(r) = 0 /\ AtMessage(thread[t]) = 0
        /\ Data(s) = 0 /\ Data(session[x]) = 0
    BY <1>3, <1>5, <1>7, <1>8, <1>9 DEF Queued, AtMessage, Data
  <2>2. Answering \in Int /\ Answering' \in Int /\ Answering' = Answering
    BY <1>1, <1>11, ThreadsAre, NetAssumption DEF Answering
  <2>3. arrived' = arrived /\ arrived \in Nat
    BY <1>7 DEF IInv, TypeOK
  <2>4. Queued \in Int
    BY QueueIsCounted DEF IInv
  <2>5. 0 = (Data(s) - Data(session[x])) + (AtMessage(r) - AtMessage(thread[t]))
             + (Answering' - Answering) + (Queued' - Queued) - (arrived' - arrived)
    BY <2>1, <2>2, <2>3, <2>4
  <2>6. 0 <= 0 /\ 0 + (s.request - session[x].request) <= 0 /\ 0 \in Int
    BY <1>5, <1>8
  <2>7. arrived' \in Nat /\ Queued \in Int /\ Queued' \in Int
    BY <2>1, <2>3, <2>4
  <2> QED
    BY <1>10, <2>5, <2>6, <2>7, LoadStep DEF IInv
<1>24. /\ \A y \in Slots : session'[y].sessionID = session[y].sessionID
       /\ \A i \in 1 .. lastID : i \in IDs /\ slotOf[i] \in Slots
  <2>1. \A y \in Slots : session'[y].sessionID = session[y].sessionID
    BY <1>8, <1>12
  <2> QED
    BY <2>1, NetAssumption DEF IInv, TypeOK, IDs
<1>25. \A i : Seen(i)' <=> Seen(i)
  BY <1>7, <1>24 DEF Seen
<1>26. \A y \in Slots : ~In(Accept, y, {"unflag"})' /\ (In(Accept, y, {"unflag"}) <=> y = x)
  BY <1>0, <1>1, <1>2, <1>3, <1>9, <1>11 DEF In
<1>27. \A i \in 1 .. lastID : Live(i)' <=> Live(i)
  BY <1>7, <1>18, <1>24, <1>26 DEF Live
<1>28. \A i : Over(i) <=> Over(i)'
  BY <1>25, <1>27 DEF Over, Seen
<1>29. IDsInOrder'
  <2>1. \A y \in Slots : /\ session'[y].sessionID <= lastID'
                         /\ session'[y].sessionID # 0 => slotOf'[session'[y].sessionID] = y
    BY <1>7, <1>24 DEF IInv, IDsInOrder
  <2>2. \A y \in Slots : ~Flagged(y)' => session'[y].sessionID # 0
    BY <1>3, <1>18, <1>24 DEF IInv, IDsInOrder
  <2>3. thread'[Accept].at = "join" /\ thread'[Accept].id = lastID' /\ lastID' # 0 /\ thread'[Accept].slot = x
    BY <1>1, <1>3, <1>7, <1>9, <1>11
  <2>4. session'[x].sessionID = lastID'
    BY <1>3, <1>7, <1>24
  <2> QED
    BY <2>1, <2>2, <2>3, <2>4 DEF IDsInOrder, Slot
<1>30. IDsAreKnown'
  <2>1. Knows(t, r)'
    BY <1>1, <1>9, NetAssumption DEF Knows, AtUpdate
  <2>2. \A u \in Threads : thread[u].at = "message"
        => session'[thread[u].slot].sessionID = session[thread[u].slot].sessionID
    BY <1>24 DEF IInv, TypeOK
  <2>3. \A y \in Slots : session[y].sessionID # 0 => session'[y].sessionID # 0
    BY <1>24
  <2>4. \A i : Seen(i) => Seen(i)' /\ slotOf'[i] = slotOf[i]
    BY <1>7, <1>25
  <2>5. \A i : Over(i) => Over(i)'
    BY <1>28
  <2> QED
    BY <1>9, <2>1, <2>2, <2>3, <2>4, <2>5, KnownStays
<1>31. JobsAreKnown'
  BY <1>7, <1>25, <1>28 DEF IInv, JobsAreKnown
<1>32. LiveHasUser'
  <2>1. \A y \in Slots : In(Accept, y, {"unflag", "join"})' <=> In(Accept, y, {"unflag", "join"})
    BY <1>0, <1>1, <1>2, <1>3, <1>9, <1>11 DEF In
  <2> QED
    BY <1>7, <1>24, <1>27, <2>1 DEF IInv, LiveHasUser
<1>33. JobsInOrder' /\ OnlyKnownHalts'
  BY <1>7 DEF IInv, JobsInOrder, OnlyKnownHalts
<1> QED
  BY <1>13, <1>14, <1>17, <1>19, <1>20, <1>21, <1>22, <1>23, <1>29, <1>30, <1>31, <1>32, <1>33 DEF IInv

-----------------------------------------------------------------------------
(* The invariant holds at the start and after every step.                    *)

LEMMA InitInv ==
  ASSUME Init
  PROVE  IInv
<1>1. /\ \A x \in Slots : session[x] = [ioCount |-> RELEASE, sessionID |-> 0, disconnectFlag |-> FALSE,
            sendFlag |-> FALSE, sendQ |-> 0, sendCount |-> 0, held |-> 0, socket |-> "closed", recv |-> "none",
            send |-> "none", request |-> 0]
      /\ \A t \in Threads : thread[t].at = "idle"
      /\ indexPool = Slots /\ lastID = 0 /\ jobQ = <<>> /\ users = {} /\ arrived = 0 /\ halted = "no"
  BY DEF Init
<1>2. (CHOOSE x \in Slots : TRUE) \in Slots
  BY NetAssumption
<1>3. TypeOK
  <2>1. RELEASE \in Int /\ MaxSessions \in Nat /\ MaxMessages \in Nat
    BY NetAssumption
  <2>2. session \in [Slots -> SessionType]
    BY <2>1 DEF Init, SessionType
  <2>3. thread \in [Threads -> [at : Labels, slot : Slots, id : IDs \union {0}]]
    BY <1>2 DEF Init, Labels
  <2>4. slotOf \in [IDs -> Slots]
    BY <1>2 DEF Init
  <2>5. jobQ \in Seq([kind : {"join", "message", "leave"}, id : IDs])
    BY <1>1
  <2>6. indexPool \subseteq Slots /\ users \subseteq IDs /\ loggedIn \subseteq users /\ meant \in IDs \union {0}
    BY DEF Init
  <2>7. lastID \in 0 .. MaxSessions /\ arrived \in 0 .. MaxMessages
    BY <1>1, <2>1
  <2> QED
    BY <1>1, <2>2, <2>3, <2>4, <2>5, <2>6, <2>7 DEF TypeOK
<1>4. ThreadsInPlace
  BY <1>1 DEF ThreadsInPlace, LabelsOf
<1>5. /\ \A x \in Slots : ~Accepting(x)
      /\ \A t \in Threads, x \in Slots : ~Pushing(t, x) /\ ~In(t, x, Holding)
  BY <1>1, ThreadsAre DEF Pushing, Accepting, In, Holding
<1>6. OneOwner
  BY <1>5 DEF OneOwner
<1>7. \A x \in Slots : Flagged(x)
  BY <1>1 DEF Flagged
<1>8. Counted
  <2> SUFFICES ASSUME NEW x \in Slots PROVE session[x].ioCount = Threaded(x) + Pending(session[x]) + Flag(x)
    BY DEF Counted
  <2>1. Threaded(x) = 0
    <3>1. {t \in Threads : Slot(t) = x /\ thread[t].at \in Holding} = {}
      BY <1>1 DEF Holding
    <3> QED
      BY <3>1, FS_EmptySet DEF Threaded
  <2>2. Pending(session[x]) = 0
    BY <1>1 DEF Pending
  <2>3. Flag(x) = RELEASE /\ RELEASE \in Int /\ session[x].ioCount = RELEASE
    BY <1>1, <1>7, NetAssumption DEF Flag
  <2> QED
    BY <2>1, <2>2, <2>3
<1>9. FlaggedIsQuiet
  BY <1>1, <1>5 DEF FlaggedIsQuiet
<1>10. OneAtRecv /\ OneAtSend /\ LeftOver
  BY <1>1 DEF OneAtRecv, OneAtSend, LeftOver, In, AtRecv
<1>11. PacketsAreHeldOnce
  BY <1>1 DEF PacketsAreHeldOnce
<1>12. RequestsAreBounded
  <2>1. {k \in DOMAIN jobQ : jobQ[k].kind = "message"} = {}
    BY <1>1
  <2>2. {x \in Slots : session[x].recv = "data"} = {}
    BY <1>1
  <2>3. {t \in Threads : thread[t].at = "message"} = {}
    BY <1>1
  <2>4. Queued = 0 /\ Received = 0 /\ Delivering = 0
    BY <2>1, <2>2, <2>3, FS_EmptySet DEF Queued, Received, Delivering
  <2>5. Answering = 0
    BY <1>1, ThreadsAre DEF Answering
  <2>6. \A x \in Slots : session[x].request = 0
    BY <1>1
  <2> QED
    BY <1>1, <2>4, <2>5, <2>6 DEF RequestsAreBounded
<1>13. IDsInOrder
  BY <1>1, <1>7, ThreadsAre DEF IDsInOrder
<1>14. IDsAreKnown
  BY <1>1 DEF IDsAreKnown, Knows, AtUpdate
<1>15. JobsAreKnown /\ LiveHasUser /\ JobsInOrder
  BY <1>1 DEF JobsAreKnown, LiveHasUser, JobsInOrder
<1>16. OnlyKnownHalts
  BY <1>1 DEF OnlyKnownHalts
<1> QED
  BY <1>3, <1>4, <1>6, <1>8, <1>9, <1>10, <1>11, <1>12, <1>13, <1>14, <1>15, <1>16 DEF IInv

LEMMA NextInv ==
  ASSUME IInv, [Next]_vars
  PROVE  IInv'
<1>0. Accept \in Threads /\ Update \in Threads /\ Accept # Update
  BY ThreadsAre, NetAssumption
<1>1. ASSUME NEW t \in Threads, ReleaseStep(t) PROVE IInv'
  BY <1>1, DropStep, ReadIDStep, ReleaseStepInv, PushIndexStep, LeaveStep DEF ReleaseStep
<1>2. ASSUME NEW t \in Threads, t # Update, PostStep(t) PROVE IInv'
  BY <1>2, RecvCheckStep, RecvStartStep, RecvCancelStep DEF PostStep
<1>3. CASE AcceptThread
  <2>1. ASSUME NEW x \in Slots, AcceptClient(x) PROVE IInv'
    BY <2>1, AcceptClientStep
  <2>2. CASE SetSessionID
    BY <2>2, SetSessionIDStep
  <2>3. CASE Unflag
    BY <2>3, UnflagStep
  <2>4. CASE Join
    BY <2>4, JoinStep
  <2>5. CASE PostStep(Accept)
    BY <1>0, <1>2, <2>5
  <2>6. CASE ReleaseStep(Accept)
    BY <1>0, <1>1, <2>6
  <2> QED
    BY <1>3, <2>1, <2>2, <2>3, <2>4, <2>5, <2>6 DEF AcceptThread
<1>4. ASSUME NEW w \in Workers, IOCPWorkerThread(w) PROVE IInv'
  <2>1. ASSUME NEW x \in Slots, TakeRecv(w, x) \/ TakeSend(w, x) \/ TakeRequest(w, x) PROVE IInv'
    BY <2>1, TakeRecvStep, TakeSendStep, TakeRequestStep
  <2>2. CASE Message(w) \/ Unlock(w) \/ SendCheck(w) \/ SendLock(w) \/ Gather(w)
    BY <2>2, MessageStep, UnlockStep, SendCheckStep, SendLockStep, GatherStep
  <2>3. CASE PostStep(w) \/ ReleaseStep(w)
    BY <1>1, <1>2, <2>3, WorkerIs
  <2> QED
    BY <1>4, <2>1, <2>2, <2>3 DEF IOCPWorkerThread
<1>5. CASE UpdateThread
  <2>1. CASE UserJoins \/ UserLeaves \/ UserLogsIn \/ UserRequest \/ LoginAgain
    BY <2>1, UserJoinsStep, UserLeavesStep, UserLogsInStep, UserRequestStep, LoginAgainStep
  <2>2. CASE Enter \/ Compare \/ Enqueue \/ Wake \/ Mark
    BY <2>2, EnterStep, CompareStep, EnqueueStep, WakeStep, MarkStep
  <2>3. CASE Undo
    <3>1. CASE Halt("lastReference")
      BY <3>1, HaltStep
    <3>2. CASE ~Halt("lastReference")
      <4>1. halted' = "no"
        BY <2>3, <3>2 DEF Undo, At, Running, Elsewhere
      <4> QED
        BY <2>3, <4>1, UndoStep
    <3> QED
      BY <3>1, <3>2
  <2>4. CASE ReleaseStep(Update)
    BY <1>0, <1>1, <2>4
  <2> QED
    BY <1>5, <2>1, <2>2, <2>3, <2>4 DEF UpdateThread
<1>6. ASSUME NEW x \in Slots, KernelStep(x) \/ PeerStep(x) PROVE IInv'
  BY <1>6, RecvEndsStep, SendEndsStep, ArriveStep, PeerGoneStep DEF KernelStep, PeerStep
<1>7. CASE UNCHANGED vars
  BY <1>7, StutterStep
<1> QED
  BY <1>3, <1>4, <1>5, <1>6, <1>7 DEF Next

-----------------------------------------------------------------------------
(* The theorems.                                                             *)

\* The strengthened invariant holds in every state that accept, the workers,
\* update, the kernel and the peers can reach, in any interleaving.
THEOREM Invariant == Spec => []IInv
<1>1. Init => IInv
  BY InitInv
<1>2. IInv /\ [Next]_vars => IInv'
  BY NextInv
<1> QED
  BY <1>1, <1>2, PTL DEF Spec

\* Every field of a session, and every thread, has a value of its type: no
\* count of packets or requests falls below 0.
THEOREM Typed == Spec => []TypeOK
<1>1. IInv => TypeOK
  BY DEF IInv
<1> QED
  BY <1>1, Invariant, PTL

\* IOCount is exactly the number of references to the slot, plus RELEASE while
\* it is not in use, for any number of slots, workers, sessions and messages
\* (the Interlocked operations of CNetLibrary.cpp on IOCount).
THEOREM CountsReferences == Spec => []CountIsReferences
<1>1. ASSUME IInv, NEW x \in Slots
      PROVE  session[x].ioCount \in {References(x), References(x) + RELEASE}
  <2>1. session[x].ioCount = Threaded(x) + Pending(session[x]) + Flag(x)
    BY <1>1 DEF IInv, Counted
  <2>2. Threaded(x) \in Int /\ Pending(session[x]) \in Int /\ RELEASE \in Int
    <3>1. IsFiniteSet({t \in Threads : Slot(t) = x /\ thread[t].at \in Holding})
      BY ThreadsAre, FS_Subset
    <3>2. Threaded(x) \in Int
      BY <3>1, FS_CardinalityType DEF Threaded
    <3> QED
      BY <1>1, <3>2, PendingIsCounted, NetAssumption DEF IInv, TypeOK
  <2>3. References(x) = Threaded(x) + Pending(session[x])
    <3>1. session[x].request \in Int /\ Threaded(x) \in Int
      BY <1>1, <2>2 DEF IInv, TypeOK, SessionType
    <3>2. References(x) = Threaded(x) + (IF session[x].recv # "none" THEN 1 ELSE 0)
                          + (IF session[x].send # "none" THEN 1 ELSE 0) + session[x].request
      BY DEF References, Threaded
    <3> QED
      BY <3>1, <3>2 DEF Pending
  <2> QED
    BY <2>1, <2>2, <2>3 DEF Flag
<1>2. IInv => CountIsReferences
  BY <1>1 DEF CountIsReferences
<1> QED
  BY <1>2, Invariant, PTL

\* RELEASE, which SendMessages and Disconnect look for with >= after they have
\* added a reference of their own (CNetLibrary.cpp), is never there by the
\* number of references alone: it tells the slots that are free, being accepted
\* into or about to be free from those in use.
FlagIsExact == \A x \in Slots : session[x].ioCount >= RELEASE <=> Flagged(x)

\* The references to a slot alone never look like RELEASE.
THEOREM FlagTellsUse == Spec => []FlagIsExact
<1>1. ASSUME IInv, NEW x \in Slots, ~Flagged(x)
      PROVE  session[x].ioCount < RELEASE
  <2>1. session[x].ioCount = Threaded(x) + Pending(session[x])
    <3>1. session[x].ioCount = Threaded(x) + Pending(session[x]) + 0
      BY <1>1 DEF IInv, Counted, Flag
    <3>2. Pending(session[x]) \in Int
      BY <1>1, PendingIsCounted DEF IInv, TypeOK
    <3>3. session[x].ioCount \in Int
      BY <1>1 DEF IInv, TypeOK, SessionType
    <3>4. IsFiniteSet({t \in Threads : Slot(t) = x /\ thread[t].at \in Holding})
      BY ThreadsAre, FS_Subset
    <3>5. Threaded(x) \in Int
      BY <3>4, FS_CardinalityType DEF Threaded
    <3> QED
      BY <3>1, <3>2, <3>3, <3>5
  <2>2. Threaded(x) \in Int /\ Threaded(x) <= Cardinality(Threads)
    <3> DEFINE T == {t \in Threads : Slot(t) = x /\ thread[t].at \in Holding}
    <3>1. T \subseteq Threads /\ Threaded(x) = Cardinality(T)
      BY DEF Threaded
    <3> HIDE DEF T
    <3> QED
      BY <3>1, ThreadsAre, FS_Subset, FS_CardinalityType
  <2>3. session[x].request <= MaxMessages /\ session[x].request \in Int
    <3>1. session[x].request + Queued + Received + Delivering + Answering <= arrived
      BY <1>1 DEF IInv, RequestsAreBounded
    <3>2. arrived <= MaxMessages /\ arrived \in Int /\ MaxMessages \in Int /\ session[x].request \in Int
      BY <1>1, NetAssumption DEF IInv, TypeOK, SessionType
    <3>3. Queued \in Nat
      BY <1>1, QueueIsCounted DEF IInv
    <3>4. Received \in Nat
      <4> DEFINE R == {y \in Slots : session[y].recv = "data"}
      <4>1. R \subseteq Slots /\ Received = Cardinality(R)
        BY DEF Received
      <4> HIDE DEF R
      <4> QED
        BY <4>1, NetAssumption, FS_Subset, FS_CardinalityType
    <3>5. Delivering \in Nat
      <4> DEFINE D == {t \in Threads : thread[t].at = "message"}
      <4>1. D \subseteq Threads /\ Delivering = Cardinality(D)
        BY DEF Delivering
      <4> HIDE DEF D
      <4> QED
        BY <4>1, ThreadsAre, FS_Subset, FS_CardinalityType
    <3>6. Answering \in Nat
      BY DEF Answering
    <3> QED
      BY <3>1, <3>2, <3>3, <3>4, <3>5, <3>6
  <2>4. Pending(session[x]) <= 2 + session[x].request /\ Pending(session[x]) \in Int
    BY <2>3 DEF Pending
  <2>5. /\ RELEASE \in Int /\ RELEASE > 3 + MaxMessages + Cardinality(Threads)
        /\ MaxMessages \in Int /\ Cardinality(Threads) \in Int
    BY NetAssumption, ThreadsAre
  <2> QED
    BY <2>1, <2>2, <2>3, <2>4, <2>5
<1>2. ASSUME IInv, NEW x \in Slots PROVE session[x].ioCount >= RELEASE <=> Flagged(x)
  <2>1. session[x].ioCount \in Int /\ RELEASE \in Int
    BY <1>2, NetAssumption DEF IInv, TypeOK, SessionType
  <2> QED
    BY <1>1, <1>2, <2>1, FlagIsSeen
<1>3. IInv => FlagIsExact
  BY <1>2 DEF FlagIsExact
<1> QED
  BY <1>3, Invariant, PTL

\* A slot that ReleaseSession gave back to indexPool has no operation, no request
\* and no packet of the old session in it.
THEOREM FreeIsQuiet == Spec => []FreeSlotIsQuiet
<1>1. ASSUME IInv, NEW x \in indexPool
      PROVE  /\ session[x].ioCount >= RELEASE
             /\ session[x].recv = "none" /\ session[x].send = "none" /\ session[x].request = 0
             /\ session[x].sendQ = 0 /\ session[x].held = 0
  <2>1. x \in Slots /\ Flagged(x)
    BY <1>1 DEF IInv, TypeOK, Flagged
  <2>2. session[x].recv = "none" /\ session[x].send = "none" /\ session[x].request = 0 /\ session[x].sendQ = 0
    BY <1>1, <2>1 DEF IInv, FlaggedIsQuiet
  <2>3. session[x].held = 0
    BY <1>1, <2>1, <2>2 DEF IInv, PacketsAreHeldOnce
  <2> QED
    BY <1>1, <2>1, <2>2, <2>3, FlagIsSeen
<1>2. IInv => FreeSlotIsQuiet
  BY <1>1 DEF FreeSlotIsQuiet
<1> QED
  BY <1>2, Invariant, PTL

\* sendFlag keeps sendQ and sendingArray to one user: never two sends under way
\* or being prepared for one session (SendPost, IOCPWorkerThread).
THEOREM SendsAlone == Spec => []OneSender
<1>1. ASSUME IInv, NEW x \in Slots
      PROVE  LET preparing == {t \in Threads : Slot(t) = x /\ thread[t].at \in {"gather", "unlock"}}
                 sending == Cardinality(preparing) + (IF session[x].send # "none" THEN 1 ELSE 0)
             IN  sending <= 1 /\ (sending = 1 => session[x].sendFlag)
  <2> DEFINE P == {t \in Threads : Slot(t) = x /\ thread[t].at \in {"gather", "unlock"}}
  <2>1. \A t \in P : In(t, x, {"gather", "unlock"}) /\ t \in Threads
    BY DEF In, Slot
  <2>2. /\ session[x].send # "none" => session[x].sendFlag
        /\ \A t \in P : session[x].sendFlag /\ session[x].send = "none"
        /\ \A t, u \in P : t = u
    BY <1>1, <2>1 DEF IInv, OneAtSend
  <2> HIDE DEF P
  <2>3. CASE P = {}
    <3>1. Cardinality(P) = 0
      BY <2>3, FS_EmptySet
    <3> QED
      BY <2>2, <3>1 DEF P
  <2>4. CASE P # {}
    <3>1. PICK t \in P : P = {t}
      BY <2>2, <2>4
    <3>2. Cardinality(P) = 1
      BY <3>1, FS_Singleton
    <3>3. session[x].sendFlag /\ session[x].send = "none"
      BY <2>2, <3>1
    <3> QED
      BY <3>2, <3>3 DEF P
  <2> QED
    BY <2>3, <2>4
<1>2. IInv => OneSender
  BY <1>1 DEF OneSender
<1> QED
  BY <1>2, Invariant, PTL

\* Each packet queued for a session is released once, by the send it went into,
\* by the failed send or by the release of the session.
THEOREM HeldOnce == Spec => []PacketsAreHeldOnce
<1>1. IInv => PacketsAreHeldOnce
  BY DEF IInv
<1> QED
  BY <1>1, Invariant, PTL

\* The threads that post to the job queue post a session's join, messages and
\* leave in that order, although accept, workers and update all post.
THEOREM InOrder == Spec => []JobsInOrder
<1>1. IInv => JobsInOrder
  BY DEF IInv
<1> QED
  BY <1>1, Invariant, PTL

\* No assertion is tripped but the two known ones: not the one on the saved id
\* in OnMessage, not those on sendQ and IOCount in AcceptThread, not FindUser's
\* for a message.
THEOREM KnownHalts == Spec => []OnlyKnownHalts
<1>1. IInv => OnlyKnownHalts
  BY DEF IInv
<1> QED
  BY <1>1, Invariant, PTL
=============================================================================
