----------------------------- MODULE PacketPool -----------------------------
(* CPacket: packets are nodes of one CBucketPool, shared by all threads, and *)
(* count their references.  A worker takes one for every message it reads,   *)
(* the update thread answers with it or with others, queues each packet for  *)
(* any number of sessions, and whichever thread drops the last reference     *)
(* puts it back.  A session's queue and the packets being sent are one here. *)
EXTENDS BucketPool

CONSTANTS
    Update,    \* the update thread; the other Threads are workers
    Sessions,
    None,
    MaxUsed,   \* bound: packets in use at a time
    MaxLost    \* bound: requests dropped with their reference

ASSUME PacketAssumption ==
    /\ Update \in Threads /\ None \notin Nodes
    /\ MaxUsed \in Nat /\ MaxLost \in Nat
    /\ IsFiniteSet(Threads) /\ IsFiniteSet(Sessions)

VARIABLES
    refCount,  \* of every packet
    reading,   \* the packet each worker fills from the receive buffer
    jobs,      \* the packets of the jobs in the job queue
    held,      \* those the handler of the update thread has a reference to
    sending,   \* the call of SendMessages under way, between AddRef and Enqueue
    sendQ,     \* for every session, the packets to send or being sent
    lost       \* requests whose handler returned without subRef

packetVars == <<refCount, reading, jobs, held, sending, sendQ, lost>>
vars == <<poolVars, packetVars>>

Workers == Threads \ {Update}
NoCall == [to |-> None, packet |-> None]

Init ==
    /\ PoolInit
    /\ refCount = [n \in Nodes |-> 0]
    /\ reading = [w \in Workers |-> None]
    /\ jobs = {}
    /\ held = {}
    /\ sending = NoCall
    /\ sendQ = [s \in Sessions |-> {}]
    /\ lost = {}

AddRef(count) == count + 1

\* Alloc, and the AddRef that follows: n is a packet nobody refers to.
Create(t, n) ==
    /\ Cardinality({p \in Nodes : out[p] > 0}) < MaxUsed
    /\ NodeAlloc(t, n)
    /\ refCount' = [refCount EXCEPT ![n] = AddRef(@)]

\* Mutant: the packet goes back to the pool one reference early.
LastReferenceEarly(count) == count <= 2

LastReference(count) == count = 1

subRef(t, n) ==
    /\ refCount' = [refCount EXCEPT ![n] = @ - 1]
    /\ IF LastReference(refCount[n]) THEN NodeFree(t, n) ELSE UNCHANGED poolVars

-----------------------------------------------------------------------------
(* The workers.                                                              *)

ReadHeader(w, n) ==
    /\ reading[w] = None
    /\ Create(w, n)
    /\ reading' = [reading EXCEPT ![w] = n]
    /\ UNCHANGED <<jobs, held, sending, sendQ, lost>>

\* The message is complete: OnMessage puts the packet in the job queue.
OnMessage(w) ==
    /\ reading[w] # None
    /\ jobs' = jobs \union {reading[w]}
    /\ reading' = [reading EXCEPT ![w] = None]
    /\ UNCHANGED <<poolVars, refCount, held, sending, sendQ, lost>>

\* It is not: the packet is dropped, and another one taken when more bytes come.
Incomplete(w) ==
    /\ reading[w] # None
    /\ subRef(w, reading[w])
    /\ reading' = [reading EXCEPT ![w] = None]
    /\ UNCHANGED <<jobs, held, sending, sendQ, lost>>

\* A send is over, or failed, or the session is released, by any thread.
Sent(t, s, n) ==
    /\ n \in sendQ[s]
    /\ subRef(t, n)
    /\ sendQ' = [sendQ EXCEPT ![s] = @ \ {n}]
    /\ UNCHANGED <<reading, jobs, held, sending, lost>>

-----------------------------------------------------------------------------
(* The update thread.                                                        *)

Handle(n) ==
    /\ held = {} /\ n \in jobs
    /\ held' = {n}
    /\ jobs' = jobs \ {n}
    /\ UNCHANGED <<poolVars, refCount, reading, sending, sendQ, lost>>

\* InitPacket, for an alarm: beside the answer in GameOverProcedure, after the
\* handler has given the answer up everywhere else.  No handler has three at a time.
InitPacket(n) ==
    /\ Cardinality(held) <= 1 /\ sending = NoCall
    /\ Create(Update, n)
    /\ held' = held \union {n}
    /\ UNCHANGED <<reading, jobs, sending, sendQ, lost>>

\* SendMessages, once for each session of a room.
SendAddRef(s, n) ==
    /\ sending = NoCall /\ n \in held /\ n \notin sendQ[s]
    /\ sending' = [to |-> s, packet |-> n]
    /\ refCount' = [refCount EXCEPT ![n] = AddRef(@)]
    /\ UNCHANGED <<poolVars, reading, jobs, held, sendQ, lost>>

SendEnqueue ==
    /\ sending # NoCall
    /\ sendQ' = [sendQ EXCEPT ![sending.to] = @ \union {sending.packet}]
    /\ sending' = NoCall
    /\ UNCHANGED <<poolVars, refCount, reading, jobs, held, lost>>

Done(n) ==
    /\ sending = NoCall /\ n \in held
    /\ subRef(Update, n)
    /\ held' = held \ {n}
    /\ UNCHANGED <<reading, jobs, sending, sendQ, lost>>

\* The early returns of the handlers leave the request as it is.
EarlyReturn(n) ==
    /\ held = {n} /\ sending = NoCall /\ \A s \in Sessions : n \notin sendQ[s]
    /\ Cardinality(lost) < MaxLost
    /\ held' = {}
    /\ lost' = lost \union {n}
    /\ UNCHANGED <<poolVars, refCount, reading, jobs, sending, sendQ>>

-----------------------------------------------------------------------------
Next ==
    \/ \E w \in Workers : (\E n \in Nodes : ReadHeader(w, n)) \/ OnMessage(w) \/ Incomplete(w)
    \/ \E t \in Threads, s \in Sessions, n \in Nodes : Sent(t, s, n)
    \/ \E n \in Nodes :
        \/ Handle(n) \/ InitPacket(n) \/ Done(n) \/ EarlyReturn(n)
        \/ \E s \in Sessions : SendAddRef(s, n)
    \/ SendEnqueue

Spec == Init /\ [][Next]_vars

-----------------------------------------------------------------------------
\* The places that can refer to a packet.
Places ==
    ({"reading"} \X Workers) \union ({"queue"} \X Sessions)
        \union ({"jobs", "held", "sending", "lost"} \X {None})

Refers(place, n) ==
    \/ place[1] = "reading" /\ reading[place[2]] = n
    \/ place[1] = "queue" /\ n \in sendQ[place[2]]
    \/ place[1] = "jobs" /\ n \in jobs
    \/ place[1] = "held" /\ n \in held
    \/ place[1] = "sending" /\ n = sending.packet
    \/ place[1] = "lost" /\ n \in lost

Holders(n) == {place \in Places : Refers(place, n)}

\* The count of a packet is the number of places that refer to it, and it is in
\* the pool exactly when there is none: nobody sends a packet that was reused,
\* and only the requests of early returns are never reused.
RefCountIsHolders ==
    \A n \in Nodes :
        /\ refCount[n] = Cardinality(Holders(n))
        /\ out[n] = IF refCount[n] > 0 THEN 1 ELSE 0
=============================================================================
