----------------------------- MODULE IndexPool ------------------------------
(* CNetLibrary::indexPool, a CStack<int> of the free slots of sessionArray.  *)
(* The thread that releases a session pushes its index: a worker, update, or *)
(* the accept thread itself, when the session is over before its accept is.  *)
(* The accept thread alone pops one, for the next client.  The nodes of the  *)
(* stack come from a CMemoryPool, which gives out any node that nobody has   *)
(* (module NodePool).                                                        *)
(*                                                                           *)
(* The pointer to the top has a stamp in its upper bits, but Push computes   *)
(* "prevTop >> 47 + 1", which is a shift by 48: the stamp is halved, and as  *)
(* it starts at 0 it stays there.  A step is one access to shared memory.    *)
EXTENDS Integers, FiniteSets

CONSTANTS
    Accept,     \* the accept thread
    Releasers,  \* the other threads that release sessions: the workers and update
    Indices     \* the slots of sessionArray, numbered from 1

ASSUME IndexAssumption ==
    /\ Accept \notin Releasers /\ IsFiniteSet(Releasers)
    /\ Indices \in Nat \ {0}

Index == 1 .. Indices
Nodes == 1 .. Indices  \* the stack is made with as many nodes as indices
Null == 0
Threads == Releasers \union {Accept}

VARIABLES
    top,     \* CStack::topNode: a node and the stamp beside it
    next,    \* Node::next
    data,    \* Node::data
    size,    \* CStack::size
    out,     \* NodePool: how many callers have each node
    owned,   \* for every index, the sessions that have it
    thread   \* where each thread is, and its local variables

vars == <<top, next, data, size, out, owned, thread>>

NodePool == INSTANCE NodePool

Idle == [at |-> "idle", node |-> Null, seen |-> [node |-> Null, stamp |-> 0],
         next |-> Null, index |-> 0]

\* The constructor of CNetLibrary has pushed every index.
Init ==
    /\ top = [node |-> Indices, stamp |-> 0]
    /\ next = [n \in Nodes |-> n - 1]
    /\ data = [n \in Nodes |-> n]
    /\ size = Indices
    /\ out = [n \in Nodes |-> 1]
    /\ owned = [i \in Index |-> 0]
    /\ thread = [t \in Threads |-> Idle]

At(t, label) == thread[t].at = label
Goto(t, label) == thread' = [thread EXCEPT ![t].at = label]
Return(t) == thread' = [thread EXCEPT ![t] = Idle]

SameTop(t) == top = thread[t].seen

-----------------------------------------------------------------------------
(* Push, called by ReleaseSession.                                           *)

PushAlloc(t, i, n) ==
    /\ At(t, "idle")
    /\ owned[i] > 0
    /\ owned' = [owned EXCEPT ![i] = @ - 1]
    /\ NodePool!Take(n)
    /\ data' = [data EXCEPT ![n] = i]
    /\ thread' = [thread EXCEPT ![t].at = "pushTop", ![t].node = n]
    /\ UNCHANGED <<top, next, size>>

PushTop(t) ==
    /\ At(t, "pushTop")
    /\ thread' = [thread EXCEPT ![t].at = "pushNext", ![t].seen = top]
    /\ UNCHANGED <<top, next, data, size, out, owned>>

PushNext(t) ==
    /\ At(t, "pushNext")
    /\ next' = [next EXCEPT ![thread[t].node] = thread[t].seen.node]
    /\ Goto(t, "pushSwap")
    /\ UNCHANGED <<top, data, size, out, owned>>

\* prevTop >> 47 + 1.
NextStamp(old) == old \div 2

PushSwap(t) ==
    /\ At(t, "pushSwap")
    /\ IF SameTop(t)
       THEN /\ top' = [node |-> thread[t].node, stamp |-> NextStamp(thread[t].seen.stamp)]
            /\ Goto(t, "grow")
       ELSE Goto(t, "pushTop") /\ UNCHANGED top
    /\ UNCHANGED <<next, data, size, out, owned>>

Grow(t) ==
    /\ At(t, "grow")
    /\ size' = size + 1
    /\ Return(t)
    /\ UNCHANGED <<top, next, data, out, owned>>

-----------------------------------------------------------------------------
(* Pop.                                                                      *)

\* Mutant: sessions are accepted, and indices popped, by every thread.
AllPop == Threads

\* Only the accept thread pops.
Poppers == {Accept}

Shrink(t) ==
    /\ At(t, "idle")
    /\ t \in Poppers
    /\ size' = size - 1
    /\ Goto(t, IF size' < 0 THEN "refused" ELSE "popTop")
    /\ UNCHANGED <<top, next, data, out, owned>>

\* No index: the count is put back and the client's socket is closed.
Refuse(t) ==
    /\ At(t, "refused")
    /\ size' = size + 1
    /\ Return(t)
    /\ UNCHANGED <<top, next, data, out, owned>>

PopTop(t) ==
    /\ At(t, "popTop")
    /\ thread' = [thread EXCEPT ![t].at = "popNext", ![t].seen = top]
    /\ UNCHANGED <<top, next, data, size, out, owned>>

\* realTop->next, which stops the process when the stack was empty.
PopNext(t) ==
    /\ At(t, "popNext")
    /\ thread[t].seen.node # Null
    /\ thread' = [thread EXCEPT ![t].at = "popData", ![t].next = next[thread[t].seen.node]]
    /\ UNCHANGED <<top, next, data, size, out, owned>>

PopData(t) ==
    /\ At(t, "popData")
    /\ thread' = [thread EXCEPT ![t].at = "popSwap", ![t].index = data[thread[t].seen.node]]
    /\ UNCHANGED <<top, next, data, size, out, owned>>

PopSwap(t) ==
    /\ At(t, "popSwap")
    /\ IF SameTop(t)
       THEN top' = [top EXCEPT !.node = thread[t].next] /\ Goto(t, "popFree")
       ELSE Goto(t, "popTop") /\ UNCHANGED top
    /\ UNCHANGED <<next, data, size, out, owned>>

\* The node goes back to its pool and the index to the session that is accepted.
PopFree(t) ==
    /\ At(t, "popFree")
    /\ NodePool!Give(thread[t].seen.node)
    /\ owned' = [owned EXCEPT ![thread[t].index] = @ + 1]
    /\ Return(t)
    /\ UNCHANGED <<top, next, data, size>>

-----------------------------------------------------------------------------
Push(t) ==
    \/ \E i \in Index, n \in Nodes : PushAlloc(t, i, n)
    \/ PushTop(t) \/ PushNext(t) \/ PushSwap(t) \/ Grow(t)

Pop(t) == Shrink(t) \/ Refuse(t) \/ PopTop(t) \/ PopNext(t) \/ PopData(t) \/ PopSwap(t) \/ PopFree(t)

Next == \E t \in Threads : Push(t) \/ Pop(t)

Spec == Init /\ [][Next]_vars

-----------------------------------------------------------------------------
ThreadsAt(labels) == {t \in Threads : thread[t].at \in labels}

\* S has the top and what its nodes lead to.
Leads(S) == top.node \in S \union {Null} /\ \A n \in S : next[n] \in S \union {Null}

\* The nodes of the stack: those one cannot leave out.
Linked == {n \in Nodes : \A S \in SUBSET Nodes : Leads(S) => n \in S}

\* The threads with index i in their hands, outside of the stack.
Carrying(i) ==
    {t \in ThreadsAt({"pushTop", "pushNext", "pushSwap"}) : data[thread[t].node] = i}
        \union {t \in ThreadsAt({"popFree"}) : thread[t].index = i}

\* A slot is free, in use by one session, or on its way from one to the other:
\* two sessions never share a slot and no slot is lost, although the stamp that
\* should tell a top that came back from one that stayed never changes.
IndexIsInOnePlace ==
    \A i \in Index :
        owned[i] + Cardinality(Carrying(i)) + Cardinality({n \in Linked : data[n] = i}) = 1

\* size goes down before a pop and up after a push: what it promises is there,
\* and a client is refused only when every index is in use or being pushed.
SizeIsPromised ==
    /\ size = Cardinality(Linked) - Cardinality(ThreadsAt({"grow", "refused", "popTop", "popNext", "popData", "popSwap"}))
    /\ \A t \in ThreadsAt({"popNext"}) : thread[t].seen.node # Null
=============================================================================
