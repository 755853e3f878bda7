----------------------------- MODULE MemoryPool -----------------------------
(* CMemoryPool: a free list that threads push to and pop from by compare and *)
(* swap.  The upper 17 bits of the pointer to its top are a stamp, the count *)
(* of frees so far, so that a top that was popped and pushed again does not  *)
(* look as if it had never moved.  Two counters, of the nodes that exist and *)
(* of the nodes in use, decide before the pop whether there is a node to pop. *)
(*                                                                           *)
(* A step is one access to memory that other threads read or write.  Any     *)
(* thread may free a node another one allocated, as the threads of the       *)
(* server do with the nodes of the job queue and the send queues.            *)
EXTENDS Integers, FiniteSets

CONSTANTS
    Threads,   \* the threads that use the pool
    BlockNum,  \* the nodes the constructor makes
    MaxNodes,  \* bound: the nodes there is memory for
    MaxFrees   \* bound: calls of Free, below the 2^17 values of a stamp

ASSUME PoolAssumption ==
    /\ IsFiniteSet(Threads)
    /\ MaxNodes \in Nat
    /\ BlockNum \in 0 .. MaxNodes
    /\ MaxFrees \in Nat

Nodes == 1 .. MaxNodes
Null == 0

VARIABLES
    made,        \* the nodes that exist
    next,        \* m_next of every node
    top,         \* m_pFreeNode: a node and the stamp beside it
    stamp,       \* m_stamp
    allocCount,  \* m_alloc_count
    useCount,    \* m_use_count
    held,        \* for every node, the callers that have it and are not giving it back
    thread       \* where each thread is, and its local variables

vars == <<made, next, top, stamp, allocCount, useCount, held, thread>>

Top == [node : Nodes \union {Null}, stamp : 0 .. MaxFrees]

Labels == {"idle", "use", "readTop", "readNext", "pop", "create",
           "freeTop", "freeNext", "push", "unuse"}

\* count is now_alloc_count in Alloc and now_stamp in Free, seen is prev_top, and
\* node is next_node in Alloc and pBlockNode in Free.
Idle == [at |-> "idle", count |-> 0, seen |-> [node |-> Null, stamp |-> 0], node |-> Null]

\* The constructor makes nodes 1, 2, ... and links each to the one before it.
Init ==
    /\ made = 1 .. BlockNum
    /\ next = [n \in Nodes |-> IF n <= BlockNum THEN n - 1 ELSE Null]
    /\ top = [node |-> BlockNum, stamp |-> 0]
    /\ stamp = 0
    /\ allocCount = BlockNum
    /\ useCount = 0
    /\ held = [n \in Nodes |-> 0]
    /\ thread = [t \in Threads |-> Idle]

At(t, label) == thread[t].at = label
Goto(t, label) == thread' = [thread EXCEPT ![t].at = label]

\* The call is over, and its local variables with it.
Return(t) == thread' = [thread EXCEPT ![t] = Idle]

-----------------------------------------------------------------------------
(* Alloc.                                                                    *)

\* now_alloc_count = m_alloc_count.
ReadCount(t) ==
    /\ At(t, "idle")
    /\ thread' = [thread EXCEPT ![t].at = "use", ![t].count = allocCount]
    /\ UNCHANGED <<made, next, top, stamp, allocCount, useCount, held>>

\* Mutant: one node too many is promised.
NodeIsFreeOrOne(count, uses) == count + 1 >= uses

\* The count that was read, which may have grown since, against the uses.
NodeIsFree(count, uses) == count >= uses

Use(t) ==
    /\ At(t, "use")
    /\ useCount' = useCount + 1
    /\ Goto(t, IF NodeIsFree(thread[t].count, useCount') THEN "readTop" ELSE "create")
    /\ UNCHANGED <<made, next, top, stamp, allocCount, held>>

ReadTop(t) ==
    /\ At(t, "readTop")
    /\ thread' = [thread EXCEPT ![t].at = "readNext", ![t].seen = top]
    /\ UNCHANGED <<made, next, top, stamp, allocCount, useCount, held>>

\* next_node = real_top->m_next, which stops the process when the list was empty.
ReadNext(t) ==
    /\ At(t, "readNext")
    /\ thread[t].seen.node # Null
    /\ thread' = [thread EXCEPT ![t].at = "pop", ![t].node = next[thread[t].seen.node]]
    /\ UNCHANGED <<made, next, top, stamp, allocCount, useCount, held>>

\* Mutant: a pointer without a stamp.
SameTopByNode(t) == top.node = thread[t].seen.node

\* The compare and swap takes the top for the one that was read: node and stamp.
SameTop(t) == top = thread[t].seen

Pop(t) ==
    /\ At(t, "pop")
    /\ IF SameTop(t)
       THEN /\ top' = [top EXCEPT !.node = thread[t].node]
            /\ held' = [held EXCEPT ![thread[t].seen.node] = @ + 1]
            /\ Return(t)
       ELSE Goto(t, "readTop") /\ UNCHANGED <<top, held>>
    /\ UNCHANGED <<made, next, stamp, allocCount, useCount>>

\* A new node, at an address nothing has, and m_alloc_count.
Create(t, n) ==
    /\ At(t, "create")
    /\ n \notin made
    /\ made' = made \union {n}
    /\ next' = [next EXCEPT ![n] = Null]
    /\ held' = [held EXCEPT ![n] = @ + 1]
    /\ allocCount' = allocCount + 1
    /\ Return(t)
    /\ UNCHANGED <<top, stamp, useCount>>

-----------------------------------------------------------------------------
(* Free.                                                                     *)

\* Free is called for a node of the caller; the stamp is taken before the loop.
Free(t, n) ==
    /\ At(t, "idle")
    /\ held[n] > 0
    /\ stamp < MaxFrees
    /\ stamp' = stamp + 1
    /\ held' = [held EXCEPT ![n] = @ - 1]
    /\ thread' = [thread EXCEPT ![t].at = "freeTop", ![t].node = n, ![t].count = stamp']
    /\ UNCHANGED <<made, next, top, allocCount, useCount>>

FreeTop(t) ==
    /\ At(t, "freeTop")
    /\ thread' = [thread EXCEPT ![t].at = "freeNext", ![t].seen = top]
    /\ UNCHANGED <<made, next, top, stamp, allocCount, useCount, held>>

FreeNext(t) ==
    /\ At(t, "freeNext")
    /\ next' = [next EXCEPT ![thread[t].node] = thread[t].seen.node]
    /\ Goto(t, "push")
    /\ UNCHANGED <<made, top, stamp, allocCount, useCount, held>>

\* Mutant: the stamp of the old top, as a pop leaves it.
PushedOldStamp(t) == [node |-> thread[t].node, stamp |-> thread[t].seen.stamp]

\* The new top carries the stamp of this call of Free.
Pushed(t) == [node |-> thread[t].node, stamp |-> thread[t].count]

Push(t) ==
    /\ At(t, "push")
    /\ IF SameTop(t)
       THEN top' = Pushed(t) /\ Goto(t, "unuse")
       ELSE top' = top /\ Goto(t, "freeTop")
    /\ UNCHANGED <<made, next, stamp, allocCount, useCount, held>>

\* The use count goes down after the node can be popped, never before.
Unuse(t) ==
    /\ At(t, "unuse")
    /\ useCount' = useCount - 1
    /\ Return(t)
    /\ UNCHANGED <<made, next, top, stamp, allocCount, held>>

-----------------------------------------------------------------------------
Alloc(t) ==
    \/ ReadCount(t) \/ Use(t) \/ ReadTop(t) \/ ReadNext(t) \/ Pop(t)
    \/ \E n \in Nodes : Create(t, n)

Release(t) ==
    \/ \E n \in Nodes : Free(t, n)
    \/ FreeTop(t) \/ FreeNext(t) \/ Push(t) \/ Unuse(t)

Next == \E t \in Threads : Alloc(t) \/ Release(t)

Spec == Init /\ [][Next]_vars

-----------------------------------------------------------------------------
ThreadsAt(labels) == {t \in Threads : thread[t].at \in labels}

\* Threads that hold a node they have not pushed yet.
Freeing == ThreadsAt({"freeTop", "freeNext", "push"})

\* For every node, the callers that have it or are giving it back.
Out == [n \in Nodes |-> held[n] + Cardinality({t \in Freeing : thread[t].node = n})]

InUse == {n \in Nodes : Out[n] > 0}

\* Threads that were told there is a node and have not popped it.
Poppers == ThreadsAt({"readTop", "readNext", "pop"})

\* S has the top and what its nodes lead to.
Leads(S) == top.node \in S \union {Null} /\ \A n \in S : next[n] \in S \union {Null}

\* The nodes of the free list: those one cannot leave out.
FreeList == {n \in Nodes : \A S \in SUBSET Nodes : Leads(S) => n \in S}

TypeOK ==
    /\ made \subseteq Nodes
    /\ next \in [Nodes -> Nodes \union {Null}]
    /\ top \in Top
    /\ stamp \in 0 .. MaxFrees
    /\ allocCount \in Nat
    /\ useCount \in Nat
    /\ held \in [Nodes -> Nat]
    /\ thread \in [Threads -> [at : Labels, count : Nat, seen : Top, node : Nodes \union {Null}]]

\* Alloc decides by two counters, read at two moments, that there is a node to
\* pop, and dereferences the top without a test: there is one for each thread
\* that was told so, whatever the others allocate and free in between.
PoppersFindNodes ==
    /\ Cardinality(Poppers) <= Cardinality(made \ InUse)
    /\ \A t \in Threads : At(t, "readNext") => thread[t].seen.node # Null

\* No node is lost or linked twice: the list from the top is exactly the nodes
\* that exist and that no caller has, though every thread links and unlinks
\* with pointers it read some time ago.
NoNodeIsLost == FreeList = made \ InUse

\* What GetAllocCount and GetUseCount print: the nodes that exist, and the nodes
\* in use give or take the calls under way.
CountersAreExact ==
    /\ allocCount = Cardinality(made)
    /\ useCount = Cardinality(InUse) + Cardinality(Poppers) + Cardinality(ThreadsAt({"create", "unuse"}))

\* The pool gives a node to one caller at a time, for all that a top can come
\* back while a thread is between its read and its compare and swap.
Promise == INSTANCE NodePool WITH out <- Out
KeepsPromise == Promise!Spec

=============================================================================
