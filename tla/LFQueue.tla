------------------------------ MODULE LFQueue -------------------------------
(* CLFQueue: a linked list with a dummy node at its head.  Producers link    *)
(* their node behind the last one by compare and swap and then move tail;    *)
(* one consumer at a time moves head and frees the old dummy.  The nodes     *)
(* come from a CMemoryPool: a freed node is soon some producer's new node.   *)
(*                                                                           *)
(* head and tail carry a stamp, one more at each move.  The pointer to the   *)
(* next node carries none, so the compare and swap that links a node can     *)
(* succeed on a node that was freed and is another producer's by now; the    *)
(* comment in Enqueue mentions it.  stale records that it happened.          *)
(*                                                                           *)
(* This is the job queue: the workers and accept enqueue, update dequeues.   *)
(* A step is one access to shared memory; the steps on a node that no other  *)
(* thread can tell apart are one.  The free list hands out the node freed    *)
(* last, as that of MemoryPool does when its calls do not overlap.           *)
EXTENDS Integers, Sequences, FiniteSets, Functions

CONSTANTS
    Producers,  \* the threads that enqueue
    Items,      \* how many items each producer enqueues, one after the other
    MaxNodes    \* the nodes there is memory for

ASSUME QueueAssumption ==
    /\ IsFiniteSet(Producers)
    /\ Items \in Nat \ {0} /\ MaxNodes \in Nat \ {0}

Nodes == 1 .. MaxNodes
Null == 0
Item == Producers \X (1 .. Items)

VARIABLES
    head, tail,  \* a node and the stamp beside it
    next,        \* Node::next
    data,        \* Node::data
    size,        \* CLFQueue::size
    free,        \* the free list of _node_pool, the node freed last first
    sent,        \* how many items each producer has enqueued or is enqueueing
    event,       \* hJobEvent, which a wait resets
    producer,    \* where each producer is, and its local variables
    consumer,    \* the same for the thread that dequeues
    received,    \* the items dequeued, in order
    order,       \* history: the items in the order in which they were linked
    stale        \* history: a node was linked behind a node that was not in the list

vars == <<head, tail, next, data, size, free, sent, event, producer, consumer, received, order, stale>>

Pointer(n, s) == [node |-> n, stamp |-> s]
NoItem == <<>>

Out == [at |-> "out", node |-> Null, tail |-> Pointer(Null, 0), next |-> Null]
Idle == [at |-> "out", next |-> Null, tail |-> Pointer(Null, 0), tailNext |-> Null]

\* The constructor takes the first node of the pool for the dummy.
Init ==
    /\ head = Pointer(1, 0)
    /\ tail = Pointer(1, 0)
    /\ next = [n \in Nodes |-> Null]
    /\ data = [n \in Nodes |-> NoItem]
    /\ size = 0
    /\ free = [i \in 1 .. MaxNodes - 1 |-> i + 1]
    /\ event = FALSE
    /\ sent = [p \in Producers |-> 0]
    /\ producer = [p \in Producers |-> Out]
    /\ consumer = [Idle EXCEPT !.at = "wait"]
    /\ received = <<>>
    /\ order = <<>>
    /\ stale = FALSE

\* S has n, and what its nodes lead to.
Leads(n, S) == n \in S /\ \A m \in S : next[m] \in S \union {Null}

\* The nodes one reaches from n: those one cannot leave out.
From(n) == {m \in Nodes : \A S \in SUBSET Nodes : Leads(n, S) => m \in S}

Linked == From(head.node)

-----------------------------------------------------------------------------
(* Enqueue.                                                                  *)

Goto(p, label) == producer' = [producer EXCEPT ![p].at = label]

\* Alloc, the next pointer cleared and the item stored: nobody looks at the node
\* yet, except for a producer that has been holding a pointer to it for long.
NewNode(p) ==
    /\ producer[p].at = "out"
    /\ sent[p] < Items
    /\ free # <<>>
    /\ sent' = [sent EXCEPT ![p] = @ + 1]
    /\ next' = [next EXCEPT ![Head(free)] = Null]
    /\ data' = [data EXCEPT ![Head(free)] = <<p, sent'[p]>>]
    /\ free' = Tail(free)
    /\ producer' = [producer EXCEPT ![p].at = "tail", ![p].node = Head(free)]
    /\ UNCHANGED <<head, tail, size, event, consumer, received, order, stale>>

ReadTail(p) ==
    /\ producer[p].at = "tail"
    /\ producer' = [producer EXCEPT ![p].at = "next", ![p].tail = tail]
    /\ UNCHANGED <<head, tail, next, data, size, free, sent, event, consumer, received, order, stale>>

\* prevNext: behind the last node, or in the way of a producer that has linked.
ReadNext(p) ==
    /\ producer[p].at = "next"
    /\ LET behind == next[producer[p].tail.node]
       IN producer' = [producer EXCEPT ![p].at = IF behind = Null THEN "link" ELSE "help",
                                       ![p].next = behind]
    /\ UNCHANGED <<head, tail, next, data, size, free, sent, event, consumer, received, order, stale>>

\* The compare and swap on the next pointer, which has no stamp.
Link(p) ==
    LET last == producer[p].tail.node
    IN /\ producer[p].at = "link"
       /\ IF next[last] = Null
          THEN /\ next' = [next EXCEPT ![last] = producer[p].node]
               /\ order' = Append(order, data[producer[p].node])
               /\ stale' = (stale \/ last \notin Linked)
               /\ Goto(p, "move")
          ELSE Goto(p, "tail") /\ UNCHANGED <<next, order, stale>>
       /\ UNCHANGED <<head, tail, data, size, free, sent, event, consumer, received>>

\* The compare and swap on tail, to node n, with the stamp counted up.
TailMoved(seen, n) == IF tail = seen THEN Pointer(n, seen.stamp + 1) ELSE tail

\* Whether it succeeds does not matter: another thread has helped.
MoveTail(p) ==
    /\ producer[p].at = "move"
    /\ tail' = TailMoved(producer[p].tail, producer[p].node)
    /\ Goto(p, "grow")
    /\ UNCHANGED <<head, next, data, size, free, sent, event, consumer, received, order, stale>>

HelpTail(p) ==
    /\ producer[p].at = "help"
    /\ tail' = TailMoved(producer[p].tail, producer[p].next)
    /\ Goto(p, "tail")
    /\ UNCHANGED <<head, next, data, size, free, sent, event, consumer, received, order, stale>>

Grow(p) ==
    /\ producer[p].at = "grow"
    /\ size' = size + 1
    /\ Goto(p, "signal")
    /\ UNCHANGED <<head, tail, next, data, free, sent, event, consumer, received, order, stale>>

\* OnClientJoin, OnMessage and OnClientLeave end with SetEvent.
Signal(p) ==
    /\ producer[p].at = "signal"
    /\ event' = TRUE
    /\ producer' = [producer EXCEPT ![p] = Out]
    /\ UNCHANGED <<head, tail, next, data, size, free, sent, consumer, received, order, stale>>

Enqueue(p) ==
    NewNode(p) \/ ReadTail(p) \/ ReadNext(p) \/ Link(p) \/ MoveTail(p) \/ HelpTail(p) \/ Grow(p) \/ Signal(p)

-----------------------------------------------------------------------------
(* UpdateThread and Dequeue.  Nobody else writes head.                       *)

\* WaitForSingleObject; the thread dequeues until there is nothing left.
Wait ==
    /\ consumer.at = "wait"
    /\ event
    /\ event' = FALSE
    /\ consumer' = Idle
    /\ UNCHANGED <<head, tail, next, data, size, free, sent, producer, received, order, stale>>

\* Mutant: one item too many is promised.
SizeBelow(s) == s < -1

SizeIsEmpty(s) == s < 0

\* The item is taken from the size before it is looked for.
Shrink ==
    /\ consumer.at = "out"
    /\ size' = size - 1
    /\ consumer' = [consumer EXCEPT !.at = IF SizeIsEmpty(size') THEN "empty" ELSE "next"]
    /\ UNCHANGED <<head, tail, next, data, free, sent, event, producer, received, order, stale>>

\* Mutant: an empty queue leaves its size below 0.
EmptySizeKept == size

EmptySize == size + 1

Empty ==
    /\ consumer.at = "empty"
    /\ size' = EmptySize
    /\ consumer' = [consumer EXCEPT !.at = "wait"]
    /\ UNCHANGED <<head, tail, next, data, free, sent, event, producer, received, order, stale>>

ReadHeadNext ==
    /\ consumer.at = "next"
    /\ consumer' = [consumer EXCEPT !.at = "tail", !.next = next[head.node]]
    /\ UNCHANGED <<head, tail, next, data, size, free, sent, event, producer, received, order, stale>>

ReadLast ==
    /\ consumer.at = "tail"
    /\ consumer' = [consumer EXCEPT !.at = "tailNext", !.tail = tail]
    /\ UNCHANGED <<head, tail, next, data, size, free, sent, event, producer, received, order, stale>>

\* Nothing behind head although the size said so: once more from the start.
ReadTailNext ==
    /\ consumer.at = "tailNext"
    /\ consumer' = IF consumer.next = Null THEN [Idle EXCEPT !.at = "next"]
                   ELSE [consumer EXCEPT !.at = "compare", !.tailNext = next[consumer.tail.node]]
    /\ UNCHANGED <<head, tail, next, data, size, free, sent, event, producer, received, order, stale>>

\* prevHead == tail, stamps and all, with tail read again.
TailInTheWay == head = tail

Compare ==
    /\ consumer.at = "compare"
    /\ consumer' = [consumer EXCEPT !.at = IF TailInTheWay THEN "push" ELSE "take"]
    /\ UNCHANGED <<head, tail, next, data, size, free, sent, event, producer, received, order, stale>>

PushTail ==
    /\ consumer.at = "push"
    /\ tail' = TailMoved(consumer.tail, consumer.tailNext)
    /\ consumer' = [consumer EXCEPT !.at = "take"]
    /\ UNCHANGED <<head, next, data, size, free, sent, event, producer, received, order, stale>>

\* Mutant: the item of the dummy.
DummyItem == data[head.node]

TakenItem == data[consumer.next]

\* Mutant: the new dummy is freed.
NewDummy == consumer.next

OldDummy == head.node

\* The item behind the dummy, whose node is the next dummy; the old one is freed.
\* Only this thread reads head, so that the three are one step.
Take ==
    /\ consumer.at = "take"
    /\ received' = Append(received, TakenItem)
    /\ head' = Pointer(consumer.next, head.stamp + 1)
    /\ free' = <<OldDummy>> \o free
    /\ consumer' = Idle
    /\ UNCHANGED <<tail, next, data, size, sent, event, producer, order, stale>>

Dequeue ==
    Wait \/ Shrink \/ Empty \/ ReadHeadNext \/ ReadLast \/ ReadTailNext \/ Compare \/ PushTail \/ Take

-----------------------------------------------------------------------------
Next == (\E p \in Producers : Enqueue(p)) \/ Dequeue

\* Every thread runs; none waits for another in these loops.
Fairness == (\A p \in Producers : WF_vars(Enqueue(p))) /\ WF_vars(Dequeue)

Spec == Init /\ [][Next]_vars /\ Fairness

-----------------------------------------------------------------------------
\* As long as no producer links its node behind a node that was freed, this is a
\* queue: the items come out in the order in which they were linked, so that what
\* is enqueued after another call of Enqueue has returned comes out after it.  The
\* item with k nodes from its own to the end of the list is the last but k - 1.
IsAQueue ==
    ~stale =>
        /\ \A i \in DOMAIN received : received[i] = order[i]
        /\ Len(order) = Len(received) + Cardinality(Linked \ {head.node})
        /\ \A n \in Linked \ {head.node} :
              data[n] = order[Len(order) + 1 - Cardinality(From(n))]

\* Stale or not, no item is taken twice, none is taken that was not enqueued,
\* and when all threads are done no item is left behind.
ItemsComeOutOnce ==
    /\ \A i, j \in DOMAIN received : received[i] = received[j] => i = j
    /\ \A i \in DOMAIN received : received[i] \in Item /\ received[i][2] <= sent[received[i][1]]
    /\ (size = 0 /\ consumer.at = "wait" /\ \A p \in Producers : producer[p].at = "out")
           => \A p \in Producers : \A k \in 1 .. sent[p] : <<p, k>> \in Range(received)

\* A node is in the list, in the free list, or a producer's new node: nobody
\* allocates a node that the list still leads to.
NodesAreApart ==
    /\ Range(free) \cap Linked = {}
    /\ \A p \in Producers : producer[p].at \in {"tail", "next", "link", "help"} => producer[p].node \notin Range(free)

\* Dequeue has taken its item from the size before it looks for it in the list:
\* it finds nothing there, and loops until a producer has linked, only after a
\* stale link.
FindsItsItem == consumer.at \in {"next", "tail", "tailNext"} /\ ~stale => next[head.node] # Null

\* Every item comes out in the end, a stale link notwithstanding.
EveryItemArrives ==
    (\A p \in Producers : sent[p] = Items) ~> (\A x \in Item : x \in Range(received))
=============================================================================
