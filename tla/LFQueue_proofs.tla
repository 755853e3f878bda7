--------------------------- MODULE LFQueue_proofs ---------------------------
(* The queue, for any number of producers, items and nodes.                  *)
(*                                                                           *)
(* The nodes that are not free always form chains, each node behind at most  *)
(* one other: this survives a stale link, and with it the accounts of items  *)
(* and of size.  Until a link is stale the nodes behind the dummy are one    *)
(* chain, which is the items in the order of their links; a link is then at  *)
(* its end, because only the last node of the list leads nowhere.            *)
EXTENDS LFQueue, FiniteSetTheorems, NaturalsInduction, WellFoundedInduction, TLAPS

-----------------------------------------------------------------------------
(* The inductive invariant.                                                  *)

Link0 == [node : Nodes \union {Null}, stamp : Nat]

ProducerType ==
    [at : {"out", "tail", "next", "link", "help", "move", "grow", "signal"},
     node : Nodes \union {Null}, tail : Link0, next : Nodes \union {Null}]

ConsumerType ==
    [at : {"wait", "out", "empty", "next", "tail", "tailNext", "compare", "push", "take"},
     next : Nodes \union {Null}, tail : Link0, tailNext : Nodes \union {Null}]

\* A producer that helps has seen a node to help with.
ProducerKnows(r) ==
    /\ r.at # "out" => r.node \in Nodes
    /\ r.at \in {"next", "link", "help", "move"} => r.tail.node \in Nodes
    /\ r.at = "help" => r.next # Null

\* tail is never null.
TypeOK ==
    /\ head \in [node : Nodes, stamp : Nat] /\ tail \in [node : Nodes, stamp : Nat]
    /\ next \in [Nodes -> Nodes \union {Null}]
    /\ data \in [Nodes -> Item \union {NoItem}]
    /\ size \in Int
    /\ free \in Seq(Nodes)
    /\ event \in BOOLEAN /\ stale \in BOOLEAN
    /\ sent \in [Producers -> 0 .. Items]
    /\ producer \in [Producers -> ProducerType]
    /\ consumer \in ConsumerType
    /\ received \in Seq(Item) /\ order \in Seq(Item)
    /\ \A p \in Producers : ProducerKnows(producer[p])
    /\ consumer.at \in {"tailNext", "compare", "push"} => consumer.tail.node \in Nodes

ProducersAt(labels) == {p \in Producers : producer[p].at \in labels}

\* The producers whose node is not linked yet.
Linking == ProducersAt({"tail", "next", "link", "help"})

\* The nodes that are not in the free list: the dummy, and those with an item.
Used == Nodes \ Range(free)
Full == Used \ {head.node}

\* Every node has one place.
PlacesExclude ==
    /\ \A i, j \in DOMAIN free : free[i] = free[j] => i = j
    /\ head.node \in Used
    /\ \A p \in Linking : producer[p].node \in Full
    /\ \A p, q \in Linking : producer[p].node = producer[q].node => p = q

\* Nodes lead to nodes that are used, each to another one; none leads to the
\* dummy, or to a node that is not linked yet.  This holds after a stale link too:
\* the nodes are several chains then.
Chained ==
    /\ \A n \in Used :
          /\ next[n] \in Full \union {Null}
          /\ \A p \in Linking : next[n] # producer[p].node
    /\ \A m, n \in Used : next[m] = next[n] /\ next[m] # Null => m = n

\* What the consumer has found behind the dummy is there until it takes it.
NextIsKnown ==
    /\ consumer.at \in {"tail", "tailNext", "compare", "push", "take"} /\ consumer.next # Null
          => consumer.next = next[head.node]
    /\ consumer.at \in {"compare", "push", "take"} => consumer.next # Null

\* When the consumer moves tail, it is the dummy, which something is behind.
TailIsKnown ==
    /\ consumer.at \in {"tailNext", "compare", "push"} =>
          /\ consumer.tail.stamp <= tail.stamp
          /\ consumer.tail.stamp = tail.stamp => consumer.tail = tail
    /\ consumer.at \in {"compare", "push"} /\ consumer.tail.node = head.node
          => consumer.tailNext = consumer.next
    /\ consumer.at = "push" /\ consumer.tail.stamp = tail.stamp => consumer.tail.node = head.node

SentItems == {x \in Item : x[2] <= sent[x[1]]}

\* An item that was sent has come out, or is in one node.
ItemsAreKept ==
    /\ \A n \in Full : data[n] \in SentItems /\ data[n] \notin Range(received)
    /\ \A m, n \in Full : data[m] = data[n] => m = n
    /\ \A i, j \in DOMAIN received : received[i] = received[j] => i = j
    /\ Range(received) \subseteq SentItems
    /\ \A x \in SentItems : x \in Range(received) \/ \E n \in Full : data[n] = x

\* The item the consumer has taken from the size and not yet from the list.
Promised ==
    IF consumer.at \in {"empty", "next", "tail", "tailNext", "compare", "push", "take"}
    THEN 1 ELSE 0

\* The producers whose item is in a list and not yet in the size.
Growing == ProducersAt({"move", "grow"})

SizeAgrees ==
    /\ size >= IF consumer.at = "empty" THEN -1 ELSE 0
    /\ Len(order) = Len(received) + size + Promised + Cardinality(Growing)
    /\ Len(order) - Len(received) + Cardinality(Linking) + Len(free) + 1 = MaxNodes

\* The list, from the dummy to the end, with the items that were linked and have
\* not come out.
IsList(line) ==
    LET first == Len(received)
        last == Len(order)
    IN  /\ line[first] = head.node
        /\ \A i \in first .. last - 1 : line[i + 1] = next[line[i]]
        /\ next[line[last]] = Null
        /\ \A i, j \in first .. last : line[i] = line[j] => i = j
        /\ \A i \in first .. last :
              line[i] \in Used /\ \A p \in Linking : line[i] # producer[p].node
        /\ \A i \in first + 1 .. last : data[line[i]] = order[i]

ListIsOrder ==
    ~stale =>
        /\ Len(received) <= Len(order)
        /\ \A i \in DOMAIN received : received[i] = order[i]
        /\ \A p \in Linking : next[producer[p].node] = Null
        /\ \E line \in [Len(received) .. Len(order) -> Nodes] : IsList(line)

IInv ==
    /\ TypeOK /\ PlacesExclude /\ Chained /\ NextIsKnown /\ TailIsKnown
    /\ ItemsAreKept /\ SizeAgrees /\ ListIsOrder

-----------------------------------------------------------------------------
(* What one thread does to the sets of the invariant.                        *)

LEMMA ProducersStep ==
  ASSUME TypeOK, NEW CONSTANT labels, NEW p \in Producers, NEW r,
         producer' = [producer EXCEPT ![p] = r]
  PROVE  /\ IsFiniteSet(ProducersAt(labels)) /\ Cardinality(ProducersAt(labels)) \in Nat
         /\ ProducersAt(labels)' = IF r.at \in labels THEN ProducersAt(labels) \union {p}
                                   ELSE ProducersAt(labels) \ {p}
         /\ Cardinality(ProducersAt(labels)') =
               Cardinality(ProducersAt(labels)) + (IF r.at \in labels THEN 1 ELSE 0)
                                                - (IF producer[p].at \in labels THEN 1 ELSE 0)
<1>1. PICK A : A = ProducersAt(labels)
  OBVIOUS
<1>2. PICK B : B = ProducersAt(labels)'
  OBVIOUS
<1>3. A \in SUBSET Producers /\ (p \in A <=> producer[p].at \in labels)
  BY <1>1 DEF ProducersAt
<1>4. IsFiniteSet(A) /\ Cardinality(A) \in Nat
  BY <1>3, QueueAssumption, FS_Subset, FS_CardinalityType
<1>5. B = IF r.at \in labels THEN A \union {p} ELSE A \ {p}
  BY <1>1, <1>2 DEF ProducersAt, TypeOK
<1>6. /\ Cardinality(A \union {p}) = IF p \in A THEN Cardinality(A) ELSE Cardinality(A) + 1
      /\ Cardinality(A \ {p}) = IF p \in A THEN Cardinality(A) - 1 ELSE Cardinality(A)
  BY <1>4, FS_AddElement, FS_RemoveElement
<1>7. Cardinality(B) = Cardinality(A) + (IF r.at \in labels THEN 1 ELSE 0)
                                      - (IF producer[p].at \in labels THEN 1 ELSE 0)
  <2>1. CASE r.at \in labels
    BY <2>1, <1>3, <1>4, <1>5, <1>6
  <2>2. CASE r.at \notin labels
    BY <2>2, <1>3, <1>4, <1>5, <1>6
  <2> QED
    BY <2>1, <2>2
<1> QED
  BY <1>1, <1>2, <1>4, <1>5, <1>7

\* The numbers the counts are about.
LEMMA CountsAreNumbers ==
  ASSUME TypeOK
  PROVE  /\ Cardinality(Linking) \in Nat /\ Cardinality(Growing) \in Nat
         /\ Len(free) \in Nat /\ Len(order) \in Nat /\ Len(received) \in Nat
         /\ size \in Int /\ Promised \in 0 .. 1 /\ MaxNodes \in Nat
<1>1. Linking \in SUBSET Producers /\ Growing \in SUBSET Producers
  BY DEF Linking, Growing, ProducersAt
<1>2. Cardinality(Linking) \in Nat /\ Cardinality(Growing) \in Nat
  BY <1>1, QueueAssumption, FS_Subset, FS_CardinalityType
<1> QED
  BY <1>2, QueueAssumption DEF TypeOK, Promised

SameNodes == UNCHANGED <<head, next, data, free, sent, received, order, stale>>

LEMMA NodesSame ==
  ASSUME PlacesExclude, Chained, ItemsAreKept, ListIsOrder, SameNodes,
         \A p \in Linking' : p \in Linking /\ producer'[p].node = producer[p].node
  PROVE  PlacesExclude' /\ Chained' /\ ItemsAreKept' /\ ListIsOrder'
<1>1. Used' = Used /\ Full' = Full
  BY DEF SameNodes, Used, Full
<1>2. PlacesExclude'
  BY <1>1 DEF PlacesExclude, SameNodes
<1>3. Chained'
  BY <1>1 DEF Chained, SameNodes
<1>4. ItemsAreKept'
  BY <1>1 DEF ItemsAreKept, SameNodes, SentItems
<1>5. ListIsOrder'
  <2>0. \A p \in Linking' : ~stale => next'[producer'[p].node] = Null
    BY DEF ListIsOrder, SameNodes
  <2>1. SUFFICES ASSUME ~stale
                 PROVE  \E line \in [Len(received) .. Len(order) -> Nodes] : IsList(line)'
    BY <2>0 DEF ListIsOrder, SameNodes
  <2>2. PICK line \in [Len(received) .. Len(order) -> Nodes] : IsList(line)
    BY <2>1 DEF ListIsOrder
  <2>3. IsList(line)'
    BY <2>2, <1>1 DEF IsList, SameNodes
  <2> QED
    BY <2>3
<1> QED
  BY <1>2, <1>3, <1>4, <1>5

\* Producer p moves on to r with the node it has.
LEMMA ProducerMoves ==
  ASSUME IInv, NEW p \in Producers, NEW r \in ProducerType, producer' = [producer EXCEPT ![p] = r],
         r.node = producer[p].node,
         r.at \in {"tail", "next", "link", "help"} => p \in Linking,
         SameNodes
  PROVE  PlacesExclude' /\ Chained' /\ ItemsAreKept' /\ ListIsOrder'
<1>1. producer \in [Producers -> ProducerType]
  BY DEF IInv, TypeOK
<1>2. \A q \in Linking' : q \in Linking /\ producer'[q].node = producer[q].node
  BY <1>1 DEF Linking, ProducersAt
<1> QED
  BY <1>2, NodesSame DEF IInv

BeforeLink == {"tail", "next", "link", "help"}
AfterLink == {"move", "grow"}
In(label, labels) == IF label \in labels THEN 1 ELSE 0

LEMMA CountsStep ==
  ASSUME TypeOK, NEW p \in Producers, NEW r, producer' = [producer EXCEPT ![p] = r]
  PROVE  /\ Cardinality(Linking)' =
               Cardinality(Linking) + In(r.at, BeforeLink) - In(producer[p].at, BeforeLink)
         /\ Cardinality(Growing)' =
               Cardinality(Growing) + In(r.at, AfterLink) - In(producer[p].at, AfterLink)
<1>1. \A labels : Cardinality(ProducersAt(labels)') =
         Cardinality(ProducersAt(labels)) + (IF r.at \in labels THEN 1 ELSE 0)
                                          - (IF producer[p].at \in labels THEN 1 ELSE 0)
  BY ProducersStep
<1>2. Linking = ProducersAt(BeforeLink) /\ Growing = ProducersAt(AfterLink)
  BY DEF Linking, Growing, BeforeLink, AfterLink
<1>3. Linking' = ProducersAt(BeforeLink)' /\ Growing' = ProducersAt(AfterLink)'
  BY DEF Linking, Growing, BeforeLink, AfterLink
<1> QED
  BY <1>1, <1>2, <1>3 DEF In

\* Whatever else it does, a producer that stays before or after its link.
LEMMA SizeSame ==
  ASSUME TypeOK, SizeAgrees, NEW p \in Producers, NEW r, producer' = [producer EXCEPT ![p] = r],
         r.at \in BeforeLink <=> producer[p].at \in BeforeLink,
         r.at \in AfterLink <=> producer[p].at \in AfterLink,
         UNCHANGED <<size, free, received, order, consumer>>
  PROVE  SizeAgrees'
<1>1. In(r.at, BeforeLink) = In(producer[p].at, BeforeLink)
  BY DEF In
<1>2. In(r.at, AfterLink) = In(producer[p].at, AfterLink)
  BY DEF In
<1>3. In(producer[p].at, BeforeLink) \in Int /\ In(producer[p].at, AfterLink) \in Int
  BY DEF In
<1>4. Cardinality(Linking)' = Cardinality(Linking) /\ Cardinality(Growing)' = Cardinality(Growing)
  <2>1. /\ Cardinality(Linking)' =
               Cardinality(Linking) + In(r.at, BeforeLink) - In(producer[p].at, BeforeLink)
        /\ Cardinality(Growing)' =
               Cardinality(Growing) + In(r.at, AfterLink) - In(producer[p].at, AfterLink)
    BY CountsStep
  <2>2. Cardinality(Linking) \in Int /\ Cardinality(Growing) \in Int
    BY CountsAreNumbers
  <2>3. PICK i \in Int, j \in Int : /\ i = In(r.at, BeforeLink) /\ i = In(producer[p].at, BeforeLink)
                                   /\ j = In(r.at, AfterLink) /\ j = In(producer[p].at, AfterLink)
    BY <1>1, <1>2, <1>3
  <2> QED
    BY <2>1, <2>2, <2>3
<1> QED
  BY <1>4 DEF SizeAgrees, Promised

-----------------------------------------------------------------------------
(* The steps of a producer that change no node.                              *)

LEMMA ConsumerSame ==
  ASSUME NextIsKnown, TailIsKnown, TypeOK, consumer' = consumer, UNCHANGED <<head, next>>,
         tail' = tail \/ tail'.stamp > tail.stamp, tail' \in [node : Nodes, stamp : Nat]
  PROVE  NextIsKnown' /\ TailIsKnown'
<1>1. NextIsKnown'
  BY DEF NextIsKnown
<1>2. CASE tail' = tail
  BY <1>1, <1>2 DEF TailIsKnown
<1>3. CASE tail'.stamp > tail.stamp
  <2>1. tail.stamp \in Nat /\ tail'.stamp \in Nat /\ consumer.tail.stamp \in Nat
    BY DEF TypeOK, ConsumerType, Link0
  <2> QED
    BY <1>1, <1>3, <2>1 DEF TailIsKnown
<1> QED
  BY <1>2, <1>3

\* A stamp goes up when tail moves.
LEMMA TailMoves ==
  ASSUME NEW seen, NEW n \in Nodes, TypeOK, tail' = TailMoved(seen, n)
  PROVE  /\ tail' \in [node : Nodes, stamp : Nat]
         /\ tail' = tail \/ tail'.stamp > tail.stamp
  BY DEF TypeOK, TailMoved, Pointer

\* Producer p moves on to r, before or after its link as it was.
LEMMA ProducerStays ==
  ASSUME IInv, NEW p \in Producers, NEW r \in ProducerType, producer' = [producer EXCEPT ![p] = r],
         r.node = producer[p].node,
         r.at \in BeforeLink <=> producer[p].at \in BeforeLink,
         SameNodes, consumer' = consumer,
         tail' = tail \/ tail'.stamp > tail.stamp, tail' \in [node : Nodes, stamp : Nat]
  PROVE  PlacesExclude' /\ Chained' /\ ItemsAreKept' /\ ListIsOrder' /\ NextIsKnown' /\ TailIsKnown'
<1>1. r.at \in {"tail", "next", "link", "help"} => p \in Linking
  BY DEF BeforeLink, Linking, ProducersAt
<1>2. PlacesExclude' /\ Chained' /\ ItemsAreKept' /\ ListIsOrder'
  BY <1>1, ProducerMoves
<1>3. NextIsKnown' /\ TailIsKnown'
  BY ConsumerSame DEF IInv, SameNodes
<1> QED
  BY <1>2, <1>3

LEMMA ProducerTyped ==
  ASSUME TypeOK, NEW p \in Producers, NEW r \in ProducerType, producer' = [producer EXCEPT ![p] = r],
         ProducerKnows(r), SameNodes, consumer' = consumer,
         tail' \in [node : Nodes, stamp : Nat], size' \in Int, event' \in BOOLEAN
  PROVE  TypeOK'
<1>1. producer' \in [Producers -> ProducerType]
  BY DEF TypeOK
<1>2. \A q \in Producers : producer'[q] = producer[q] \/ producer'[q] = r
  BY DEF TypeOK
<1>3. \A q \in Producers : ProducerKnows(producer'[q])
  BY <1>2 DEF TypeOK
<1> QED
  BY <1>1, <1>3 DEF TypeOK, SameNodes

LEMMA ReadTailStep == ASSUME IInv, NEW p \in Producers, ReadTail(p) PROVE IInv'
<1>1. PICK r : r = [producer[p] EXCEPT !.at = "next", !.tail = tail]
  OBVIOUS
<1>2. /\ producer[p] \in ProducerType /\ producer \in [Producers -> ProducerType]
      /\ tail \in [node : Nodes, stamp : Nat] /\ next \in [Nodes -> Nodes \union {Null}]
      /\ ProducerKnows(producer[p])
  BY DEF IInv, TypeOK
<1>3. /\ r \in ProducerType /\ ProducerKnows(r)
      /\ r.at = "next" /\ r.node = producer[p].node /\ r.tail = tail
      /\ producer[p].at = "tail" /\ producer' = [producer EXCEPT ![p] = r]
  BY <1>1, <1>2 DEF ReadTail, Goto, ProducerType, Link0, ProducerKnows
<1>4. SameNodes /\ consumer' = consumer
  BY DEF ReadTail, SameNodes
<1>5. tail' \in [node : Nodes, stamp : Nat] /\ (tail' = tail \/ tail'.stamp > tail.stamp)
  BY <1>2 DEF ReadTail
<1>6. TypeOK'
  BY <1>3, <1>4, <1>5, ProducerTyped DEF IInv, TypeOK, ReadTail
<1>7. PlacesExclude' /\ Chained' /\ ItemsAreKept' /\ ListIsOrder' /\ NextIsKnown' /\ TailIsKnown'
  BY <1>3, <1>4, <1>5, ProducerStays DEF BeforeLink
<1>8. SizeAgrees'
  BY <1>3, <1>4, SizeSame DEF IInv, BeforeLink, AfterLink, SameNodes, ReadTail
<1> QED
  BY <1>6, <1>7, <1>8 DEF IInv

LEMMA ReadNextStep == ASSUME IInv, NEW p \in Producers, ReadNext(p) PROVE IInv'
<1>1. PICK r : r = [producer[p] EXCEPT
                       !.at = IF next[producer[p].tail.node] = Null THEN "link" ELSE "help",
                       !.next = next[producer[p].tail.node]]
  OBVIOUS
<1>2. /\ producer[p] \in ProducerType /\ producer \in [Producers -> ProducerType]
      /\ tail \in [node : Nodes, stamp : Nat] /\ next \in [Nodes -> Nodes \union {Null}]
      /\ ProducerKnows(producer[p])
  BY DEF IInv, TypeOK
<1>3. /\ r \in ProducerType /\ ProducerKnows(r)
      /\ r.at \in {"link", "help"} /\ r.node = producer[p].node /\ r.tail = producer[p].tail
      /\ r.at = "help" => r.next # Null
      /\ producer[p].at = "next" /\ producer' = [producer EXCEPT ![p] = r]
  BY <1>1, <1>2 DEF ReadNext, Goto, ProducerType, Link0, ProducerKnows
<1>4. SameNodes /\ consumer' = consumer
  BY DEF ReadNext, SameNodes
<1>5. tail' \in [node : Nodes, stamp : Nat] /\ (tail' = tail \/ tail'.stamp > tail.stamp)
  BY <1>2 DEF ReadNext
<1>6. TypeOK'
  BY <1>3, <1>4, <1>5, ProducerTyped DEF IInv, TypeOK, ReadNext
<1>7. PlacesExclude' /\ Chained' /\ ItemsAreKept' /\ ListIsOrder' /\ NextIsKnown' /\ TailIsKnown'
  BY <1>3, <1>4, <1>5, ProducerStays DEF BeforeLink
<1>8. SizeAgrees'
  BY <1>3, <1>4, SizeSame DEF IInv, BeforeLink, AfterLink, SameNodes, ReadNext
<1> QED
  BY <1>6, <1>7, <1>8 DEF IInv

LEMMA MoveTailStep == ASSUME IInv, NEW p \in Producers, MoveTail(p) PROVE IInv'
<1>1. PICK r : r = [producer[p] EXCEPT !.at = "grow"]
  OBVIOUS
<1>2. /\ producer[p] \in ProducerType /\ producer \in [Producers -> ProducerType]
      /\ tail \in [node : Nodes, stamp : Nat] /\ next \in [Nodes -> Nodes \union {Null}]
      /\ ProducerKnows(producer[p])
  BY DEF IInv, TypeOK
<1>3. /\ r \in ProducerType /\ ProducerKnows(r)
      /\ r.at = "grow" /\ r.node = producer[p].node
      /\ producer[p].at = "move" /\ producer' = [producer EXCEPT ![p] = r]
  BY <1>1, <1>2 DEF MoveTail, Goto, ProducerType, Link0, ProducerKnows
<1>4. SameNodes /\ consumer' = consumer
  BY DEF MoveTail, SameNodes
<1>5. tail' \in [node : Nodes, stamp : Nat] /\ (tail' = tail \/ tail'.stamp > tail.stamp)
  <2>1. producer[p].node \in Nodes /\ tail' = TailMoved(producer[p].tail, producer[p].node)
    BY <1>2, <1>3 DEF ProducerKnows, MoveTail
  <2> QED
    BY <2>1, TailMoves DEF IInv
<1>6. TypeOK'
  BY <1>3, <1>4, <1>5, ProducerTyped DEF IInv, TypeOK, MoveTail
<1>7. PlacesExclude' /\ Chained' /\ ItemsAreKept' /\ ListIsOrder' /\ NextIsKnown' /\ TailIsKnown'
  BY <1>3, <1>4, <1>5, ProducerStays DEF BeforeLink
<1>8. SizeAgrees'
  BY <1>3, <1>4, SizeSame DEF IInv, BeforeLink, AfterLink, SameNodes, MoveTail
<1> QED
  BY <1>6, <1>7, <1>8 DEF IInv

LEMMA HelpTailStep == ASSUME IInv, NEW p \in Producers, HelpTail(p) PROVE IInv'
<1>1. PICK r : r = [producer[p] EXCEPT !.at = "tail"]
  OBVIOUS
<1>2. /\ producer[p] \in ProducerType /\ producer \in [Producers -> ProducerType]
      /\ tail \in [node : Nodes, stamp : Nat] /\ next \in [Nodes -> Nodes \union {Null}]
      /\ ProducerKnows(producer[p])
  BY DEF IInv, TypeOK
<1>3. /\ r \in ProducerType /\ ProducerKnows(r)
      /\ r.at = "tail" /\ r.node = producer[p].node
      /\ producer[p].at = "help" /\ producer' = [producer EXCEPT ![p] = r]
  BY <1>1, <1>2 DEF HelpTail, Goto, ProducerType, Link0, ProducerKnows
<1>4. SameNodes /\ consumer' = consumer
  BY DEF HelpTail, SameNodes
<1>5. tail' \in [node : Nodes, stamp : Nat] /\ (tail' = tail \/ tail'.stamp > tail.stamp)
  <2>1. producer[p].next \in Nodes /\ tail' = TailMoved(producer[p].tail, producer[p].next)
    BY <1>2, <1>3 DEF ProducerKnows, ProducerType, HelpTail
  <2> QED
    BY <2>1, TailMoves DEF IInv
<1>6. TypeOK'
  BY <1>3, <1>4, <1>5, ProducerTyped DEF IInv, TypeOK, HelpTail
<1>7. PlacesExclude' /\ Chained' /\ ItemsAreKept' /\ ListIsOrder' /\ NextIsKnown' /\ TailIsKnown'
  BY <1>3, <1>4, <1>5, ProducerStays DEF BeforeLink
<1>8. SizeAgrees'
  BY <1>3, <1>4, SizeSame DEF IInv, BeforeLink, AfterLink, SameNodes, HelpTail
<1> QED
  BY <1>6, <1>7, <1>8 DEF IInv

LEMMA GrowStep == ASSUME IInv, NEW p \in Producers, Grow(p) PROVE IInv'
<1>1. PICK r : r = [producer[p] EXCEPT !.at = "signal"]
  OBVIOUS
<1>2. /\ producer[p] \in ProducerType /\ producer \in [Producers -> ProducerType]
      /\ tail \in [node : Nodes, stamp : Nat] /\ next \in [Nodes -> Nodes \union {Null}]
      /\ ProducerKnows(producer[p])
  BY DEF IInv, TypeOK
<1>3. /\ r \in ProducerType /\ ProducerKnows(r)
      /\ r.at = "signal" /\ r.node = producer[p].node
      /\ producer[p].at = "grow" /\ producer' = [producer EXCEPT ![p] = r]
  BY <1>1, <1>2 DEF Grow, Goto, ProducerType, Link0, ProducerKnows
<1>4. SameNodes /\ consumer' = consumer
  BY DEF Grow, SameNodes
<1>5. tail' \in [node : Nodes, stamp : Nat] /\ (tail' = tail \/ tail'.stamp > tail.stamp)
  BY <1>2 DEF Grow
<1>6. TypeOK'
  BY <1>3, <1>4, <1>5, ProducerTyped DEF IInv, TypeOK, Grow
<1>7. PlacesExclude' /\ Chained' /\ ItemsAreKept' /\ ListIsOrder' /\ NextIsKnown' /\ TailIsKnown'
  BY <1>3, <1>4, <1>5, ProducerStays DEF BeforeLink
<1>8. SizeAgrees'
  <2>1. /\ Cardinality(Growing)' = Cardinality(Growing) - 1
        /\ Cardinality(Linking)' = Cardinality(Linking)
    <3>1. /\ In(r.at, BeforeLink) = 0 /\ In(producer[p].at, BeforeLink) = 0
          /\ In(r.at, AfterLink) = 0 /\ In(producer[p].at, AfterLink) = 1
      BY <1>3 DEF In, BeforeLink, AfterLink
    <3>2. /\ Cardinality(Linking)' =
                 Cardinality(Linking) + In(r.at, BeforeLink) - In(producer[p].at, BeforeLink)
          /\ Cardinality(Growing)' =
                 Cardinality(Growing) + In(r.at, AfterLink) - In(producer[p].at, AfterLink)
      BY <1>3, CountsStep DEF IInv
    <3> QED
      BY <3>1, <3>2, CountsAreNumbers DEF IInv
  <2>2. size' = size + 1 /\ Promised' = Promised /\ UNCHANGED <<free, order, received>>
    BY <1>4 DEF Grow, Promised, SameNodes
  <2>3. consumer' = consumer /\ SizeAgrees
    BY <1>4 DEF IInv
  <2>4. size \in Int /\ Promised \in Int /\ Cardinality(Growing) \in Int /\ Len(received) \in Int
    BY CountsAreNumbers DEF IInv
  <2> QED
    BY <2>1, <2>2, <2>3, <2>4 DEF SizeAgrees
<1> QED
  BY <1>6, <1>7, <1>8 DEF IInv

LEMMA SignalStep == ASSUME IInv, NEW p \in Producers, Signal(p) PROVE IInv'
<1>1. Out \in ProducerType /\ ProducerKnows(Out) /\ Out.at = "out"
  BY DEF Out, ProducerType, ProducerKnows, Link0, Pointer, Null
<1>2. producer' = [producer EXCEPT ![p] = Out] /\ producer[p].at = "signal"
  BY DEF Signal
<1>3. SameNodes /\ consumer' = consumer /\ tail' = tail /\ size' = size /\ event' = TRUE
  BY DEF Signal, SameNodes
<1>4. tail' \in [node : Nodes, stamp : Nat]
  BY <1>3 DEF IInv, TypeOK
<1>5. TypeOK'
  <2>1. size' \in Int /\ event' \in BOOLEAN
    BY <1>3 DEF IInv, TypeOK
  <2> QED
    BY <1>1, <1>2, <1>3, <1>4, <2>1, ProducerTyped DEF IInv
<1>6. PlacesExclude' /\ Chained' /\ ItemsAreKept' /\ ListIsOrder'
  <2>1. \A q \in Linking' : q \in Linking /\ producer'[q].node = producer[q].node
    BY <1>1, <1>2 DEF IInv, TypeOK, Linking, ProducersAt
  <2> QED
    BY <1>3, <2>1, NodesSame DEF IInv
<1>7. NextIsKnown' /\ TailIsKnown'
  BY <1>3, <1>4, ConsumerSame DEF IInv, SameNodes
<1>8. SizeAgrees'
  BY <1>1, <1>2, <1>3, SizeSame DEF IInv, BeforeLink, AfterLink, SameNodes
<1> QED
  BY <1>5, <1>6, <1>7, <1>8 DEF IInv

-----------------------------------------------------------------------------
(* The steps of the consumer that change no node.                            *)

LEMMA ConsumerMoves ==
  ASSUME IInv, producer' = producer, SameNodes,
         consumer' \in ConsumerType,
         consumer'.at \in {"tailNext", "compare", "push"} => consumer'.tail.node \in Nodes,
         tail' \in [node : Nodes, stamp : Nat], size' \in Int, event' \in BOOLEAN,
         size' + Promised' = size + Promised,
         size' >= IF consumer'.at = "empty" THEN -1 ELSE 0
  PROVE  /\ TypeOK' /\ SizeAgrees'
         /\ PlacesExclude' /\ Chained' /\ ItemsAreKept' /\ ListIsOrder'
<1>1. TypeOK'
  BY DEF IInv, TypeOK, SameNodes
<1>2. Linking' = Linking /\ Growing' = Growing
  BY DEF Linking, Growing, ProducersAt
<1>3. PlacesExclude' /\ Chained' /\ ItemsAreKept' /\ ListIsOrder'
  BY <1>2, NodesSame DEF IInv
<1>4. SizeAgrees'
  <2>1. PICK g : g = Cardinality(Growing)
    OBVIOUS
  <2>2. /\ g \in Int /\ Len(received) \in Int
        /\ size \in Int /\ size' \in Int /\ Promised \in Int /\ Promised' \in Int
    BY <1>1, <2>1, CountsAreNumbers DEF IInv, Promised
  <2>3. Len(order) = Len(received) + size + Promised + g
    BY <2>1 DEF IInv, SizeAgrees
  <2>4. PICK l, r, x, y, a, b : /\ l = Len(order) /\ r = Len(received) /\ x = size /\ y = size'
                                /\ a = Promised /\ b = Promised'
    OBVIOUS
  <2>5. /\ r \in Int /\ x \in Int /\ y \in Int /\ a \in Int /\ b \in Int /\ g \in Int
        /\ y + b = x + a /\ l = r + x + a + g
    BY <2>2, <2>3, <2>4
  <2>6. l = r + y + b + g
    BY <2>5
  <2> QED
    BY <1>2, <2>1, <2>4, <2>6 DEF IInv, SizeAgrees, SameNodes
<1> QED
  BY <1>1, <1>3, <1>4

LEMMA WaitStep == ASSUME IInv, Wait PROVE IInv'
<1>1. PICK c : c = Idle
  OBVIOUS
<1>2. /\ consumer \in ConsumerType /\ next \in [Nodes -> Nodes \union {Null}] /\ size \in Int
      /\ head \in [node : Nodes, stamp : Nat] /\ tail \in [node : Nodes, stamp : Nat]
      /\ consumer.at \in {"tailNext", "compare", "push"} => consumer.tail.node \in Nodes
      /\ NextIsKnown /\ TailIsKnown /\ SizeAgrees
  BY DEF IInv, TypeOK
<1>3. /\ consumer' = c /\ c \in ConsumerType
      /\ c.at = "out" /\ consumer.at = "wait"
      /\ c.at \in {"tailNext", "compare", "push"} => c.tail.node \in Nodes
  BY <1>1, <1>2 DEF Wait, ConsumerType, Link0, Idle, Pointer, Null
<1>4. producer' = producer /\ SameNodes
  BY DEF Wait, SameNodes
<1>5. tail' \in [node : Nodes, stamp : Nat]
  BY DEF Wait, IInv, TypeOK
<1>6. /\ size' \in Int /\ event' \in BOOLEAN
      /\ size' + Promised' = size + Promised
      /\ size' >= IF consumer'.at = "empty" THEN -1 ELSE 0
  BY <1>2, <1>3 DEF Wait, SizeAgrees, Promised, IInv, TypeOK
<1>7. /\ TypeOK' /\ SizeAgrees' /\ PlacesExclude' /\ Chained' /\ ItemsAreKept' /\ ListIsOrder'
  BY <1>3, <1>4, <1>5, <1>6, ConsumerMoves
<1>8. NextIsKnown'
  BY <1>2, <1>3, <1>4 DEF NextIsKnown, SameNodes
<1>9. TailIsKnown'
  BY <1>2, <1>3, <1>4 DEF TailIsKnown, SameNodes
<1> QED
  BY <1>7, <1>8, <1>9 DEF IInv

LEMMA ShrinkStep == ASSUME IInv, Shrink PROVE IInv'
<1>1. PICK c : c = [consumer EXCEPT !.at = IF SizeIsEmpty(size - 1) THEN "empty" ELSE "next"]
  OBVIOUS
<1>2. /\ consumer \in ConsumerType /\ next \in [Nodes -> Nodes \union {Null}] /\ size \in Int
      /\ head \in [node : Nodes, stamp : Nat] /\ tail \in [node : Nodes, stamp : Nat]
      /\ consumer.at \in {"tailNext", "compare", "push"} => consumer.tail.node \in Nodes
      /\ NextIsKnown /\ TailIsKnown /\ SizeAgrees
  BY DEF IInv, TypeOK
<1>3. /\ consumer' = c /\ c \in ConsumerType
      /\ c.at = (IF SizeIsEmpty(size - 1) THEN "empty" ELSE "next") /\ consumer.at = "out"
      /\ size' = size - 1
      /\ c.at \in {"tailNext", "compare", "push"} => c.tail.node \in Nodes
  BY <1>1, <1>2 DEF Shrink, ConsumerType, Link0, Idle, Pointer, Null
<1>4. producer' = producer /\ SameNodes
  BY DEF Shrink, SameNodes
<1>5. tail' \in [node : Nodes, stamp : Nat]
  BY DEF Shrink, IInv, TypeOK
<1>6. /\ size' \in Int /\ event' \in BOOLEAN
      /\ size' + Promised' = size + Promised
      /\ size' >= IF consumer'.at = "empty" THEN -1 ELSE 0
  <2>1. size >= 0 /\ Promised = 0
    BY <1>2, <1>3 DEF SizeAgrees, Promised
  <2>2. SizeIsEmpty(size - 1) <=> size - 1 < 0
    BY DEF SizeIsEmpty
  <2>3. c.at \in {"empty", "next"} /\ (c.at = "empty" <=> size - 1 < 0)
    BY <1>3, <2>2
  <2>4. Promised' = 1
    BY <1>3, <2>3 DEF Promised
  <2>5. event' \in BOOLEAN
    BY DEF Shrink, IInv, TypeOK
  <2> QED
    BY <1>2, <1>3, <2>1, <2>3, <2>4, <2>5
<1>7. /\ TypeOK' /\ SizeAgrees' /\ PlacesExclude' /\ Chained' /\ ItemsAreKept' /\ ListIsOrder'
  BY <1>3, <1>4, <1>5, <1>6, ConsumerMoves
<1>8. NextIsKnown'
  BY <1>2, <1>3, <1>4 DEF NextIsKnown, SameNodes
<1>9. TailIsKnown'
  BY <1>2, <1>3, <1>4 DEF TailIsKnown, SameNodes
<1> QED
  BY <1>7, <1>8, <1>9 DEF IInv

LEMMA EmptyStep == ASSUME IInv, Empty PROVE IInv'
<1>1. PICK c : c = [consumer EXCEPT !.at = "wait"]
  OBVIOUS
<1>2. /\ consumer \in ConsumerType /\ next \in [Nodes -> Nodes \union {Null}] /\ size \in Int
      /\ head \in [node : Nodes, stamp : Nat] /\ tail \in [node : Nodes, stamp : Nat]
      /\ consumer.at \in {"tailNext", "compare", "push"} => consumer.tail.node \in Nodes
      /\ NextIsKnown /\ TailIsKnown /\ SizeAgrees
  BY DEF IInv, TypeOK
<1>3. /\ consumer' = c /\ c \in ConsumerType
      /\ c.at = "wait" /\ consumer.at = "empty"
      /\ c.at \in {"tailNext", "compare", "push"} => c.tail.node \in Nodes
  BY <1>1, <1>2 DEF Empty, ConsumerType, Link0, Idle, Pointer, Null
<1>4. producer' = producer /\ SameNodes
  BY DEF Empty, SameNodes
<1>5. tail' \in [node : Nodes, stamp : Nat]
  BY DEF Empty, IInv, TypeOK
<1>6. /\ size' \in Int /\ event' \in BOOLEAN
      /\ size' + Promised' = size + Promised
      /\ size' >= IF consumer'.at = "empty" THEN -1 ELSE 0
  BY <1>2, <1>3 DEF Empty, SizeAgrees, Promised, IInv, TypeOK, EmptySize
<1>7. /\ TypeOK' /\ SizeAgrees' /\ PlacesExclude' /\ Chained' /\ ItemsAreKept' /\ ListIsOrder'
  BY <1>3, <1>4, <1>5, <1>6, ConsumerMoves
<1>8. NextIsKnown'
  BY <1>2, <1>3, <1>4 DEF NextIsKnown, SameNodes
<1>9. TailIsKnown'
  BY <1>2, <1>3, <1>4 DEF TailIsKnown, SameNodes
<1> QED
  BY <1>7, <1>8, <1>9 DEF IInv

LEMMA ReadHeadNextStep == ASSUME IInv, ReadHeadNext PROVE IInv'
<1>1. PICK c : c = [consumer EXCEPT !.at = "tail", !.next = next[head.node]]
  OBVIOUS
<1>2. /\ consumer \in ConsumerType /\ next \in [Nodes -> Nodes \union {Null}] /\ size \in Int
      /\ head \in [node : Nodes, stamp : Nat] /\ tail \in [node : Nodes, stamp : Nat]
      /\ consumer.at \in {"tailNext", "compare", "push"} => consumer.tail.node \in Nodes
      /\ NextIsKnown /\ TailIsKnown /\ SizeAgrees
  BY DEF IInv, TypeOK
<1>3. /\ consumer' = c /\ c \in ConsumerType
      /\ c.at = "tail" /\ consumer.at = "next" /\ c.next = next[head.node]
      /\ c.at \in {"tailNext", "compare", "push"} => c.tail.node \in Nodes
  BY <1>1, <1>2 DEF ReadHeadNext, ConsumerType, Link0, Idle, Pointer, Null
<1>4. producer' = producer /\ SameNodes
  BY DEF ReadHeadNext, SameNodes
<1>5. tail' \in [node : Nodes, stamp : Nat]
  BY DEF ReadHeadNext, IInv, TypeOK
<1>6. /\ size' \in Int /\ event' \in BOOLEAN
      /\ size' + Promised' = size + Promised
      /\ size' >= IF consumer'.at = "empty" THEN -1 ELSE 0
  BY <1>2, <1>3 DEF ReadHeadNext, SizeAgrees, Promised, IInv, TypeOK
<1>7. /\ TypeOK' /\ SizeAgrees' /\ PlacesExclude' /\ Chained' /\ ItemsAreKept' /\ ListIsOrder'
  BY <1>3, <1>4, <1>5, <1>6, ConsumerMoves
<1>8. NextIsKnown'
  BY <1>2, <1>3, <1>4 DEF NextIsKnown, SameNodes
<1>9. TailIsKnown'
  BY <1>2, <1>3, <1>4 DEF TailIsKnown, SameNodes
<1> QED
  BY <1>7, <1>8, <1>9 DEF IInv

LEMMA ReadLastStep == ASSUME IInv, ReadLast PROVE IInv'
<1>1. PICK c : c = [consumer EXCEPT !.at = "tailNext", !.tail = tail]
  OBVIOUS
<1>2. /\ consumer \in ConsumerType /\ next \in [Nodes -> Nodes \union {Null}] /\ size \in Int
      /\ head \in [node : Nodes, stamp : Nat] /\ tail \in [node : Nodes, stamp : Nat]
      /\ consumer.at \in {"tailNext", "compare", "push"} => consumer.tail.node \in Nodes
      /\ NextIsKnown /\ TailIsKnown /\ SizeAgrees
  BY DEF IInv, TypeOK
<1>3. /\ consumer' = c /\ c \in ConsumerType
      /\ c.at = "tailNext" /\ consumer.at = "tail" /\ c.next = consumer.next /\ c.tail = tail
      /\ tail' = tail
      /\ c.at \in {"tailNext", "compare", "push"} => c.tail.node \in Nodes
  BY <1>1, <1>2 DEF ReadLast, ConsumerType, Link0, Idle, Pointer, Null
<1>4. producer' = producer /\ SameNodes
  BY DEF ReadLast, SameNodes
<1>5. tail' \in [node : Nodes, stamp : Nat]
  BY DEF ReadLast, IInv, TypeOK
<1>6. /\ size' \in Int /\ event' \in BOOLEAN
      /\ size' + Promised' = size + Promised
      /\ size' >= IF consumer'.at = "empty" THEN -1 ELSE 0
  BY <1>2, <1>3 DEF ReadLast, SizeAgrees, Promised, IInv, TypeOK
<1>7. /\ TypeOK' /\ SizeAgrees' /\ PlacesExclude' /\ Chained' /\ ItemsAreKept' /\ ListIsOrder'
  BY <1>3, <1>4, <1>5, <1>6, ConsumerMoves
<1>8. NextIsKnown'
  BY <1>2, <1>3, <1>4 DEF NextIsKnown, SameNodes
<1>9. TailIsKnown'
  BY <1>2, <1>3, <1>4 DEF TailIsKnown, SameNodes
<1> QED
  BY <1>7, <1>8, <1>9 DEF IInv

LEMMA ReadTailNextStep == ASSUME IInv, ReadTailNext PROVE IInv'
<1>1. PICK c : c = IF consumer.next = Null THEN [Idle EXCEPT !.at = "next"]
                ELSE [consumer EXCEPT !.at = "compare", !.tailNext = next[consumer.tail.node]]
  OBVIOUS
<1>2. /\ consumer \in ConsumerType /\ next \in [Nodes -> Nodes \union {Null}] /\ size \in Int
      /\ head \in [node : Nodes, stamp : Nat] /\ tail \in [node : Nodes, stamp : Nat]
      /\ consumer.at \in {"tailNext", "compare", "push"} => consumer.tail.node \in Nodes
      /\ NextIsKnown /\ TailIsKnown /\ SizeAgrees
  BY DEF IInv, TypeOK
<1>3. /\ consumer' = c /\ c \in ConsumerType
      /\ consumer.at = "tailNext" /\ tail' = tail
      /\ \/ c.at = "next" /\ consumer.next = Null
         \/ /\ c.at = "compare" /\ consumer.next # Null /\ c.next = consumer.next
            /\ c.tail = consumer.tail /\ c.tailNext = next[consumer.tail.node]
      /\ c.at \in {"tailNext", "compare", "push"} => c.tail.node \in Nodes
  BY <1>1, <1>2 DEF ReadTailNext, ConsumerType, Link0, Idle, Pointer, Null
<1>4. producer' = producer /\ SameNodes
  BY DEF ReadTailNext, SameNodes
<1>5. tail' \in [node : Nodes, stamp : Nat]
  BY DEF ReadTailNext, IInv, TypeOK
<1>6. /\ size' \in Int /\ event' \in BOOLEAN
      /\ size' + Promised' = size + Promised
      /\ size' >= IF consumer'.at = "empty" THEN -1 ELSE 0
  BY <1>2, <1>3 DEF ReadTailNext, SizeAgrees, Promised, IInv, TypeOK
<1>7. /\ TypeOK' /\ SizeAgrees' /\ PlacesExclude' /\ Chained' /\ ItemsAreKept' /\ ListIsOrder'
  BY <1>3, <1>4, <1>5, <1>6, ConsumerMoves
<1>8. NextIsKnown'
  BY <1>2, <1>3, <1>4 DEF NextIsKnown, SameNodes
<1>9. TailIsKnown'
  BY <1>2, <1>3, <1>4 DEF TailIsKnown, NextIsKnown, SameNodes
<1> QED
  BY <1>7, <1>8, <1>9 DEF IInv

LEMMA CompareStep == ASSUME IInv, Compare PROVE IInv'
<1>1. PICK c : c = [consumer EXCEPT !.at = IF TailInTheWay THEN "push" ELSE "take"]
  OBVIOUS
<1>2. /\ consumer \in ConsumerType /\ next \in [Nodes -> Nodes \union {Null}] /\ size \in Int
      /\ head \in [node : Nodes, stamp : Nat] /\ tail \in [node : Nodes, stamp : Nat]
      /\ consumer.at \in {"tailNext", "compare", "push"} => consumer.tail.node \in Nodes
      /\ NextIsKnown /\ TailIsKnown /\ SizeAgrees
  BY DEF IInv, TypeOK
<1>3. /\ consumer' = c /\ c \in ConsumerType
      /\ consumer.at = "compare" /\ tail' = tail
      /\ c.at = (IF TailInTheWay THEN "push" ELSE "take") /\ c.next = consumer.next
      /\ c.tail = consumer.tail /\ c.tailNext = consumer.tailNext
      /\ c.at \in {"tailNext", "compare", "push"} => c.tail.node \in Nodes
  BY <1>1, <1>2 DEF Compare, ConsumerType, Link0, Idle, Pointer, Null
<1>4. producer' = producer /\ SameNodes
  BY DEF Compare, SameNodes
<1>5. tail' \in [node : Nodes, stamp : Nat]
  BY DEF Compare, IInv, TypeOK
<1>6. /\ size' \in Int /\ event' \in BOOLEAN
      /\ size' + Promised' = size + Promised
      /\ size' >= IF consumer'.at = "empty" THEN -1 ELSE 0
  BY <1>2, <1>3 DEF Compare, SizeAgrees, Promised, IInv, TypeOK
<1>7. /\ TypeOK' /\ SizeAgrees' /\ PlacesExclude' /\ Chained' /\ ItemsAreKept' /\ ListIsOrder'
  BY <1>3, <1>4, <1>5, <1>6, ConsumerMoves
<1>8. NextIsKnown'
  BY <1>2, <1>3, <1>4 DEF NextIsKnown, SameNodes
<1>9. TailIsKnown'
  <2>1. /\ consumer.tail.stamp <= tail.stamp
        /\ consumer.tail.stamp = tail.stamp => consumer.tail = tail
        /\ consumer.tail.node = head.node => consumer.tailNext = consumer.next
    BY <1>2, <1>3 DEF TailIsKnown
  <2>2. c.at = "push" => head = tail
    BY <1>3 DEF TailInTheWay
  <2>3. /\ c.at \in {"push", "take"} /\ consumer' = c /\ tail' = tail /\ head' = head
        /\ c.next = consumer.next /\ c.tail = consumer.tail /\ c.tailNext = consumer.tailNext
    BY <1>3, <1>4 DEF SameNodes
  <2>4. c.at = "push" /\ c.tail.stamp = tail.stamp => c.tail.node = head.node
    BY <2>1, <2>2, <2>3
  <2> QED
    BY <2>1, <2>3, <2>4 DEF TailIsKnown
<1> QED
  BY <1>7, <1>8, <1>9 DEF IInv

LEMMA PushTailStep == ASSUME IInv, PushTail PROVE IInv'
<1>1. PICK c : c = [consumer EXCEPT !.at = "take"]
  OBVIOUS
<1>2. /\ consumer \in ConsumerType /\ next \in [Nodes -> Nodes \union {Null}] /\ size \in Int
      /\ head \in [node : Nodes, stamp : Nat] /\ tail \in [node : Nodes, stamp : Nat]
      /\ consumer.at \in {"tailNext", "compare", "push"} => consumer.tail.node \in Nodes
      /\ NextIsKnown /\ TailIsKnown /\ SizeAgrees
  BY DEF IInv, TypeOK
<1>3. /\ consumer' = c /\ c \in ConsumerType
      /\ consumer.at = "push" /\ c.at = "take" /\ c.next = consumer.next
      /\ c.at \in {"tailNext", "compare", "push"} => c.tail.node \in Nodes
  BY <1>1, <1>2 DEF PushTail, ConsumerType, Link0, Idle, Pointer, Null
<1>4. producer' = producer /\ SameNodes
  BY DEF PushTail, SameNodes
<1>5. tail' \in [node : Nodes, stamp : Nat]
  <2>1. CASE tail = consumer.tail
    <3>1. consumer.tailNext \in Nodes
      BY <1>2, <1>3, <2>1 DEF TailIsKnown, NextIsKnown, ConsumerType
    <3>2. tail' = TailMoved(consumer.tail, consumer.tailNext)
      BY DEF PushTail
    <3> QED
      BY <3>1, <3>2, TailMoves DEF IInv
  <2>2. CASE tail # consumer.tail
    BY <1>2, <2>2 DEF PushTail, TailMoved
  <2> QED
    BY <2>1, <2>2
<1>6. /\ size' \in Int /\ event' \in BOOLEAN
      /\ size' + Promised' = size + Promised
      /\ size' >= IF consumer'.at = "empty" THEN -1 ELSE 0
  BY <1>2, <1>3 DEF PushTail, SizeAgrees, Promised, IInv, TypeOK
<1>7. /\ TypeOK' /\ SizeAgrees' /\ PlacesExclude' /\ Chained' /\ ItemsAreKept' /\ ListIsOrder'
  BY <1>3, <1>4, <1>5, <1>6, ConsumerMoves
<1>8. NextIsKnown'
  BY <1>2, <1>3, <1>4 DEF NextIsKnown, SameNodes
<1>9. TailIsKnown'
  BY <1>2, <1>3, <1>4 DEF TailIsKnown, SameNodes
<1> QED
  BY <1>7, <1>8, <1>9 DEF IInv

-----------------------------------------------------------------------------
(* A node leaves the free list.                                              *)

LEMMA FreeTaken ==
  ASSUME TypeOK, PlacesExclude, free # <<>>, NEW n, n = Head(free), free' = Tail(free)
  PROVE  /\ n \in Nodes /\ n \notin Used
         /\ free' \in Seq(Nodes) /\ Len(free') = Len(free) - 1
         /\ Range(free') = Range(free) \ {n}
         /\ \A i, j \in DOMAIN free' : free'[i] = free'[j] => i = j
<1>1. /\ free \in Seq(Nodes) /\ Len(free) \in Nat \ {0} /\ DOMAIN free = 1 .. Len(free)
      /\ \A i \in 1 .. Len(free) : free[i] \in Nodes
  BY DEF TypeOK
<1>2. /\ free' \in Seq(Nodes) /\ Len(free') = Len(free) - 1 /\ DOMAIN free' = 1 .. Len(free) - 1
      /\ \A i \in 1 .. Len(free) - 1 : free'[i] = free[i + 1]
      /\ n = free[1]
  BY <1>1
<1>3. \A i, j \in 1 .. Len(free) : free[i] = free[j] => i = j
  BY <1>1 DEF PlacesExclude
<1>4. \A i, j \in DOMAIN free' : free'[i] = free'[j] => i = j
  BY <1>1, <1>2, <1>3
<1>5. Range(free') = Range(free) \ {n}
  <2>1. ASSUME NEW i \in 1 .. Len(free) - 1 PROVE free'[i] \in Range(free) \ {n}
    <3>1. i + 1 \in 1 .. Len(free) /\ 1 \in 1 .. Len(free) /\ i + 1 # 1
      BY <1>1
    <3> QED
      BY <1>1, <1>2, <1>3, <3>1 DEF Range
  <2>2. ASSUME NEW i \in 1 .. Len(free), free[i] # n PROVE free[i] \in Range(free')
    <3>1. i - 1 \in 1 .. Len(free) - 1 /\ free'[i - 1] = free[i]
      BY <1>1, <1>2, <2>2
    <3> QED
      BY <1>2, <3>1 DEF Range
  <2> QED
    BY <1>1, <1>2, <2>1, <2>2 DEF Range
<1>6. n \in Nodes /\ n \notin Used
  BY <1>1, <1>2 DEF Used, Range
<1> QED
  BY <1>2, <1>4, <1>5, <1>6

LEMMA NewNodeStep == ASSUME IInv, NEW p \in Producers, NewNode(p) PROVE IInv'
<1>1. PICK n : n = Head(free)
  OBVIOUS
<1>2. PICK k : k = sent[p] + 1
  OBVIOUS
<1>3. PICK r : r = [producer[p] EXCEPT !.at = "tail", !.node = n]
  OBVIOUS
<1>0. TypeOK /\ PlacesExclude /\ Chained /\ ItemsAreKept /\ ListIsOrder
  BY DEF IInv
<1>4. /\ n \in Nodes /\ n \notin Used
      /\ free' \in Seq(Nodes) /\ Len(free') = Len(free) - 1
      /\ Range(free') = Range(free) \ {n}
      /\ \A i, j \in DOMAIN free' : free'[i] = free'[j] => i = j
  BY <1>1, <1>0, FreeTaken DEF NewNode
<1>5. /\ producer[p] \in ProducerType /\ producer \in [Producers -> ProducerType]
      /\ next \in [Nodes -> Nodes \union {Null}] /\ data \in [Nodes -> Item \union {NoItem}]
      /\ sent \in [Producers -> 0 .. Items] /\ sent[p] \in Nat
  BY <1>0 DEF TypeOK
<1>6. /\ r \in ProducerType /\ r.at = "tail" /\ r.node = n /\ producer[p].at = "out"
      /\ producer' = [producer EXCEPT ![p] = r]
      /\ k \in 1 .. Items /\ sent' = [sent EXCEPT ![p] = k]
      /\ next' = [next EXCEPT ![n] = Null] /\ data' = [data EXCEPT ![n] = <<p, k>>]
      /\ UNCHANGED <<head, tail, size, event, consumer, received, order, stale>>
  <2>1. r \in ProducerType /\ r.at = "tail" /\ r.node = n
    BY <1>3, <1>4, <1>5 DEF ProducerType
  <2>2. k \in 1 .. Items
    BY <1>2, <1>5, QueueAssumption DEF NewNode
  <2>3. sent' = [sent EXCEPT ![p] = k] /\ sent'[p] = k
    BY <1>2, <1>5 DEF NewNode
  <2> QED
    BY <1>1, <1>3, <2>1, <2>2, <2>3 DEF NewNode
<1>7. <<p, k>> \in Item /\ <<p, k>>[1] = p /\ <<p, k>>[2] = k
  BY <1>6 DEF Item
<1>8. Used' = Used \union {n} /\ Full' = Full \union {n} /\ head.node # n
  <2>1. head.node \in Used /\ head' = head
    BY <1>0, <1>6 DEF PlacesExclude
  <2>2. Used' = Used \union {n}
    BY <1>4 DEF Used
  <2> QED
    BY <1>4, <2>1, <2>2 DEF Full
<1>9. /\ \A m \in Used : m # n /\ next'[m] = next[m] /\ data'[m] = data[m]
      /\ next'[n] = Null /\ data'[n] = <<p, k>>
  BY <1>4, <1>5, <1>6 DEF Used
<1>10. /\ Linking' = Linking \union {p} /\ p \notin Linking
       /\ \A q \in Linking : q # p /\ producer'[q].node = producer[q].node
       /\ producer'[p].node = n
  BY <1>5, <1>6 DEF Linking, ProducersAt
<1>11. TypeOK'
  <2>1. \A q \in Producers : ProducerKnows(producer'[q])
    <3>1. ProducerKnows(r)
      BY <1>4, <1>6 DEF ProducerKnows
    <3> QED
      BY <1>5, <1>6, <1>0, <3>1 DEF TypeOK
  <2>2. producer' \in [Producers -> ProducerType] /\ sent' \in [Producers -> 0 .. Items]
    BY <1>5, <1>6
  <2>3. next' \in [Nodes -> Nodes \union {Null}] /\ data' \in [Nodes -> Item \union {NoItem}]
    BY <1>4, <1>5, <1>6, <1>7
  <2> QED
    BY <1>4, <1>6, <1>0, <2>1, <2>2, <2>3 DEF TypeOK
<1>12. PlacesExclude'
  <2>1. \A q \in Linking : producer[q].node \in Full /\ producer[q].node # n
    BY <1>0, <1>4 DEF PlacesExclude, Full
  <2>2. head'.node \in Used'
    BY <1>0, <1>6, <1>8 DEF PlacesExclude
  <2>3. \A q \in Linking' : producer'[q].node \in Full'
    BY <1>8, <1>10, <2>1
  <2>4. \A q, s \in Linking' : producer'[q].node = producer'[s].node => q = s
    BY <1>0, <1>10, <2>1 DEF PlacesExclude
  <2> QED
    BY <1>4, <2>2, <2>3, <2>4 DEF PlacesExclude
<1>13. Chained'
  <2>1. \A m \in Used : next'[m] # n
    <3>1. n # Null
      BY <1>4 DEF Nodes, Null
    <3> QED
      BY <1>0, <1>4, <1>9, <3>1 DEF Chained, Full
  <2>2. \A m \in Used' : next'[m] \in Full' \union {Null}
    BY <1>0, <1>8, <1>9 DEF Chained
  <2>3. \A m \in Used', q \in Linking' : next'[m] # producer'[q].node
    <3>1. \A q \in Linking' : producer'[q].node \in Nodes
      BY <1>4, <1>10, <1>0 DEF PlacesExclude, Full, Used
    <3>2. \A q \in Linking' : producer'[q].node # Null
      BY <3>1 DEF Nodes, Null
    <3> QED
      BY <1>0, <1>8, <1>9, <1>10, <2>1, <3>2 DEF Chained
  <2>4. \A l, m \in Used' : next'[l] = next'[m] /\ next'[l] # Null => l = m
    BY <1>0, <1>8, <1>9 DEF Chained
  <2> QED
    BY <2>2, <2>3, <2>4 DEF Chained
<1>14. ItemsAreKept'
  <2>1. SentItems' = SentItems \union {<<p, k>>}
    <3>1. \A q \in Producers, i \in 1 .. Items :
             (i <= sent'[q] <=> i <= sent[q] \/ (q = p /\ i = k))
      BY <1>2, <1>5, <1>6
    <3>2. ASSUME NEW x \in Item PROVE x \in SentItems' <=> x \in SentItems \/ x = <<p, k>>
      <4>1. PICK q \in Producers, i \in 1 .. Items : x = <<q, i>>
        BY DEF Item
      <4>2. (i <= sent'[q] <=> i <= sent[q] \/ (q = p /\ i = k))
        BY <3>1
      <4>3. x \in SentItems <=> i <= sent[q]
        BY <4>1 DEF SentItems
      <4>4. x \in SentItems' <=> i <= sent'[q]
        BY <4>1 DEF SentItems
      <4>5. x = <<p, k>> <=> q = p /\ i = k
        BY <4>1
      <4> QED
        BY <4>2, <4>3, <4>4, <4>5
    <3>3. SentItems' \subseteq Item /\ SentItems \subseteq Item
      BY DEF SentItems
    <3> QED
      BY <1>7, <3>2, <3>3
  <2>2. <<p, k>> \notin SentItems
    BY <1>2, <1>5, <1>7 DEF SentItems
  <2>3. Full \subseteq Used /\ \A m \in Full : data'[m] = data[m] /\ data[m] \in SentItems
    BY <1>0, <1>9 DEF ItemsAreKept, Full
  <2>4. received' = received /\ Range(received) \subseteq SentItems
    BY <1>6, <1>0 DEF ItemsAreKept
  <2>5. \A m \in Full' : data'[m] \in SentItems' /\ data'[m] \notin Range(received')
    <3>1. data'[n] \in SentItems' /\ data'[n] \notin Range(received)
      BY <1>9, <2>1, <2>2, <2>4
    <3>2. \A m \in Full : data'[m] \in SentItems' /\ data'[m] \notin Range(received)
      BY <1>0, <2>1, <2>3 DEF ItemsAreKept
    <3> QED
      BY <1>8, <2>4, <3>1, <3>2
  <2>6. \A l, m \in Full' : data'[l] = data'[m] => l = m
    BY <1>0, <1>8, <1>9, <2>2, <2>3 DEF ItemsAreKept
  <2>7. \A x \in SentItems' : x \in Range(received') \/ \E m \in Full' : data'[m] = x
    <3>1. n \in Full' /\ data'[n] = <<p, k>>
      BY <1>8, <1>9
    <3>2. \A x \in SentItems : x \in Range(received') \/ \E m \in Full' : data'[m] = x
      BY <1>0, <1>8, <2>3, <2>4 DEF ItemsAreKept
    <3> QED
      BY <2>1, <3>1, <3>2
  <2>8. Range(received') \subseteq SentItems'
    BY <2>1, <2>4
  <2>9. \A i, j \in DOMAIN received' : received'[i] = received'[j] => i = j
    BY <1>0, <2>4 DEF ItemsAreKept
  <2> QED
    BY <2>5, <2>6, <2>7, <2>8, <2>9 DEF ItemsAreKept
<1>15. ListIsOrder'
  <2>0. ~stale => \A q \in Linking' : next'[producer'[q].node] = Null
    <3>1. \A q \in Linking : producer[q].node \in Used
      BY <1>0 DEF PlacesExclude, Full
    <3> QED
      BY <1>0, <1>9, <1>10, <3>1 DEF ListIsOrder
  <2>1. SUFFICES ASSUME ~stale
                 PROVE  \E line \in [Len(received) .. Len(order) -> Nodes] : IsList(line)'
    BY <1>0, <1>6, <2>0 DEF ListIsOrder
  <2>2. PICK line \in [Len(received) .. Len(order) -> Nodes] : IsList(line)
    BY <1>0, <2>1 DEF ListIsOrder
  <2>3. Len(received) \in Int /\ Len(order) \in Int
    BY <1>0 DEF TypeOK
  <2>4. \A i \in Len(received) .. Len(order) : line[i] \in Used
    BY <2>2 DEF IsList
  <2>5. \A i \in Len(received) .. Len(order) :
           /\ next'[line[i]] = next[line[i]] /\ data'[line[i]] = data[line[i]]
           /\ line[i] \in Used' /\ \A q \in Linking' : line[i] # producer'[q].node
    BY <1>8, <1>9, <1>10, <2>2, <2>4 DEF IsList
  <2>6. Len(received) <= Len(order)
    BY <1>0, <2>1 DEF ListIsOrder
  <2>7. IsList(line)'
    <3>1. /\ line[Len(received)] = head.node
          /\ \A i \in Len(received) .. Len(order) - 1 : line[i + 1] = next[line[i]]
          /\ next[line[Len(order)]] = Null
          /\ \A i, j \in Len(received) .. Len(order) : line[i] = line[j] => i = j
          /\ \A i \in Len(received) + 1 .. Len(order) : data[line[i]] = order[i]
      BY <2>2 DEF IsList
    <3>2. line[Len(received')] = head'.node
      BY <1>6, <3>1
    <3>3. \A i \in Len(received') .. Len(order') - 1 : line[i + 1] = next'[line[i]]
      BY <1>6, <2>3, <2>5, <3>1
    <3>4. next'[line[Len(order')]] = Null
      BY <1>6, <2>3, <2>5, <2>6, <3>1
    <3>5. \A i, j \in Len(received') .. Len(order') : line[i] = line[j] => i = j
      BY <1>6, <3>1
    <3>6. \A i \in Len(received') .. Len(order') :
             line[i] \in Used' /\ \A q \in Linking' : line[i] # producer'[q].node
      BY <1>6, <2>5
    <3>7. \A i \in Len(received') + 1 .. Len(order') : data'[line[i]] = order'[i]
      <4>1. \A i \in Len(received) + 1 .. Len(order) : i \in Len(received) .. Len(order)
        BY <2>3
      <4>2. \A i \in Len(received) + 1 .. Len(order) : data'[line[i]] = order[i]
        BY <2>5, <3>1, <4>1
      <4> QED
        BY <1>6, <4>2
    <3> QED
      BY <3>2, <3>3, <3>4, <3>5, <3>6, <3>7 DEF IsList
  <2>8. line \in [Len(received') .. Len(order') -> Nodes]
    BY <1>6
  <2> QED
    BY <1>6, <2>7, <2>8
<1>16. NextIsKnown' /\ TailIsKnown'
  <2>1. next'[head.node] = next[head.node]
    BY <1>0, <1>9 DEF PlacesExclude
  <2> QED
    BY <1>6, <2>1 DEF IInv, NextIsKnown, TailIsKnown
<1>17. SizeAgrees'
  <2>1. /\ Cardinality(Linking)' = Cardinality(Linking) + 1
        /\ Cardinality(Growing)' = Cardinality(Growing)
    <3>1. /\ In(r.at, BeforeLink) = 1 /\ In(producer[p].at, BeforeLink) = 0
          /\ In(r.at, AfterLink) = 0 /\ In(producer[p].at, AfterLink) = 0
      BY <1>6 DEF In, BeforeLink, AfterLink
    <3>2. /\ Cardinality(Linking)' =
                 Cardinality(Linking) + In(r.at, BeforeLink) - In(producer[p].at, BeforeLink)
          /\ Cardinality(Growing)' =
                 Cardinality(Growing) + In(r.at, AfterLink) - In(producer[p].at, AfterLink)
      BY <1>6, <1>0, CountsStep
    <3> QED
      BY <1>0, <3>1, <3>2, CountsAreNumbers
  <2>2. UNCHANGED <<size, consumer, order, received>> /\ Promised' = Promised /\ SizeAgrees
    BY <1>6 DEF IInv, Promised
  <2>3. Len(free') = Len(free) - 1 /\ Len(free) \in Int /\ Cardinality(Linking) \in Int
        /\ Len(order) \in Int /\ Len(received) \in Int
    BY <1>4, <1>0, CountsAreNumbers
  <2> QED
    BY <2>1, <2>2, <2>3 DEF SizeAgrees
<1> QED
  BY <1>11, <1>12, <1>13, <1>14, <1>15, <1>16, <1>17 DEF IInv

-----------------------------------------------------------------------------
(* A node is linked.                                                         *)

\* What a set that has the dummy and is closed has.
LEMMA LinkedIsLeast ==
  ASSUME NEW S \in SUBSET Nodes, Leads(head.node, S)
  PROVE  Linked \subseteq S
  BY DEF Linked, From

LEMMA LinkedIsOnTheList ==
  ASSUME TypeOK, Len(received) <= Len(order),
         NEW line \in [Len(received) .. Len(order) -> Nodes], IsList(line)
  PROVE  \A n \in Linked : \E i \in Len(received) .. Len(order) : n = line[i]
<1>1. PICK S : S = {line[i] : i \in Len(received) .. Len(order)}
  OBVIOUS
<1>2. Len(received) \in Int /\ Len(order) \in Int
  BY DEF TypeOK
<1>3. head.node \in S
  BY <1>1, <1>2 DEF IsList
<1>4. ASSUME NEW m \in S PROVE next[m] \in S \union {Null}
  <2>1. PICK i \in Len(received) .. Len(order) : m = line[i]
    BY <1>1
  <2>2. CASE i = Len(order)
    BY <2>1, <2>2 DEF IsList
  <2>3. CASE i # Len(order)
    <3>1. i \in Len(received) .. Len(order) - 1 /\ i + 1 \in Len(received) .. Len(order)
      BY <1>2, <2>3
    <3> QED
      BY <1>1, <2>1, <3>1 DEF IsList
  <2> QED
    BY <2>2, <2>3
<1>5. S \in SUBSET Nodes /\ Leads(head.node, S)
  BY <1>1, <1>3, <1>4 DEF Leads
<1>6. Linked \subseteq S
  BY <1>5, LinkedIsLeast
<1> QED
  BY <1>1, <1>6

LEMMA LinkMissed ==
  ASSUME IInv, NEW p \in Producers, Link(p), next[producer[p].tail.node] # Null
  PROVE  IInv'
<1>1. PICK r : r = [producer[p] EXCEPT !.at = "tail"]
  OBVIOUS
<1>2. /\ producer[p] \in ProducerType /\ producer \in [Producers -> ProducerType]
      /\ ProducerKnows(producer[p])
  BY DEF IInv, TypeOK
<1>3. /\ r \in ProducerType /\ ProducerKnows(r)
      /\ r.at = "tail" /\ r.node = producer[p].node
      /\ producer[p].at = "link" /\ producer' = [producer EXCEPT ![p] = r]
  BY <1>1, <1>2 DEF Link, Goto, ProducerType, Link0, ProducerKnows
<1>4. SameNodes /\ consumer' = consumer
  BY DEF Link, SameNodes
<1>5. tail' \in [node : Nodes, stamp : Nat] /\ (tail' = tail \/ tail'.stamp > tail.stamp)
  BY DEF Link, IInv, TypeOK
<1>6. TypeOK'
  BY <1>3, <1>4, <1>5, ProducerTyped DEF IInv, TypeOK, Link
<1>7. PlacesExclude' /\ Chained' /\ ItemsAreKept' /\ ListIsOrder' /\ NextIsKnown' /\ TailIsKnown'
  BY <1>3, <1>4, <1>5, ProducerStays DEF BeforeLink
<1>8. SizeAgrees'
  BY <1>3, <1>4, SizeSame DEF IInv, BeforeLink, AfterLink, SameNodes, Link
<1> QED
  BY <1>6, <1>7, <1>8 DEF IInv

\* What the compare and swap does when it succeeds.
Links(p, n, last, r) ==
    /\ last \in Nodes /\ next[last] = Null
    /\ n = producer[p].node /\ n \in Full
    /\ r \in ProducerType /\ ProducerKnows(r)
    /\ r.at = "move" /\ r.node = n /\ producer[p].at = "link"
    /\ producer' = [producer EXCEPT ![p] = r]
    /\ next' = [next EXCEPT ![last] = n]
    /\ order' = Append(order, data[n])
    /\ stale' = (stale \/ last \notin Linked)
    /\ UNCHANGED <<head, tail, data, size, free, sent, event, consumer, received>>

LEMMA LinkLinks ==
  ASSUME IInv, NEW p \in Producers, Link(p), next[producer[p].tail.node] = Null
  PROVE  \E n, last, r : Links(p, n, last, r)
<1>1. PICK r : r = [producer[p] EXCEPT !.at = "move"]
  OBVIOUS
<1>2. /\ producer[p] \in ProducerType /\ producer \in [Producers -> ProducerType]
      /\ ProducerKnows(producer[p])
  BY DEF IInv, TypeOK
<1>3. /\ r \in ProducerType /\ ProducerKnows(r)
      /\ r.at = "move" /\ r.node = producer[p].node
      /\ producer[p].at = "link" /\ producer' = [producer EXCEPT ![p] = r]
  BY <1>1, <1>2 DEF Link, Goto, ProducerType, Link0, ProducerKnows
<1>4. producer[p].tail.node \in Nodes
  BY <1>2, <1>3 DEF ProducerKnows
<1>5. producer[p].node \in Full
  <2>1. p \in Linking
    BY <1>3 DEF Linking, ProducersAt
  <2> QED
    BY <2>1 DEF IInv, PlacesExclude
<1>6. Links(p, producer[p].node, producer[p].tail.node, r)
  BY <1>3, <1>4, <1>5 DEF Links, Link
<1> QED
  BY <1>6

LEMMA LinkPlaces ==
  ASSUME IInv, NEW p \in Producers, NEW n, NEW last, NEW r, Links(p, n, last, r)
  PROVE  /\ Used' = Used /\ Full' = Full
         /\ Linking' = Linking \ {p} /\ p \in Linking
         /\ \A q \in Linking' : producer'[q].node = producer[q].node /\ producer[q].node # n
         /\ \A m \in Nodes : next'[m] = IF m = last THEN n ELSE next[m]
         /\ n \in Nodes /\ n \in Used /\ n # Null
         /\ \A m \in Used : next[m] # n
         /\ PlacesExclude' /\ Chained'
<1>1. PlacesExclude /\ Chained
  BY DEF IInv
<1>2. Used' = Used /\ Full' = Full
  BY DEF Links, Used, Full
<1>3. /\ producer \in [Producers -> ProducerType] /\ next \in [Nodes -> Nodes \union {Null}]
  BY DEF IInv, TypeOK
<1>4. /\ Linking' = Linking \ {p} /\ p \in Linking
      /\ \A q \in Linking' : producer'[q].node = producer[q].node
  BY <1>3 DEF Links, Linking, ProducersAt
<1>5. \A q \in Linking' : producer[q].node # n
  BY <1>1, <1>4 DEF PlacesExclude, Links
<1>6. \A m \in Nodes : next'[m] = IF m = last THEN n ELSE next[m]
  BY <1>3 DEF Links
<1>7. n \in Nodes /\ n \in Used /\ n # Null
  BY DEF Links, Full, Used, Nodes, Null
<1>8. \A m \in Used : next[m] # n
  BY <1>1, <1>4 DEF Chained, Links
<1>9. PlacesExclude'
  <2>1. /\ \A i, j \in DOMAIN free' : free'[i] = free'[j] => i = j
        /\ head'.node \in Used'
    BY <1>1, <1>2 DEF PlacesExclude, Links
  <2>2. \A q \in Linking' : producer'[q].node \in Full'
    BY <1>1, <1>2, <1>4 DEF PlacesExclude
  <2>3. \A q, s \in Linking' : producer'[q].node = producer'[s].node => q = s
    BY <1>1, <1>4 DEF PlacesExclude
  <2> QED
    BY <2>1, <2>2, <2>3 DEF PlacesExclude
<1>10. Chained'
  <2>0. Used \subseteq Nodes
    BY DEF Used
  <2>1. \A m \in Used' : next'[m] \in Full' \union {Null}
    BY <1>1, <1>2, <1>6, <2>0 DEF Chained, Links
  <2>2. \A m \in Used', q \in Linking' : next'[m] # producer'[q].node
    BY <1>1, <1>2, <1>4, <1>5, <1>6, <2>0 DEF Chained
  <2>3. \A l, m \in Used' : next'[l] = next'[m] /\ next'[l] # Null => l = m
    BY <1>1, <1>2, <1>6, <1>8, <2>0 DEF Chained
  <2> QED
    BY <2>1, <2>2, <2>3 DEF Chained
<1> QED
  BY <1>2, <1>4, <1>5, <1>6, <1>7, <1>8, <1>9, <1>10

LEMMA LinkList ==
  ASSUME IInv, NEW p \in Producers, NEW n, NEW last, NEW r, Links(p, n, last, r)
  PROVE  ListIsOrder'
<1>0. /\ Used' = Used
      /\ Linking' = Linking \ {p} /\ p \in Linking
      /\ \A q \in Linking' : producer'[q].node = producer[q].node /\ producer[q].node # n
      /\ \A m \in Nodes : next'[m] = IF m = last THEN n ELSE next[m]
      /\ n \in Nodes /\ n \in Used /\ n # Null
  BY LinkPlaces
<1>1. TypeOK /\ ListIsOrder /\ Chained
  BY DEF IInv
<1>2. /\ next[last] = Null /\ n = producer[p].node
      /\ stale' = (stale \/ last \notin Linked)
      /\ UNCHANGED <<head, data, received>>
  BY DEF Links
<1>3. data[n] \in Item
  BY DEF IInv, ItemsAreKept, SentItems, Links
<1>4. PICK a, b : a = Len(received) /\ b = Len(order)
  OBVIOUS
<1>5. a \in Int /\ b \in Int /\ DOMAIN received = 1 .. a
  BY <1>1, <1>4 DEF TypeOK
<1>6. /\ Len(order') = b + 1 /\ order'[b + 1] = data[n]
      /\ \A i \in 1 .. b : order'[i] = order[i]
  BY <1>1, <1>3, <1>4 DEF TypeOK, Links
<1>7. SUFFICES ASSUME ~stale'
               PROVE  /\ Len(received') <= Len(order')
                      /\ \A i \in DOMAIN received' : received'[i] = order'[i]
                      /\ \A q \in Linking' : next'[producer'[q].node] = Null
                      /\ \E line \in [Len(received') .. Len(order') -> Nodes] : IsList(line)'
  BY DEF ListIsOrder
<1>8. PICK line \in [a .. b -> Nodes] : IsList(line)
  BY <1>1, <1>2, <1>4, <1>7 DEF ListIsOrder
<1>9. /\ a <= b /\ 0 <= a
      /\ \A i \in 1 .. a : received[i] = order[i]
  <2>1. Len(received) <= Len(order) /\ \A i \in DOMAIN received : received[i] = order[i]
    BY <1>1, <1>2, <1>7 DEF ListIsOrder
  <2>2. Len(received) >= 0
    BY <1>1 DEF TypeOK
  <2> QED
    BY <1>4, <1>5, <2>1, <2>2
<1>10. /\ line[a] = head.node
       /\ \A i \in a .. b - 1 : line[i + 1] = next[line[i]]
       /\ next[line[b]] = Null
       /\ \A i, j \in a .. b : line[i] = line[j] => i = j
       /\ \A i \in a .. b : line[i] \in Used /\ \A q \in Linking : line[i] # producer[q].node
       /\ \A i \in a + 1 .. b : data[line[i]] = order[i]
  BY <1>4, <1>8 DEF IsList
<1>11. last = line[b]
  <2>1. last \in Linked
    BY <1>2, <1>7
  <2>2. PICK i \in a .. b : last = line[i]
    BY <1>1, <1>4, <1>8, <1>9, <2>1, LinkedIsOnTheList
  <2>3. CASE i = b
    BY <2>2, <2>3
  <2>4. CASE i # b
    <3>1. i \in a .. b - 1 /\ i + 1 \in a .. b
      BY <1>5, <2>4
    <3>2. line[i + 1] = Null /\ line[i + 1] \in Nodes
      BY <1>2, <1>8, <1>10, <2>2, <3>1
    <3> QED
      BY <3>2 DEF Nodes, Null
  <2> QED
    BY <2>3, <2>4
<1>12. PICK new : new = [i \in a .. b + 1 |-> IF i = b + 1 THEN n ELSE line[i]]
  OBVIOUS
<1>13. /\ new \in [a .. b + 1 -> Nodes]
       /\ new[b + 1] = n
       /\ \A i \in a .. b : new[i] = line[i]
  <2>1. \A i \in a .. b + 1 : i = b + 1 \/ i \in a .. b
    BY <1>5
  <2>2. b + 1 \in a .. b + 1 /\ \A i \in a .. b : i \in a .. b + 1 /\ i # b + 1
    BY <1>5, <1>9
  <2> QED
    BY <1>0, <1>8, <1>12, <2>1, <2>2
<1>14. \A i \in a .. b + 1 : i = b + 1 \/ i \in a .. b
  BY <1>5
<1>15. \A i \in a .. b : line[i] # n
  BY <1>0, <1>2, <1>10
<1>16. IsList(new)'
  <2>1. new[Len(received')] = head'.node
    BY <1>2, <1>4, <1>5, <1>9, <1>10, <1>13
  <2>2. \A i \in Len(received') .. Len(order') - 1 : new[i + 1] = next'[new[i]]
    <3>1. ASSUME NEW i \in a .. b PROVE new[i + 1] = next'[new[i]]
      <4>1. new[i] = line[i] /\ line[i] \in Nodes
        BY <1>8, <1>13
      <4>2. CASE i = b
        BY <1>0, <1>11, <1>13, <4>1, <4>2
      <4>3. CASE i # b
        <5>1. i \in a .. b - 1 /\ i + 1 \in a .. b /\ b \in a .. b
          BY <1>5, <1>9, <4>3
        <5>2. line[i] # last
          BY <1>10, <1>11, <4>3, <5>1
        <5> QED
          BY <1>0, <1>10, <1>13, <4>1, <5>1, <5>2
      <4> QED
        BY <4>2, <4>3
    <3>2. Len(received') = a /\ Len(order') - 1 = b
      BY <1>2, <1>4, <1>5, <1>6
    <3> QED
      BY <3>1, <3>2
  <2>3. next'[new[Len(order')]] = Null
    <3>1. next[n] = Null
      BY <1>0, <1>1, <1>2, <1>7 DEF ListIsOrder
    <3>2. n # last
      BY <1>5, <1>9, <1>11, <1>15
    <3> QED
      BY <1>0, <1>6, <1>13, <3>1, <3>2
  <2>4. \A i, j \in Len(received') .. Len(order') : new[i] = new[j] => i = j
    BY <1>2, <1>4, <1>6, <1>10, <1>13, <1>14, <1>15
  <2>5. \A i \in Len(received') .. Len(order') :
           new[i] \in Used' /\ \A q \in Linking' : new[i] # producer'[q].node
    BY <1>0, <1>2, <1>4, <1>6, <1>10, <1>13, <1>14
  <2>6. \A i \in Len(received') + 1 .. Len(order') : data'[new[i]] = order'[i]
    <3>1. \A i \in a + 1 .. b + 1 : i = b + 1 \/ (i \in a + 1 .. b /\ i \in a .. b /\ i \in 1 .. b)
      BY <1>5, <1>9
    <3> QED
      BY <1>2, <1>4, <1>6, <1>10, <1>13, <3>1
  <2> QED
    BY <2>1, <2>2, <2>3, <2>4, <2>5, <2>6 DEF IsList
<1>17. Len(received') <= Len(order')
  BY <1>2, <1>4, <1>5, <1>6, <1>9
<1>18. \A i \in DOMAIN received' : received'[i] = order'[i]
  <2>1. \A i \in 1 .. a : i \in 1 .. b
    BY <1>5, <1>9
  <2> QED
    BY <1>2, <1>5, <1>6, <1>9, <2>1
<1>19. \A q \in Linking' : next'[producer'[q].node] = Null
  <2>1. \A q \in Linking : next[producer[q].node] = Null /\ producer[q].node \in Nodes
    BY <1>1, <1>2, <1>7 DEF ListIsOrder, IInv, PlacesExclude, Full, Used
  <2>2. \A q \in Linking : producer[q].node # last
    BY <1>5, <1>9, <1>10, <1>11
  <2> QED
    BY <1>0, <2>1, <2>2
<1> QED
  BY <1>2, <1>4, <1>6, <1>13, <1>16, <1>17, <1>18, <1>19

LEMMA LinkDone ==
  ASSUME IInv, NEW p \in Producers, NEW n, NEW last, NEW r, Links(p, n, last, r)
  PROVE  IInv'
<1>0. /\ Used' = Used /\ Full' = Full
      /\ \A m \in Nodes : next'[m] = IF m = last THEN n ELSE next[m]
      /\ n \in Nodes /\ n # Null
      /\ PlacesExclude' /\ Chained'
  BY LinkPlaces
<1>1. TypeOK
  BY DEF IInv
<1>2. /\ last \in Nodes /\ next[last] = Null /\ n \in Full
      /\ r \in ProducerType /\ ProducerKnows(r)
      /\ r.at = "move" /\ producer[p].at = "link"
      /\ producer' = [producer EXCEPT ![p] = r]
      /\ next' = [next EXCEPT ![last] = n]
      /\ order' = Append(order, data[n])
      /\ stale' = (stale \/ last \notin Linked)
      /\ UNCHANGED <<head, tail, data, size, free, sent, event, consumer, received>>
  BY DEF Links
<1>3. data[n] \in Item
  BY <1>2 DEF IInv, ItemsAreKept, SentItems
<1>4. TypeOK'
  <2>1. producer' \in [Producers -> ProducerType] /\ \A q \in Producers : ProducerKnows(producer'[q])
    BY <1>1, <1>2 DEF TypeOK
  <2>2. next' \in [Nodes -> Nodes \union {Null}]
    BY <1>0, <1>1, <1>2 DEF TypeOK
  <2>3. order' \in Seq(Item) /\ Len(order') = Len(order) + 1
    BY <1>1, <1>2, <1>3 DEF TypeOK
  <2>4. stale' \in BOOLEAN
    BY <1>1, <1>2 DEF TypeOK
  <2> QED
    BY <1>1, <1>2, <2>1, <2>2, <2>3, <2>4 DEF TypeOK
<1>5. NextIsKnown' /\ TailIsKnown'
  <2>1. NextIsKnown /\ TailIsKnown /\ head.node \in Nodes
    BY <1>1 DEF IInv, TypeOK
  <2>2. next[head.node] # Null => next'[head.node] = next[head.node]
    BY <1>0, <1>2, <2>1
  <2>3. NextIsKnown'
    BY <1>2, <2>1, <2>2 DEF NextIsKnown
  <2>4. TailIsKnown'
    BY <1>2, <2>1 DEF TailIsKnown
  <2> QED
    BY <2>3, <2>4
<1>6. ItemsAreKept'
  BY <1>0, <1>2 DEF IInv, ItemsAreKept, SentItems
<1>7. ListIsOrder'
  BY LinkList
<1>8. SizeAgrees'
  <2>1. /\ Cardinality(Linking)' = Cardinality(Linking) - 1
        /\ Cardinality(Growing)' = Cardinality(Growing) + 1
    <3>1. /\ In(r.at, BeforeLink) = 0 /\ In(producer[p].at, BeforeLink) = 1
          /\ In(r.at, AfterLink) = 1 /\ In(producer[p].at, AfterLink) = 0
      BY <1>2 DEF In, BeforeLink, AfterLink
    <3>2. /\ Cardinality(Linking)' =
                 Cardinality(Linking) + In(r.at, BeforeLink) - In(producer[p].at, BeforeLink)
          /\ Cardinality(Growing)' =
                 Cardinality(Growing) + In(r.at, AfterLink) - In(producer[p].at, AfterLink)
      BY <1>1, <1>2, CountsStep
    <3> QED
      BY <1>1, <3>1, <3>2, CountsAreNumbers
  <2>2. /\ UNCHANGED <<size, consumer, free, received>> /\ Promised' = Promised /\ SizeAgrees
        /\ Len(order') = Len(order) + 1
    BY <1>1, <1>2, <1>3 DEF IInv, TypeOK, Promised
  <2>3. /\ Len(free) \in Int /\ Cardinality(Linking) \in Int /\ Cardinality(Growing) \in Int
        /\ Len(order) \in Int /\ Len(received) \in Int /\ size \in Int /\ Promised \in Int
    BY <1>1, CountsAreNumbers
  <2>4. PICK l, g : l = Cardinality(Linking) /\ g = Cardinality(Growing)
    OBVIOUS
  <2>5. /\ Cardinality(Linking)' = l - 1 /\ Cardinality(Growing)' = g + 1
        /\ l \in Int /\ g \in Int
    BY <2>1, <2>3, <2>4
  <2>6. /\ size >= IF consumer.at = "empty" THEN -1 ELSE 0
        /\ Len(order) = Len(received) + size + Promised + g
        /\ Len(order) - Len(received) + l + Len(free) + 1 = MaxNodes
    BY <2>2, <2>4 DEF SizeAgrees
  <2>7. PICK a, b, f, s : a = Len(order) /\ b = Len(received) /\ f = Len(free) /\ s = size + Promised
    OBVIOUS
  <2>8. /\ a \in Int /\ b \in Int /\ f \in Int /\ s \in Int
        /\ a = b + s + g /\ a - b + l + f + 1 = MaxNodes
    BY <2>3, <2>5, <2>6, <2>7
  <2>9. a + 1 = b + s + (g + 1) /\ (a + 1) - b + (l - 1) + f + 1 = MaxNodes
    BY <2>5, <2>8
  <2>10. /\ Len(order') = Len(received') + size' + Promised' + Cardinality(Growing)'
         /\ Len(order') - Len(received') + Cardinality(Linking)' + Len(free') + 1 = MaxNodes
    BY <2>2, <2>3, <2>5, <2>7, <2>9
  <2> QED
    BY <2>2, <2>6, <2>10 DEF SizeAgrees
<1> QED
  BY <1>0, <1>4, <1>5, <1>6, <1>7, <1>8 DEF IInv

LEMMA LinkStep == ASSUME IInv, NEW p \in Producers, Link(p) PROVE IInv'
<1>1. CASE next[producer[p].tail.node] = Null
  <2>1. PICK n, last, r : Links(p, n, last, r)
    BY <1>1, LinkLinks
  <2> QED
    BY <2>1, LinkDone
<1>2. CASE next[producer[p].tail.node] # Null
  BY <1>2, LinkMissed
<1> QED
  BY <1>1, <1>2

-----------------------------------------------------------------------------
(* The node behind the dummy becomes the dummy.                              *)

\* The dummy h is freed; n, behind it, takes its place.
Takes(h, n) ==
    /\ h = head.node /\ n = next[h] /\ n = consumer.next /\ consumer.at = "take"
    /\ h \in Used /\ n \in Full
    /\ received' = Append(received, data[n])
    /\ head' = Pointer(n, head.stamp + 1)
    /\ free' = <<h>> \o free
    /\ consumer' = Idle
    /\ UNCHANGED <<tail, next, data, size, sent, event, producer, order, stale>>

LEMMA TakeTakes == ASSUME IInv, Take PROVE \E h, n : Takes(h, n)
<1>1. consumer.at = "take" /\ consumer.next # Null /\ consumer.next = next[head.node]
  BY DEF IInv, NextIsKnown, Take
<1>2. head.node \in Used /\ next[head.node] \in Full
  BY <1>1 DEF IInv, PlacesExclude, Chained
<1>3. Takes(head.node, consumer.next)
  BY <1>1, <1>2 DEF Takes, Take, TakenItem, OldDummy
<1> QED
  BY <1>3

LEMMA TakePlaces ==
  ASSUME IInv, NEW h, NEW n, Takes(h, n)
  PROVE  /\ h \in Nodes /\ n \in Nodes /\ n # h /\ n # Null
         /\ Used' = Used \ {h} /\ Full' = Full \ {n} /\ Linking' = Linking
         /\ \A q \in Linking : producer[q].node # n
         /\ head'.node = n
         /\ free' \in Seq(Nodes) /\ Len(free') = Len(free) + 1
         /\ PlacesExclude' /\ Chained'
<1>1. TypeOK /\ PlacesExclude /\ Chained
  BY DEF IInv
<1>2. /\ h = head.node /\ n = next[h] /\ h \in Used /\ n \in Full
      /\ head' = Pointer(n, head.stamp + 1)
      /\ free' = <<h>> \o free
      /\ UNCHANGED <<next, producer>>
  BY DEF Takes
<1>3. h \in Nodes /\ n \in Nodes /\ n \in Used /\ n # h /\ n # Null /\ h \notin Range(free)
  BY <1>2 DEF Full, Used, Nodes, Null
<1>4. head'.node = n /\ Linking' = Linking /\ next' = next /\ producer' = producer
  BY <1>2 DEF Pointer, Linking, ProducersAt
<1>5. PICK k : k = Len(free)
  OBVIOUS
<1>6. k \in Nat /\ free \in Seq(Nodes) /\ DOMAIN free = 1 .. k /\ \A i \in 1 .. k : free[i] \in Nodes
  BY <1>1, <1>5 DEF TypeOK
<1>7. /\ free' \in Seq(Nodes) /\ Len(free') = k + 1 /\ DOMAIN free' = 1 .. k + 1
      /\ free'[1] = h
      /\ \A i \in 1 .. k : free'[i + 1] = free[i]
  <2>1. <<h>> \in Seq(Nodes) /\ Len(<<h>>) = 1 /\ <<h>>[1] = h
    BY <1>3
  <2>2. /\ free' \in Seq(Nodes) /\ Len(free') = k + 1
        /\ \A i \in 1 .. k + 1 : free'[i] = IF i <= 1 THEN <<h>>[i] ELSE free[i - 1]
    BY <1>2, <1>5, <1>6, <2>1
  <2>3. DOMAIN free' = 1 .. k + 1 /\ 1 \in 1 .. k + 1
    BY <1>6, <2>2
  <2>4. ASSUME NEW i \in 1 .. k PROVE free'[i + 1] = free[i]
    <3>1. i + 1 \in 1 .. k + 1 /\ ~(i + 1 <= 1) /\ (i + 1) - 1 = i
      BY <1>6
    <3> QED
      BY <2>2, <3>1
  <2> QED
    BY <2>1, <2>2, <2>3, <2>4
<1>8. \A i \in 1 .. k + 1 : i = 1 \/ (i - 1 \in 1 .. k /\ free'[i] = free[i - 1])
  <2>1. ASSUME NEW i \in 1 .. k + 1, i # 1 PROVE i - 1 \in 1 .. k /\ free'[i] = free[i - 1]
    <3>1. i - 1 \in 1 .. k /\ (i - 1) + 1 = i
      BY <1>6, <2>1
    <3> QED
      BY <1>7, <3>1
  <2> QED
    BY <2>1
<1>9. Range(free') = Range(free) \union {h}
  <2>1. \A i \in 1 .. k + 1 : free'[i] \in Range(free) \union {h}
    BY <1>6, <1>7, <1>8 DEF Range
  <2>2. \A i \in 1 .. k : free[i] \in Range(free')
    <3>1. \A i \in 1 .. k : i + 1 \in 1 .. k + 1
      BY <1>6
    <3> QED
      BY <1>7, <3>1 DEF Range
  <2>3. h \in Range(free')
    <3>1. 1 \in 1 .. k + 1
      BY <1>6
    <3> QED
      BY <1>7, <3>1 DEF Range
  <2>4. ASSUME NEW x \in Range(free') PROVE x \in Range(free) \union {h}
    BY <1>7, <2>1 DEF Range
  <2>5. ASSUME NEW x \in Range(free) PROVE x \in Range(free')
    BY <1>6, <2>2 DEF Range
  <2> QED
    BY <2>3, <2>4, <2>5
<1>10. \A i, j \in DOMAIN free' : free'[i] = free'[j] => i = j
  <2>1. \A i \in 1 .. k : free[i] # h
    BY <1>3, <1>6 DEF Range
  <2>2. \A i, j \in 1 .. k : free[i] = free[j] => i = j
    BY <1>1, <1>6 DEF PlacesExclude
  <2>3. ASSUME NEW i \in 1 .. k + 1, NEW j \in 1 .. k + 1, free'[i] = free'[j] PROVE i = j
    <3>1. CASE i = 1 \/ j = 1
      BY <1>7, <1>8, <2>1, <2>3, <3>1
    <3>2. CASE i # 1 /\ j # 1
      <4>1. i - 1 = j - 1
        BY <1>8, <2>2, <2>3, <3>2
      <4> QED
        BY <4>1
    <3> QED
      BY <3>1, <3>2
  <2> QED
    BY <1>7, <2>3
<1>11. Used' = Used \ {h} /\ Full' = Full \ {n}
  <2>1. Used' = Used \ {h}
    BY <1>9 DEF Used
  <2> QED
    BY <1>2, <1>3, <1>4, <2>1 DEF Full
<1>12. \A q \in Linking : producer[q].node # n
  BY <1>1, <1>2, <1>3 DEF Chained
<1>13. PlacesExclude'
  <2>1. head'.node \in Used'
    BY <1>3, <1>4, <1>11
  <2>2. \A q \in Linking' : producer'[q].node \in Full'
    BY <1>1, <1>4, <1>11, <1>12 DEF PlacesExclude
  <2>3. \A q, s \in Linking' : producer'[q].node = producer'[s].node => q = s
    BY <1>1, <1>4 DEF PlacesExclude
  <2> QED
    BY <1>10, <2>1, <2>2, <2>3 DEF PlacesExclude
<1>14. Chained'
  <2>1. \A m \in Used' : next'[m] \in Full' \union {Null}
    <3>1. ASSUME NEW m \in Used, m # h PROVE next[m] \in (Full \ {n}) \union {Null}
      BY <1>1, <1>2, <1>3, <3>1 DEF Chained
    <3> QED
      BY <1>4, <1>11, <3>1
  <2>2. \A m \in Used', q \in Linking' : next'[m] # producer'[q].node
    BY <1>1, <1>4, <1>11 DEF Chained
  <2>3. \A l, m \in Used' : next'[l] = next'[m] /\ next'[l] # Null => l = m
    BY <1>1, <1>4, <1>11 DEF Chained
  <2> QED
    BY <2>1, <2>2, <2>3 DEF Chained
<1> QED
  BY <1>3, <1>4, <1>5, <1>7, <1>11, <1>12, <1>13, <1>14

LEMMA TakeList ==
  ASSUME IInv, NEW h, NEW n, Takes(h, n)
  PROVE  ListIsOrder'
<1>0. /\ h \in Nodes /\ n \in Nodes /\ n # h /\ n # Null
      /\ Used' = Used \ {h} /\ Linking' = Linking
      /\ head'.node = n
  BY TakePlaces
<1>1. TypeOK /\ ListIsOrder
  BY DEF IInv
<1>2. /\ h = head.node /\ n = next[h] /\ n \in Full
      /\ received' = Append(received, data[n])
      /\ UNCHANGED <<next, data, producer, order, stale>>
  BY DEF Takes
<1>3. data[n] \in Item
  BY <1>2 DEF IInv, ItemsAreKept, SentItems
<1>4. PICK a, b : a = Len(received) /\ b = Len(order)
  OBVIOUS
<1>5. a \in Nat /\ b \in Int /\ DOMAIN received = 1 .. a
  BY <1>1, <1>4 DEF TypeOK
<1>6. /\ Len(received') = a + 1 /\ DOMAIN received' = 1 .. a + 1 /\ received'[a + 1] = data[n]
      /\ \A i \in 1 .. a : received'[i] = received[i]
  BY <1>1, <1>2, <1>3, <1>4 DEF TypeOK
<1>7. SUFFICES ASSUME ~stale
               PROVE  /\ Len(received') <= Len(order')
                      /\ \A i \in DOMAIN received' : received'[i] = order'[i]
                      /\ \A q \in Linking' : next'[producer'[q].node] = Null
                      /\ \E line \in [Len(received') .. Len(order') -> Nodes] : IsList(line)'
  BY <1>2 DEF ListIsOrder
<1>8. PICK line \in [a .. b -> Nodes] : IsList(line)
  BY <1>1, <1>4, <1>7 DEF ListIsOrder
<1>9. /\ a <= b
      /\ \A i \in 1 .. a : received[i] = order[i]
      /\ \A q \in Linking : next[producer[q].node] = Null
  BY <1>1, <1>4, <1>5, <1>7 DEF ListIsOrder
<1>10. /\ line[a] = h
       /\ \A i \in a .. b - 1 : line[i + 1] = next[line[i]]
       /\ next[line[b]] = Null
       /\ \A i, j \in a .. b : line[i] = line[j] => i = j
       /\ \A i \in a .. b : line[i] \in Used /\ \A q \in Linking : line[i] # producer[q].node
       /\ \A i \in a + 1 .. b : data[line[i]] = order[i]
  BY <1>2, <1>4, <1>8 DEF IsList
<1>11. a # b
  BY <1>0, <1>2, <1>10
<1>12. a + 1 <= b /\ line[a + 1] = n
  <2>1. a \in a .. b - 1 /\ a + 1 <= b
    BY <1>5, <1>9, <1>11
  <2> QED
    BY <1>2, <1>10, <2>1
<1>13. /\ \A i \in a + 1 .. b : i \in a .. b /\ i # a
       /\ \A i \in a + 1 .. b - 1 : i \in a .. b - 1 /\ i \in a + 1 .. b /\ i + 1 \in a + 1 .. b
       /\ \A i \in a + 2 .. b : i \in a + 1 .. b
       /\ a \in a .. b /\ a + 1 \in a + 1 .. b /\ b \in a + 1 .. b
       /\ (a + 1) + 1 = a + 2
  BY <1>5, <1>9, <1>12
<1>14. PICK new : new = [i \in a + 1 .. b |-> line[i]]
  OBVIOUS
<1>15. /\ new \in [a + 1 .. b -> Nodes]
       /\ \A i \in a + 1 .. b : new[i] = line[i]
  BY <1>8, <1>13, <1>14
<1>16. IsList(new)'
  <2>1. new[Len(received')] = head'.node
    BY <1>0, <1>6, <1>12, <1>13, <1>15
  <2>2. \A i \in Len(received') .. Len(order') - 1 : new[i + 1] = next'[new[i]]
    <3>1. \A i \in a + 1 .. b - 1 : new[i + 1] = next[new[i]]
      BY <1>10, <1>13, <1>15
    <3> QED
      BY <1>2, <1>4, <1>6, <3>1
  <2>3. next'[new[Len(order')]] = Null
    BY <1>2, <1>4, <1>10, <1>13, <1>15
  <2>4. \A i, j \in Len(received') .. Len(order') : new[i] = new[j] => i = j
    BY <1>2, <1>4, <1>6, <1>10, <1>13, <1>15
  <2>5. \A i \in Len(received') .. Len(order') :
           new[i] \in Used' /\ \A q \in Linking' : new[i] # producer'[q].node
    <3>1. \A i \in a + 1 .. b : line[i] # h
      BY <1>10, <1>13
    <3> QED
      BY <1>0, <1>2, <1>4, <1>6, <1>10, <1>13, <1>15, <3>1
  <2>6. \A i \in Len(received') + 1 .. Len(order') : data'[new[i]] = order'[i]
    BY <1>2, <1>4, <1>6, <1>10, <1>13, <1>15
  <2> QED
    BY <2>1, <2>2, <2>3, <2>4, <2>5, <2>6 DEF IsList
<1>17. Len(received') <= Len(order')
  BY <1>2, <1>4, <1>6, <1>12
<1>18. \A i \in DOMAIN received' : received'[i] = order'[i]
  <2>1. \A i \in 1 .. a + 1 : i \in 1 .. a \/ i = a + 1
    BY <1>5
  <2>2. received'[a + 1] = order[a + 1]
    BY <1>6, <1>10, <1>12, <1>13
  <2> QED
    BY <1>2, <1>6, <1>9, <2>1, <2>2
<1>19. \A q \in Linking' : next'[producer'[q].node] = Null
  BY <1>0, <1>2, <1>9
<1> QED
  BY <1>2, <1>4, <1>6, <1>15, <1>16, <1>17, <1>18, <1>19

LEMMA TakeItems ==
  ASSUME IInv, NEW h, NEW n, Takes(h, n)
  PROVE  /\ ItemsAreKept'
         /\ received' \in Seq(Item) /\ Len(received') = Len(received) + 1
<1>0. Full' = Full \ {n}
  BY TakePlaces
<1>1. TypeOK /\ ItemsAreKept
  BY DEF IInv
<1>2. /\ n \in Full /\ received' = Append(received, data[n]) /\ UNCHANGED <<data, sent>>
  BY DEF Takes
<1>3. data[n] \in Item /\ data[n] \in SentItems /\ data[n] \notin Range(received)
  BY <1>1, <1>2 DEF ItemsAreKept, SentItems
<1>4. PICK a, x : a = Len(received) /\ x = data[n]
  OBVIOUS
<1>5. a \in Nat /\ DOMAIN received = 1 .. a
  BY <1>1, <1>4 DEF TypeOK
<1>6. /\ received' \in Seq(Item) /\ Len(received') = a + 1
      /\ DOMAIN received' = 1 .. a + 1 /\ received'[a + 1] = x
      /\ \A i \in 1 .. a : received'[i] = received[i]
  BY <1>1, <1>2, <1>3, <1>4 DEF TypeOK
<1>7. \A i \in 1 .. a + 1 : i \in 1 .. a \/ i = a + 1
  BY <1>5
<1>8. a + 1 \in 1 .. a + 1 /\ \A i \in 1 .. a : i \in 1 .. a + 1
  BY <1>5
<1>9. Range(received') = Range(received) \union {x}
  <2>1. ASSUME NEW y \in Range(received') PROVE y \in Range(received) \union {x}
    BY <1>5, <1>6, <1>7, <2>1 DEF Range
  <2>2. ASSUME NEW y \in Range(received) PROVE y \in Range(received')
    BY <1>5, <1>6, <1>8, <2>2 DEF Range
  <2>3. x \in Range(received')
    BY <1>6, <1>8 DEF Range
  <2> QED
    BY <2>1, <2>2, <2>3
<1>10. SentItems' = SentItems /\ data' = data
  BY <1>2 DEF SentItems
<1>11. \A m \in Full' : data'[m] \in SentItems' /\ data'[m] \notin Range(received')
  BY <1>0, <1>1, <1>2, <1>4, <1>9, <1>10 DEF ItemsAreKept
<1>12. \A l, m \in Full' : data'[l] = data'[m] => l = m
  BY <1>0, <1>1, <1>10 DEF ItemsAreKept
<1>13. \A i, j \in DOMAIN received' : received'[i] = received'[j] => i = j
  <2>1. \A i \in 1 .. a : received[i] # x
    BY <1>3, <1>4, <1>5 DEF Range
  <2>2. \A i, j \in 1 .. a : received[i] = received[j] => i = j
    BY <1>1, <1>5 DEF ItemsAreKept
  <2> QED
    BY <1>6, <1>7, <2>1, <2>2
<1>14. Range(received') \subseteq SentItems'
  BY <1>1, <1>3, <1>4, <1>9, <1>10 DEF ItemsAreKept
<1>15. \A y \in SentItems' : y \in Range(received') \/ \E m \in Full' : data'[m] = y
  BY <1>0, <1>1, <1>4, <1>9, <1>10 DEF ItemsAreKept
<1> QED
  BY <1>4, <1>6, <1>11, <1>12, <1>13, <1>14, <1>15 DEF ItemsAreKept

LEMMA TakeStep == ASSUME IInv, Take PROVE IInv'
<1>1. PICK h, n : Takes(h, n)
  BY TakeTakes
<1>2. /\ n \in Nodes /\ Linking' = Linking /\ PlacesExclude' /\ Chained'
      /\ free' \in Seq(Nodes) /\ Len(free') = Len(free) + 1
  BY <1>1, TakePlaces
<1>3. /\ ItemsAreKept' /\ received' \in Seq(Item) /\ Len(received') = Len(received) + 1
  BY <1>1, TakeItems
<1>4. ListIsOrder'
  BY <1>1, TakeList
<1>5. /\ consumer.at = "take" /\ consumer' = Idle
      /\ head' = Pointer(n, head.stamp + 1)
      /\ UNCHANGED <<tail, next, data, size, sent, event, producer, order, stale>>
  BY <1>1 DEF Takes
<1>6. Idle \in ConsumerType /\ Idle.at = "out" /\ Idle.next = Null
  BY DEF Idle, ConsumerType, Link0, Pointer, Null
<1>7. TypeOK /\ SizeAgrees
  BY DEF IInv
<1>8. TypeOK'
  <2>1. head' \in [node : Nodes, stamp : Nat]
    BY <1>2, <1>5, <1>7 DEF TypeOK, Pointer
  <2> QED
    BY <1>2, <1>3, <1>5, <1>6, <1>7, <2>1 DEF TypeOK
<1>9. NextIsKnown' /\ TailIsKnown'
  BY <1>5, <1>6 DEF NextIsKnown, TailIsKnown
<1>10. SizeAgrees'
  <2>1. Promised = 1 /\ Promised' = 0
    BY <1>5, <1>6 DEF Promised
  <2>2. PICK l, g, a, b, f : /\ l = Cardinality(Linking) /\ g = Cardinality(Growing)
                             /\ a = Len(order) /\ b = Len(received) /\ f = Len(free)
    OBVIOUS
  <2>3. /\ l \in Int /\ g \in Int /\ a \in Int /\ b \in Int /\ f \in Int /\ size \in Int
        /\ MaxNodes \in Int
    BY <1>7, <2>2, CountsAreNumbers
  <2>4. /\ size >= 0
        /\ a = b + size + 1 + g /\ a - b + l + f + 1 = MaxNodes
    BY <1>5, <1>7, <2>1, <2>2 DEF SizeAgrees
  <2>5. a = (b + 1) + size + 0 + g /\ a - (b + 1) + l + (f + 1) + 1 = MaxNodes
    BY <2>3, <2>4
  <2>6. Growing' = Growing
    BY <1>5 DEF Growing, ProducersAt
  <2>7. /\ size' = size /\ Len(order') = a /\ Len(received') = b + 1 /\ Len(free') = f + 1
        /\ Cardinality(Linking)' = l /\ Cardinality(Growing)' = g
    BY <1>2, <1>3, <1>5, <2>2, <2>6
  <2>8. /\ Len(order') = Len(received') + size' + Promised' + Cardinality(Growing)'
        /\ Len(order') - Len(received') + Cardinality(Linking)' + Len(free') + 1 = MaxNodes
    BY <2>1, <2>5, <2>7
  <2>9. size' >= IF consumer'.at = "empty" THEN -1 ELSE 0
    BY <1>5, <1>6, <2>4
  <2> QED
    BY <2>8, <2>9 DEF SizeAgrees
<1> QED
  BY <1>2, <1>3, <1>4, <1>8, <1>9, <1>10 DEF IInv

-----------------------------------------------------------------------------
(* The invariant.                                                            *)

LEMMA InitInvariant == ASSUME Init PROVE IInv
<1>1. MaxNodes \in Nat /\ MaxNodes >= 1
  BY QueueAssumption
<1>2. /\ head = Pointer(1, 0) /\ tail = Pointer(1, 0)
      /\ next = [n \in Nodes |-> Null] /\ data = [n \in Nodes |-> NoItem]
      /\ size = 0 /\ event = FALSE /\ stale = FALSE
      /\ free = [i \in 1 .. MaxNodes - 1 |-> i + 1]
      /\ sent = [p \in Producers |-> 0]
      /\ producer = [p \in Producers |-> Out]
      /\ consumer = [Idle EXCEPT !.at = "wait"]
      /\ received = <<>> /\ order = <<>>
  BY DEF Init
<1>3. 1 \in Nodes /\ head.node = 1
  BY <1>1, <1>2 DEF Nodes, Pointer
<1>4. /\ free \in Seq(Nodes) /\ Len(free) = MaxNodes - 1 /\ DOMAIN free = 1 .. MaxNodes - 1
      /\ \A i \in 1 .. MaxNodes - 1 : free[i] = i + 1
  <2>1. \A i \in 1 .. MaxNodes - 1 : i + 1 \in Nodes
    BY <1>1 DEF Nodes
  <2>2. free \in [1 .. MaxNodes - 1 -> Nodes]
    BY <1>2, <2>1
  <2>3. MaxNodes - 1 \in Nat
    BY <1>1
  <2> QED
    BY <1>2, <2>2, <2>3
<1>5. Used = {1} /\ Full = {}
  <2>1. \A n \in Nodes : n = 1 \/ (n - 1 \in 1 .. MaxNodes - 1 /\ free[n - 1] = n)
    <3>1. ASSUME NEW n \in Nodes, n # 1 PROVE n - 1 \in 1 .. MaxNodes - 1 /\ (n - 1) + 1 = n
      BY <1>1, <3>1 DEF Nodes
    <3> QED
      BY <1>4, <3>1
  <2>2. 1 \notin Range(free)
    BY <1>1, <1>4 DEF Range
  <2>3. \A n \in Nodes : n # 1 => n \in Range(free)
    BY <1>4, <2>1 DEF Range
  <2>4. Used = {1}
    BY <1>3, <2>2, <2>3 DEF Used
  <2> QED
    BY <1>3, <2>4 DEF Full
<1>6. Linking = {} /\ Growing = {}
  BY <1>2 DEF Linking, Growing, ProducersAt, Out
<1>7. consumer.at = "wait" /\ consumer \in ConsumerType
  BY <1>2 DEF Idle, ConsumerType, Link0, Pointer, Null
<1>8. TypeOK
  <2>1. head \in [node : Nodes, stamp : Nat] /\ tail \in [node : Nodes, stamp : Nat]
    BY <1>2, <1>3 DEF Pointer
  <2>2. producer \in [Producers -> ProducerType] /\ \A p \in Producers : ProducerKnows(producer[p])
    BY <1>2 DEF Out, ProducerType, ProducerKnows, Link0, Pointer, Null
  <2>3. sent \in [Producers -> 0 .. Items]
    BY <1>2, QueueAssumption
  <2>4. received \in Seq(Item) /\ order \in Seq(Item)
    BY <1>2
  <2>5. next \in [Nodes -> Nodes \union {Null}] /\ data \in [Nodes -> Item \union {NoItem}]
    BY <1>2
  <2>6. size \in Int /\ event \in BOOLEAN /\ stale \in BOOLEAN
    <3>1. size \in Int
      BY <1>2
    <3>2. event \in BOOLEAN /\ stale \in BOOLEAN
      BY Zenon DEF Init
    <3> QED
      BY <3>1, <3>2
  <2>7. consumer.at \notin {"tailNext", "compare", "push"}
    BY <1>7
  <2> QED
    BY <1>4, <1>7, <2>1, <2>2, <2>3, <2>4, <2>5, <2>6, <2>7 DEF TypeOK
<1>9. PlacesExclude
  <2>1. \A i, j \in DOMAIN free : free[i] = free[j] => i = j
    BY <1>1, <1>4
  <2> QED
    BY <1>3, <1>5, <1>6, <2>1 DEF PlacesExclude
<1>10. Chained
  BY <1>2, <1>3, <1>5, <1>6 DEF Chained
<1>11. NextIsKnown /\ TailIsKnown
  BY <1>7 DEF NextIsKnown, TailIsKnown
<1>12. ItemsAreKept
  <2>1. SentItems = {}
    BY <1>2 DEF SentItems, Item
  <2>2. DOMAIN received = {} /\ Range(received) = {}
    BY <1>2 DEF Range
  <2> QED
    BY <1>5, <2>1, <2>2 DEF ItemsAreKept
<1>13. SizeAgrees
  <2>1. Cardinality(Linking) = 0 /\ Cardinality(Growing) = 0
    BY <1>6, FS_EmptySet
  <2>2. Promised = 0 /\ Len(order) = 0 /\ Len(received) = 0
    BY <1>2, <1>7 DEF Promised
  <2> QED
    BY <1>1, <1>2, <1>4, <1>7, <2>1, <2>2 DEF SizeAgrees
<1>14. ListIsOrder
  <2>1. PICK line : line = [i \in 0 .. 0 |-> 1]
    OBVIOUS
  <2>2. \A i \in 0 .. 0 : i = 0
    OBVIOUS
  <2>3. line \in [0 .. 0 -> Nodes] /\ line[0] = 1
    BY <1>3, <2>1
  <2>4. Len(received) = 0 /\ Len(order) = 0 /\ DOMAIN received = {}
    BY <1>2
  <2>5. IsList(line)
    <3>1. next[line[0]] = Null
      BY <1>2, <1>3, <2>3
    <3>2. \A i \in 0 .. 0 : line[i] \in Used /\ \A p \in Linking : line[i] # producer[p].node
      BY <1>5, <1>6, <2>2, <2>3
    <3>3. \A i \in 0 + 1 .. 0 : data[line[i]] = order[i]
      OBVIOUS
    <3>4. \A i \in 0 .. 0 - 1 : line[i + 1] = next[line[i]]
      OBVIOUS
    <3> QED
      BY <1>3, <2>2, <2>3, <2>4, <3>1, <3>2, <3>3, <3>4 DEF IsList
  <2> QED
    BY <1>6, <2>3, <2>4, <2>5 DEF ListIsOrder
<1> QED
  BY <1>8, <1>9, <1>10, <1>11, <1>12, <1>13, <1>14 DEF IInv

LEMMA NextInvariant == ASSUME IInv, Next PROVE IInv'
<1>1. CASE \E p \in Producers : Enqueue(p)
  <2>1. PICK p \in Producers : Enqueue(p)
    BY <1>1
  <2> QED
    BY <2>1, NewNodeStep, ReadTailStep, ReadNextStep, LinkStep, MoveTailStep, HelpTailStep,
       GrowStep, SignalStep DEF Enqueue
<1>2. CASE Dequeue
  BY <1>2, WaitStep, ShrinkStep, EmptyStep, ReadHeadNextStep, ReadLastStep, ReadTailNextStep,
     CompareStep, PushTailStep, TakeStep DEF Dequeue
<1> QED
  BY <1>1, <1>2 DEF Next

LEMMA StutterInvariant == ASSUME IInv, UNCHANGED vars PROVE IInv'
<1>1. SameNodes /\ consumer' = consumer /\ producer' = producer /\ UNCHANGED <<tail, size, event>>
  BY DEF vars, SameNodes
<1>2. Linking' = Linking /\ Growing' = Growing
  BY <1>1 DEF Linking, Growing, ProducersAt
<1>3. PlacesExclude' /\ Chained' /\ ItemsAreKept' /\ ListIsOrder'
  BY <1>1, <1>2, NodesSame DEF IInv
<1>4. TypeOK'
  BY <1>1 DEF IInv, TypeOK, SameNodes
<1>5. NextIsKnown' /\ TailIsKnown'
  BY <1>1 DEF IInv, NextIsKnown, TailIsKnown, SameNodes
<1>6. SizeAgrees'
  BY <1>1, <1>2 DEF IInv, SizeAgrees, Promised, SameNodes
<1> QED
  BY <1>3, <1>4, <1>5, <1>6 DEF IInv

\* Every node has one place, every item that was sent is in one node or has come
\* out, the size and what is promised account for what was linked, and the list is
\* the items in their order until a link is stale.  CLFQueue::Enqueue and Dequeue
\* keep this whatever the number of producers, items and nodes.
THEOREM Invariant == Spec => []IInv
<1>1. Init => IInv
  BY InitInvariant
<1>2. IInv /\ [Next]_vars => IInv'
  BY NextInvariant, StutterInvariant
<1> QED
  BY <1>1, <1>2, PTL DEF Spec

-----------------------------------------------------------------------------
(* What follows from it.                                                     *)

LEMMA LinkedIsUsed == ASSUME IInv PROVE Linked \subseteq Used
<1>1. Used \in SUBSET Nodes /\ Full \subseteq Used
  BY DEF Used, Full
<1>2. Leads(head.node, Used)
  BY <1>1 DEF IInv, PlacesExclude, Chained, Leads
<1> QED
  BY <1>1, <1>2, LinkedIsLeast

\* A node that the list leads to is not in the free list, and a producer's new node
\* is not in it either: nobody allocates a node that someone uses.  This is so even
\* after a stale link.
THEOREM NodesHaveOnePlace == Spec => []NodesAreApart
<1>1. IInv => NodesAreApart
  <2>1. SUFFICES ASSUME IInv PROVE NodesAreApart
    OBVIOUS
  <2>2. Range(free) \cap Linked = {}
    BY <2>1, LinkedIsUsed DEF Used
  <2>3. \A p \in Linking : producer[p].node \notin Range(free)
    BY <2>1 DEF IInv, PlacesExclude, Full, Used
  <2> QED
    BY <2>2, <2>3 DEF NodesAreApart, Linking, ProducersAt
<1> QED
  BY <1>1, Invariant, PTL

\* Dequeue, which has taken its item from the size, finds it in the list as long as
\* no link was stale: the producer counts its item only when it has linked its node.
THEOREM DequeueFindsItsItem == Spec => []FindsItsItem
<1>1. IInv => FindsItsItem
  <2>1. SUFFICES ASSUME IInv, consumer.at \in {"next", "tail", "tailNext"}, ~stale
                 PROVE  next[head.node] # Null
    BY DEF FindsItsItem
  <2>2. PICK a, b, g : a = Len(received) /\ b = Len(order) /\ g = Cardinality(Growing)
    OBVIOUS
  <2>3. a \in Nat /\ b \in Nat /\ g \in Nat /\ size \in Int
    BY <2>1, <2>2, CountsAreNumbers DEF IInv
  <2>4. size >= 0 /\ b = a + size + 1 + g
    BY <2>1, <2>2 DEF IInv, SizeAgrees, Promised
  <2>5. a \in a .. b - 1 /\ a + 1 \in a .. b
    BY <2>3, <2>4
  <2>6. PICK line \in [a .. b -> Nodes] : IsList(line)
    BY <2>1, <2>2 DEF IInv, ListIsOrder
  <2>7. line[a + 1] = next[head.node] /\ line[a + 1] \in Nodes
    BY <2>2, <2>5, <2>6 DEF IsList
  <2> QED
    BY <2>7 DEF Nodes, Null
<1> QED
  BY <1>1, Invariant, PTL

\* The images of different elements are different: there are as many.
LEMMA AsMany ==
  ASSUME NEW S, IsFiniteSet(S), NEW f, NEW T, T = {f[x] : x \in S},
         \A x, y \in S : f[x] = f[y] => x = y
  PROVE  IsFiniteSet(T) /\ Cardinality(T) = Cardinality(S)
<1>1. PICK g : g = [x \in S |-> f[x]]
  OBVIOUS
<1>2. g \in [S -> T] /\ \A x \in S : g[x] = f[x]
  BY <1>1
<1>3. g \in Bijection(S, T)
  BY <1>2 DEF Bijection, Injection, Surjection, IsInjective
<1>4. ExistsBijection(S, T)
  BY <1>3 DEF ExistsBijection
<1> QED
  BY <1>4, FS_Bijection

\* No item comes out twice, and only items that were sent come out.  When all the
\* producers are done, the size is 0 and the consumer waits, every item is out.
THEOREM ItemsComeOut == Spec => []ItemsComeOutOnce
<1>1. IInv => ItemsComeOutOnce
  <2>1. SUFFICES ASSUME IInv PROVE ItemsComeOutOnce
    OBVIOUS
  <2>2. TypeOK /\ PlacesExclude /\ ItemsAreKept /\ SizeAgrees
    BY <2>1 DEF IInv
  <2>3. \A i \in DOMAIN received : received[i] \in SentItems
    BY <2>2 DEF ItemsAreKept, Range
  <2>4. ASSUME size = 0, consumer.at = "wait", \A p \in Producers : producer[p].at = "out",
               NEW p \in Producers, NEW k \in 1 .. sent[p]
        PROVE  <<p, k>> \in Range(received)
    <3>1. Linking = {} /\ Growing = {}
      BY <2>4 DEF Linking, Growing, ProducersAt
    <3>2. Len(free) + 1 = MaxNodes /\ Len(free) \in Nat
      <4>1. /\ Len(order) = Len(received) + size + Promised + Cardinality(Growing)
            /\ Len(order) - Len(received) + Cardinality(Linking) + Len(free) + 1 = MaxNodes
        BY <2>2 DEF SizeAgrees
      <4>2. Cardinality(Growing) = 0 /\ Cardinality(Linking) = 0 /\ Promised = 0
        BY <2>4, <3>1, FS_EmptySet DEF Promised
      <4>3. /\ Len(free) \in Nat /\ Len(order) \in Nat /\ Len(received) \in Nat /\ MaxNodes \in Nat
        BY <2>2, CountsAreNumbers
      <4> QED
        BY <2>4, <4>1, <4>2, <4>3
    <3>3. IsFiniteSet(Range(free)) /\ Cardinality(Range(free)) = Len(free)
      <4>1. DOMAIN free = 1 .. Len(free) /\ Range(free) = {free[i] : i \in 1 .. Len(free)}
        BY <2>2 DEF TypeOK, Range
      <4>2. IsFiniteSet(1 .. Len(free)) /\ Cardinality(1 .. Len(free)) = Len(free)
        <5>1. PICK m \in Nat : m = Len(free)
          BY <3>2
        <5>2. IsFiniteSet(1 .. m) /\ Cardinality(1 .. m) = IF 1 > m THEN 0 ELSE m - 1 + 1
          BY FS_Interval
        <5>3. Cardinality(1 .. m) = m
          BY <5>2
        <5> QED
          BY <5>1, <5>2, <5>3
      <4>3. \A i, j \in 1 .. Len(free) : free[i] = free[j] => i = j
        BY <2>2, <4>1 DEF PlacesExclude
      <4> QED
        BY <4>1, <4>2, <4>3, AsMany
    <3>4. Full = {}
      <4>1. IsFiniteSet(Nodes) /\ Cardinality(Nodes) = MaxNodes
        <5>1. /\ IsFiniteSet(1 .. MaxNodes)
              /\ Cardinality(1 .. MaxNodes) = IF 1 > MaxNodes THEN 0 ELSE MaxNodes - 1 + 1
          BY QueueAssumption, FS_Interval
        <5>2. IF 1 > MaxNodes THEN FALSE ELSE MaxNodes - 1 + 1 = MaxNodes
          BY QueueAssumption
        <5> QED
          BY <5>1, <5>2 DEF Nodes
      <4>2. head.node \notin Range(free) /\ head.node \in Nodes /\ Range(free) \subseteq Nodes
        BY <2>2 DEF PlacesExclude, Used, TypeOK, Range
      <4>3. PICK S : S = Range(free) \union {head.node}
        OBVIOUS
      <4>4. S \subseteq Nodes /\ Cardinality(S) = Cardinality(Nodes)
        <5>1. Cardinality(S) = Cardinality(Range(free)) + 1
          BY <3>3, <4>2, <4>3, FS_AddElement
        <5> QED
          BY <3>2, <3>3, <4>1, <4>2, <4>3, <5>1
      <4>5. S = Nodes
        BY <4>1, <4>4, FS_Subset
      <4> QED
        BY <4>3, <4>5 DEF Full, Used
    <3>5. <<p, k>> \in SentItems
      <4>1. sent[p] \in 0 .. Items /\ sent[p] \in Nat
        BY <2>2, QueueAssumption DEF TypeOK
      <4>2. k \in 1 .. Items /\ k <= sent[p]
        BY <2>4, <4>1, QueueAssumption
      <4> QED
        BY <4>2 DEF SentItems, Item
    <3> QED
      BY <2>2, <3>4, <3>5 DEF ItemsAreKept
  <2>5. \A i, j \in DOMAIN received : received[i] = received[j] => i = j
    BY <2>2 DEF ItemsAreKept
  <2>6. \A i \in DOMAIN received : received[i] \in Item /\ received[i][2] <= sent[received[i][1]]
    BY <2>3 DEF SentItems
  <2> QED
    BY <2>4, <2>5, <2>6 DEF ItemsComeOutOnce
<1> QED
  BY <1>1, Invariant, PTL

\* Every set of numbers that is not empty has a least one.
LEMMA LeastOf == ASSUME NEW T \in SUBSET Nat, T # {} PROVE \E m \in T : \A x \in T : m <= x
<1>1. PICK m \in T : \A y \in T : ~(<<y, m>> \in OpToRel(<, Nat))
  BY NatLessThanWellFounded, WFMin, Zenon
<1>2. ASSUME NEW x \in T PROVE m <= x
  <2>1. <<x, m>> \notin OpToRel(<, Nat)
    BY <1>1, Zenon
  <2>2. ~(x < m)
    BY <2>1, Zenon DEF OpToRel
  <2> QED
    BY <2>2
<1> QED
  BY <1>2

\* From the node at i one reaches the nodes at i and behind it.
LEMMA FromIsTheRest ==
  ASSUME TypeOK, Len(received) <= Len(order),
         NEW line \in [Len(received) .. Len(order) -> Nodes], IsList(line),
         NEW i \in Len(received) .. Len(order)
  PROVE  From(line[i]) = {line[j] : j \in i .. Len(order)}
<1>1. PICK a, b : a = Len(received) /\ b = Len(order)
  OBVIOUS
<1>2. a \in Nat /\ b \in Nat /\ a <= b /\ i \in a .. b /\ i \in Nat
  BY <1>1 DEF TypeOK
<1>3. /\ line \in [a .. b -> Nodes]
      /\ \A j \in a .. b - 1 : line[j + 1] = next[line[j]]
      /\ next[line[b]] = Null
  BY <1>1 DEF IsList
<1>4. PICK R : R = {line[j] : j \in i .. b}
  OBVIOUS
<1>5. R \in SUBSET Nodes /\ Leads(line[i], R)
  <2>1. \A j \in i .. b : j \in a .. b
    BY <1>2
  <2>2. i \in i .. b
    BY <1>2
  <2>3. ASSUME NEW m \in R PROVE next[m] \in R \union {Null}
    <3>1. PICK j \in i .. b : m = line[j]
      BY <1>4
    <3>2. CASE j = b
      BY <1>3, <3>1, <3>2
    <3>3. CASE j # b
      <4>1. j \in a .. b - 1 /\ j + 1 \in i .. b
        BY <1>2, <3>3
      <4> QED
        BY <1>3, <1>4, <3>1, <4>1
    <3> QED
      BY <3>2, <3>3
  <2> QED
    BY <1>3, <1>4, <2>1, <2>2, <2>3 DEF Leads
<1>6. From(line[i]) \subseteq R
  BY <1>5 DEF From
<1>7. ASSUME NEW S \in SUBSET Nodes, Leads(line[i], S) PROVE R \subseteq S
  <2>1. PICK T : T = {j \in i .. b : line[j] \notin S}
    OBVIOUS
  <2>2. CASE T = {}
    BY <1>4, <2>1, <2>2
  <2>3. CASE T # {}
    <3>1. T \in SUBSET Nat
      BY <1>2, <2>1
    <3>2. PICK m \in T : \A x \in T : m <= x
      BY <2>3, <3>1, LeastOf
    <3>3. m \in i .. b /\ line[m] \notin S /\ m # i
      BY <1>7, <2>1 DEF Leads
    <3>4. m - 1 \in i .. b /\ m - 1 \in a .. b - 1 /\ (m - 1) + 1 = m /\ m \in a .. b /\ ~(m <= m - 1)
      BY <1>2, <3>3
    <3>5. line[m - 1] \in S
      BY <2>1, <3>2, <3>4
    <3>6. next[line[m - 1]] \in S \union {Null} /\ next[line[m - 1]] = line[m] /\ line[m] \in Nodes
      BY <1>3, <1>7, <3>4, <3>5 DEF Leads
    <3> QED
      BY <3>3, <3>6 DEF Nodes, Null
  <2> QED
    BY <2>2, <2>3
<1>8. R \subseteq From(line[i])
  BY <1>5, <1>7 DEF From
<1> QED
  BY <1>1, <1>4, <1>6, <1>8

\* As long as no producer has linked its node behind a node that was freed, what
\* has come out and what the list holds, from the dummy on, is what was linked, in
\* its order: CLFQueue is a queue.
THEOREM QueueInOrder == Spec => []IsAQueue
<1>1. IInv => IsAQueue
  <2>1. SUFFICES ASSUME IInv, ~stale
                 PROVE  /\ \A i \in DOMAIN received : received[i] = order[i]
                        /\ Len(order) = Len(received) + Cardinality(Linked \ {head.node})
                        /\ \A n \in Linked \ {head.node} :
                              data[n] = order[Len(order) + 1 - Cardinality(From(n))]
    BY DEF IsAQueue
  <2>2. PICK a, b : a = Len(received) /\ b = Len(order)
    OBVIOUS
  <2>3. PICK line \in [a .. b -> Nodes] : IsList(line)
    BY <2>1, <2>2 DEF IInv, ListIsOrder
  <2>4. TypeOK /\ a \in Nat /\ b \in Nat /\ a <= b /\ \A i \in DOMAIN received : received[i] = order[i]
    <3>1. TypeOK /\ a <= b /\ \A i \in DOMAIN received : received[i] = order[i]
      BY <2>1, <2>2 DEF IInv, ListIsOrder
    <3> QED
      BY <2>2, <3>1 DEF TypeOK
  <2>5. /\ line[a] = head.node
        /\ \A i, j \in a .. b : line[i] = line[j] => i = j
        /\ \A i \in a + 1 .. b : data[line[i]] = order[i]
    BY <2>2, <2>3 DEF IsList
  <2>6. \A i \in a .. b : From(line[i]) = {line[j] : j \in i .. b}
    BY <2>2, <2>3, <2>4, FromIsTheRest
  <2>7. ASSUME NEW i \in a .. b
        PROVE  /\ IsFiniteSet({line[j] : j \in i .. b})
               /\ Cardinality({line[j] : j \in i .. b}) = b - i + 1
    <3>1. i \in Int /\ i <= b /\ \A j \in i .. b : j \in a .. b
      BY <2>4
    <3>2. IsFiniteSet(i .. b) /\ Cardinality(i .. b) = b - i + 1
      BY <2>4, <3>1, FS_Interval
    <3>3. \A x, y \in i .. b : line[x] = line[y] => x = y
      BY <2>5, <3>1
    <3> QED
      BY <3>2, <3>3, AsMany
  <2>8. a \in a .. b /\ \A i \in a .. b : i = a \/ i \in a + 1 .. b
    BY <2>4
  <2>9. Linked = {line[j] : j \in a .. b}
    BY <2>5, <2>6, <2>8 DEF Linked
  <2>10. IsFiniteSet(Linked) /\ Cardinality(Linked) = b - a + 1
    BY <2>7, <2>8, <2>9
  <2>11. b = a + Cardinality(Linked \ {head.node})
    <3>1. head.node \in Linked
      BY <2>5, <2>8, <2>9
    <3>2. Cardinality(Linked \ {head.node}) = Cardinality(Linked) - 1
      BY <2>10, <3>1, FS_RemoveElement
    <3> QED
      BY <2>4, <2>10, <3>2
  <2>12. ASSUME NEW n \in Linked \ {head.node} PROVE data[n] = order[b + 1 - Cardinality(From(n))]
    <3>1. PICK i \in a .. b : n = line[i]
      BY <2>9
    <3>2. i \in a + 1 .. b /\ i \in Int
      BY <2>4, <2>5, <2>8, <2>12, <3>1
    <3>3. Cardinality(From(n)) = b - i + 1
      BY <2>6, <2>7, <3>1
    <3>4. b + 1 - Cardinality(From(n)) = i
      BY <2>4, <3>2, <3>3
    <3> QED
      BY <2>5, <3>1, <3>2, <3>4
  <2> QED
    BY <2>2, <2>4, <2>11, <2>12
<1> QED
  BY <1>1, Invariant, PTL
=============================================================================
