------------------------- MODULE IndexPool_proofs --------------------------
(* The stack of free indices for any number of indices and of threads that   *)
(* release sessions.  The stamp of the top never changes, so a swap cannot   *)
(* tell a top that came back from one that stayed.  That would be wrong with *)
(* two threads that pop; with one it is harmless, and PopIsCurrent says why: *)
(* what the accept thread reads of the node it takes cannot change, since    *)
(* nobody else takes nodes out.                                              *)
EXTENDS IndexPool, FiniteSetTheorems, WellFoundedInduction, TLAPS

\* The threads that have a node to push.
Pushing == ThreadsAt({"pushTop", "pushNext", "pushSwap"})

\* The nodes that are on their way into the stack or out of it.
Busy ==
    {n \in Nodes : \/ \E t \in Pushing : thread[t].node = n
                   \/ At(Accept, "popFree") /\ thread[Accept].seen.node = n}

\* The nodes that should be in the stack.
Listed == {n \in Nodes : out[n] = 1} \ Busy

Top == [node : Nodes \union {Null}, stamp : Nat]

PushLabels == {"idle", "pushTop", "pushNext", "pushSwap", "grow"}
PopLabels == {"idle", "refused", "popTop", "popNext", "popData", "popSwap", "popFree"}

ThreadType ==
    [at : PushLabels \union PopLabels, node : Nodes \union {Null}, seen : Top,
     next : Nodes \union {Null}, index : Index \union {0}]

\* Every thread pushes and the accept thread pops as well.
TypeOK ==
    /\ top \in Top
    /\ next \in [Nodes -> Nodes \union {Null}]
    /\ data \in [Nodes -> Index]
    /\ size \in Int
    /\ out \in [Nodes -> {0, 1}]
    /\ owned \in [Index -> Nat]
    /\ thread \in [Threads -> ThreadType]
    /\ \A t \in Releasers : thread[t].at \in PushLabels

\* The pool of nodes has given each to one caller.
OneUser ==
    /\ \A t \in Pushing : thread[t].node \in Nodes /\ out[thread[t].node] = 1
    /\ \A t, u \in Pushing : thread[t].node = thread[u].node => t = u
    /\ At(Accept, "popFree") =>
          /\ thread[Accept].seen.node \in Nodes /\ out[thread[Accept].seen.node] = 1
          /\ \A t \in Pushing : thread[t].node # thread[Accept].seen.node

\* The nodes of the stack are those nobody has, no two of them lead to the same
\* node, and none leads back to the top.
Chained ==
    /\ Linked = Listed
    /\ \A m, n \in Listed : next[m] = next[n] => m = n
    /\ \A n \in Listed : next[n] # top.node

\* What the accept thread has read of the stack stays true until it pops, for
\* nobody else takes nodes out.
PopIsCurrent ==
    LET a == thread[Accept]
    IN  /\ a.at = "popTop" => top.node # Null
        /\ a.at \in {"popNext", "popData", "popSwap"} => a.seen.node \in Listed
        /\ a.at \in {"popData", "popSwap"} => a.next = next[a.seen.node]
        /\ a.at = "popSwap" => a.index = data[a.seen.node]
        /\ a.at = "popFree" => a.index \in Index

\* A node that is pushed leads to the top its thread saw.
PushIsLinked == \A t \in ThreadsAt({"pushSwap"}) : next[thread[t].node] = thread[t].seen.node

Stacked(i) == {n \in Listed : data[n] = i}

Placed == \A i \in Index : owned[i] + Cardinality(Carrying(i)) + Cardinality(Stacked(i)) = 1

\* Threads that have counted themselves out of size, or not yet back into it.
Counting == {"grow", "refused", "popTop", "popNext", "popData", "popSwap"}

SizeAgrees == size = Cardinality(Listed) - Cardinality(ThreadsAt(Counting))

IInv ==
    /\ TypeOK /\ OneUser /\ Chained
    /\ PopIsCurrent /\ PushIsLinked /\ Placed /\ SizeAgrees

-----------------------------------------------------------------------------
(* The stack: its nodes are the least set that has the top and what its      *)
(* nodes lead to.                                                            *)

LEMMA ListLeads ==
  ASSUME TypeOK
  PROVE  Leads(Linked) /\ \A S \in SUBSET Nodes : Leads(S) => Linked \subseteq S
<1>1. top.node \in Nodes \union {Null} /\ \A n \in Nodes : next[n] \in Nodes \union {Null}
  BY DEF TypeOK, Top
<1>2. top.node \in Linked \union {Null}
  BY <1>1 DEF Linked, Leads
<1>3. ASSUME NEW n \in Linked, next[n] # Null PROVE next[n] \in Linked
  <2>1. \A S \in SUBSET Nodes : Leads(S) => next[n] \in S
    BY <1>3 DEF Linked, Leads
  <2>2. next[n] \in Nodes
    BY <1>1, <1>3 DEF Linked
  <2> QED
    BY <2>1, <2>2 DEF Linked
<1> QED
  BY <1>2, <1>3 DEF Leads, Linked

\* A list that is not empty begins with the top, which leads to another node of it.
LEMMA TopOfList ==
  ASSUME TypeOK, Chained
  PROVE  /\ top.node = Null <=> Listed = {}
         /\ top.node # Null => /\ top.node \in Listed
                               /\ next[top.node] \in (Listed \ {top.node}) \union {Null}
<1>1. Leads(Listed) /\ \A S \in SUBSET Nodes : Leads(S) => Listed \subseteq S
  BY ListLeads DEF Chained
<1>2. CASE top.node = Null
  <2>1. Leads({})
    BY <1>2 DEF Leads
  <2> QED
    BY <1>1, <1>2, <2>1
<1>3. CASE top.node # Null
  <2>1. top.node \in Listed /\ next[top.node] \in Listed \union {Null} /\ next[top.node] # top.node
    BY <1>1, <1>3 DEF Leads, Chained
  <2> QED
    BY <1>3, <2>1
<1> QED
  BY <1>2, <1>3

LEMMA ChainKept ==
  ASSUME TypeOK, Chained, top' = top, Listed' = Listed, \A n \in Listed : next'[n] = next[n]
  PROVE  Chained'
<1>l. PICK L : L = Listed
  OBVIOUS
<1>1. L \in SUBSET Nodes /\ Leads(L) /\ \A S \in SUBSET Nodes : Leads(S) => L \subseteq S
  BY <1>l, ListLeads DEF Chained, Linked
<1>2. Leads(L)'
  BY <1>l, <1>1 DEF Leads
<1>3. ASSUME NEW S \in SUBSET Nodes, Leads(S)' PROVE L \subseteq S
  <2>1. Leads(S \intersect L)
    BY <1>l, <1>1, <1>3 DEF Leads
  <2>2. S \intersect L \in SUBSET Nodes
    OBVIOUS
  <2> QED
    BY <1>1, <2>1, <2>2
<1>4. Linked' = Listed
  BY <1>l, <1>1, <1>2, <1>3 DEF Linked
<1> QED
  BY <1>4 DEF Chained

\* A node that is not in the list becomes its top.
LEMMA ChainPushed ==
  ASSUME TypeOK, Chained, NEW n \in Nodes, n \notin Listed, next[n] = top.node,
         next' = next, top'.node = n, Listed' = Listed \union {n}
  PROVE  Chained'
<1>l. PICK L : L = Listed
  OBVIOUS
<1>1. L \in SUBSET Nodes /\ Leads(L) /\ \A S \in SUBSET Nodes : Leads(S) => L \subseteq S
  BY <1>l, ListLeads DEF Chained, Linked
<1>2. Leads(L \union {n})'
  BY <1>1 DEF Leads
<1>3. ASSUME NEW S \in SUBSET Nodes, Leads(S)' PROVE L \union {n} \subseteq S
  <2>1. n \in S
    BY <1>3 DEF Leads, Nodes, Null
  <2>2. Leads(S)
    BY <1>3, <2>1 DEF Leads
  <2> QED
    BY <1>1, <2>1, <2>2
<1>4. Linked' = Listed \union {n}
  BY <1>l, <1>1, <1>2, <1>3 DEF Linked
<1>5. n # Null /\ \A m \in Listed : next[m] # n
  BY <1>l, <1>1 DEF Leads, Nodes, Null
<1>6. next[n] # n
  BY <1>l, <1>1, <1>5 DEF Leads
<1>7. \A m \in Listed : next[m] # next[n]
  BY DEF Chained
<1> QED
  BY <1>4, <1>5, <1>6, <1>7 DEF Chained

\* The node behind the top becomes the top.
LEMMA ChainPopped ==
  ASSUME TypeOK, Chained, top.node # Null,
         next' = next, top'.node = next[top.node], Listed' = Listed \ {top.node}
  PROVE  Chained'
<1>l. PICK L, n : L = Listed /\ n = top.node
  OBVIOUS
<1>1. /\ L \in SUBSET Nodes /\ Leads(L) /\ n \in L
      /\ \A S \in SUBSET Nodes : Leads(S) => L \subseteq S
  BY <1>l, ListLeads, TopOfList DEF Chained, Linked
<1>2. Leads(L \ {n})'
  <2>1. \A m \in L : next[m] \in (L \ {n}) \union {Null}
    BY <1>l, <1>1 DEF Leads, Chained
  <2> QED
    BY <1>l, <1>1, <2>1 DEF Leads
<1>3. ASSUME NEW S \in SUBSET Nodes, Leads(S)' PROVE L \ {n} \subseteq S
  <2>1. Leads(S \union {n})
    BY <1>l, <1>3 DEF Leads
  <2>2. S \union {n} \in SUBSET Nodes
    BY <1>1
  <2> QED
    BY <1>1, <2>1, <2>2
<1>4. Linked' = L \ {n} /\ Listed' = L \ {n}
  BY <1>l, <1>1, <1>2, <1>3 DEF Linked
<1>5. \A m \in L \ {n} : next[m] # next[n]
  BY <1>l, <1>1 DEF Chained
<1>6. \A m, k \in L \ {n} : next[m] = next[k] => m = k
  BY <1>l DEF Chained
<1> QED
  BY <1>l, <1>4, <1>5, <1>6 DEF Chained

-----------------------------------------------------------------------------
(* Threads, and how many there are at some labels.                           *)

LEMMA ThreadsAreFinite ==
  ASSUME NEW S \in SUBSET Threads PROVE IsFiniteSet(S) /\ Cardinality(S) \in Nat
<1>1. IsFiniteSet(Releasers) /\ IsFiniteSet(Releasers \union {Accept})
  BY FS_AddElement, IndexAssumption
<1> QED
  BY <1>1, FS_Subset, FS_CardinalityType DEF Threads

LEMMA NodesAreFinite ==
  ASSUME NEW S \in SUBSET Nodes PROVE IsFiniteSet(S) /\ Cardinality(S) \in Nat
<1>1. IsFiniteSet(Nodes)
  BY FS_Interval, IndexAssumption DEF Nodes
<1> QED
  BY <1>1, FS_Subset, FS_CardinalityType

\* What a step of t does to who is at some labels, and to how many they are.
LEMMA AtAfter ==
  ASSUME NEW t \in Threads, NEW labels, \A u \in Threads \ {t} : thread'[u] = thread[u]
  PROVE  /\ ThreadsAt(labels)' = IF thread'[t].at \in labels THEN ThreadsAt(labels) \union {t}
                                 ELSE ThreadsAt(labels) \ {t}
         /\ Cardinality(ThreadsAt(labels)) \in Nat
         /\ Cardinality(ThreadsAt(labels))' =
               Cardinality(ThreadsAt(labels))
                 + (IF thread'[t].at \in labels THEN 1 ELSE 0)
                 - (IF thread[t].at \in labels THEN 1 ELSE 0)
<1>1. ThreadsAt(labels)' = IF thread'[t].at \in labels THEN ThreadsAt(labels) \union {t}
                           ELSE ThreadsAt(labels) \ {t}
  BY DEF ThreadsAt
<1>2. t \in ThreadsAt(labels) <=> thread[t].at \in labels
  BY DEF ThreadsAt
<1>3. PICK S : S = ThreadsAt(labels)
  OBVIOUS
<1>4. IsFiniteSet(S) /\ Cardinality(S) \in Nat
  BY <1>3, ThreadsAreFinite DEF ThreadsAt
<1>5. CASE thread'[t].at \in labels
  <2>1. Cardinality(S \union {t}) = IF t \in S THEN Cardinality(S) ELSE Cardinality(S) + 1
    BY <1>4, FS_AddElement
  <2>2. ThreadsAt(labels)' = S \union {t}
    BY <1>1, <1>3, <1>5
  <2> QED
    BY <1>1, <1>2, <1>3, <1>4, <1>5, <2>1, <2>2
<1>6. CASE thread'[t].at \notin labels
  <2>1. Cardinality(S \ {t}) = IF t \in S THEN Cardinality(S) - 1 ELSE Cardinality(S)
    BY <1>4, FS_RemoveElement
  <2>2. ThreadsAt(labels)' = S \ {t}
    BY <1>1, <1>3, <1>6
  <2> QED
    BY <1>1, <1>2, <1>3, <1>4, <1>6, <2>1, <2>2
<1> QED
  BY <1>5, <1>6

\* A step that moves no node and no index: the thread that takes it has what it
\* had, and the nodes of the stack lead where they led.
LEMMA QuietStep ==
  ASSUME IInv, NEW t \in Threads,
         UNCHANGED <<top, data, out, owned>>,
         \A n \in Listed : next'[n] = next[n],
         \A u \in Threads \ {t} : thread'[u] = thread[u],
         t \in Pushing' <=> t \in Pushing,
         t \in Pushing => thread'[t].node = thread[t].node,
         thread[t].at # "popFree", thread'[t].at # "popFree"
  PROVE  /\ Pushing' = Pushing /\ Busy' = Busy /\ Listed' = Listed
         /\ OneUser' /\ Chained' /\ Placed'
<1>1. Pushing' = Pushing /\ \A u \in Pushing : thread'[u].node = thread[u].node
  BY DEF Pushing, ThreadsAt
<1>2. /\ At(Accept, "popFree")' <=> At(Accept, "popFree")
      /\ At(Accept, "popFree") => thread'[Accept] = thread[Accept]
  BY DEF At, Threads
<1>3. Busy' = Busy /\ Listed' = Listed
  BY <1>1, <1>2 DEF Busy, Listed
<1>4. OneUser'
  BY <1>1, <1>2 DEF IInv, OneUser
<1>5. Chained'
  BY <1>3, ChainKept DEF IInv
<1>6. ThreadsAt({"popFree"})' = ThreadsAt({"popFree"}) /\ \A u \in ThreadsAt({"popFree"}) : thread'[u] = thread[u]
  BY DEF ThreadsAt
<1>7. \A i \in Index : Carrying(i)' = Carrying(i) /\ Stacked(i)' = Stacked(i)
  <2>1. ASSUME NEW i \in Index PROVE Carrying(i)' = Carrying(i)
    BY <1>1, <1>6 DEF Carrying, Pushing
  <2>2. ASSUME NEW i \in Index PROVE Stacked(i)' = Stacked(i)
    BY <1>3 DEF Stacked
  <2> QED
    BY <2>1, <2>2
<1>8. Placed'
  BY <1>7 DEF IInv, Placed
<1> QED
  BY <1>1, <1>3, <1>4, <1>5, <1>8

LEMMA AcceptPops ==
  ASSUME TypeOK, NEW t \in Threads
  PROVE  thread[t].at \in {"refused", "popTop", "popNext", "popData", "popSwap", "popFree"} => t = Accept
<1>1. t \in Releasers => thread[t].at \in PushLabels
  BY DEF TypeOK
<1> QED
  BY <1>1 DEF Threads, PushLabels

\* What of the accept thread a push does not touch, its own included.
LEMMA PopStaysCurrent ==
  ASSUME IInv, thread'[Accept] = thread[Accept] \/ thread'[Accept].at \in PushLabels, Listed \subseteq Listed',
         \A n \in Listed : next'[n] = next[n] /\ data'[n] = data[n],
         top.node # Null => top'.node # Null
  PROVE  PopIsCurrent'
<1>1. CASE thread'[Accept] = thread[Accept]
  BY <1>1 DEF IInv, PopIsCurrent
<1>2. CASE thread'[Accept].at \in PushLabels
  BY <1>2 DEF PushLabels, PopIsCurrent
<1> QED
  BY <1>1, <1>2

\* And what of the releasers a pop does not.
LEMMA PushStaysLinked ==
  ASSUME IInv, \A u \in Releasers : thread'[u] = thread[u], thread'[Accept].at # "pushSwap", next' = next
  PROVE  PushIsLinked'
<1>1. \A u \in ThreadsAt({"pushSwap"})' : u \in ThreadsAt({"pushSwap"}) /\ thread'[u] = thread[u]
  BY DEF ThreadsAt, Threads
<1> QED
  BY <1>1 DEF IInv, PushIsLinked

LEMMA SizeStaysExact ==
  ASSUME IInv, NEW t \in Threads, \A u \in Threads \ {t} : thread'[u] = thread[u], Listed' = Listed,
         size' \in Int,
         size' = size + (IF thread[t].at \in Counting THEN 1 ELSE 0) - (IF thread'[t].at \in Counting THEN 1 ELSE 0)
  PROVE  SizeAgrees'
<1>1. /\ Cardinality(ThreadsAt(Counting)) \in Nat
      /\ Cardinality(ThreadsAt(Counting))' =
            Cardinality(ThreadsAt(Counting))
              + (IF thread'[t].at \in Counting THEN 1 ELSE 0)
              - (IF thread[t].at \in Counting THEN 1 ELSE 0)
  BY AtAfter
<1>2. Cardinality(Listed) \in Nat
  BY NodesAreFinite DEF Listed
<1> QED
  BY <1>1, <1>2 DEF IInv, SizeAgrees

LEMMA ThreadStep ==
  ASSUME TypeOK, NEW t \in Threads, NEW e \in ThreadType, thread' = [thread EXCEPT ![t] = e]
  PROVE  /\ thread' \in [Threads -> ThreadType] /\ thread'[t] = e
         /\ \A u \in Threads \ {t} : thread'[u] = thread[u]
  BY DEF TypeOK

LEMMA EntryType ==
  ASSUME TypeOK, NEW t \in Threads
  PROVE  /\ thread[t] \in ThreadType
         /\ \A label \in PushLabels \union PopLabels :
               [thread[t] EXCEPT !.at = label] \in ThreadType
         /\ Idle \in ThreadType
<1>1. thread[t] \in ThreadType
  BY DEF TypeOK
<1>2. \A label \in PushLabels \union PopLabels : [thread[t] EXCEPT !.at = label] \in ThreadType
  BY <1>1 DEF ThreadType
<1>3. Idle \in ThreadType
  BY DEF Idle, ThreadType, Top, PushLabels
<1> QED
  BY <1>1, <1>2, <1>3

-----------------------------------------------------------------------------
(* Steps that move no node and no index.                                     *)

LEMMA PushTopStep == ASSUME IInv, NEW t \in Threads, PushTop(t) PROVE IInv'
<1>1. /\ thread[t].at = "pushTop"
      /\ UNCHANGED <<top, next, data, size, out, owned>>
      /\ \A u \in Threads \ {t} : thread'[u] = thread[u]
      /\ thread'[t].at = "pushNext" /\ thread'[t].node = thread[t].node
      /\ thread' \in [Threads -> ThreadType]
  <2>1. PICK e : e = [thread[t] EXCEPT !.at = "pushNext", !.seen = top]
    OBVIOUS
  <2>2. e \in ThreadType /\ e.at = "pushNext" /\ e.node = thread[t].node
    BY <2>1, EntryType DEF IInv, TypeOK, ThreadType, PushLabels, Threads
  <2>3. thread' = [thread EXCEPT ![t] = e]
    BY <2>1 DEF PushTop, IInv, TypeOK, Threads
  <2> QED
    BY <2>2, <2>3, ThreadStep DEF PushTop, At, IInv, Threads
<1>2. t \in Threads /\ Accept \in Threads
  BY DEF Threads
<1>3. TypeOK'
  BY <1>1, <1>2 DEF IInv, TypeOK, PushLabels, Threads
<1>4. Listed' = Listed /\ OneUser' /\ Chained' /\ Placed'
  <2>1. t \in Pushing /\ t \in Pushing'
    BY <1>1, <1>2 DEF Pushing, ThreadsAt
  <2> QED
    BY <1>1, <1>2, <2>1, QuietStep
<1>5. PopIsCurrent'
  <2>1. thread'[Accept] = thread[Accept] \/ thread'[Accept].at \in PushLabels
    BY <1>1, <1>2 DEF PushLabels
  <2> QED
    BY <1>1, <1>4, <2>1, PopStaysCurrent
<1>6. PushIsLinked'
  BY <1>1, <1>2 DEF IInv, PushIsLinked, ThreadsAt
<1>7. SizeAgrees'
  BY <1>1, <1>2, <1>3, <1>4, SizeStaysExact DEF Counting, TypeOK
<1> QED
  BY <1>3, <1>4, <1>5, <1>6, <1>7 DEF IInv

\* The node that is linked is not in the stack yet.
LEMMA PushNextStep == ASSUME IInv, NEW t \in Threads, PushNext(t) PROVE IInv'
<1>1. /\ thread[t].at = "pushNext"
      /\ next' = [next EXCEPT ![thread[t].node] = thread[t].seen.node]
      /\ UNCHANGED <<top, data, size, out, owned>>
      /\ \A u \in Threads \ {t} : thread'[u] = thread[u]
      /\ thread'[t].at = "pushSwap" /\ thread'[t].node = thread[t].node /\ thread'[t].seen = thread[t].seen
      /\ thread' \in [Threads -> ThreadType]
  <2>1. PICK e : e = [thread[t] EXCEPT !.at = "pushSwap"]
    OBVIOUS
  <2>2. e \in ThreadType /\ e.at = "pushSwap" /\ e.node = thread[t].node /\ e.seen = thread[t].seen
    BY <2>1, EntryType DEF IInv, ThreadType, PushLabels, Threads
  <2>3. thread' = [thread EXCEPT ![t] = e]
    BY <2>1 DEF PushNext, Goto, IInv, TypeOK, Threads
  <2> QED
    BY <2>2, <2>3, ThreadStep DEF PushNext, At, IInv, Threads
<1>2. t \in Threads /\ Accept \in Threads
  BY DEF Threads
<1>3. t \in Pushing /\ t \in Pushing'
  BY <1>1, <1>2 DEF Pushing, ThreadsAt
<1>4. PICK n \in Nodes : n = thread[t].node
  BY <1>3 DEF IInv, OneUser
<1>5. thread[t].seen.node \in Nodes \union {Null}
  BY <1>2 DEF IInv, TypeOK, ThreadType, Top
<1>6. next'[n] = thread[t].seen.node /\ \A m \in Nodes \ {n} : next'[m] = next[m]
  BY <1>1, <1>4 DEF IInv, TypeOK
<1>7. TypeOK'
  <2>1. next' \in [Nodes -> Nodes \union {Null}]
    BY <1>1, <1>4, <1>5 DEF IInv, TypeOK
  <2> QED
    BY <1>1, <1>2, <2>1 DEF IInv, TypeOK, PushLabels, Threads
<1>8. \A m \in Listed : m \in Nodes /\ m # n /\ next'[m] = next[m]
  BY <1>3, <1>4, <1>6 DEF Listed, Busy
<1>9. Listed' = Listed /\ OneUser' /\ Chained' /\ Placed'
  BY <1>1, <1>2, <1>3, <1>8, QuietStep
<1>10. PopIsCurrent'
  <2>1. thread'[Accept] = thread[Accept] \/ thread'[Accept].at \in PushLabels
    BY <1>1, <1>2 DEF PushLabels
  <2> QED
    BY <1>1, <1>8, <1>9, <2>1, PopStaysCurrent
<1>11. PushIsLinked'
  <2>1. ASSUME NEW u \in ThreadsAt({"pushSwap"})' PROVE next'[thread'[u].node] = thread'[u].seen.node
    <3>1. CASE u = t
      BY <1>1, <1>4, <1>6, <3>1
    <3>2. CASE u # t
      <4>1. u \in ThreadsAt({"pushSwap"}) /\ u \in Pushing /\ thread'[u] = thread[u]
        BY <1>1, <2>1, <3>2 DEF ThreadsAt, Pushing
      <4>2. thread[u].node \in Nodes /\ thread[u].node # n
        BY <1>3, <1>4, <3>2, <4>1 DEF IInv, OneUser
      <4> QED
        BY <1>6, <4>1, <4>2 DEF IInv, PushIsLinked
    <3> QED
      BY <3>1, <3>2
  <2> QED
    BY <2>1 DEF PushIsLinked
<1>12. SizeAgrees'
  BY <1>1, <1>2, <1>7, <1>9, SizeStaysExact DEF Counting, TypeOK
<1> QED
  BY <1>7, <1>9, <1>10, <1>11, <1>12 DEF IInv

LEMMA GrowStep == ASSUME IInv, NEW t \in Threads, Grow(t) PROVE IInv'
<1>1. /\ thread[t].at = "grow" /\ size' = size + 1
      /\ UNCHANGED <<top, next, data, out, owned>>
      /\ \A u \in Threads \ {t} : thread'[u] = thread[u]
      /\ thread'[t] = Idle
      /\ thread' = [thread EXCEPT ![t] = Idle]
  BY DEF Grow, Return, At, IInv, TypeOK, Threads
<1>2. t \in Threads /\ Accept \in Threads
  BY DEF Threads
<1>3. thread'[t].at = "idle" /\ Idle \in ThreadType
  BY <1>1 DEF Idle, ThreadType, Top, PushLabels
<1>4. TypeOK'
  <2>1. thread' \in [Threads -> ThreadType]
    BY <1>1, <1>3 DEF IInv, TypeOK
  <2> QED
    BY <1>1, <1>2, <1>3, <2>1 DEF IInv, TypeOK, PushLabels, Threads
<1>5. Listed' = Listed /\ OneUser' /\ Chained' /\ Placed'
  <2>1. t \notin Pushing /\ t \notin Pushing'
    BY <1>1, <1>3 DEF Pushing, ThreadsAt
  <2> QED
    BY <1>1, <1>2, <1>3, <2>1, QuietStep
<1>6. PopIsCurrent'
  <2>1. thread'[Accept] = thread[Accept] \/ thread'[Accept].at \in PushLabels
    BY <1>1, <1>2, <1>3 DEF PushLabels
  <2> QED
    BY <1>1, <1>5, <2>1, PopStaysCurrent
<1>7. PushIsLinked'
  BY <1>1, <1>3 DEF IInv, PushIsLinked, ThreadsAt
<1>8. SizeAgrees'
  <2>1. size \in Int /\ "grow" \in Counting /\ "idle" \notin Counting
    BY DEF IInv, TypeOK, Counting
  <2> QED
    BY <1>1, <1>2, <1>3, <1>5, <2>1, SizeStaysExact
<1> QED
  BY <1>4, <1>5, <1>6, <1>7, <1>8 DEF IInv

\* The promise of size: what is left of it is in the stack.
LEMMA ShrinkStep == ASSUME IInv, NEW t \in Threads, Shrink(t) PROVE IInv'
<1>1. t = Accept /\ thread[t].at = "idle" /\ size' = size - 1 /\ size \in Int
      /\ UNCHANGED <<top, next, data, out, owned>>
  BY DEF Shrink, Poppers, At, IInv, TypeOK
<1>2. PICK label : label = IF size' < 0 THEN "refused" ELSE "popTop"
  OBVIOUS
<1>l. label \in {"refused", "popTop"} /\ (label = "popTop" => size' >= 0)
  BY <1>1, <1>2
<1>3. /\ \A u \in Threads \ {t} : thread'[u] = thread[u]
      /\ thread'[t].at = label
      /\ thread' \in [Threads -> ThreadType]
  <2>1. PICK e : e = [thread[t] EXCEPT !.at = label]
    OBVIOUS
  <2>2. e \in ThreadType /\ e.at = label
    BY <1>l, <2>1, EntryType DEF IInv, ThreadType, PopLabels
  <2>3. thread' = [thread EXCEPT ![t] = e]
    BY <1>2, <2>1 DEF Shrink, Goto, IInv, TypeOK
  <2> QED
    BY <2>2, <2>3, ThreadStep DEF IInv
<1>4. TypeOK'
  BY <1>1, <1>l, <1>3, IndexAssumption DEF IInv, TypeOK, PopLabels, Threads
<1>5. Listed' = Listed /\ OneUser' /\ Chained' /\ Placed'
  <2>1. t \notin Pushing /\ t \notin Pushing'
    BY <1>1, <1>l, <1>3 DEF Pushing, ThreadsAt
  <2> QED
    BY <1>1, <1>l, <1>3, <2>1, QuietStep
<1>6. PopIsCurrent'
  <2>1. ASSUME label = "popTop" PROVE top.node # Null
    <3>1. size > 0
      BY <1>1, <1>l, <2>1
    <3>2. Cardinality(ThreadsAt(Counting)) \in Nat
      BY ThreadsAreFinite DEF ThreadsAt
    <3>3. Cardinality(Listed) \in Nat
      BY NodesAreFinite DEF Listed
    <3>4. Cardinality(Listed) > 0
      BY <1>1, <3>1, <3>2, <3>3 DEF IInv, SizeAgrees
    <3>5. Listed # {}
      BY <3>4, FS_EmptySet
    <3> QED
      BY <3>5, TopOfList DEF IInv
  <2> QED
    BY <1>1, <1>l, <1>3, <2>1 DEF PopIsCurrent
<1>7. PushIsLinked'
  BY <1>1, <1>l, <1>3, IndexAssumption, PushStaysLinked DEF Threads
<1>8. SizeAgrees'
  <2>1. label \in Counting /\ "idle" \notin Counting
    BY <1>l DEF Counting
  <2> QED
    BY <1>1, <1>3, <1>5, <2>1, SizeStaysExact
<1> QED
  BY <1>4, <1>5, <1>6, <1>7, <1>8 DEF IInv

LEMMA RefuseStep == ASSUME IInv, NEW t \in Threads, Refuse(t) PROVE IInv'
<1>1. /\ thread[t].at = "refused" /\ t = Accept /\ size' = size + 1 /\ size \in Int
      /\ UNCHANGED <<top, next, data, out, owned>>
      /\ thread' = [thread EXCEPT ![t] = Idle]
  BY AcceptPops DEF Refuse, Return, At, IInv, TypeOK
<1>2. /\ \A u \in Threads \ {t} : thread'[u] = thread[u]
      /\ thread'[t].at = "idle"
      /\ thread' \in [Threads -> ThreadType]
  <2>1. Idle \in ThreadType /\ Idle.at = "idle"
    BY EntryType DEF Idle, IInv
  <2> QED
    BY <1>1, <2>1, ThreadStep DEF IInv
<1>3. TypeOK'
  BY <1>1, <1>2, IndexAssumption DEF IInv, TypeOK, PopLabels, Threads
<1>4. Listed' = Listed /\ OneUser' /\ Chained' /\ Placed'
  <2>1. t \notin Pushing /\ t \notin Pushing'
    BY <1>1, <1>2 DEF Pushing, ThreadsAt
  <2> QED
    BY <1>1, <1>2, <2>1, QuietStep
<1>5. PopIsCurrent' /\ PushIsLinked'
  BY <1>1, <1>2, IndexAssumption, PushStaysLinked DEF PopIsCurrent, Threads
<1>6. SizeAgrees'
  <2>1. "refused" \in Counting /\ "idle" \notin Counting
    BY DEF Counting
  <2> QED
    BY <1>1, <1>2, <1>4, <2>1, SizeStaysExact
<1> QED
  BY <1>3, <1>4, <1>5, <1>6 DEF IInv

\* A step of the accept thread that only reads.
LEMMA PopReads ==
  ASSUME IInv, NEW label \in {"popTop", "popNext", "popData", "popSwap"}, NEW e \in ThreadType,
         thread[Accept].at \in {"popTop", "popNext", "popData", "popSwap"}, e.at = label,
         UNCHANGED <<top, next, data, size, out, owned>>,
         thread' = [thread EXCEPT ![Accept] = e]
  PROVE  /\ Listed' = Listed /\ thread'[Accept] = e
         /\ PopIsCurrent' => IInv'
<1>1. Accept \in Threads
  BY DEF Threads
<1>2. /\ \A u \in Threads \ {Accept} : thread'[u] = thread[u]
      /\ thread'[Accept] = e
      /\ thread' \in [Threads -> ThreadType]
  BY <1>1, ThreadStep DEF IInv
<1>3. TypeOK'
  BY <1>1, <1>2, IndexAssumption DEF IInv, TypeOK, PopLabels, Threads
<1>4. Listed' = Listed /\ OneUser' /\ Chained' /\ Placed'
  <2>1. Accept \notin Pushing /\ Accept \notin Pushing'
    BY <1>2 DEF Pushing, ThreadsAt
  <2> QED
    BY <1>1, <1>2, <2>1, QuietStep
<1>5. PushIsLinked'
  BY <1>2, IndexAssumption, PushStaysLinked DEF Threads
<1>6. SizeAgrees'
  <2>1. label \in Counting /\ thread[Accept].at \in Counting /\ size \in Int
    BY DEF Counting, IInv, TypeOK
  <2> QED
    BY <1>1, <1>2, <1>4, <2>1, SizeStaysExact
<1> QED
  BY <1>2, <1>3, <1>4, <1>5, <1>6 DEF IInv

LEMMA PopTopStep == ASSUME IInv, NEW t \in Threads, PopTop(t) PROVE IInv'
<1>1. thread[t].at = "popTop" /\ t = Accept /\ UNCHANGED <<top, next, data, size, out, owned>>
  BY AcceptPops DEF PopTop, At, IInv
<1>2. PICK e : e = [thread[t] EXCEPT !.at = "popNext", !.seen = top]
  OBVIOUS
<1>3. e \in ThreadType /\ e.at = "popNext" /\ e.seen = top
  <2>1. thread[t] \in ThreadType /\ top \in Top
    BY EntryType DEF IInv, TypeOK
  <2> QED
    BY <1>2, <2>1 DEF ThreadType, PopLabels
<1>4. thread' = [thread EXCEPT ![Accept] = e]
  BY <1>1, <1>2 DEF PopTop, IInv, TypeOK
<1>5. Listed' = Listed /\ thread'[Accept] = e /\ (PopIsCurrent' => IInv')
  BY <1>1, <1>3, <1>4, PopReads
<1>6. top.node \in Listed
  BY <1>1, TopOfList DEF IInv, PopIsCurrent
<1> QED
  BY <1>3, <1>5, <1>6 DEF PopIsCurrent

LEMMA PopNextStep == ASSUME IInv, NEW t \in Threads, PopNext(t) PROVE IInv'
<1>1. /\ thread[t].at = "popNext" /\ t = Accept /\ thread[t].seen.node \in Listed
      /\ UNCHANGED <<top, next, data, size, out, owned>>
  BY AcceptPops DEF PopNext, At, IInv, PopIsCurrent
<1>2. PICK n \in Nodes \union {Null} : n = next[thread[t].seen.node]
  BY <1>1 DEF IInv, TypeOK, Listed
<1>3. PICK e : e = [thread[t] EXCEPT !.at = "popData", !.next = n]
  OBVIOUS
<1>4. e \in ThreadType /\ e.at = "popData" /\ e.seen = thread[t].seen /\ e.next = n
  <2>1. thread[t] \in ThreadType
    BY EntryType DEF IInv
  <2> QED
    BY <1>3, <2>1 DEF ThreadType, PopLabels
<1>5. thread' = [thread EXCEPT ![Accept] = e]
  BY <1>1, <1>2, <1>3 DEF PopNext, IInv, TypeOK
<1>6. Listed' = Listed /\ thread'[Accept] = e /\ (PopIsCurrent' => IInv')
  BY <1>1, <1>4, <1>5, PopReads
<1> QED
  BY <1>1, <1>2, <1>4, <1>6 DEF PopIsCurrent

LEMMA PopDataStep == ASSUME IInv, NEW t \in Threads, PopData(t) PROVE IInv'
<1>1. /\ thread[t].at = "popData" /\ t = Accept /\ thread[t].seen.node \in Listed
      /\ thread[t].next = next[thread[t].seen.node]
      /\ UNCHANGED <<top, next, data, size, out, owned>>
  BY AcceptPops DEF PopData, At, IInv, PopIsCurrent
<1>2. PICK i \in Index : i = data[thread[t].seen.node]
  BY <1>1 DEF IInv, TypeOK, Listed
<1>3. PICK e : e = [thread[t] EXCEPT !.at = "popSwap", !.index = i]
  OBVIOUS
<1>4. e \in ThreadType /\ e.at = "popSwap" /\ e.seen = thread[t].seen /\ e.next = thread[t].next /\ e.index = i
  <2>1. thread[t] \in ThreadType
    BY EntryType DEF IInv
  <2> QED
    BY <1>3, <2>1 DEF ThreadType, PopLabels
<1>5. thread' = [thread EXCEPT ![Accept] = e]
  BY <1>1, <1>2, <1>3 DEF PopData, IInv, TypeOK
<1>6. Listed' = Listed /\ thread'[Accept] = e /\ (PopIsCurrent' => IInv')
  BY <1>1, <1>4, <1>5, PopReads
<1> QED
  BY <1>1, <1>2, <1>4, <1>6 DEF PopIsCurrent

-----------------------------------------------------------------------------
(* Steps that move a node and an index.                                      *)

\* A place that loses an index, or gets one, is counted so.
LEMMA CountsMove ==
  ASSUME NEW S, IsFiniteSet(S), NEW x
  PROVE  /\ Cardinality(S) \in Nat
         /\ x \notin S => Cardinality(S \union {x}) = Cardinality(S) + 1
         /\ x \in S => Cardinality(S \ {x}) = Cardinality(S) - 1
  BY FS_AddElement, FS_RemoveElement, FS_CardinalityType

LEMMA PlacesAreFinite ==
  ASSUME NEW i
  PROVE  /\ IsFiniteSet(Carrying(i)) /\ Cardinality(Carrying(i)) \in Nat
         /\ IsFiniteSet(Stacked(i)) /\ Cardinality(Stacked(i)) \in Nat
<1>1. Carrying(i) \in SUBSET Threads
  BY DEF Carrying, ThreadsAt
<1>2. Stacked(i) \in SUBSET Nodes
  BY DEF Stacked, Listed
<1> QED
  BY <1>1, <1>2, ThreadsAreFinite, NodesAreFinite

\* The index leaves its owner with a node that the pool has given out.
LEMMA PushAllocStep ==
  ASSUME IInv, NEW t \in Threads, NEW i \in Index, NEW n \in Nodes, PushAlloc(t, i, n)
  PROVE  IInv'
<1>1. /\ thread[t].at = "idle" /\ owned[i] > 0
      /\ owned' = [owned EXCEPT ![i] = @ - 1]
      /\ out[n] = 0 /\ out' = [out EXCEPT ![n] = 1]
      /\ data' = [data EXCEPT ![n] = i]
      /\ UNCHANGED <<top, next, size>>
  BY DEF PushAlloc, NodePool!Take, At
<1>2. t \in Threads /\ Accept \in Threads
  BY DEF Threads
<1>3. /\ \A u \in Threads \ {t} : thread'[u] = thread[u]
      /\ thread'[t].at = "pushTop" /\ thread'[t].node = n
      /\ thread' \in [Threads -> ThreadType]
  <2>1. PICK e : e = [thread[t] EXCEPT !.at = "pushTop", !.node = n]
    OBVIOUS
  <2>2. thread[t] \in ThreadType
    BY <1>2, EntryType DEF IInv
  <2>3. e \in ThreadType /\ e.at = "pushTop" /\ e.node = n
    BY <2>1, <2>2 DEF ThreadType, PushLabels
  <2>4. thread' = [thread EXCEPT ![t] = e]
    BY <1>2, <2>1 DEF PushAlloc, IInv, TypeOK
  <2> QED
    BY <1>2, <2>3, <2>4, ThreadStep DEF IInv
<1>4. /\ owned[i] \in Nat /\ owned'[i] = owned[i] - 1 /\ owned'[i] \in Nat
      /\ \A j \in Index \ {i} : owned'[j] = owned[j]
      /\ out'[n] = 1 /\ \A m \in Nodes \ {n} : out'[m] = out[m]
      /\ data'[n] = i /\ \A m \in Nodes \ {n} : data'[m] = data[m]
  <2>1. owned[i] \in Nat
    BY DEF IInv, TypeOK
  <2> QED
    BY <1>1, <2>1 DEF IInv, TypeOK
<1>5. TypeOK'
  <2>1. owned' \in [Index -> Nat] /\ out' \in [Nodes -> {0, 1}] /\ data' \in [Nodes -> Index]
    BY <1>1, <1>4 DEF IInv, TypeOK
  <2> QED
    BY <1>1, <1>2, <1>3, <2>1 DEF IInv, TypeOK, PushLabels, Threads
<1>6. /\ t \notin Pushing /\ Pushing' = Pushing \union {t}
      /\ \A u \in Pushing : u # t /\ thread'[u] = thread[u] /\ thread[u].node \in Nodes \ {n}
  <2>1. t \notin Pushing /\ Pushing' = Pushing \union {t} /\ \A u \in Pushing : u # t /\ thread'[u] = thread[u]
    BY <1>1, <1>2, <1>3 DEF Pushing, ThreadsAt
  <2> QED
    BY <1>1, <2>1 DEF IInv, OneUser
<1>7. /\ At(Accept, "popFree")' <=> At(Accept, "popFree")
      /\ At(Accept, "popFree") => thread'[Accept] = thread[Accept]
      /\ At(Accept, "popFree") => thread[Accept].seen.node \in Nodes \ {n}
  BY <1>1, <1>2, <1>3 DEF IInv, OneUser, At
<1>8. Busy' = Busy \union {n} /\ Listed' = Listed /\ n \notin Listed
  <2>1. \A m \in Nodes : m \in Busy' <=> m \in Busy \/ m = n
    BY <1>3, <1>6, <1>7 DEF Busy
  <2>2. Busy' = Busy \union {n}
    BY <2>1 DEF Busy
  <2> QED
    BY <1>1, <1>4, <2>2 DEF Listed
<1>9. OneUser'
  <2>1. \A u \in Pushing' : thread'[u].node \in Nodes /\ out'[thread'[u].node] = 1
    BY <1>3, <1>4, <1>6 DEF IInv, OneUser
  <2>2. \A u, v \in Pushing' : thread'[u].node = thread'[v].node => u = v
    BY <1>3, <1>6 DEF IInv, OneUser
  <2>3. At(Accept, "popFree")' =>
          /\ thread'[Accept].seen.node \in Nodes /\ out'[thread'[Accept].seen.node] = 1
          /\ \A u \in Pushing' : thread'[u].node # thread'[Accept].seen.node
    BY <1>3, <1>4, <1>6, <1>7 DEF IInv, OneUser
  <2> QED
    BY <2>1, <2>2, <2>3 DEF OneUser
<1>10. Chained'
  BY <1>1, <1>8, ChainKept DEF IInv
<1>11. PopIsCurrent'
  <2>1. \A m \in Listed : next'[m] = next[m] /\ data'[m] = data[m]
    BY <1>1, <1>4, <1>8 DEF Listed
  <2>2. thread'[Accept] = thread[Accept] \/ thread'[Accept].at \in PushLabels
    BY <1>2, <1>3 DEF PushLabels
  <2> QED
    BY <1>1, <1>8, <2>1, <2>2, PopStaysCurrent
<1>12. PushIsLinked'
  BY <1>1, <1>3 DEF IInv, PushIsLinked, ThreadsAt
<1>13. Placed'
  <2>1. \A j \in Index : Stacked(j)' = Stacked(j)
    BY <1>4, <1>8 DEF Stacked, Listed
  <2>2. ThreadsAt({"popFree"})' = ThreadsAt({"popFree"}) /\ \A u \in ThreadsAt({"popFree"}) : thread'[u] = thread[u]
    BY <1>1, <1>2, <1>3 DEF ThreadsAt
  <2>3. \A j \in Index : Carrying(j)' = IF j = i THEN Carrying(j) \union {t} ELSE Carrying(j)
    BY <1>3, <1>4, <1>6, <2>2 DEF Carrying, Pushing
  <2>4. \A j \in Index : t \notin Carrying(j)
    BY <1>1 DEF Carrying, ThreadsAt
  <2>5. ASSUME NEW j \in Index
        PROVE  owned'[j] + Cardinality(Carrying(j)') + Cardinality(Stacked(j)') = 1
    <3>1. owned[j] + Cardinality(Carrying(j)) + Cardinality(Stacked(j)) = 1 /\ owned[j] \in Nat
      BY DEF IInv, Placed, TypeOK
    <3>2. /\ Cardinality(Carrying(j) \union {t}) = Cardinality(Carrying(j)) + 1
          /\ Cardinality(Carrying(j)) \in Nat /\ Cardinality(Stacked(j)) \in Nat
      BY <2>4, PlacesAreFinite, CountsMove
    <3>3. Cardinality(Carrying(j)') = IF j = i THEN Cardinality(Carrying(j)) + 1 ELSE Cardinality(Carrying(j))
      BY <2>3, <3>2
    <3>4. Cardinality(Stacked(j)') = Cardinality(Stacked(j))
      BY <2>1
    <3>5. owned'[j] = IF j = i THEN owned[j] - 1 ELSE owned[j]
      BY <1>4
    <3> QED
      BY <3>1, <3>2, <3>3, <3>4, <3>5
  <2> QED
    BY <2>5 DEF Placed
<1>14. SizeAgrees'
  <2>1. "pushTop" \notin Counting /\ "idle" \notin Counting /\ size \in Int
    BY DEF Counting, IInv, TypeOK
  <2> QED
    BY <1>1, <1>2, <1>3, <1>8, <2>1, SizeStaysExact
<1> QED
  BY <1>5, <1>9, <1>10, <1>11, <1>12, <1>13, <1>14 DEF IInv

\* The node joins the stack if the top is the one its thread saw.
LEMMA PushSwapStep == ASSUME IInv, NEW t \in Threads, PushSwap(t) PROVE IInv'
<1>1. thread[t].at = "pushSwap" /\ UNCHANGED <<next, data, size, out, owned>>
  BY DEF PushSwap, At
<1>2. t \in Threads /\ Accept \in Threads
  BY DEF Threads
<1>3. t \in Pushing
  BY <1>1, <1>2 DEF Pushing, ThreadsAt
<1>4. CASE ~SameTop(t)
  <2>1. /\ top' = top
        /\ \A u \in Threads \ {t} : thread'[u] = thread[u]
        /\ thread'[t].at = "pushTop" /\ thread'[t].node = thread[t].node
        /\ thread' \in [Threads -> ThreadType]
    <3>1. PICK e : e = [thread[t] EXCEPT !.at = "pushTop"]
      OBVIOUS
    <3>2. e \in ThreadType /\ e.at = "pushTop" /\ e.node = thread[t].node
      BY <1>2, <3>1, EntryType DEF IInv, ThreadType, PushLabels
    <3>3. thread' = [thread EXCEPT ![t] = e]
      BY <1>2, <1>4, <3>1 DEF PushSwap, Goto, IInv, TypeOK
    <3> QED
      BY <1>2, <1>4, <3>2, <3>3, ThreadStep DEF PushSwap, IInv
  <2>2. TypeOK'
    BY <1>1, <1>2, <2>1 DEF IInv, TypeOK, PushLabels, Threads
  <2>3. Listed' = Listed /\ OneUser' /\ Chained' /\ Placed'
    <3>1. t \in Pushing'
      BY <1>2, <2>1 DEF Pushing, ThreadsAt
    <3> QED
      BY <1>1, <1>2, <1>3, <2>1, <3>1, QuietStep
  <2>4. PopIsCurrent'
    <3>1. thread'[Accept] = thread[Accept] \/ thread'[Accept].at \in PushLabels
      BY <1>2, <2>1 DEF PushLabels
    <3> QED
      BY <1>1, <2>1, <2>3, <3>1, PopStaysCurrent
  <2>5. PushIsLinked'
    BY <1>1, <2>1 DEF IInv, PushIsLinked, ThreadsAt
  <2>6. SizeAgrees'
    <3>1. "pushTop" \notin Counting /\ "pushSwap" \notin Counting /\ size \in Int
      BY DEF Counting, IInv, TypeOK
    <3> QED
      BY <1>1, <1>2, <2>1, <2>3, <3>1, SizeStaysExact
  <2> QED
    BY <2>2, <2>3, <2>4, <2>5, <2>6 DEF IInv
<1>5. CASE SameTop(t)
  <2>1. PICK n \in Nodes : n = thread[t].node
    BY <1>3 DEF IInv, OneUser
  <2>2. /\ top' = [node |-> n, stamp |-> NextStamp(thread[t].seen.stamp)]
        /\ thread[t].seen = top
    BY <1>5, <2>1 DEF PushSwap, SameTop
  <2>3. /\ \A u \in Threads \ {t} : thread'[u] = thread[u]
        /\ thread'[t].at = "grow"
        /\ thread' \in [Threads -> ThreadType]
    <3>1. PICK e : e = [thread[t] EXCEPT !.at = "grow"]
      OBVIOUS
    <3>2. e \in ThreadType /\ e.at = "grow"
      BY <1>2, <3>1, EntryType DEF IInv, ThreadType, PushLabels
    <3>3. thread' = [thread EXCEPT ![t] = e]
      BY <1>2, <1>5, <3>1 DEF PushSwap, Goto, IInv, TypeOK
    <3> QED
      BY <1>2, <3>2, <3>3, ThreadStep DEF IInv
  <2>4. TypeOK'
    <3>1. top' \in Top
      <4>1. PICK s \in Nat : s = top.stamp
        BY DEF IInv, TypeOK, Top
      <4>2. s \div 2 \in Nat
        OBVIOUS
      <4>3. NextStamp(thread[t].seen.stamp) \in Nat
        BY <2>2, <4>1, <4>2 DEF NextStamp
      <4> QED
        BY <2>2, <4>3 DEF Top
    <3> QED
      BY <1>1, <1>2, <2>3, <3>1 DEF IInv, TypeOK, PushLabels, Threads
  <2>5. /\ Pushing' = Pushing \ {t} /\ \A u \in Pushing \ {t} : thread'[u] = thread[u] /\ thread[u].node # n
        /\ out[n] = 1 /\ n \in Busy
    <3>1. Pushing' = Pushing \ {t} /\ \A u \in Pushing \ {t} : thread'[u] = thread[u]
      BY <1>2, <2>3 DEF Pushing, ThreadsAt
    <3> QED
      BY <1>3, <2>1, <3>1 DEF IInv, OneUser, Busy
  <2>6. /\ At(Accept, "popFree")' <=> At(Accept, "popFree")
        /\ At(Accept, "popFree") => thread'[Accept] = thread[Accept]
        /\ At(Accept, "popFree") => thread[Accept].seen.node # n
    BY <1>1, <1>2, <1>3, <2>1, <2>3 DEF IInv, OneUser, At
  <2>7. Busy' = Busy \ {n} /\ Listed' = Listed \union {n} /\ n \notin Listed
    <3>1. ASSUME NEW m \in Nodes PROVE m \in Busy' <=> m \in Busy /\ m # n
      <4>1. CASE m = n
        BY <2>5, <2>6, <4>1 DEF Busy
      <4>2. CASE m # n
        BY <1>3, <2>1, <2>5, <2>6, <4>2 DEF Busy
      <4> QED
        BY <4>1, <4>2
    <3>2. Busy' = Busy \ {n}
      BY <3>1 DEF Busy
    <3> QED
      BY <1>1, <2>5, <3>2 DEF Listed
  <2>8. OneUser'
    BY <1>1, <2>5, <2>6 DEF IInv, OneUser
  <2>9. next[n] = top.node
    BY <1>1, <1>2, <2>1, <2>2 DEF IInv, PushIsLinked, ThreadsAt
  <2>10. Chained'
    <3>1. top'.node = n
      BY <2>2
    <3> QED
      BY <1>1, <2>7, <2>9, <3>1, ChainPushed DEF IInv
  <2>11. PopIsCurrent'
    <3>1. top'.node # Null
      BY <2>2 DEF Nodes, Null
    <3>2. thread'[Accept] = thread[Accept] \/ thread'[Accept].at \in PushLabels
      BY <1>2, <2>3 DEF PushLabels
    <3> QED
      BY <1>1, <2>7, <3>1, <3>2, PopStaysCurrent
  <2>12. PushIsLinked'
    BY <1>1, <2>3 DEF IInv, PushIsLinked, ThreadsAt
  <2>13. Placed'
    <3>1. \A j \in Index : Stacked(j)' = IF j = data[n] THEN Stacked(j) \union {n} ELSE Stacked(j)
      BY <1>1, <2>7 DEF Stacked
    <3>2. ThreadsAt({"popFree"})' = ThreadsAt({"popFree"}) /\ \A u \in ThreadsAt({"popFree"}) : u # t /\ thread'[u] = thread[u]
      BY <1>1, <1>2, <2>3 DEF ThreadsAt
    <3>3. \A j \in Index : Carrying(j)' = IF j = data[n] THEN Carrying(j) \ {t} ELSE Carrying(j)
      BY <1>1, <1>3, <2>1, <2>5, <3>2 DEF Carrying, Pushing
    <3>4. t \in Carrying(data[n]) /\ \A j \in Index : n \notin Stacked(j)
      BY <1>3, <2>1, <2>7 DEF Carrying, Pushing, Stacked
    <3>5. ASSUME NEW j \in Index
          PROVE  owned'[j] + Cardinality(Carrying(j)') + Cardinality(Stacked(j)') = 1
      <4>1. owned[j] + Cardinality(Carrying(j)) + Cardinality(Stacked(j)) = 1 /\ owned[j] \in Nat
        BY DEF IInv, Placed, TypeOK
      <4>2. /\ Cardinality(Stacked(j) \union {n}) = Cardinality(Stacked(j)) + 1
            /\ j = data[n] => Cardinality(Carrying(j) \ {t}) = Cardinality(Carrying(j)) - 1
            /\ Cardinality(Carrying(j)) \in Nat /\ Cardinality(Stacked(j)) \in Nat
        BY <3>4, PlacesAreFinite, CountsMove
      <4>3. Cardinality(Carrying(j)') = IF j = data[n] THEN Cardinality(Carrying(j)) - 1 ELSE Cardinality(Carrying(j))
        BY <3>3, <4>2
      <4>4. Cardinality(Stacked(j)') = IF j = data[n] THEN Cardinality(Stacked(j)) + 1 ELSE Cardinality(Stacked(j))
        BY <3>1, <4>2
      <4>5. owned'[j] = owned[j]
        BY <1>1
      <4> QED
        BY <4>1, <4>2, <4>3, <4>4, <4>5
    <3> QED
      BY <3>5 DEF Placed
  <2>14. SizeAgrees'
    <3>1. /\ Cardinality(ThreadsAt(Counting)) \in Nat
          /\ Cardinality(ThreadsAt(Counting))' = Cardinality(ThreadsAt(Counting)) + 1
      <4>1. "grow" \in Counting /\ "pushSwap" \notin Counting
        BY DEF Counting
      <4> QED
        BY <1>1, <1>2, <2>3, <4>1, AtAfter
    <3>2. Listed \in SUBSET Nodes
      BY DEF Listed
    <3>3. Cardinality(Listed \union {n}) = Cardinality(Listed) + 1 /\ Cardinality(Listed) \in Nat
      BY <2>7, <3>2, NodesAreFinite, CountsMove
    <3>4. Cardinality(Listed)' = Cardinality(Listed) + 1
      BY <2>7, <3>3
    <3> QED
      BY <1>1, <3>1, <3>3, <3>4 DEF IInv, SizeAgrees
  <2> QED
    BY <2>4, <2>8, <2>10, <2>11, <2>12, <2>13, <2>14 DEF IInv
<1> QED
  BY <1>4, <1>5

\* The node leaves the stack if the top is the one that was seen: it is, and what
\* was read behind it and in it is true, whatever its stamp says.
LEMMA PopSwapStep == ASSUME IInv, NEW t \in Threads, PopSwap(t) PROVE IInv'
<1>1. /\ thread[t].at = "popSwap" /\ t = Accept
      /\ UNCHANGED <<next, data, size, out, owned>>
  BY AcceptPops DEF PopSwap, At, IInv
<1>2. CASE ~SameTop(t)
  <2>1. PICK e : e = [thread[t] EXCEPT !.at = "popTop"]
    OBVIOUS
  <2>2. e \in ThreadType /\ e.at = "popTop"
    BY <2>1, EntryType DEF IInv, ThreadType, PopLabels
  <2>3. thread' = [thread EXCEPT ![Accept] = e] /\ top' = top
    BY <1>1, <1>2, <2>1 DEF PopSwap, Goto, IInv, TypeOK
  <2>4. Listed' = Listed /\ thread'[Accept] = e /\ (PopIsCurrent' => IInv')
    BY <1>1, <2>2, <2>3, PopReads
  <2>5. thread[t].seen.node \in Listed
    BY <1>1 DEF IInv, PopIsCurrent
  <2>6. top.node # Null
    BY <2>5, TopOfList DEF IInv
  <2> QED
    BY <2>2, <2>3, <2>4, <2>6 DEF PopIsCurrent
<1>3. CASE SameTop(t)
  <2>1. PICK n \in Nodes : n = top.node /\ n = thread[t].seen.node /\ n \in Listed
    BY <1>1, <1>3 DEF IInv, PopIsCurrent, SameTop, Listed
  <2>2. PICK i \in Index : i = data[n] /\ i = thread[t].index
    BY <1>1, <2>1 DEF IInv, PopIsCurrent, TypeOK
  <2>3. top'.node = next[n] /\ top' \in Top
    <3>1. thread[t].next = next[n] /\ next[n] \in Nodes \union {Null}
      BY <1>1, <2>1 DEF IInv, PopIsCurrent, TypeOK
    <3>2. top' = [top EXCEPT !.node = thread[t].next] /\ top \in Top
      BY <1>3 DEF PopSwap, IInv, TypeOK
    <3> QED
      BY <3>1, <3>2 DEF Top
  <2>4. /\ \A u \in Threads \ {t} : thread'[u] = thread[u]
        /\ thread'[t].at = "popFree" /\ thread'[t].seen = thread[t].seen /\ thread'[t].index = i
        /\ thread' \in [Threads -> ThreadType]
    <3>1. PICK e : e = [thread[t] EXCEPT !.at = "popFree"]
      OBVIOUS
    <3>2. thread[t] \in ThreadType
      BY EntryType DEF IInv
    <3>3. e \in ThreadType /\ e.at = "popFree" /\ e.seen = thread[t].seen /\ e.index = i
      BY <2>2, <3>1, <3>2 DEF ThreadType, PopLabels
    <3>4. thread' = [thread EXCEPT ![t] = e]
      BY <1>3, <3>1 DEF PopSwap, Goto, IInv, TypeOK
    <3> QED
      BY <3>3, <3>4, ThreadStep DEF IInv
  <2>5. TypeOK'
    BY <1>1, <2>3, <2>4, IndexAssumption DEF IInv, TypeOK, PopLabels, Threads
  <2>6. Pushing' = Pushing /\ \A u \in Pushing : u # t /\ thread'[u] = thread[u]
    BY <1>1, <2>4 DEF Pushing, ThreadsAt
  <2>7. /\ At(Accept, "popFree")' /\ ~At(Accept, "popFree")
        /\ thread'[Accept].seen.node = n /\ out[n] = 1 /\ n \notin Busy
    BY <1>1, <2>1, <2>4 DEF At, Listed
  <2>8. Busy' = Busy \union {n} /\ Listed' = Listed \ {n}
    <3>1. \A m \in Nodes : m \in Busy' <=> m \in Busy \/ m = n
      BY <2>6, <2>7 DEF Busy
    <3>2. Busy' = Busy \union {n}
      BY <3>1 DEF Busy
    <3> QED
      BY <1>1, <3>2 DEF Listed
  <2>9. OneUser'
    <3>1. \A u \in Pushing : thread[u].node # n
      BY <2>7 DEF Busy
    <3> QED
      BY <1>1, <2>6, <2>7, <3>1 DEF IInv, OneUser
  <2>10. Chained'
    <3>1. top.node # Null
      BY <2>1 DEF Nodes, Null
    <3> QED
      BY <1>1, <2>1, <2>3, <2>8, <3>1, ChainPopped DEF IInv
  <2>11. PopIsCurrent'
    BY <1>1, <2>4 DEF PopIsCurrent
  <2>12. PushIsLinked'
    BY <1>1, <2>4, IndexAssumption, PushStaysLinked DEF Threads
  <2>13. Placed'
    <3>1. \A j \in Index : Stacked(j)' = IF j = i THEN Stacked(j) \ {n} ELSE Stacked(j)
      BY <1>1, <2>2, <2>8 DEF Stacked
    <3>2. ThreadsAt({"popFree"}) = {} /\ ThreadsAt({"popFree"})' = {t}
      <4>1. \A u \in Threads : thread[u].at = "popFree" => u = t
        BY <1>1, AcceptPops DEF IInv
      <4> QED
        BY <1>1, <2>4, <4>1 DEF ThreadsAt
    <3>3. \A j \in Index : Carrying(j)' = IF j = i THEN Carrying(j) \union {t} ELSE Carrying(j)
      <4>1. \A j \in Index : Carrying(j) = {u \in Pushing : data[thread[u].node] = j}
        BY <3>2 DEF Carrying, Pushing
      <4>2. \A j \in Index : Carrying(j)' = {u \in Pushing : data[thread[u].node] = j}
                                               \union (IF j = i THEN {t} ELSE {})
        BY <1>1, <2>4, <2>6, <3>2 DEF Carrying, Pushing
      <4> QED
        BY <4>1, <4>2
    <3>4. n \in Stacked(i) /\ \A j \in Index : t \notin Carrying(j)
      BY <1>1, <2>1, <2>2, <3>2 DEF Carrying, ThreadsAt, Stacked
    <3>5. ASSUME NEW j \in Index
          PROVE  owned'[j] + Cardinality(Carrying(j)') + Cardinality(Stacked(j)') = 1
      <4>1. owned[j] + Cardinality(Carrying(j)) + Cardinality(Stacked(j)) = 1 /\ owned[j] \in Nat
        BY DEF IInv, Placed, TypeOK
      <4>2. /\ Cardinality(Carrying(j) \union {t}) = Cardinality(Carrying(j)) + 1
            /\ j = i => Cardinality(Stacked(j) \ {n}) = Cardinality(Stacked(j)) - 1
            /\ Cardinality(Carrying(j)) \in Nat /\ Cardinality(Stacked(j)) \in Nat
        BY <3>4, PlacesAreFinite, CountsMove
      <4>3. Cardinality(Carrying(j)') = IF j = i THEN Cardinality(Carrying(j)) + 1 ELSE Cardinality(Carrying(j))
        BY <3>3, <4>2
      <4>4. Cardinality(Stacked(j)') = IF j = i THEN Cardinality(Stacked(j)) - 1 ELSE Cardinality(Stacked(j))
        BY <3>1, <4>2
      <4>5. owned'[j] = owned[j]
        BY <1>1
      <4> QED
        BY <4>1, <4>2, <4>3, <4>4, <4>5
    <3> QED
      BY <3>5 DEF Placed
  <2>14. SizeAgrees'
    <3>1. /\ Cardinality(ThreadsAt(Counting)) \in Nat
          /\ Cardinality(ThreadsAt(Counting))' = Cardinality(ThreadsAt(Counting)) - 1
      <4>1. "popSwap" \in Counting /\ "popFree" \notin Counting
        BY DEF Counting
      <4> QED
        BY <1>1, <2>4, <4>1, AtAfter
    <3>2. Listed \in SUBSET Nodes
      BY DEF Listed
    <3>3. Cardinality(Listed \ {n}) = Cardinality(Listed) - 1 /\ Cardinality(Listed) \in Nat
      BY <2>1, <3>2, NodesAreFinite, CountsMove
    <3>4. Cardinality(Listed)' = Cardinality(Listed) - 1
      BY <2>8, <3>3
    <3> QED
      BY <1>1, <3>1, <3>3, <3>4 DEF IInv, SizeAgrees
  <2> QED
    BY <2>5, <2>9, <2>10, <2>11, <2>12, <2>13, <2>14 DEF IInv
<1> QED
  BY <1>2, <1>3

\* The node goes back to its pool and the index to its owner.
LEMMA PopFreeStep == ASSUME IInv, NEW t \in Threads, PopFree(t) PROVE IInv'
<1>1. /\ thread[t].at = "popFree" /\ t = Accept /\ At(Accept, "popFree")
      /\ thread' = [thread EXCEPT ![t] = Idle]
      /\ UNCHANGED <<top, next, data, size>>
  BY AcceptPops DEF PopFree, Return, At, IInv
<1>2. PICK n \in Nodes : n = thread[t].seen.node /\ out[n] = 1 /\ \A u \in Pushing : thread[u].node # n
  BY <1>1 DEF IInv, OneUser
<1>3. PICK i \in Index : i = thread[t].index
  BY <1>1 DEF IInv, PopIsCurrent
<1>4. out' = [out EXCEPT ![n] = 0] /\ owned' = [owned EXCEPT ![i] = @ + 1]
  BY <1>2, <1>3 DEF PopFree, NodePool!Give
<1>5. /\ owned[i] \in Nat /\ owned'[i] = owned[i] + 1 /\ \A j \in Index \ {i} : owned'[j] = owned[j]
      /\ out'[n] = 0 /\ \A m \in Nodes \ {n} : out'[m] = out[m]
  BY <1>4 DEF IInv, TypeOK
<1>6. /\ \A u \in Threads \ {t} : thread'[u] = thread[u]
      /\ thread'[t].at = "idle"
      /\ thread' \in [Threads -> ThreadType]
  <2>1. Idle \in ThreadType /\ Idle.at = "idle"
    BY EntryType DEF Idle, IInv
  <2> QED
    BY <1>1, <2>1, ThreadStep DEF IInv
<1>7. TypeOK'
  <2>1. owned' \in [Index -> Nat] /\ out' \in [Nodes -> {0, 1}]
    BY <1>4, <1>5 DEF IInv, TypeOK
  <2> QED
    BY <1>1, <1>6, <2>1, IndexAssumption DEF IInv, TypeOK, PopLabels, Threads
<1>8. Pushing' = Pushing /\ \A u \in Pushing : u # t /\ thread'[u] = thread[u]
  BY <1>1, <1>6 DEF Pushing, ThreadsAt
<1>9. ~At(Accept, "popFree")' /\ n \in Busy
  BY <1>1, <1>2, <1>6 DEF At, Busy
<1>10. Busy' = Busy \ {n} /\ Listed' = Listed
  <2>1. ASSUME NEW m \in Nodes PROVE m \in Busy' <=> m \in Busy /\ m # n
    BY <1>1, <1>2, <1>8, <1>9 DEF Busy
  <2>2. Busy' = Busy \ {n}
    BY <2>1 DEF Busy
  <2> QED
    BY <1>2, <1>5, <1>9, <2>2 DEF Listed
<1>11. OneUser'
  BY <1>2, <1>5, <1>8, <1>9 DEF IInv, OneUser
<1>12. Chained'
  BY <1>1, <1>10, ChainKept DEF IInv
<1>13. PopIsCurrent'
  BY <1>1, <1>6 DEF PopIsCurrent
<1>14. PushIsLinked'
  BY <1>1, <1>6, IndexAssumption, PushStaysLinked DEF Threads
<1>15. Placed'
  <2>1. \A j \in Index : Stacked(j)' = Stacked(j)
    BY <1>1, <1>10 DEF Stacked
  <2>2. ThreadsAt({"popFree"}) = {t} /\ ThreadsAt({"popFree"})' = {}
    <3>1. \A u \in Threads : thread[u].at = "popFree" => u = t
      BY <1>1, AcceptPops DEF IInv
    <3> QED
      BY <1>1, <1>6, <3>1 DEF ThreadsAt
  <2>3. \A j \in Index : Carrying(j)' = IF j = i THEN Carrying(j) \ {t} ELSE Carrying(j)
    <3>1. \A j \in Index : Carrying(j)' = {u \in Pushing : data[thread[u].node] = j}
      BY <1>1, <1>8, <2>2 DEF Carrying, Pushing
    <3>2. \A j \in Index : Carrying(j) = {u \in Pushing : data[thread[u].node] = j}
                                            \union (IF j = i THEN {t} ELSE {})
      BY <1>1, <1>3, <2>2 DEF Carrying, Pushing
    <3>3. \A j \in Index : t \notin {u \in Pushing : data[thread[u].node] = j}
      BY <1>8
    <3>4. ASSUME NEW j \in Index PROVE Carrying(j)' = IF j = i THEN Carrying(j) \ {t} ELSE Carrying(j)
      <4>1. PICK C : C = {u \in Pushing : data[thread[u].node] = j}
        OBVIOUS
      <4>2. Carrying(j)' = C /\ Carrying(j) = C \union (IF j = i THEN {t} ELSE {}) /\ t \notin C
        BY <3>1, <3>2, <3>3, <4>1
      <4> QED
        BY <4>2
    <3> QED
      BY <3>4
  <2>4. t \in Carrying(i)
    BY <1>3, <2>2 DEF Carrying
  <2>5. ASSUME NEW j \in Index
        PROVE  owned'[j] + Cardinality(Carrying(j)') + Cardinality(Stacked(j)') = 1
    <3>1. owned[j] + Cardinality(Carrying(j)) + Cardinality(Stacked(j)) = 1 /\ owned[j] \in Nat
      BY DEF IInv, Placed, TypeOK
    <3>2. /\ j = i => Cardinality(Carrying(j) \ {t}) = Cardinality(Carrying(j)) - 1
          /\ Cardinality(Carrying(j)) \in Nat /\ Cardinality(Stacked(j)) \in Nat
      BY <2>4, PlacesAreFinite, CountsMove
    <3>3. Cardinality(Carrying(j)') = IF j = i THEN Cardinality(Carrying(j)) - 1 ELSE Cardinality(Carrying(j))
      BY <2>3, <3>2
    <3>4. Cardinality(Stacked(j)') = Cardinality(Stacked(j))
      BY <2>1
    <3>5. owned'[j] = IF j = i THEN owned[j] + 1 ELSE owned[j]
      BY <1>5
    <3> QED
      BY <3>1, <3>2, <3>3, <3>4, <3>5
  <2> QED
    BY <2>5 DEF Placed
<1>16. SizeAgrees'
  <2>1. "popFree" \notin Counting /\ "idle" \notin Counting /\ size \in Int
    BY DEF Counting, IInv, TypeOK
  <2> QED
    BY <1>1, <1>6, <1>10, <2>1, SizeStaysExact
<1> QED
  BY <1>7, <1>11, <1>12, <1>13, <1>14, <1>15, <1>16 DEF IInv

-----------------------------------------------------------------------------
(* The invariant and what follows from it.                                   *)

\* Every set of numbers that is not empty has a least one.
LEMMA LeastOf == ASSUME NEW T \in SUBSET Nat, T # {} PROVE \E m \in T : \A x \in T : m <= x
<1>1. PICK m \in T : \A y \in T : ~(<<y, m>> \in OpToRel(<, Nat))
  BY NatLessThanWellFounded, WFMin, Zenon
<1>2. ASSUME NEW x \in T PROVE m <= x
  <2>1. <<x, m>> \notin OpToRel(<, Nat)
    BY <1>1, Zenon
  <2>2. ~(x < m)
    BY <2>1, Zenon DEF OpToRel
  <2> QED
    BY <2>2
<1> QED
  BY <1>2

\* The constructor has pushed every index, each on the one before it.
LEMMA InitialChain == ASSUME Init PROVE Chained
<1>1. Indices \in Nat /\ Indices > 0
  BY IndexAssumption
<1>2. Listed = Nodes
  BY DEF Init, Idle, Listed, Busy, Pushing, ThreadsAt, At, Threads
<1>3. \A n \in Nodes : next[n] = n - 1
  BY DEF Init
<1>4. Leads(Nodes)
  <2>1. \A n \in 1 .. Indices : n - 1 \in (1 .. Indices) \union {0}
    BY <1>1
  <2>2. Indices \in 1 .. Indices
    BY <1>1
  <2> QED
    BY <1>3, <2>1, <2>2 DEF Init, Leads, Nodes, Null
<1>5. ASSUME NEW S \in SUBSET Nodes, Leads(S) PROVE Nodes \subseteq S
  <2> DEFINE T == {k \in 0 .. Indices - 1 : Indices - k \notin S}
  <2> SUFFICES ASSUME T # {} PROVE FALSE
    <3>1. ASSUME NEW n \in 1 .. Indices, n \notin S PROVE FALSE
      <4>1. Indices - n \in 0 .. Indices - 1 /\ Indices - (Indices - n) = n
        BY <1>1
      <4> QED
        BY <3>1, <4>1
    <3> QED
      BY <3>1 DEF Nodes
  <2>0. T \in SUBSET Nat
    BY <1>1
  <2>1. PICK m \in T : \A x \in T : m <= x
    BY <2>0, LeastOf
  <2>2. m \in 0 .. Indices - 1 /\ Indices - m \notin S /\ Indices - m \in 1 .. Indices
    BY <1>1
  <2>3. CASE m = 0
    <3>1. Indices \in S \union {Null} /\ Indices # Null
      BY <1>1, <1>5, <2>2, <2>3 DEF Init, Leads, Null
    <3> QED
      BY <1>1, <2>2, <2>3, <3>1
  <2>4. CASE m # 0
    <3>1. m - 1 \in 0 .. Indices - 1 /\ m - 1 \notin T
      BY <1>1, <2>1, <2>2, <2>4
    <3>2. Indices - (m - 1) \in S /\ Indices - (m - 1) \in Nodes
      BY <1>1, <2>2, <2>4, <3>1 DEF Nodes
    <3>3. next[Indices - (m - 1)] = Indices - m
      BY <1>1, <1>3, <2>2, <3>2
    <3> QED
      BY <1>1, <1>5, <2>2, <3>2, <3>3 DEF Leads, Null
  <2> QED
    BY <2>3, <2>4
<1>6. Linked = Listed
  BY <1>2, <1>4, <1>5 DEF Linked
<1>7. \A m, n \in Nodes : m - 1 = n - 1 => m = n
  BY DEF Nodes
<1>8. \A n \in Nodes : n - 1 # Indices
  BY <1>1 DEF Nodes
<1> QED
  BY <1>2, <1>3, <1>6, <1>7, <1>8 DEF Init, Chained

LEMMA InitialState == Init => IInv
<1> SUFFICES ASSUME Init PROVE IInv
  OBVIOUS
<1>1. Indices \in Nat /\ Indices > 0 /\ Accept \in Threads
  BY IndexAssumption DEF Threads
<1>2. \A t \in Threads : thread[t] = Idle /\ thread[t].at = "idle"
  BY DEF Init, Idle
<1>3. TypeOK
  <2>1. Idle \in ThreadType
    BY DEF Idle, ThreadType, Top, PushLabels
  <2>2. top \in Top /\ next \in [Nodes -> Nodes \union {Null}] /\ data \in [Nodes -> Index]
    BY <1>1 DEF Init, Top, Nodes, Index, Null
  <2>3. thread \in [Threads -> ThreadType]
    BY <2>1 DEF Init
  <2>4. \A t \in Releasers : t \in Threads
    BY DEF Threads
  <2>5. size \in Int /\ out \in [Nodes -> {0, 1}] /\ owned \in [Index -> Nat]
    BY <1>1 DEF Init
  <2> QED
    BY <1>1, <1>2, <2>2, <2>3, <2>4, <2>5 DEF TypeOK, PushLabels, PopLabels
<1>4. /\ Pushing = {} /\ ~At(Accept, "popFree") /\ ThreadsAt(Counting) = {}
      /\ ThreadsAt({"pushSwap"}) = {} /\ ThreadsAt({"popFree"}) = {}
  BY <1>1, <1>2 DEF Pushing, At, Counting, ThreadsAt
<1>5. Listed = Nodes
  BY <1>4 DEF Init, Listed, Busy
<1>6. OneUser /\ PushIsLinked
  BY <1>4 DEF OneUser, PushIsLinked
<1>7. PopIsCurrent
  BY <1>1, <1>2 DEF PopIsCurrent
<1>8. Placed
  <2>1. ASSUME NEW i \in Index PROVE owned[i] + Cardinality(Carrying(i)) + Cardinality(Stacked(i)) = 1
    <3>1. Carrying(i) = {}
      BY <1>4 DEF Carrying, Pushing
    <3>2. Stacked(i) = {i}
      BY <1>5 DEF Init, Stacked, Nodes, Index
    <3>3. owned[i] = 0
      BY DEF Init
    <3> QED
      BY <3>1, <3>2, <3>3, FS_EmptySet, FS_Singleton
  <2> QED
    BY <2>1 DEF Placed
<1>9. SizeAgrees
  <2>1. Cardinality(1 .. Indices) = IF 1 > Indices THEN 0 ELSE Indices - 1 + 1
    BY <1>1, FS_Interval
  <2>2. Cardinality(Listed) = Indices /\ Cardinality(ThreadsAt(Counting)) = 0
    BY <1>1, <1>4, <1>5, <2>1, FS_EmptySet DEF Nodes
  <2> QED
    BY <1>1, <2>2 DEF Init, SizeAgrees
<1> QED
  BY <1>3, <1>6, <1>7, <1>8, <1>9, InitialChain DEF IInv

LEMMA NextKeepsIInv == IInv /\ [Next]_vars => IInv'
<1>1. ASSUME IInv, NEW t \in Threads, Push(t) PROVE IInv'
  BY <1>1, PushAllocStep, PushTopStep, PushNextStep, PushSwapStep, GrowStep DEF Push
<1>2. ASSUME IInv, NEW t \in Threads, Pop(t) PROVE IInv'
  BY <1>2, ShrinkStep, RefuseStep, PopTopStep, PopNextStep, PopDataStep, PopSwapStep, PopFreeStep DEF Pop
<1>3. ASSUME IInv, UNCHANGED vars PROVE IInv'
  <2>1. UNCHANGED <<top, next, data, size, out, owned, thread>>
    BY <1>3 DEF vars
  <2>2. Pushing' = Pushing /\ Busy' = Busy /\ Listed' = Listed
    BY <2>1 DEF Pushing, Busy, Listed, ThreadsAt, At
  <2>3. TypeOK' /\ OneUser' /\ Chained'
    BY <1>3, <2>1, <2>2, ChainKept DEF IInv, TypeOK, OneUser, At
  <2>4. PopIsCurrent' /\ PushIsLinked'
    BY <1>3, <2>1, <2>2 DEF IInv, PopIsCurrent, PushIsLinked, ThreadsAt
  <2>5. Placed' /\ SizeAgrees'
    BY <1>3, <2>1, <2>2 DEF IInv, Placed, SizeAgrees, Carrying, Stacked, ThreadsAt
  <2> QED
    BY <2>3, <2>4, <2>5 DEF IInv
<1> QED
  BY <1>1, <1>2, <1>3 DEF Next

\* The invariant, for any number of releasing threads and indices: the stack is a
\* chain of the nodes nobody has, and what the accept thread has read of it is true.
THEOREM Invariant == Spec => []IInv
  BY InitialState, NextKeepsIInv, PTL DEF Spec

\* A slot of sessionArray is in one place: owned by a session, on its way into the
\* stack or out of it, or in the stack once.
THEOREM IndexHasOnePlace == Spec => []IndexIsInOnePlace
<1>1. IInv => IndexIsInOnePlace
  BY DEF IInv, Chained, Placed, Stacked, IndexIsInOnePlace
<1> QED
  BY <1>1, Invariant, PTL

\* What size promises is in the stack: the accept thread never follows an empty top.
THEOREM SizeIsKept == Spec => []SizeIsPromised
<1>1. IInv => SizeIsPromised
  <2> SUFFICES ASSUME IInv PROVE SizeIsPromised
    OBVIOUS
  <2>1. size = Cardinality(Linked) - Cardinality(ThreadsAt(Counting))
    BY DEF IInv, Chained, SizeAgrees
  <2>2. \A t \in ThreadsAt({"popNext"}) : thread[t].seen.node # Null
    <3>1. ASSUME NEW t \in Threads, thread[t].at = "popNext" PROVE thread[t].seen.node # Null
      <4>1. t = Accept
        BY <3>1, AcceptPops DEF IInv
      <4>2. thread[t].seen.node \in Nodes
        BY <3>1, <4>1 DEF IInv, PopIsCurrent, Listed
      <4> QED
        BY <4>2 DEF Nodes, Null
    <3> QED
      BY <3>1 DEF ThreadsAt
  <2> QED
    BY <2>1, <2>2 DEF SizeIsPromised, Counting
<1> QED
  BY <1>1, Invariant, PTL

=============================================================================
