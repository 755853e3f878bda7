-------------------------- MODULE MemoryPool_proofs -------------------------
(* The free list, for any number of threads, any memory and any number of    *)
(* frees.  That the compare and swap of Pop finds what the thread has read   *)
(* rests on the stamps: StampsAreFresh and SeenIsNotBelow say why a top does *)
(* not come back, NextIsKnown what follows from it.                          *)
EXTENDS MemoryPool, FiniteSetTheorems, WellFoundedInduction, TLAPS

\* The nodes that a caller has or is giving back.
Taken == {n \in Nodes : held[n] > 0 \/ \E t \in Freeing : thread[t].node = n}

\* The nodes that should be in the free list.
Listed == made \ Taken

\* A node has one caller, which has it or is giving it back.
OneUser ==
    /\ \A n \in Nodes : held[n] \in 0 .. 1 /\ (held[n] = 1 => n \in made)
    /\ \A t \in Freeing : thread[t].node \in made /\ held[thread[t].node] = 0
    /\ \A t, u \in Freeing : thread[t].node = thread[u].node => t = u

\* Threads that hold a pointer to what was the top, and rely on its node.
Popping == ThreadsAt({"readNext", "pop"})

\* The stamp of a Free has not been at the top yet, and nobody has seen it there.
StampsAreFresh ==
    /\ top.stamp <= stamp
    /\ \A t \in Popping : thread[t].seen.stamp <= stamp
    /\ \A t \in Freeing : thread[t].count <= stamp /\ thread[t].count # top.stamp
    /\ \A t, u \in Freeing : thread[t].count = thread[u].count => t = u
    /\ \A t \in Freeing, u \in Popping : thread[t].count # thread[u].seen.stamp

\* While the top keeps the stamp it was seen with, nodes are only popped: the one
\* seen is at the top still, or has left the list.
SeenIsNotBelow ==
    \A t \in Popping :
        /\ thread[t].seen.node # Null
        /\ top.stamp = thread[t].seen.stamp =>
              thread[t].seen.node = top.node \/ thread[t].seen.node \notin Listed

\* What a thread found behind the top is there as long as the top is the one it
\* saw, and what it pushes leads to the top it saw.
NextIsKnown ==
    /\ \A t \in ThreadsAt({"pop"}) : SameTop(t) => next[top.node] = thread[t].node
    /\ \A t \in ThreadsAt({"push"}) : next[thread[t].node] = thread[t].seen.node

\* The nodes of the list are those nobody has, no two of them lead to the same
\* node, and none leads back to the top.
Chained ==
    /\ FreeList = Listed
    /\ \A m, n \in Listed : next[m] = next[n] => m = n
    /\ \A n \in Listed : next[n] # top.node

\* The counters, and the nodes there are for those who were told so.
CountsAgree ==
    /\ allocCount = Cardinality(made)
    /\ useCount = Cardinality(Taken) + Cardinality(Poppers) + Cardinality(ThreadsAt({"create", "unuse"}))
    /\ Cardinality(Poppers) <= Cardinality(Listed)
    /\ \A t \in ThreadsAt({"use"}) : thread[t].count <= allocCount

IInv ==
    /\ TypeOK /\ OneUser /\ Chained
    /\ StampsAreFresh /\ SeenIsNotBelow /\ NextIsKnown /\ CountsAgree

-----------------------------------------------------------------------------
(* The list: its nodes are the least set that has the top and what its nodes *)
(* lead to.                                                                  *)

LEMMA ListLeads ==
  ASSUME TypeOK
  PROVE  Leads(FreeList) /\ \A S \in SUBSET Nodes : Leads(S) => FreeList \subseteq S
<1>1. top.node \in Nodes \union {Null} /\ \A n \in Nodes : next[n] \in Nodes \union {Null}
  BY DEF TypeOK, Top
<1>2. top.node \in FreeList \union {Null}
  BY <1>1 DEF FreeList, Leads
<1>3. ASSUME NEW n \in FreeList, next[n] # Null PROVE next[n] \in FreeList
  <2>1. \A S \in SUBSET Nodes : Leads(S) => next[n] \in S
    BY <1>3 DEF FreeList, Leads
  <2>2. next[n] \in Nodes
    BY <1>1, <1>3 DEF FreeList
  <2> QED
    BY <2>1, <2>2 DEF FreeList
<1> QED
  BY <1>2, <1>3 DEF Leads, FreeList

\* A list that is not empty begins with the top, which leads to another node of it.
LEMMA TopOfList ==
  ASSUME TypeOK, Chained
  PROVE  /\ top.node = Null <=> Listed = {}
         /\ top.node # Null => /\ top.node \in Listed
                               /\ next[top.node] \in (Listed \ {top.node}) \union {Null}
<1>1. Leads(Listed) /\ \A S \in SUBSET Nodes : Leads(S) => Listed \subseteq S
  BY ListLeads DEF Chained
<1>2. CASE top.node = Null
  <2>1. Leads({})
    BY <1>2 DEF Leads
  <2> QED
    BY <1>1, <1>2, <2>1
<1>3. CASE top.node # Null
  <2>1. top.node \in Listed /\ next[top.node] \in Listed \union {Null} /\ next[top.node] # top.node
    BY <1>1, <1>3 DEF Leads, Chained
  <2> QED
    BY <1>3, <2>1
<1> QED
  BY <1>2, <1>3

LEMMA ChainKept ==
  ASSUME TypeOK, Chained, top' = top, Listed' = Listed, \A n \in Listed : next'[n] = next[n]
  PROVE  Chained'
<1>l. PICK L : L = Listed
  OBVIOUS
<1>1. L \in SUBSET Nodes /\ Leads(L) /\ \A S \in SUBSET Nodes : Leads(S) => L \subseteq S
  BY <1>l, ListLeads DEF Chained, FreeList
<1>2. Leads(L)'
  BY <1>l, <1>1 DEF Leads
<1>3. ASSUME NEW S \in SUBSET Nodes, Leads(S)' PROVE L \subseteq S
  <2>1. Leads(S \intersect L)
    BY <1>l, <1>1, <1>3 DEF Leads
  <2>2. S \intersect L \in SUBSET Nodes
    OBVIOUS
  <2> QED
    BY <1>1, <2>1, <2>2
<1>4. FreeList' = Listed
  BY <1>l, <1>1, <1>2, <1>3 DEF FreeList
<1> QED
  BY <1>4 DEF Chained

\* A node that is not in the list becomes its top.
LEMMA ChainPushed ==
  ASSUME TypeOK, Chained, NEW n \in Nodes, n \notin Listed, next[n] = top.node,
         next' = next, top'.node = n, Listed' = Listed \union {n}
  PROVE  Chained'
<1>l. PICK L : L = Listed
  OBVIOUS
<1>1. L \in SUBSET Nodes /\ Leads(L) /\ \A S \in SUBSET Nodes : Leads(S) => L \subseteq S
  BY <1>l, ListLeads DEF Chained, FreeList
<1>2. Leads(L \union {n})'
  BY <1>1 DEF Leads
<1>3. ASSUME NEW S \in SUBSET Nodes, Leads(S)' PROVE L \union {n} \subseteq S
  <2>1. n \in S
    BY <1>3 DEF Leads, Nodes, Null
  <2>2. Leads(S)
    BY <1>3, <2>1 DEF Leads
  <2> QED
    BY <1>1, <2>1, <2>2
<1>4. FreeList' = Listed \union {n}
  BY <1>l, <1>1, <1>2, <1>3 DEF FreeList
<1>5. n # Null /\ \A m \in Listed : next[m] # n
  BY <1>l, <1>1 DEF Leads, Nodes, Null
<1>6. next[n] # n
  BY <1>l, <1>1, <1>5 DEF Leads
<1>7. \A m \in Listed : next[m] # next[n]
  BY DEF Chained
<1> QED
  BY <1>4, <1>5, <1>6, <1>7 DEF Chained

\* The node behind the top becomes the top.
LEMMA ChainPopped ==
  ASSUME TypeOK, Chained, top.node # Null,
         next' = next, top'.node = next[top.node], Listed' = Listed \ {top.node}
  PROVE  Chained'
<1>l. PICK L, n : L = Listed /\ n = top.node
  OBVIOUS
<1>1. /\ L \in SUBSET Nodes /\ Leads(L) /\ n \in L
      /\ \A S \in SUBSET Nodes : Leads(S) => L \subseteq S
  BY <1>l, ListLeads, TopOfList DEF Chained, FreeList
<1>2. Leads(L \ {n})'
  <2>1. \A m \in L : next[m] \in (L \ {n}) \union {Null}
    BY <1>l, <1>1 DEF Leads, Chained
  <2> QED
    BY <1>l, <1>1, <2>1 DEF Leads
<1>3. ASSUME NEW S \in SUBSET Nodes, Leads(S)' PROVE L \ {n} \subseteq S
  <2>1. Leads(S \union {n})
    BY <1>l, <1>3 DEF Leads
  <2>2. S \union {n} \in SUBSET Nodes
    BY <1>1
  <2> QED
    BY <1>1, <2>1, <2>2
<1>4. FreeList' = L \ {n} /\ Listed' = L \ {n}
  BY <1>l, <1>1, <1>2, <1>3 DEF FreeList
<1>5. \A m \in L \ {n} : next[m] # next[n]
  BY <1>l, <1>1 DEF Chained
<1>6. \A m, k \in L \ {n} : next[m] = next[k] => m = k
  BY <1>l DEF Chained
<1> QED
  BY <1>l, <1>4, <1>5, <1>6 DEF Chained

LEMMA ThreadsAreFinite == ASSUME NEW labels PROVE IsFiniteSet(ThreadsAt(labels)) /\ Cardinality(ThreadsAt(labels)) \in Nat
<1>1. ThreadsAt(labels) \in SUBSET Threads
  BY DEF ThreadsAt
<1> QED
  BY <1>1, FS_Subset, FS_CardinalityType, PoolAssumption

\* What a step of t does to who is at some labels, and to how many they are.
LEMMA AtAfter ==
  ASSUME NEW t \in Threads, NEW labels, \A u \in Threads \ {t} : thread'[u] = thread[u]
  PROVE  /\ ThreadsAt(labels)' = IF thread'[t].at \in labels THEN ThreadsAt(labels) \union {t}
                                 ELSE ThreadsAt(labels) \ {t}
         /\ Cardinality(ThreadsAt(labels))' =
               Cardinality(ThreadsAt(labels))
                 + (IF thread'[t].at \in labels THEN 1 ELSE 0)
                 - (IF thread[t].at \in labels THEN 1 ELSE 0)
<1>1. ThreadsAt(labels)' = IF thread'[t].at \in labels THEN ThreadsAt(labels) \union {t}
                           ELSE ThreadsAt(labels) \ {t}
  BY DEF ThreadsAt
<1>2. t \in ThreadsAt(labels) <=> thread[t].at \in labels
  BY DEF ThreadsAt
<1>3. PICK S : S = ThreadsAt(labels)
  OBVIOUS
<1>4. IsFiniteSet(S) /\ Cardinality(S) \in Nat
  BY <1>3, ThreadsAreFinite
<1>5. CASE thread'[t].at \in labels
  <2>1. Cardinality(S \union {t}) = IF t \in S THEN Cardinality(S) ELSE Cardinality(S) + 1
    BY <1>4, FS_AddElement
  <2>2. ThreadsAt(labels)' = S \union {t}
    BY <1>1, <1>3, <1>5
  <2> QED
    BY <1>1, <1>2, <1>3, <1>4, <1>5, <2>1, <2>2
<1>6. CASE thread'[t].at \notin labels
  <2>1. Cardinality(S \ {t}) = IF t \in S THEN Cardinality(S) - 1 ELSE Cardinality(S)
    BY <1>4, FS_RemoveElement
  <2>2. ThreadsAt(labels)' = S \ {t}
    BY <1>1, <1>3, <1>6
  <2> QED
    BY <1>1, <1>2, <1>3, <1>4, <1>6, <2>1, <2>2
<1> QED
  BY <1>5, <1>6

LEMMA NodesAreFinite ==
  ASSUME NEW S \in SUBSET Nodes PROVE IsFiniteSet(S) /\ Cardinality(S) \in Nat
<1>1. IsFiniteSet(Nodes)
  BY FS_Interval, PoolAssumption DEF Nodes
<1> QED
  BY <1>1, FS_Subset, FS_CardinalityType

LEMMA TakenIsMade == ASSUME TypeOK, OneUser PROVE Taken \subseteq made /\ Taken \in SUBSET Nodes /\ Listed \in SUBSET Nodes
  BY DEF TypeOK, OneUser, Taken, Listed

\* The nodes that exist are those in use and those in the list.
LEMMA MadeAreCounted ==
  ASSUME TypeOK, OneUser
  PROVE  Cardinality(Listed) = Cardinality(made) - Cardinality(Taken)
<1>1. Taken \subseteq made /\ Taken \in SUBSET Nodes /\ Listed \in SUBSET Nodes /\ made \in SUBSET Nodes
  BY TakenIsMade DEF TypeOK
<1>2. made = Listed \union Taken /\ Listed \intersect Taken = {}
  BY <1>1 DEF Listed
<1>3. Cardinality(Listed \union Taken) = Cardinality(Listed) + Cardinality(Taken) - Cardinality({})
  BY <1>1, <1>2, FS_Union, NodesAreFinite
<1> QED
  BY <1>1, <1>2, <1>3, FS_EmptySet, NodesAreFinite

-----------------------------------------------------------------------------
(* Steps in which a thread only looks at the list.                           *)

LEMMA LocalStep ==
  ASSUME IInv, NEW t \in Threads,
         UNCHANGED <<made, next, top, stamp, held>>,
         \A u \in Threads \ {t} : thread'[u] = thread[u],
         t \in Freeing <=> t \in Freeing',
         t \in Freeing => thread'[t].node = thread[t].node /\ thread'[t].count = thread[t].count,
         t \in Popping' => \/ t \in Popping /\ thread'[t].seen = thread[t].seen
                           \/ thread'[t].seen = top /\ top.node # Null,
         t \in ThreadsAt({"pop"})' => thread'[t].node = next[thread'[t].seen.node],
         t \notin ThreadsAt({"push"})'
  PROVE  Taken' = Taken /\ OneUser' /\ Chained' /\ StampsAreFresh' /\ SeenIsNotBelow' /\ NextIsKnown'
<1>1. Freeing' = Freeing /\ \A u \in Freeing : thread'[u].node = thread[u].node /\ thread'[u].count = thread[u].count
  BY AtAfter DEF Freeing, ThreadsAt
<1>2. Taken' = Taken /\ Listed' = Listed
  BY <1>1 DEF Taken, Listed
<1>3. OneUser'
  BY <1>1 DEF IInv, OneUser
<1>4. Chained'
  BY <1>2, ChainKept DEF IInv
<1>5. \A u \in Popping' : u # t => u \in Popping /\ thread'[u] = thread[u]
  BY DEF Popping, ThreadsAt
<1>6. StampsAreFresh'
  <2>1. \A u \in Popping' : thread'[u].seen.stamp <= stamp
    BY <1>5 DEF IInv, StampsAreFresh
  <2>2. \A u \in Freeing, v \in Popping' : thread[u].count # thread'[v].seen.stamp
    BY <1>5 DEF IInv, StampsAreFresh
  <2> QED
    BY <1>1, <2>1, <2>2 DEF IInv, StampsAreFresh
<1>7. SeenIsNotBelow'
  BY <1>2, <1>5 DEF IInv, SeenIsNotBelow
<1>8. NextIsKnown'
  <2>1. \A u \in Threads \ {t} : (u \in ThreadsAt({"pop"})' => u \in ThreadsAt({"pop"})) /\ (u \in ThreadsAt({"push"})' => u \in ThreadsAt({"push"}))
    BY DEF ThreadsAt
  <2>2. ASSUME NEW u \in ThreadsAt({"pop"})', SameTop(u)' PROVE next'[top'.node] = thread'[u].node
    <3>1. CASE u = t
      BY <2>2, <3>1 DEF SameTop
    <3>2. CASE u # t
      <4>1. u \in ThreadsAt({"pop"}) /\ thread'[u] = thread[u]
        BY <2>1, <2>2, <3>2 DEF ThreadsAt
      <4> QED
        BY <2>2, <4>1 DEF IInv, NextIsKnown, SameTop
    <3> QED
      BY <3>1, <3>2
  <2>3. ASSUME NEW u \in ThreadsAt({"push"})' PROVE next'[thread'[u].node] = thread'[u].seen.node
    <3>1. u # t /\ u \in ThreadsAt({"push"}) /\ thread'[u] = thread[u]
      BY <2>1, <2>3 DEF ThreadsAt
    <3> QED
      BY <3>1 DEF IInv, NextIsKnown
  <2> QED
    BY <2>2, <2>3 DEF NextIsKnown
<1> QED
  BY <1>2, <1>3, <1>4, <1>6, <1>7, <1>8

ThreadType == [at : Labels, count : Nat, seen : Top, node : Nodes \union {Null}]

\* Where the counters are not concerned.
LEMMA CountsKept ==
  ASSUME IInv, NEW t \in Threads, UNCHANGED <<made, allocCount, useCount>>, Taken' = Taken,
         \A u \in Threads \ {t} : thread'[u] = thread[u],
         t \in Poppers <=> t \in Poppers',
         t \in ThreadsAt({"create", "unuse"}) <=> t \in ThreadsAt({"create", "unuse"})',
         t \in ThreadsAt({"use"})' => thread'[t].count <= allocCount
  PROVE  CountsAgree'
<1>1. Poppers' = Poppers /\ ThreadsAt({"create", "unuse"})' = ThreadsAt({"create", "unuse"})
  BY DEF Poppers, ThreadsAt
<1>2. Listed' = Listed
  BY DEF Listed
<1>3. \A u \in ThreadsAt({"use"})' : thread'[u].count <= allocCount
  BY DEF IInv, CountsAgree, ThreadsAt
<1> QED
  BY <1>1, <1>2, <1>3 DEF IInv, CountsAgree

LEMMA ReadCountStep == ASSUME IInv, NEW t \in Threads, ReadCount(t) PROVE IInv'
<1>1. /\ thread[t].at = "idle"
      /\ UNCHANGED <<made, next, top, stamp, allocCount, useCount, held>>
      /\ \A u \in Threads \ {t} : thread'[u] = thread[u]
      /\ thread'[t].at = "use" /\ thread'[t].count = allocCount
      /\ thread' \in [Threads -> ThreadType]
  BY DEF ReadCount, At, IInv, TypeOK, ThreadType, Labels
<1>2. TypeOK'
  BY <1>1 DEF IInv, TypeOK, ThreadType
<1>3. Taken' = Taken /\ OneUser' /\ Chained' /\ StampsAreFresh' /\ SeenIsNotBelow' /\ NextIsKnown'
  <2>1. t \notin Freeing /\ t \notin Freeing' /\ t \notin Popping' /\ t \notin ThreadsAt({"pop"})' /\ t \notin ThreadsAt({"push"})'
    BY <1>1 DEF Freeing, Popping, ThreadsAt
  <2> QED
    BY <1>1, <2>1, LocalStep
<1>4. CountsAgree'
  <2>1. t \notin Poppers /\ t \notin Poppers' /\ t \notin ThreadsAt({"create", "unuse"}) /\ t \notin ThreadsAt({"create", "unuse"})'
    BY <1>1 DEF Poppers, ThreadsAt
  <2>2. thread'[t].count <= allocCount
    BY <1>1 DEF IInv, TypeOK
  <2> QED
    BY <1>1, <1>3, <2>1, <2>2, CountsKept
<1> QED
  BY <1>2, <1>3, <1>4 DEF IInv

LEMMA ReadTopStep == ASSUME IInv, NEW t \in Threads, ReadTop(t) PROVE IInv'
<1>1. /\ thread[t].at = "readTop"
      /\ UNCHANGED <<made, next, top, stamp, allocCount, useCount, held>>
      /\ \A u \in Threads \ {t} : thread'[u] = thread[u]
      /\ thread'[t].at = "readNext" /\ thread'[t].seen = top
      /\ thread' \in [Threads -> ThreadType]
  BY DEF ReadTop, At, IInv, TypeOK, ThreadType, Labels
<1>2. TypeOK'
  BY <1>1 DEF IInv, TypeOK, ThreadType
<1>3. top.node # Null
  <2>1. t \in Poppers
    BY <1>1 DEF Poppers, ThreadsAt
  <2>2. Cardinality(Poppers) # 0 /\ Cardinality(Poppers) \in Nat
    BY <2>1, ThreadsAreFinite, FS_EmptySet DEF Poppers
  <2>3. Listed \in SUBSET Nodes
    BY TakenIsMade DEF IInv
  <2>4. Listed # {}
    BY <2>2, <2>3, NodesAreFinite, FS_EmptySet DEF IInv, CountsAgree
  <2> QED
    BY <2>4, TopOfList DEF IInv
<1>4. Taken' = Taken /\ OneUser' /\ Chained' /\ StampsAreFresh' /\ SeenIsNotBelow' /\ NextIsKnown'
  <2>1. t \notin Freeing /\ t \notin Freeing' /\ t \notin ThreadsAt({"pop"})' /\ t \notin ThreadsAt({"push"})'
    BY <1>1 DEF Freeing, ThreadsAt
  <2> QED
    BY <1>1, <1>3, <2>1, LocalStep
<1>5. CountsAgree'
  <2>1. t \in Poppers /\ t \in Poppers' /\ t \notin ThreadsAt({"create", "unuse"})
        /\ t \notin ThreadsAt({"create", "unuse"})' /\ t \notin ThreadsAt({"use"})'
    BY <1>1 DEF Poppers, ThreadsAt
  <2> QED
    BY <1>1, <1>4, <2>1, CountsKept
<1> QED
  BY <1>2, <1>4, <1>5 DEF IInv

LEMMA ReadNextStep == ASSUME IInv, NEW t \in Threads, ReadNext(t) PROVE IInv'
<1>1. /\ thread[t].at = "readNext" /\ thread[t].seen.node # Null
      /\ UNCHANGED <<made, next, top, stamp, allocCount, useCount, held>>
      /\ \A u \in Threads \ {t} : thread'[u] = thread[u]
      /\ thread'[t].at = "pop" /\ thread'[t].seen = thread[t].seen
      /\ thread'[t].node = next[thread[t].seen.node]
  BY DEF ReadNext, At, IInv, TypeOK
<1>2. thread' \in [Threads -> ThreadType]
  <2>1. thread[t].seen.node \in Nodes
    BY <1>1 DEF IInv, TypeOK, Top
  <2>2. next[thread[t].seen.node] \in Nodes \union {Null}
    BY <2>1 DEF IInv, TypeOK
  <2> QED
    BY <2>2 DEF ReadNext, IInv, TypeOK, ThreadType, Labels
<1>3. TypeOK'
  BY <1>1, <1>2 DEF IInv, TypeOK, ThreadType
<1>4. Taken' = Taken /\ OneUser' /\ Chained' /\ StampsAreFresh' /\ SeenIsNotBelow' /\ NextIsKnown'
  <2>1. t \notin Freeing /\ t \notin Freeing' /\ t \in Popping /\ t \notin ThreadsAt({"push"})'
    BY <1>1 DEF Freeing, Popping, ThreadsAt
  <2> QED
    BY <1>1, <2>1, LocalStep
<1>5. CountsAgree'
  <2>1. t \in Poppers /\ t \in Poppers' /\ t \notin ThreadsAt({"create", "unuse"})
        /\ t \notin ThreadsAt({"create", "unuse"})' /\ t \notin ThreadsAt({"use"})'
    BY <1>1 DEF Poppers, ThreadsAt
  <2> QED
    BY <1>1, <1>4, <2>1, CountsKept
<1> QED
  BY <1>3, <1>4, <1>5 DEF IInv

LEMMA FreeTopStep == ASSUME IInv, NEW t \in Threads, FreeTop(t) PROVE IInv'
<1>1. /\ thread[t].at = "freeTop"
      /\ UNCHANGED <<made, next, top, stamp, allocCount, useCount, held>>
      /\ \A u \in Threads \ {t} : thread'[u] = thread[u]
      /\ thread'[t].at = "freeNext" /\ thread'[t].node = thread[t].node /\ thread'[t].count = thread[t].count
      /\ thread' \in [Threads -> ThreadType]
  BY DEF FreeTop, At, IInv, TypeOK, ThreadType, Labels
<1>2. TypeOK'
  BY <1>1 DEF IInv, TypeOK, ThreadType
<1>3. Taken' = Taken /\ OneUser' /\ Chained' /\ StampsAreFresh' /\ SeenIsNotBelow' /\ NextIsKnown'
  <2>1. t \in Freeing /\ t \in Freeing' /\ t \notin Popping' /\ t \notin ThreadsAt({"pop"})' /\ t \notin ThreadsAt({"push"})'
    BY <1>1 DEF Freeing, Popping, ThreadsAt
  <2> QED
    BY <1>1, <2>1, LocalStep
<1>4. CountsAgree'
  <2>1. t \notin Poppers /\ t \notin Poppers' /\ t \notin ThreadsAt({"create", "unuse"})
        /\ t \notin ThreadsAt({"create", "unuse"})' /\ t \notin ThreadsAt({"use"})'
    BY <1>1 DEF Poppers, ThreadsAt
  <2> QED
    BY <1>1, <1>3, <2>1, CountsKept
<1> QED
  BY <1>2, <1>3, <1>4 DEF IInv

\* A thread is told that there is a node when the nodes that existed some time ago
\* are not all promised: there is one more than the promises then.
LEMMA UseStep == ASSUME IInv, NEW t \in Threads, Use(t) PROVE IInv'
<1>1. /\ thread[t].at = "use" /\ useCount' = useCount + 1
      /\ UNCHANGED <<made, next, top, stamp, allocCount, held>>
      /\ \A u \in Threads \ {t} : thread'[u] = thread[u]
      /\ thread'[t].at = IF thread[t].count >= useCount + 1 THEN "readTop" ELSE "create"
      /\ thread' \in [Threads -> ThreadType]
  BY DEF Use, Goto, NodeIsFree, At, IInv, TypeOK, ThreadType, Labels
<1>2. TypeOK'
  BY <1>1 DEF IInv, TypeOK, ThreadType
<1>3. Taken' = Taken /\ OneUser' /\ Chained' /\ StampsAreFresh' /\ SeenIsNotBelow' /\ NextIsKnown'
  <2>1. t \notin Freeing /\ t \notin Freeing' /\ t \notin Popping' /\ t \notin ThreadsAt({"pop"})' /\ t \notin ThreadsAt({"push"})'
    BY <1>1 DEF Freeing, Popping, ThreadsAt
  <2> QED
    BY <1>1, <2>1, LocalStep
<1>4. CountsAgree'
  <2>1. thread[t].count <= allocCount
    BY <1>1 DEF IInv, CountsAgree, ThreadsAt
  <2>2. \A u \in ThreadsAt({"use"})' : thread'[u].count <= allocCount
    BY <1>1 DEF IInv, CountsAgree, ThreadsAt
  <2>3. Cardinality(Listed) = Cardinality(made) - Cardinality(Taken) /\ Listed' = Listed
    BY <1>1, <1>3, MadeAreCounted DEF IInv, Listed
  <2>4. Cardinality(Taken) \in Nat /\ Cardinality(made) \in Nat
    BY TakenIsMade, NodesAreFinite DEF IInv, TypeOK
  <2>5. Cardinality(Poppers) \in Nat /\ Cardinality(ThreadsAt({"create", "unuse"})) \in Nat
    BY ThreadsAreFinite DEF Poppers
  <2>6. CASE thread[t].count >= useCount + 1
    <3>1. Cardinality(Poppers)' = Cardinality(Poppers) + 1
      BY <1>1, <2>5, <2>6, AtAfter DEF Poppers
    <3>2. Cardinality(ThreadsAt({"create", "unuse"}))' = Cardinality(ThreadsAt({"create", "unuse"}))
      BY <1>1, <2>5, <2>6, AtAfter
    <3>3. thread[t].count \in Nat /\ useCount \in Nat
      BY DEF IInv, TypeOK
    <3> QED
      BY <1>1, <1>3, <2>1, <2>2, <2>3, <2>4, <2>5, <2>6, <3>1, <3>2, <3>3 DEF IInv, CountsAgree
  <2>7. CASE ~(thread[t].count >= useCount + 1)
    <3>1. Cardinality(Poppers)' = Cardinality(Poppers)
      BY <1>1, <2>5, <2>7, AtAfter DEF Poppers
    <3>2. Cardinality(ThreadsAt({"create", "unuse"}))' = Cardinality(ThreadsAt({"create", "unuse"})) + 1
      BY <1>1, <2>5, <2>7, AtAfter
    <3> QED
      BY <1>1, <1>3, <2>2, <2>3, <2>4, <2>5, <3>1, <3>2 DEF IInv, CountsAgree
  <2> QED
    BY <2>6, <2>7
<1> QED
  BY <1>2, <1>3, <1>4 DEF IInv

LEMMA UnuseStep == ASSUME IInv, NEW t \in Threads, Unuse(t) PROVE IInv'
<1>1. /\ thread[t].at = "unuse" /\ useCount' = useCount - 1
      /\ UNCHANGED <<made, next, top, stamp, allocCount, held>>
      /\ \A u \in Threads \ {t} : thread'[u] = thread[u]
      /\ thread'[t].at = "idle"
      /\ thread' = [thread EXCEPT ![t] = Idle]
  BY DEF Unuse, Return, At, IInv, TypeOK, Idle
<1>2. Idle \in ThreadType
  BY PoolAssumption DEF Idle, ThreadType, Labels, Top
<1>3. Taken' = Taken /\ OneUser' /\ Chained' /\ StampsAreFresh' /\ SeenIsNotBelow' /\ NextIsKnown'
  <2>1. t \notin Freeing /\ t \notin Freeing' /\ t \notin Popping' /\ t \notin ThreadsAt({"pop"})' /\ t \notin ThreadsAt({"push"})'
    BY <1>1 DEF Freeing, Popping, ThreadsAt
  <2> QED
    BY <1>1, <2>1, LocalStep
<1>4. CountsAgree' /\ useCount' \in Nat
  <2>1. \A u \in ThreadsAt({"use"})' : thread'[u].count <= allocCount
    BY <1>1 DEF IInv, CountsAgree, ThreadsAt
  <2>2. Listed' = Listed
    BY <1>1, <1>3 DEF Listed
  <2>3. Cardinality(Taken) \in Nat
    BY TakenIsMade, NodesAreFinite DEF IInv
  <2>4. Cardinality(Poppers) \in Nat /\ Cardinality(ThreadsAt({"create", "unuse"})) \in Nat
    BY ThreadsAreFinite DEF Poppers
  <2>5. Cardinality(Poppers)' = Cardinality(Poppers)
    BY <1>1, <2>4, AtAfter DEF Poppers
  <2>6. Cardinality(ThreadsAt({"create", "unuse"}))' = Cardinality(ThreadsAt({"create", "unuse"})) - 1
    BY <1>1, <2>4, AtAfter
  <2>7. Cardinality(ThreadsAt({"create", "unuse"}))' \in Nat
    <3>1. t \in ThreadsAt({"create", "unuse"})
      BY <1>1 DEF ThreadsAt
    <3>2. Cardinality(ThreadsAt({"create", "unuse"})) # 0
      BY <3>1, ThreadsAreFinite, FS_EmptySet
    <3> QED
      BY <2>4, <2>6, <3>2
  <2> QED
    BY <1>1, <1>3, <2>1, <2>2, <2>3, <2>4, <2>5, <2>6, <2>7 DEF IInv, CountsAgree
<1>5. TypeOK'
  BY <1>1, <1>2, <1>4 DEF IInv, TypeOK, ThreadType
<1> QED
  BY <1>3, <1>4, <1>5 DEF IInv

-----------------------------------------------------------------------------
(* Steps that move a node.                                                   *)

\* A call of Free takes a stamp that nobody has.
LEMMA FreeStep == ASSUME IInv, NEW t \in Threads, NEW n \in Nodes, Free(t, n) PROVE IInv'
<1>1. /\ thread[t].at = "idle" /\ held[n] > 0 /\ stamp < MaxFrees /\ stamp' = stamp + 1
      /\ held' = [held EXCEPT ![n] = @ - 1]
      /\ UNCHANGED <<made, next, top, allocCount, useCount>>
      /\ \A u \in Threads \ {t} : thread'[u] = thread[u]
      /\ thread'[t].at = "freeTop" /\ thread'[t].node = n /\ thread'[t].count = stamp + 1
  BY DEF Free, At, IInv, TypeOK
<1>2. held[n] = 1 /\ n \in made /\ held'[n] = 0 /\ \A m \in Nodes \ {n} : held'[m] = held[m]
  BY <1>1 DEF IInv, TypeOK, OneUser
<1>3. stamp \in Nat /\ stamp + 1 \in Nat /\ stamp + 1 \in 0 .. MaxFrees
  BY <1>1, PoolAssumption DEF IInv, TypeOK
<1>4. TypeOK'
  <2>1. thread' \in [Threads -> ThreadType]
    <3>1. PICK c \in Nat : c = stamp'
      BY <1>1, <1>3
    <3>2. thread' = [thread EXCEPT ![t].at = "freeTop", ![t].node = n, ![t].count = c]
      BY <3>1 DEF Free
    <3>3. PICK entry : entry = [thread[t] EXCEPT !.at = "freeTop", !.node = n, !.count = c]
      OBVIOUS
    <3>4. entry \in ThreadType
      <4>1. thread[t] \in ThreadType
        BY DEF IInv, TypeOK, ThreadType
      <4> QED
        BY <3>3, <4>1 DEF ThreadType, Labels
    <3>5. thread' = [thread EXCEPT ![t] = entry]
      BY <3>2, <3>3 DEF IInv, TypeOK
    <3>6. thread \in [Threads -> ThreadType]
      BY DEF IInv, TypeOK, ThreadType
    <3> QED
      BY <3>4, <3>5, <3>6
  <2>2. held' \in [Nodes -> Nat]
    BY <1>1, <1>2 DEF IInv, TypeOK
  <2> QED
    BY <1>1, <1>3, <2>1, <2>2 DEF IInv, TypeOK, ThreadType
<1>5. t \notin Freeing /\ Freeing' = Freeing \union {t} /\ \A u \in Freeing : u # t /\ thread'[u] = thread[u]
  BY <1>1, AtAfter DEF Freeing, ThreadsAt
<1>6. Taken' = Taken /\ Listed' = Listed
  <2>1. \A m \in Nodes : m \in Taken' <=> m \in Taken
    BY <1>1, <1>2, <1>5 DEF Taken
  <2> QED
    BY <1>1, <2>1 DEF Taken, Listed
<1>7. OneUser'
  <2>1. \A u \in Freeing : thread[u].node # n
    BY <1>2 DEF IInv, OneUser
  <2>2. \A m \in Nodes : held'[m] \in 0 .. 1 /\ (held'[m] = 1 => m \in made')
    BY <1>1, <1>2 DEF IInv, OneUser
  <2>3. \A u \in Freeing' : thread'[u].node \in made' /\ held'[thread'[u].node] = 0
    BY <1>1, <1>2, <1>5, <2>1 DEF IInv, OneUser, TypeOK
  <2>4. \A u, v \in Freeing' : thread'[u].node = thread'[v].node => u = v
    BY <1>1, <1>5, <2>1 DEF IInv, OneUser
  <2> QED
    BY <2>2, <2>3, <2>4 DEF OneUser
<1>8. Chained'
  BY <1>1, <1>6, ChainKept DEF IInv
<1>9. Popping' = Popping /\ \A u \in Popping : u # t /\ thread'[u] = thread[u]
  BY <1>1 DEF Popping, ThreadsAt
<1>10. StampsAreFresh'
  <2>1. \A u \in Freeing : thread[u].count <= stamp /\ thread[u].count \in Nat
    BY DEF IInv, StampsAreFresh, TypeOK, Freeing, ThreadsAt
  <2>2. \A u \in Popping : thread[u].seen.stamp <= stamp /\ thread[u].seen.stamp \in Nat
    BY PoolAssumption DEF IInv, StampsAreFresh, TypeOK, Popping, ThreadsAt, Top
  <2>3. top.stamp <= stamp /\ top.stamp \in Nat
    BY PoolAssumption DEF IInv, StampsAreFresh, TypeOK, Top
  <2>4. \A u \in Freeing' : thread'[u].count <= stamp' /\ thread'[u].count # top'.stamp
    BY <1>1, <1>3, <1>5, <2>1, <2>3 DEF IInv, StampsAreFresh
  <2>5. \A u, v \in Freeing' : thread'[u].count = thread'[v].count => u = v
    BY <1>1, <1>3, <1>5, <2>1 DEF IInv, StampsAreFresh
  <2>6. \A u \in Freeing', v \in Popping' : thread'[u].count # thread'[v].seen.stamp
    BY <1>1, <1>3, <1>5, <1>9, <2>2 DEF IInv, StampsAreFresh
  <2>7. top'.stamp <= stamp' /\ \A u \in Popping' : thread'[u].seen.stamp <= stamp'
    BY <1>1, <1>3, <1>9, <2>2, <2>3
  <2> QED
    BY <2>4, <2>5, <2>6, <2>7 DEF StampsAreFresh
<1>11. SeenIsNotBelow'
  BY <1>1, <1>6, <1>9 DEF IInv, SeenIsNotBelow
<1>12. NextIsKnown'
  BY <1>1 DEF IInv, NextIsKnown, ThreadsAt, SameTop
<1>13. CountsAgree'
  <2>1. t \notin Poppers /\ t \notin Poppers' /\ t \notin ThreadsAt({"create", "unuse"})
        /\ t \notin ThreadsAt({"create", "unuse"})' /\ t \notin ThreadsAt({"use"})'
    BY <1>1 DEF Poppers, ThreadsAt
  <2> QED
    BY <1>1, <1>6, <2>1, CountsKept
<1> QED
  BY <1>4, <1>7, <1>8, <1>10, <1>11, <1>12, <1>13 DEF IInv

\* The node that is linked is in nobody's list.
LEMMA FreeNextStep == ASSUME IInv, NEW t \in Threads, FreeNext(t) PROVE IInv'
<1>1. /\ thread[t].at = "freeNext"
      /\ next' = [next EXCEPT ![thread[t].node] = thread[t].seen.node]
      /\ UNCHANGED <<made, top, stamp, allocCount, useCount, held>>
      /\ \A u \in Threads \ {t} : thread'[u] = thread[u]
      /\ thread'[t].at = "push" /\ thread'[t].node = thread[t].node /\ thread'[t].count = thread[t].count
      /\ thread'[t].seen = thread[t].seen
      /\ thread' \in [Threads -> ThreadType]
  BY DEF FreeNext, Goto, At, IInv, TypeOK, ThreadType, Labels
<1>2. t \in Freeing /\ Freeing' = Freeing
  BY <1>1, AtAfter DEF Freeing, ThreadsAt
<1>3. PICK n \in Nodes : n = thread[t].node
  BY <1>2 DEF IInv, OneUser, TypeOK
<1>4. thread[t].seen.node \in Nodes \union {Null}
  BY DEF IInv, TypeOK, Top
<1>5. next'[n] = thread[t].seen.node /\ \A m \in Nodes \ {n} : next'[m] = next[m]
  BY <1>1, <1>3 DEF IInv, TypeOK
<1>6. TypeOK'
  <2>1. next' \in [Nodes -> Nodes \union {Null}]
    BY <1>1, <1>4 DEF IInv, TypeOK
  <2> QED
    BY <1>1, <2>1 DEF IInv, TypeOK, ThreadType
<1>7. \A u \in Threads : thread'[u].node = thread[u].node /\ thread'[u].count = thread[u].count /\ thread'[u].seen = thread[u].seen
  BY <1>1
<1>8. Taken' = Taken /\ Listed' = Listed /\ n \in Taken /\ n \notin Listed
  BY <1>1, <1>2, <1>3, <1>7 DEF Taken, Listed, Freeing, ThreadsAt
<1>9. OneUser'
  BY <1>1, <1>2, <1>7 DEF IInv, OneUser, Freeing, ThreadsAt
<1>10. Chained'
  <2>1. \A m \in Listed : next'[m] = next[m]
    BY <1>5, <1>8, TakenIsMade DEF IInv
  <2> QED
    BY <1>1, <1>8, <2>1, ChainKept DEF IInv
<1>11. Popping' = Popping
  BY <1>1 DEF Popping, ThreadsAt
<1>12. StampsAreFresh'
  BY <1>1, <1>2, <1>7, <1>11 DEF IInv, StampsAreFresh, Freeing, Popping, ThreadsAt
<1>13. SeenIsNotBelow'
  BY <1>1, <1>7, <1>8, <1>11 DEF IInv, SeenIsNotBelow, Popping, ThreadsAt
<1>14. NextIsKnown'
  <2>1. ASSUME NEW u \in ThreadsAt({"pop"})', SameTop(u)' PROVE next'[top'.node] = thread'[u].node
    <3>1. u \in ThreadsAt({"pop"}) /\ u # t /\ top = thread[u].seen /\ SameTop(u)
      BY <1>1, <2>1 DEF ThreadsAt, SameTop
    <3>2. thread[u].seen.node # Null
      BY <3>1 DEF IInv, SeenIsNotBelow, Popping, ThreadsAt
    <3>3. top.node \in Listed /\ top.node \in Nodes
      BY <3>1, <3>2, TopOfList, TakenIsMade DEF IInv
    <3>4. next'[top.node] = next[top.node]
      BY <1>5, <1>8, <3>3
    <3> QED
      BY <1>1, <1>7, <3>1, <3>4 DEF IInv, NextIsKnown, ThreadsAt
  <2>2. ASSUME NEW u \in ThreadsAt({"push"})' PROVE next'[thread'[u].node] = thread'[u].seen.node
    <3>1. CASE u = t
      BY <1>3, <1>5, <1>7, <3>1
    <3>2. CASE u # t
      <4>1. u \in ThreadsAt({"push"}) /\ u \in Freeing
        BY <1>1, <2>2, <3>2 DEF ThreadsAt, Freeing
      <4>2. thread[u].node \in Nodes /\ thread[u].node # n
        BY <1>2, <1>3, <3>2, <4>1 DEF IInv, OneUser, TypeOK
      <4> QED
        BY <1>5, <1>7, <4>1, <4>2 DEF IInv, NextIsKnown, ThreadsAt
    <3> QED
      BY <3>1, <3>2
  <2> QED
    BY <2>1, <2>2 DEF NextIsKnown
<1>15. CountsAgree'
  <2>1. t \notin Poppers /\ t \notin Poppers' /\ t \notin ThreadsAt({"create", "unuse"})
        /\ t \notin ThreadsAt({"create", "unuse"})' /\ t \notin ThreadsAt({"use"})'
    BY <1>1 DEF Poppers, ThreadsAt
  <2> QED
    BY <1>1, <1>8, <2>1, CountsKept
<1> QED
  BY <1>6, <1>9, <1>10, <1>12, <1>13, <1>14, <1>15 DEF IInv

\* The top is the one that was seen: the node leaves the list.
LEMMA PopStep == ASSUME IInv, NEW t \in Threads, Pop(t) PROVE IInv'
<1>1. CASE ~SameTop(t)
  <2>1. /\ thread[t].at = "pop"
        /\ UNCHANGED <<made, next, top, stamp, allocCount, useCount, held>>
        /\ \A u \in Threads \ {t} : thread'[u] = thread[u]
        /\ thread'[t].at = "readTop"
        /\ thread' \in [Threads -> ThreadType]
    BY <1>1 DEF Pop, Goto, At, IInv, TypeOK, ThreadType, Labels
  <2>2. TypeOK'
    BY <2>1 DEF IInv, TypeOK, ThreadType
  <2>3. Taken' = Taken /\ OneUser' /\ Chained' /\ StampsAreFresh' /\ SeenIsNotBelow' /\ NextIsKnown'
    <3>1. t \notin Freeing /\ t \notin Freeing' /\ t \notin Popping' /\ t \notin ThreadsAt({"pop"})' /\ t \notin ThreadsAt({"push"})'
      BY <2>1 DEF Freeing, Popping, ThreadsAt
    <3> QED
      BY <2>1, <3>1, LocalStep
  <2>4. CountsAgree'
    <3>1. t \in Poppers /\ t \in Poppers' /\ t \notin ThreadsAt({"create", "unuse"})
          /\ t \notin ThreadsAt({"create", "unuse"})' /\ t \notin ThreadsAt({"use"})'
      BY <2>1 DEF Poppers, ThreadsAt
    <3> QED
      BY <2>1, <2>3, <3>1, CountsKept
  <2> QED
    BY <2>2, <2>3, <2>4 DEF IInv
<1>2. CASE SameTop(t)
  <2>1. /\ thread[t].at = "pop" /\ top = thread[t].seen
        /\ top' = [top EXCEPT !.node = thread[t].node]
        /\ held' = [held EXCEPT ![top.node] = @ + 1]
        /\ UNCHANGED <<made, next, stamp, allocCount, useCount>>
        /\ thread' = [thread EXCEPT ![t] = Idle]
    BY <1>2 DEF Pop, SameTop, Return, At
  <2>2. (\A u \in Threads \ {t} : thread'[u] = thread[u]) /\ thread'[t] = Idle /\ thread'[t].at = "idle"
    BY <2>1 DEF IInv, TypeOK, Idle
  <2>3. t \in ThreadsAt({"pop"}) /\ t \in Popping
    BY <2>1 DEF ThreadsAt, Popping
  <2>4. top.node # Null /\ next[top.node] = thread[t].node
    BY <2>1, <2>3, <1>2 DEF IInv, SeenIsNotBelow, NextIsKnown
  <2>5. PICK n \in Nodes : n = top.node
    BY <2>4 DEF IInv, TypeOK, Top
  <2>6. n \in Listed /\ n \in made /\ n \notin Taken /\ thread[t].node \in (Listed \ {n}) \union {Null}
    BY <2>4, <2>5, TopOfList DEF IInv, Listed
  <2>7. top'.node = thread[t].node /\ top'.stamp = top.stamp /\ thread[t].node \in Nodes \union {Null}
    BY <2>1 DEF IInv, TypeOK, Top
  <2>8. held[n] = 0 /\ held'[n] = 1 /\ \A m \in Nodes \ {n} : held'[m] = held[m]
    <3>1. ~(held[n] > 0) /\ held[n] \in 0 .. 1
      BY <2>6 DEF Taken, IInv, OneUser
    <3>2. held[n] = 0
      BY <3>1
    <3> QED
      BY <2>1, <2>5, <3>2 DEF IInv, TypeOK
  <2>9. TypeOK'
    <3>1. Idle \in ThreadType
      BY PoolAssumption DEF Idle, ThreadType, Labels, Top
    <3>2. top' \in Top
      BY <2>1, <2>7 DEF IInv, TypeOK, Top
    <3>3. held' \in [Nodes -> Nat]
      BY <2>1, <2>5, <2>8 DEF IInv, TypeOK
    <3> QED
      BY <2>1, <3>1, <3>2, <3>3 DEF IInv, TypeOK, ThreadType
  <2>10. Freeing' = Freeing /\ \A u \in Freeing : u # t /\ thread'[u] = thread[u]
    BY <2>1, <2>2 DEF Freeing, ThreadsAt
  <2>11. Taken' = Taken \union {n} /\ Listed' = Listed \ {n}
    <3>1. \A m \in Nodes : m \in Taken' <=> m \in Taken \/ m = n
      BY <2>8, <2>10 DEF Taken
    <3> QED
      BY <2>1, <3>1 DEF Taken, Listed
  <2>12. OneUser'
    <3>1. \A m \in Nodes : held'[m] \in 0 .. 1 /\ (held'[m] = 1 => m \in made')
      BY <2>1, <2>6, <2>8 DEF IInv, OneUser
    <3>2. \A u \in Freeing : thread[u].node # n
      BY <2>6 DEF Taken
    <3>3. \A u \in Freeing' : thread'[u].node \in made' /\ held'[thread'[u].node] = 0
      BY <2>1, <2>8, <2>10, <3>2 DEF IInv, OneUser, TypeOK
    <3> QED
      BY <2>10, <3>1, <3>3 DEF IInv, OneUser
  <2>13. Chained'
    BY <2>1, <2>4, <2>5, <2>7, <2>11, ChainPopped DEF IInv
  <2>14. Popping' \subseteq Popping /\ t \notin Popping' /\ \A u \in Popping' : thread'[u] = thread[u]
    BY <2>2 DEF Popping, ThreadsAt
  <2>15. StampsAreFresh'
    BY <2>1, <2>7, <2>10, <2>14 DEF IInv, StampsAreFresh
  <2>16. SeenIsNotBelow'
    <3>1. ASSUME NEW u \in Popping', top'.stamp = thread'[u].seen.stamp PROVE thread'[u].seen.node \notin Listed'
      <4>1. u \in Popping /\ thread'[u] = thread[u]
        BY <2>14
      <4>2. thread[u].seen.node = n \/ thread[u].seen.node \notin Listed
        BY <2>5, <2>7, <3>1, <4>1 DEF IInv, SeenIsNotBelow
      <4> QED
        BY <2>11, <4>1, <4>2
    <3>2. \A u \in Popping' : thread'[u].seen.node # Null
      BY <2>14 DEF IInv, SeenIsNotBelow
    <3> QED
      BY <3>1, <3>2 DEF SeenIsNotBelow
  <2>17. NextIsKnown'
    <3>1. ASSUME NEW u \in ThreadsAt({"pop"})', SameTop(u)' PROVE FALSE
      <4>1. u \in Popping /\ thread'[u] = thread[u] /\ u \in Popping'
        BY <2>2, <3>1 DEF ThreadsAt, Popping
      <4>2. top' = thread[u].seen /\ thread[u].seen.node # Null
        BY <3>1, <4>1 DEF SameTop, IInv, SeenIsNotBelow
      <4>3. thread[u].seen.node = n \/ thread[u].seen.node \notin Listed
        BY <2>5, <2>7, <4>1, <4>2 DEF IInv, SeenIsNotBelow
      <4>4. thread[u].seen.node \in Listed \ {n}
        BY <2>6, <2>7, <4>2
      <4> QED
        BY <4>3, <4>4
    <3>2. \A u \in ThreadsAt({"push"})' : u \in ThreadsAt({"push"}) /\ thread'[u] = thread[u]
      BY <2>2 DEF ThreadsAt
    <3> QED
      BY <2>1, <3>1, <3>2 DEF IInv, NextIsKnown
  <2>18. CountsAgree'
    <3>1. Taken \in SUBSET Nodes /\ Listed \in SUBSET Nodes
      BY TakenIsMade DEF IInv
    <3>2. Cardinality(Taken') = Cardinality(Taken) + 1 /\ Cardinality(Taken) \in Nat
      BY <2>6, <2>11, <3>1, NodesAreFinite, FS_AddElement
    <3>3. Cardinality(Listed') = Cardinality(Listed) - 1 /\ Cardinality(Listed) \in Nat
      BY <2>6, <2>11, <3>1, NodesAreFinite, FS_RemoveElement
    <3>4. Cardinality(Poppers) \in Nat /\ Cardinality(ThreadsAt({"create", "unuse"})) \in Nat
      BY ThreadsAreFinite DEF Poppers
    <3>5. Cardinality(Poppers)' = Cardinality(Poppers) - 1
      BY <2>1, <2>2, <3>4, AtAfter DEF Poppers
    <3>6. Cardinality(ThreadsAt({"create", "unuse"}))' = Cardinality(ThreadsAt({"create", "unuse"}))
      BY <2>1, <2>2, <3>4, AtAfter
    <3>7. \A u \in ThreadsAt({"use"})' : thread'[u].count <= allocCount
      BY <2>2 DEF IInv, CountsAgree, ThreadsAt
    <3> QED
      BY <2>1, <3>2, <3>3, <3>4, <3>5, <3>6, <3>7 DEF IInv, CountsAgree
  <2> QED
    BY <2>9, <2>12, <2>13, <2>15, <2>16, <2>17, <2>18 DEF IInv
<1> QED
  BY <1>1, <1>2

\* A new node is in use from the start.
LEMMA CreateStep == ASSUME IInv, NEW t \in Threads, NEW n \in Nodes, Create(t, n) PROVE IInv'
<1>1. /\ thread[t].at = "create" /\ n \notin made /\ made' = made \union {n}
      /\ next' = [next EXCEPT ![n] = Null]
      /\ held' = [held EXCEPT ![n] = @ + 1]
      /\ allocCount' = allocCount + 1
      /\ UNCHANGED <<top, stamp, useCount>>
      /\ thread' = [thread EXCEPT ![t] = Idle]
  BY DEF Create, Return, At
<1>2. (\A u \in Threads \ {t} : thread'[u] = thread[u]) /\ thread'[t] = Idle /\ thread'[t].at = "idle"
  BY <1>1 DEF IInv, TypeOK, Idle
<1>3. n \notin Taken /\ n \notin Listed
  BY <1>1, TakenIsMade DEF IInv, Listed
<1>4. held[n] = 0 /\ held'[n] = 1 /\ \A m \in Nodes \ {n} : held'[m] = held[m]
  <2>1. ~(held[n] > 0) /\ held[n] \in 0 .. 1
    BY <1>3 DEF Taken, IInv, OneUser
  <2>2. held[n] = 0
    BY <2>1
  <2> QED
    BY <1>1, <2>2 DEF IInv, TypeOK
<1>5. TypeOK'
  <2>1. Idle \in ThreadType
    BY PoolAssumption DEF Idle, ThreadType, Labels, Top
  <2>2. held' \in [Nodes -> Nat] /\ next' \in [Nodes -> Nodes \union {Null}] /\ allocCount' \in Nat
    BY <1>1, <1>4 DEF IInv, TypeOK
  <2> QED
    BY <1>1, <2>1, <2>2 DEF IInv, TypeOK, ThreadType
<1>6. Freeing' = Freeing /\ \A u \in Freeing : u # t /\ thread'[u] = thread[u]
  BY <1>1, <1>2 DEF Freeing, ThreadsAt
<1>7. Taken' = Taken \union {n} /\ Listed' = Listed
  <2>1. \A m \in Nodes : m \in Taken' <=> m \in Taken \/ m = n
    BY <1>4, <1>6 DEF Taken
  <2> QED
    BY <1>1, <1>3, <2>1 DEF Taken, Listed
<1>8. \A u \in Freeing : thread[u].node # n
  BY <1>3 DEF Taken
<1>9. OneUser'
  <2>1. \A m \in Nodes : held'[m] \in 0 .. 1 /\ (held'[m] = 1 => m \in made')
    BY <1>1, <1>4 DEF IInv, OneUser
  <2>2. \A u \in Freeing' : thread'[u].node \in made' /\ held'[thread'[u].node] = 0
    BY <1>1, <1>4, <1>6, <1>8 DEF IInv, OneUser, TypeOK
  <2> QED
    BY <1>6, <2>1, <2>2 DEF IInv, OneUser
<1>10. \A m \in Nodes \ {n} : next'[m] = next[m]
  BY <1>1 DEF IInv, TypeOK
<1>11. Chained'
  <2>1. \A m \in Listed : next'[m] = next[m]
    BY <1>3, <1>10, TakenIsMade DEF IInv
  <2> QED
    BY <1>1, <1>7, <2>1, ChainKept DEF IInv
<1>12. Popping' = Popping /\ \A u \in Popping : u # t /\ thread'[u] = thread[u]
  BY <1>1, <1>2 DEF Popping, ThreadsAt
<1>13. StampsAreFresh'
  BY <1>1, <1>6, <1>12 DEF IInv, StampsAreFresh
<1>14. SeenIsNotBelow'
  BY <1>1, <1>7, <1>12 DEF IInv, SeenIsNotBelow
<1>15. NextIsKnown'
  <2>1. ASSUME NEW u \in ThreadsAt({"pop"})', SameTop(u)' PROVE next'[top'.node] = thread'[u].node
    <3>1. u \in ThreadsAt({"pop"}) /\ u \in Popping /\ thread'[u] = thread[u]
      BY <1>2, <2>1 DEF ThreadsAt, Popping
    <3>2. top = thread[u].seen /\ SameTop(u) /\ top.node # Null
      BY <1>1, <2>1, <3>1 DEF IInv, SeenIsNotBelow, SameTop
    <3>3. top.node \in Listed /\ top.node \in Nodes
      BY <3>2, TopOfList, TakenIsMade DEF IInv
    <3>4. next'[top.node] = next[top.node]
      BY <1>3, <1>10, <3>3
    <3> QED
      BY <1>1, <3>1, <3>2, <3>4 DEF IInv, NextIsKnown
  <2>2. ASSUME NEW u \in ThreadsAt({"push"})' PROVE next'[thread'[u].node] = thread'[u].seen.node
    <3>1. u \in ThreadsAt({"push"}) /\ u \in Freeing /\ thread'[u] = thread[u]
      BY <1>2, <2>2 DEF ThreadsAt, Freeing
    <3>2. thread[u].node \in Nodes /\ thread[u].node # n
      BY <1>8, <3>1 DEF IInv, OneUser, TypeOK
    <3> QED
      BY <1>10, <3>1, <3>2 DEF IInv, NextIsKnown
  <2> QED
    BY <2>1, <2>2 DEF NextIsKnown
<1>16. CountsAgree'
  <2>1. Taken \in SUBSET Nodes /\ made \in SUBSET Nodes
    BY TakenIsMade DEF IInv, TypeOK
  <2>2. Cardinality(Taken') = Cardinality(Taken) + 1 /\ Cardinality(Taken) \in Nat
    BY <1>3, <1>7, <2>1, NodesAreFinite, FS_AddElement
  <2>3. Cardinality(made') = Cardinality(made) + 1 /\ Cardinality(made) \in Nat
    BY <1>1, <2>1, NodesAreFinite, FS_AddElement
  <2>4. Cardinality(Poppers) \in Nat /\ Cardinality(ThreadsAt({"create", "unuse"})) \in Nat
    BY ThreadsAreFinite DEF Poppers
  <2>5. Cardinality(Poppers)' = Cardinality(Poppers)
    BY <1>1, <1>2, <2>4, AtAfter DEF Poppers
  <2>6. Cardinality(ThreadsAt({"create", "unuse"}))' = Cardinality(ThreadsAt({"create", "unuse"})) - 1
    BY <1>1, <1>2, <2>4, AtAfter
  <2>7. ASSUME NEW u \in ThreadsAt({"use"})' PROVE thread'[u].count <= allocCount'
    <3>1. u \in ThreadsAt({"use"}) /\ thread'[u] = thread[u] /\ u \in Threads
      BY <1>2 DEF ThreadsAt
    <3>2. thread[u].count <= allocCount /\ thread[u].count \in Nat /\ allocCount \in Nat
      BY <3>1 DEF IInv, CountsAgree, TypeOK
    <3> QED
      BY <1>1, <3>1, <3>2
  <2> QED
    BY <1>1, <1>7, <2>2, <2>3, <2>4, <2>5, <2>6, <2>7 DEF IInv, CountsAgree
<1> QED
  BY <1>5, <1>9, <1>11, <1>13, <1>14, <1>15, <1>16 DEF IInv

\* The node joins the list, with a stamp nobody has seen at the top.
LEMMA PushStep == ASSUME IInv, NEW t \in Threads, Push(t) PROVE IInv'
<1>1. /\ thread[t].at = "push" /\ t \in Freeing /\ t \in ThreadsAt({"push"})
      /\ UNCHANGED <<made, next, stamp, allocCount, useCount, held>>
  BY DEF Push, At, Freeing, ThreadsAt
<1>2. CASE ~SameTop(t)
  <2>1. /\ top' = top
        /\ \A u \in Threads \ {t} : thread'[u] = thread[u]
        /\ thread'[t].at = "freeTop" /\ thread'[t].node = thread[t].node /\ thread'[t].count = thread[t].count
        /\ thread' \in [Threads -> ThreadType]
    BY <1>2 DEF Push, Goto, At, IInv, TypeOK, ThreadType, Labels
  <2>2. TypeOK'
    BY <1>1, <2>1 DEF IInv, TypeOK, ThreadType
  <2>3. Taken' = Taken /\ OneUser' /\ Chained' /\ StampsAreFresh' /\ SeenIsNotBelow' /\ NextIsKnown'
    <3>1. t \in Freeing /\ t \in Freeing' /\ t \notin Popping' /\ t \notin ThreadsAt({"pop"})' /\ t \notin ThreadsAt({"push"})'
      BY <1>1, <2>1 DEF Freeing, Popping, ThreadsAt
    <3> QED
      BY <1>1, <2>1, <3>1, LocalStep
  <2>4. CountsAgree'
    <3>1. t \notin Poppers /\ t \notin Poppers' /\ t \notin ThreadsAt({"create", "unuse"})
          /\ t \notin ThreadsAt({"create", "unuse"})' /\ t \notin ThreadsAt({"use"})'
      BY <1>1, <2>1 DEF Poppers, ThreadsAt
    <3> QED
      BY <1>1, <2>1, <2>3, <3>1, CountsKept
  <2> QED
    BY <2>2, <2>3, <2>4 DEF IInv
<1>3. CASE SameTop(t)
  <2>1. /\ top = thread[t].seen
        /\ top' = [node |-> thread[t].node, stamp |-> thread[t].count]
        /\ thread' = [thread EXCEPT ![t].at = "unuse"]
    BY <1>3 DEF Push, SameTop, Pushed, Goto
  <2>2. (\A u \in Threads \ {t} : thread'[u] = thread[u]) /\ thread'[t].at = "unuse"
        /\ thread' \in [Threads -> ThreadType]
    BY <2>1 DEF IInv, TypeOK, ThreadType, Labels
  <2>3. PICK n \in Nodes : n = thread[t].node
    BY <1>1 DEF IInv, OneUser, TypeOK
  <2>4. n \in made /\ held[n] = 0 /\ next[n] = top.node /\ n \in Taken /\ n \notin Listed
    BY <1>1, <2>1, <2>3 DEF IInv, OneUser, NextIsKnown, Taken, Listed
  <2>5. thread[t].count \in Nat /\ thread[t].count <= stamp /\ thread[t].count # top.stamp
    BY <1>1 DEF IInv, StampsAreFresh, TypeOK
  <2>6. TypeOK'
    <3>1. top' \in Top
      BY <2>1, <2>3, <2>5, PoolAssumption DEF IInv, TypeOK, Top
    <3> QED
      BY <1>1, <2>2, <3>1 DEF IInv, TypeOK, ThreadType
  <2>7. Freeing' = Freeing \ {t} /\ \A u \in Freeing' : u \in Freeing /\ thread'[u] = thread[u]
    BY <2>2, AtAfter DEF Freeing, ThreadsAt
  <2>8. \A u \in Freeing' : thread[u].node # n /\ thread[u].count # thread[t].count
    BY <1>1, <2>3, <2>7 DEF IInv, OneUser, StampsAreFresh
  <2>9. Taken' = Taken \ {n} /\ Listed' = Listed \union {n}
    <3>1. ASSUME NEW m \in Nodes PROVE m \in Taken' <=> m \in Taken /\ m # n
      <4>1. CASE m = n
        BY <1>1, <2>4, <2>7, <2>8, <4>1 DEF Taken
      <4>2. CASE m # n
        BY <1>1, <2>3, <2>7, <4>2 DEF Taken
      <4> QED
        BY <4>1, <4>2
    <3> QED
      BY <1>1, <2>4, <3>1 DEF Taken, Listed
  <2>10. OneUser'
    BY <1>1, <2>7 DEF IInv, OneUser
  <2>11. Chained'
    BY <1>1, <2>1, <2>3, <2>4, <2>9, ChainPushed DEF IInv
  <2>12. Popping' = Popping /\ \A u \in Popping : u # t /\ thread'[u] = thread[u]
    BY <1>1, <2>2 DEF Popping, ThreadsAt
  <2>13. top'.stamp = thread[t].count /\ \A u \in Popping : thread[u].seen.stamp # thread[t].count
    BY <1>1, <2>1 DEF IInv, StampsAreFresh
  <2>14. StampsAreFresh'
    BY <1>1, <2>5, <2>7, <2>8, <2>12, <2>13 DEF IInv, StampsAreFresh
  <2>15. SeenIsNotBelow'
    BY <2>12, <2>13 DEF IInv, SeenIsNotBelow
  <2>16. NextIsKnown'
    <3>1. ASSUME NEW u \in ThreadsAt({"pop"})', SameTop(u)' PROVE FALSE
      <4>1. u \in Popping /\ top' = thread'[u].seen
        BY <2>12, <3>1 DEF ThreadsAt, Popping, SameTop
      <4> QED
        BY <2>12, <2>13, <4>1
    <3>2. \A u \in ThreadsAt({"push"})' : u \in ThreadsAt({"push"}) /\ thread'[u] = thread[u]
      BY <2>2 DEF ThreadsAt
    <3> QED
      BY <1>1, <3>1, <3>2 DEF IInv, NextIsKnown
  <2>17. CountsAgree'
    <3>1. Taken \in SUBSET Nodes /\ Listed \in SUBSET Nodes
      BY TakenIsMade DEF IInv
    <3>2. Cardinality(Taken') = Cardinality(Taken) - 1 /\ Cardinality(Taken) \in Nat
      BY <2>4, <2>9, <3>1, NodesAreFinite, FS_RemoveElement
    <3>3. Cardinality(Listed') = Cardinality(Listed) + 1 /\ Cardinality(Listed) \in Nat
      BY <2>4, <2>9, <3>1, NodesAreFinite, FS_AddElement
    <3>4. Cardinality(Poppers) \in Nat /\ Cardinality(ThreadsAt({"create", "unuse"})) \in Nat
      BY ThreadsAreFinite DEF Poppers
    <3>5. Cardinality(Poppers)' = Cardinality(Poppers)
      BY <1>1, <2>2, <3>4, AtAfter DEF Poppers
    <3>6. Cardinality(ThreadsAt({"create", "unuse"}))' = Cardinality(ThreadsAt({"create", "unuse"})) + 1
      BY <1>1, <2>2, <3>4, AtAfter
    <3>7. \A u \in ThreadsAt({"use"})' : thread'[u].count <= allocCount
      BY <2>2 DEF IInv, CountsAgree, ThreadsAt
    <3> QED
      BY <1>1, <3>2, <3>3, <3>4, <3>5, <3>6, <3>7 DEF IInv, CountsAgree
  <2> QED
    BY <2>6, <2>10, <2>11, <2>14, <2>15, <2>16, <2>17 DEF IInv
<1> QED
  BY <1>2, <1>3

-----------------------------------------------------------------------------
(* The invariant and what follows from it.                                   *)

\* Every set of numbers that is not empty has a least one.
LEMMA LeastOf == ASSUME NEW T \in SUBSET Nat, T # {} PROVE \E m \in T : \A x \in T : m <= x
<1>1. PICK m \in T : \A y \in T : ~(<<y, m>> \in OpToRel(<, Nat))
  BY NatLessThanWellFounded, WFMin, Zenon
<1>2. ASSUME NEW x \in T PROVE m <= x
  <2>1. <<x, m>> \notin OpToRel(<, Nat)
    BY <1>1, Zenon
  <2>2. ~(x < m)
    BY <2>1, Zenon DEF OpToRel
  <2> QED
    BY <2>2
<1> QED
  BY <1>2

\* The constructor has linked its nodes from the last to the first.
LEMMA InitialChain == ASSUME Init PROVE Chained
<1>1. BlockNum \in Nat /\ MaxNodes \in Nat /\ BlockNum <= MaxNodes
  BY PoolAssumption
<1>2. Listed = 1 .. BlockNum /\ 1 .. BlockNum \in SUBSET Nodes
  BY <1>1 DEF Init, Idle, Listed, Taken, Freeing, ThreadsAt, Nodes
<1>3. \A n \in 1 .. BlockNum : next[n] = n - 1
  BY <1>1 DEF Init, Nodes
<1>4. Leads(1 .. BlockNum)
  <2>1. \A n \in 1 .. BlockNum : n - 1 \in (1 .. BlockNum) \union {0}
    BY <1>1
  <2>2. BlockNum \in (1 .. BlockNum) \union {0}
    BY <1>1
  <2> QED
    BY <1>3, <2>1, <2>2 DEF Init, Leads, Null
<1>5. ASSUME NEW S \in SUBSET Nodes, Leads(S) PROVE 1 .. BlockNum \subseteq S
  <2> DEFINE T == {k \in 0 .. BlockNum - 1 : BlockNum - k \notin S}
  <2> SUFFICES ASSUME T # {} PROVE FALSE
    <3>1. ASSUME NEW n \in 1 .. BlockNum, n \notin S PROVE FALSE
      <4>1. BlockNum - n \in 0 .. BlockNum - 1 /\ BlockNum - (BlockNum - n) = n
        BY <1>1
      <4> QED
        BY <3>1, <4>1
    <3> QED
      BY <3>1
  <2>0. T \in SUBSET Nat
    BY <1>1
  <2>1. PICK m \in T : \A x \in T : m <= x
    BY <2>0, LeastOf
  <2>2. m \in 0 .. BlockNum - 1 /\ BlockNum - m \notin S /\ BlockNum - m \in 1 .. BlockNum
    BY <1>1
  <2>3. CASE m = 0
    <3>1. BlockNum \in S \union {Null} /\ BlockNum # Null
      BY <1>1, <1>5, <2>2, <2>3 DEF Init, Leads, Null
    <3> QED
      BY <1>1, <2>2, <2>3, <3>1
  <2>4. CASE m # 0
    <3>1. m - 1 \in 0 .. BlockNum - 1 /\ m - 1 \notin T
      BY <1>1, <2>1, <2>2, <2>4
    <3>2. BlockNum - (m - 1) \in S /\ BlockNum - (m - 1) \in 1 .. BlockNum
      BY <1>1, <2>2, <2>4, <3>1
    <3>3. next[BlockNum - (m - 1)] = BlockNum - m
      BY <1>1, <1>3, <2>2, <3>2
    <3> QED
      BY <1>1, <1>5, <2>2, <3>2, <3>3 DEF Leads, Null
  <2> QED
    BY <2>3, <2>4
<1>6. FreeList = Listed
  BY <1>2, <1>4, <1>5 DEF FreeList
<1>7. \A m, n \in 1 .. BlockNum : m - 1 = n - 1 => m = n
  BY <1>1
<1>8. \A n \in 1 .. BlockNum : n - 1 # BlockNum
  BY <1>1
<1> QED
  BY <1>2, <1>3, <1>6, <1>7, <1>8 DEF Init, Chained

LEMMA InitialState == Init => IInv
<1> SUFFICES ASSUME Init PROVE IInv
  OBVIOUS
<1>1. BlockNum \in Nat /\ MaxNodes \in Nat /\ BlockNum <= MaxNodes /\ MaxFrees \in Nat
  BY PoolAssumption
<1>2. TypeOK
  <2>1. Idle \in ThreadType
    BY <1>1 DEF Idle, ThreadType, Labels, Top
  <2>2. made \subseteq Nodes /\ top \in Top /\ next \in [Nodes -> Nodes \union {Null}]
    BY <1>1 DEF Init, Nodes, Null, Top
  <2> QED
    BY <1>1, <2>1, <2>2 DEF Init, TypeOK, ThreadType
<1>3. \A t \in Threads : thread[t].at = "idle"
  BY DEF Init, Idle
<1>4. Freeing = {} /\ Popping = {} /\ Poppers = {} /\ ThreadsAt({"create", "unuse"}) = {}
      /\ ThreadsAt({"use"}) = {} /\ ThreadsAt({"pop"}) = {} /\ ThreadsAt({"push"}) = {}
  BY <1>3 DEF Freeing, Popping, Poppers, ThreadsAt
<1>5. Taken = {} /\ Listed = made
  BY <1>4 DEF Init, Taken, Listed
<1>6. OneUser
  BY <1>4 DEF Init, OneUser
<1>7. StampsAreFresh /\ SeenIsNotBelow /\ NextIsKnown
  BY <1>4 DEF Init, StampsAreFresh, SeenIsNotBelow, NextIsKnown
<1>8. CountsAgree
  <2>1. Cardinality(made) = BlockNum
    <3>1. Cardinality(1 .. BlockNum) = IF 1 > BlockNum THEN 0 ELSE BlockNum - 1 + 1
      BY <1>1, FS_Interval
    <3> QED
      BY <1>1, <3>1 DEF Init
  <2>2. /\ Cardinality(Taken) = 0 /\ Cardinality(Poppers) = 0
        /\ Cardinality(ThreadsAt({"create", "unuse"})) = 0
        /\ Cardinality(Listed) = BlockNum
    BY <1>4, <1>5, <2>1, FS_EmptySet
  <2>3. allocCount = BlockNum /\ useCount = 0
    BY DEF Init
  <2> QED
    BY <1>1, <1>4, <2>1, <2>2, <2>3 DEF CountsAgree
<1> QED
  BY <1>2, <1>6, <1>7, <1>8, InitialChain DEF IInv

LEMMA NextKeepsIInv == IInv /\ [Next]_vars => IInv'
<1>1. ASSUME IInv, NEW t \in Threads, Alloc(t) PROVE IInv'
  BY <1>1, ReadCountStep, UseStep, ReadTopStep, ReadNextStep, PopStep, CreateStep DEF Alloc
<1>2. ASSUME IInv, NEW t \in Threads, Release(t) PROVE IInv'
  BY <1>2, FreeStep, FreeTopStep, FreeNextStep, PushStep, UnuseStep DEF Release
<1>3. ASSUME IInv, UNCHANGED vars PROVE IInv'
  <2>1. UNCHANGED <<made, next, top, stamp, allocCount, useCount, held, thread>>
    BY <1>3 DEF vars
  <2>2. Freeing' = Freeing /\ Popping' = Popping /\ Poppers' = Poppers
        /\ \A labels : ThreadsAt(labels)' = ThreadsAt(labels)
    BY <2>1 DEF Freeing, Popping, Poppers, ThreadsAt
  <2>3. Taken' = Taken /\ Listed' = Listed
    BY <2>1, <2>2 DEF Taken, Listed
  <2>4. TypeOK' /\ OneUser' /\ Chained'
    BY <1>3, <2>1, <2>2, <2>3, ChainKept DEF IInv, TypeOK, OneUser
  <2>5. StampsAreFresh' /\ SeenIsNotBelow'
    BY <1>3, <2>1, <2>2, <2>3 DEF IInv, StampsAreFresh, SeenIsNotBelow
  <2>6. NextIsKnown' /\ CountsAgree'
    BY <1>3, <2>1, <2>2, <2>3 DEF IInv, NextIsKnown, CountsAgree, SameTop
  <2> QED
    BY <2>4, <2>5, <2>6 DEF IInv
<1> QED
  BY <1>1, <1>2, <1>3 DEF Next

\* The invariant: the list is a chain of the nodes nobody has, each of the others
\* has one caller, and what the threads have read is as current as the stamps say.
THEOREM Invariant == Spec => []IInv
  BY InitialState, NextKeepsIInv, PTL DEF Spec

\* The state of the pool: every pointer is a node or null, and a stamp fits its bits.
THEOREM Typed == Spec => []TypeOK
<1>1. IInv => TypeOK
  BY DEF IInv
<1> QED
  BY <1>1, Invariant, PTL

\* A node has no caller or one, whichever of the two ways it is counted.
LEMMA OutOf ==
  ASSUME TypeOK, OneUser, NEW n \in Nodes
  PROVE  Out[n] = IF n \in Taken THEN 1 ELSE 0
<1>1. PICK S : S = {t \in Freeing : thread[t].node = n}
  OBVIOUS
<1>2. Out[n] = held[n] + Cardinality(S)
  BY <1>1 DEF Out
<1>3. held[n] \in 0 .. 1
  BY DEF OneUser
<1>4. CASE S = {}
  <2>1. n \in Taken <=> held[n] = 1
    BY <1>1, <1>3, <1>4 DEF Taken
  <2> QED
    BY <1>2, <1>3, <1>4, <2>1, FS_EmptySet
<1>5. CASE S # {}
  <2>1. PICK t \in Freeing : t \in S /\ thread[t].node = n
    BY <1>1, <1>5
  <2>2. S = {t}
    BY <1>1, <2>1 DEF OneUser
  <2>3. held[n] = 0 /\ n \in Taken
    BY <2>1 DEF OneUser, Taken
  <2>4. Cardinality(S) = 1
    BY <2>2, FS_Singleton
  <2> QED
    BY <1>2, <2>3, <2>4
<1> QED
  BY <1>4, <1>5

LEMMA InUseIsTaken == ASSUME TypeOK, OneUser PROVE InUse = Taken
<1>1. \A n \in Nodes : n \in InUse <=> n \in Taken
  BY OutOf DEF InUse
<1> QED
  BY <1>1 DEF InUse, Taken

\* No node is lost or linked twice, whatever the threads had read before.
THEOREM NothingIsLost == Spec => []NoNodeIsLost
<1>1. IInv => NoNodeIsLost
  BY InUseIsTaken DEF IInv, NoNodeIsLost, Listed, Chained
<1> QED
  BY <1>1, Invariant, PTL

\* A thread that the counters told there is a node finds one: it never follows an
\* empty top.
THEOREM PoppersAreServed == Spec => []PoppersFindNodes
<1>1. IInv => PoppersFindNodes
  <2> SUFFICES ASSUME IInv PROVE PoppersFindNodes
    OBVIOUS
  <2>1. Cardinality(Poppers) <= Cardinality(made \ InUse)
    BY InUseIsTaken DEF IInv, CountsAgree, Listed
  <2>2. \A t \in Threads : At(t, "readNext") => thread[t].seen.node # Null
    BY DEF IInv, SeenIsNotBelow, Popping, ThreadsAt, At
  <2> QED
    BY <2>1, <2>2 DEF PoppersFindNodes
<1> QED
  BY <1>1, Invariant, PTL

\* What the counters count, whatever calls are under way.
THEOREM CountersCount == Spec => []CountersAreExact
<1>1. IInv => CountersAreExact
  BY InUseIsTaken DEF IInv, CountsAgree, CountersAreExact
<1> QED
  BY <1>1, Invariant, PTL

-----------------------------------------------------------------------------
(* The pool keeps the promise of NodePool.                                   *)

LEMMA OutIs == IInv => \A n \in Nodes : Out[n] = IF n \in Taken THEN 1 ELSE 0
  BY OutOf DEF IInv

LEMMA OutIsAfter == IInv' => (\A n \in Nodes : Out[n] = IF n \in Taken THEN 1 ELSE 0)'
  BY OutIs, PTL

\* A step that takes no node and gives none back is a stutter of the promise, one
\* that takes a node is a Take and one that gives a node back a Give.
LEMMA KeepsOut == ASSUME IInv, IInv', Taken' = Taken PROVE Out' = Out
<1>1. \A n \in Nodes : Out'[n] = Out[n]
  BY OutIs, OutIsAfter
<1> QED
  BY <1>1 DEF Out

LEMMA TakesNode ==
  ASSUME IInv, IInv', NEW n \in Nodes, n \notin Taken, Taken' = Taken \union {n}
  PROVE  Promise!Take(n)
<1>1. Out[n] = 0
  BY OutIs
<1>2. \A m \in Nodes : Out'[m] = IF m = n THEN 1 ELSE Out[m]
  BY OutIs, OutIsAfter
<1>3. Out' = [Out EXCEPT ![n] = 1]
  BY <1>2 DEF Out
<1> QED
  BY <1>1, <1>3 DEF Promise!Take

LEMMA GivesNode ==
  ASSUME IInv, IInv', NEW n \in Nodes, n \in Taken, Taken' = Taken \ {n}
  PROVE  Promise!Give(n)
<1>1. Out[n] = 1
  BY OutIs
<1>2. \A m \in Nodes : Out'[m] = IF m = n THEN 0 ELSE Out[m]
  BY OutIs, OutIsAfter
<1>3. Out' = [Out EXCEPT ![n] = 0]
  BY <1>2 DEF Out
<1> QED
  BY <1>1, <1>3 DEF Promise!Give

\* Which step gives a node, takes one back, or does neither.
LEMMA TakenStep ==
  ASSUME IInv, Next
  PROVE  \/ Taken' = Taken
         \/ \E n \in Nodes : n \notin Taken /\ Taken' = Taken \union {n}
         \/ \E n \in Nodes : n \in Taken /\ Taken' = Taken \ {n}
<1>1. PICK t \in Threads : Alloc(t) \/ Release(t)
  BY DEF Next
<1>2. CASE ReadCount(t) \/ Use(t) \/ ReadTop(t) \/ ReadNext(t) \/ FreeTop(t) \/ FreeNext(t) \/ Unuse(t)
  <2>1. /\ held' = held
        /\ \A u \in Threads : u \in Freeing' <=> u \in Freeing
        /\ \A u \in Freeing : thread'[u].node = thread[u].node
    BY <1>2 DEF IInv, TypeOK, ReadCount, Use, ReadTop, ReadNext, FreeTop, FreeNext, Unuse,
                At, Goto, Return, Idle, Freeing, ThreadsAt
  <2> QED
    BY <2>1 DEF Taken, Freeing, ThreadsAt
<1>3. CASE Pop(t)
  <2>1. t \notin Freeing /\ Freeing' = Freeing /\ \A u \in Freeing : thread'[u] = thread[u]
    BY <1>3 DEF IInv, TypeOK, Pop, At, Goto, Return, Idle, Freeing, ThreadsAt
  <2>2. CASE ~SameTop(t)
    BY <1>3, <2>1, <2>2 DEF Pop, Taken
  <2>3. CASE SameTop(t)
    <3>1. PICK n : n = thread[t].seen.node
      OBVIOUS
    <3>2. n = top.node /\ n # Null
      BY <1>3, <2>3, <3>1 DEF IInv, SeenIsNotBelow, Popping, ThreadsAt, Pop, At, SameTop
    <3>3. n \in Nodes /\ n \notin Taken
      BY <3>2, TopOfList, TakenIsMade DEF IInv, Listed
    <3>4. ~(held[n] > 0) /\ held[n] \in 0 .. 1
      BY <3>3 DEF Taken, IInv, OneUser
    <3>5. held[n] = 0
      BY <3>4
    <3>6. held' = [held EXCEPT ![n] = @ + 1]
      BY <1>3, <2>3, <3>1 DEF Pop
    <3>7. held'[n] = 1 /\ \A m \in Nodes \ {n} : held'[m] = held[m]
      BY <3>3, <3>5, <3>6 DEF IInv, TypeOK
    <3>8. Taken' = Taken \union {n}
      BY <2>1, <3>3, <3>7 DEF Taken
    <3> QED
      BY <3>3, <3>8
  <2> QED
    BY <2>2, <2>3
<1>4. ASSUME NEW n \in Nodes, Create(t, n) PROVE n \notin Taken /\ Taken' = Taken \union {n}
  <2>1. n \notin Taken
    BY <1>4, TakenIsMade DEF IInv, Create
  <2>2. ~(held[n] > 0) /\ held[n] \in 0 .. 1
    BY <2>1 DEF Taken, IInv, OneUser
  <2>3. held[n] = 0
    BY <2>2
  <2>4. held'[n] = 1 /\ \A m \in Nodes \ {n} : held'[m] = held[m]
    BY <1>4, <2>3 DEF IInv, TypeOK, Create
  <2>5. t \notin Freeing /\ Freeing' = Freeing /\ \A u \in Freeing : thread'[u] = thread[u]
    BY <1>4 DEF IInv, TypeOK, Create, At, Return, Idle, Freeing, ThreadsAt
  <2> QED
    BY <2>1, <2>4, <2>5 DEF Taken
<1>5. ASSUME NEW n \in Nodes, Free(t, n) PROVE Taken' = Taken
  <2>1. held[n] = 1 /\ held'[n] = 0 /\ \A m \in Nodes \ {n} : held'[m] = held[m]
    BY <1>5 DEF IInv, TypeOK, OneUser, Free
  <2>2. thread'[t].at = "freeTop" /\ thread'[t].node = n /\ \A u \in Threads \ {t} : thread'[u] = thread[u]
    BY <1>5 DEF IInv, TypeOK, Free
  <2>3. t \notin Freeing /\ Freeing' = Freeing \union {t} /\ \A u \in Freeing : thread'[u] = thread[u]
    <3>1. thread[t].at = "idle"
      BY <1>5 DEF Free, At
    <3> QED
      BY <2>2, <3>1, AtAfter DEF Freeing, ThreadsAt
  <2> QED
    BY <2>1, <2>2, <2>3 DEF Taken
<1>6. CASE Push(t)
  <2>1. t \in Freeing /\ held' = held /\ \A u \in Threads \ {t} : thread'[u] = thread[u]
    BY <1>6 DEF IInv, TypeOK, Push, At, Goto, Freeing, ThreadsAt
  <2>2. CASE ~SameTop(t)
    <3>1. thread'[t].at = "freeTop" /\ thread'[t].node = thread[t].node
      BY <1>6, <2>2 DEF IInv, TypeOK, Push, Goto
    <3>2. Freeing' = Freeing /\ \A u \in Freeing : thread'[u].node = thread[u].node
      BY <2>1, <3>1 DEF Freeing, ThreadsAt
    <3> QED
      BY <2>1, <3>2 DEF Taken
  <2>3. CASE SameTop(t)
    <3>1. PICK n \in Nodes : n = thread[t].node /\ held[n] = 0 /\ n \in Taken
      BY <2>1 DEF IInv, TypeOK, OneUser, Taken
    <3>2. thread'[t].at = "unuse"
      BY <1>6, <2>3 DEF IInv, TypeOK, Push, Goto
    <3>3. Freeing' = Freeing \ {t} /\ \A u \in Freeing' : thread'[u] = thread[u] /\ thread[u].node # n
      BY <2>1, <3>1, <3>2 DEF IInv, OneUser, Freeing, ThreadsAt
    <3>4. ASSUME NEW m \in Nodes PROVE m \in Taken' <=> m \in Taken /\ m # n
      <4>1. CASE m = n
        BY <2>1, <3>1, <3>3, <4>1 DEF Taken
      <4>2. CASE m # n
        BY <2>1, <3>1, <3>3, <4>2 DEF Taken
      <4> QED
        BY <4>1, <4>2
    <3>5. Taken' = Taken \ {n}
      BY <3>4 DEF Taken
    <3> QED
      BY <3>1, <3>5
  <2> QED
    BY <2>2, <2>3
<1> QED
  BY <1>1, <1>2, <1>3, <1>4, <1>5, <1>6 DEF Alloc, Release

\* The pool gives a node to one caller at a time, for any number of threads: each
\* step of its code is a Take, a Give or a stutter of NodePool.
THEOREM PoolKeepsItsPromise == Spec => KeepsPromise
<1>1. Init => Promise!Init
  <2> SUFFICES ASSUME Init PROVE Promise!Init
    OBVIOUS
  <2>1. IInv /\ Taken = {}
    BY InitialState DEF Init, Idle, Taken, Freeing, ThreadsAt
  <2>2. \A n \in Nodes : Out[n] = 0
    BY <2>1, OutIs
  <2> QED
    BY <2>2 DEF Promise!Init, Out
<1>2. IInv /\ IInv' /\ [Next]_vars => [Promise!Next]_Out
  <2>1. ASSUME IInv, IInv', Next PROVE [Promise!Next]_Out
    BY <2>1, TakenStep, KeepsOut, TakesNode, GivesNode DEF Promise!Next
  <2>2. ASSUME UNCHANGED vars PROVE Out' = Out
    BY <2>2 DEF vars, Out, Freeing, ThreadsAt
  <2> QED
    BY <2>1, <2>2
<1> QED
  BY <1>1, <1>2, Invariant, PTL DEF Spec, KeepsPromise, Promise!Spec
=============================================================================
