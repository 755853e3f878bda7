-------------------------- MODULE PacketPool_proofs --------------------------
(* The bucket pool and its packets, for any number of threads, any size of   *)
(* bucket and any memory.                                                    *)
EXTENDS PacketPool, FiniteSetTheorems, TLAPS

PoolType ==
    /\ made \subseteq Nodes
    /\ allocBucketList \subseteq Buckets
    /\ freeBucketList \in Int /\ useBucketCount \in Int
    /\ allocList \in [Threads -> SUBSET Nodes]
    /\ freeList \in [Threads -> SUBSET Nodes]
    /\ freeCount \in [Threads -> Nat]
    /\ out \in [Nodes -> 0 .. 1]

\* The buckets of the root pool are made of different nodes.
RootIsApart ==
    /\ \A b \in allocBucketList : b \subseteq made
    /\ \A b, c \in allocBucketList : b # c => b \intersect c = {}

\* The lists of the threads and the nodes given out have no node in common, and
\* none with the root pool.
ListsAreApart ==
    /\ \A t \in Threads : allocList[t] \subseteq Outside /\ freeList[t] \subseteq Outside
    /\ \A t, u \in Threads : allocList[t] \intersect freeList[u] = {}
    /\ \A t, u \in Threads : t # u =>
          allocList[t] \intersect allocList[u] = {} /\ freeList[t] \intersect freeList[u] = {}
    /\ \A n \in Nodes : out[n] = 1 =>
          /\ n \in Outside
          /\ \A t \in Threads : n \notin allocList[t] /\ n \notin freeList[t]

\* A thread's freeList is never a whole bucket between two calls.
FreeListsAreCounted ==
    \A t \in Threads : freeCount[t] = Cardinality(freeList[t]) /\ freeCount[t] < NodeCount

\* What BucketFree relies on, without the sign, which follows from it.
BucketsAreCounted ==
    /\ freeBucketList = useBucketCount
    /\ Cardinality(Outside) = NodeCount * freeBucketList

PoolInv == PoolType /\ RootIsApart /\ ListsAreApart /\ FreeListsAreCounted /\ BucketsAreCounted

LEMMA SubsetsOfNodes == \A S \in SUBSET Nodes : IsFiniteSet(S) /\ Cardinality(S) \in Nat
  BY FS_Subset, FS_CardinalityType, PoolAssumption

LEMMA PoolInitial == PoolInit => PoolInv
<1> SUFFICES ASSUME PoolInit PROVE PoolInv
  OBVIOUS
<1>1. allocBucketList \subseteq Buckets /\ made = UNION allocBucketList /\ Outside = {}
  BY DEF PoolInit, Outside
<1>2. PoolType
  <2>1. made \subseteq Nodes
    BY <1>1 DEF Buckets
  <2> QED
    BY <1>1, <2>1 DEF PoolInit, PoolType
<1>3. RootIsApart
  BY <1>1 DEF PoolInit, RootIsApart
<1>4. ListsAreApart
  BY <1>1 DEF PoolInit, ListsAreApart
<1>5. FreeListsAreCounted
  BY FS_EmptySet, PoolAssumption DEF PoolInit, FreeListsAreCounted
<1>6. BucketsAreCounted
  BY <1>1, FS_EmptySet, PoolAssumption DEF PoolInit, BucketsAreCounted
<1> QED
  BY <1>2, <1>3, <1>4, <1>5, <1>6 DEF PoolInv

\* One bucket more, or less, as a number of nodes.
LEMMA BucketsTimesNodes ==
    \A k, j \in Int : k * (j + 1) = k * j + k /\ k * (j - 1) = k * j - k
  OBVIOUS

\* The counted nodes outside are not negative, so neither is the number of buckets.
LEMMA BucketNumber == PoolInv => BucketFreeFindsBucket
<1> SUFFICES ASSUME PoolInv PROVE freeBucketList >= 0
  BY DEF PoolInv, BucketsAreCounted, BucketFreeFindsBucket
<1>1. Cardinality(Outside) \in Nat
  BY SubsetsOfNodes DEF PoolInv, PoolType, Outside
<1>2. \A k \in Nat \ {0}, j \in Int : k * j >= 0 => j >= 0
  OBVIOUS
<1> QED
  BY <1>1, <1>2, PoolAssumption DEF PoolInv, PoolType, BucketsAreCounted

-----------------------------------------------------------------------------
(* Allocation.                                                               *)

LEMMA AllocFromListStep ==
  ASSUME PoolInv, NEW t \in Threads, NEW n \in Nodes, AllocFromList(t, n)
  PROVE  PoolInv' /\ out[n] = 0 /\ out' = [out EXCEPT ![n] = 1]
<1>1. /\ n \in allocList[t]
      /\ allocList' = [allocList EXCEPT ![t] = @ \ {n}]
      /\ out' = [out EXCEPT ![n] = @ + 1]
      /\ UNCHANGED <<rootVars, freeList, freeCount>>
  BY DEF AllocFromList, HandOut
<1>2. Outside' = Outside
  BY <1>1 DEF Outside, rootVars
<1>3. out[n] = 0
  BY <1>1 DEF PoolInv, PoolType, ListsAreApart
<1>4. out' = [out EXCEPT ![n] = 1]
  BY <1>1, <1>3
<1>5. PoolType'
  BY <1>1, <1>4 DEF PoolInv, PoolType, rootVars
<1>6. RootIsApart'
  BY <1>1 DEF PoolInv, RootIsApart, rootVars
<1>7. ListsAreApart'
  BY <1>1, <1>2, <1>4 DEF PoolInv, PoolType, ListsAreApart
<1>8. FreeListsAreCounted' /\ BucketsAreCounted'
  BY <1>1, <1>2 DEF PoolInv, FreeListsAreCounted, BucketsAreCounted, rootVars
<1> QED
  BY <1>3, <1>4, <1>5, <1>6, <1>7, <1>8 DEF PoolInv

\* The bucket a thread takes, whether it was in the root pool or is new, adds its
\* nodes, all of them, to those outside.
LEMMA BucketTaken ==
  ASSUME PoolInv, NEW b \in Buckets, RootBucket(b) \/ NewBucket(b)
  PROVE  /\ Outside' = Outside \union b
         /\ Outside \intersect b = {}
         /\ made' \subseteq Nodes
         /\ allocBucketList' \subseteq Buckets
         /\ RootIsApart'
<1>1. b \subseteq Nodes
  BY DEF Buckets
<1>2. CASE RootBucket(b)
  <2>1. b \in allocBucketList /\ allocBucketList' = allocBucketList \ {b} /\ made' = made
    BY <1>2 DEF RootBucket, RootWithout
  <2>2. b \subseteq made /\ \A c \in allocBucketList : c # b => c \intersect b = {}
    BY <2>1 DEF PoolInv, RootIsApart
  <2>3. Outside' = Outside \union b /\ Outside \intersect b = {}
    BY <2>1, <2>2 DEF Outside
  <2>4. RootIsApart'
    BY <2>1 DEF PoolInv, RootIsApart
  <2> QED
    BY <2>1, <2>3, <2>4 DEF PoolInv, PoolType
<1>3. CASE NewBucket(b)
  <2>1. allocBucketList = {} /\ allocBucketList' = {} /\ made' = made \union b /\ b \intersect made = {}
    BY <1>3 DEF NewBucket
  <2>2. Outside = made /\ Outside' = made'
    BY <2>1 DEF Outside
  <2>3. RootIsApart'
    BY <2>1 DEF RootIsApart
  <2> QED
    BY <1>1, <2>1, <2>2, <2>3 DEF PoolInv, PoolType
<1> QED
  BY <1>2, <1>3

LEMMA AllocFromBucketStep ==
  ASSUME PoolInv, NEW t \in Threads, NEW n \in Nodes, NEW b \in Buckets, AllocFromBucket(t, b, n)
  PROVE  PoolInv' /\ out[n] = 0 /\ out' = [out EXCEPT ![n] = 1]
<1>1. /\ n \in b /\ allocList[t] = {}
      /\ allocList' = [allocList EXCEPT ![t] = b \ {n}]
      /\ freeBucketList' = freeBucketList + 1
      /\ useBucketCount' = useBucketCount + 1
      /\ out' = [out EXCEPT ![n] = @ + 1]
      /\ UNCHANGED <<freeList, freeCount>>
  BY DEF AllocFromBucket, NoneLeft, Emptied, HandOut
<1>2. /\ Outside' = Outside \union b
      /\ Outside \intersect b = {}
      /\ made' \subseteq Nodes /\ allocBucketList' \subseteq Buckets
      /\ RootIsApart'
  BY BucketTaken DEF AllocFromBucket
<1>3. b \subseteq Nodes /\ Cardinality(b) = NodeCount
  BY DEF Buckets
<1>4. out[n] = 0
  BY <1>1, <1>2 DEF PoolInv, PoolType, ListsAreApart
<1>5. out' = [out EXCEPT ![n] = 1]
  BY <1>1, <1>4
<1>6. PoolType'
  BY <1>1, <1>2, <1>3, <1>5 DEF PoolInv, PoolType
<1>7. ListsAreApart'
  <2>1. \A u \in Threads : allocList'[u] = IF u = t THEN b \ {n} ELSE allocList[u]
    BY <1>1 DEF PoolInv, PoolType
  <2>2. \A m \in Nodes : out'[m] = IF m = n THEN 1 ELSE out[m]
    BY <1>5 DEF PoolInv, PoolType
  <2>3. \A u \in Threads : freeList'[u] = freeList[u]
    BY <1>1
  <2>4. \A u \in Threads : allocList'[u] \subseteq Outside' /\ freeList'[u] \subseteq Outside'
    BY <1>2, <2>1, <2>3 DEF PoolInv, ListsAreApart
  <2>5. \A u, v \in Threads : allocList'[u] \intersect freeList'[v] = {}
    BY <1>2, <2>1, <2>3 DEF PoolInv, ListsAreApart
  <2>6. \A u, v \in Threads : u # v =>
           allocList'[u] \intersect allocList'[v] = {} /\ freeList'[u] \intersect freeList'[v] = {}
    BY <1>2, <2>1, <2>3 DEF PoolInv, ListsAreApart
  <2>7. \A m \in Nodes : out'[m] = 1 =>
           m \in Outside' /\ \A u \in Threads : m \notin allocList'[u] /\ m \notin freeList'[u]
    BY <1>1, <1>2, <2>1, <2>2, <2>3 DEF PoolInv, ListsAreApart
  <2> QED
    BY <2>4, <2>5, <2>6, <2>7 DEF ListsAreApart
<1>8. FreeListsAreCounted'
  BY <1>1 DEF PoolInv, FreeListsAreCounted
<1>9. BucketsAreCounted'
  <2>1. Outside \subseteq Nodes
    BY DEF PoolInv, PoolType, Outside
  <2>2. Cardinality(Outside') = Cardinality(Outside) + NodeCount
    <3>1. IsFiniteSet(Outside) /\ IsFiniteSet(b) /\ Cardinality(Outside) \in Nat
      BY <1>3, <2>1, SubsetsOfNodes
    <3>2. Cardinality(Outside \union b) = Cardinality(Outside) + Cardinality(b) - Cardinality(Outside \intersect b)
      BY <3>1, FS_Union
    <3>3. Cardinality(Outside \intersect b) = 0
      BY <1>2, FS_EmptySet
    <3> QED
      BY <1>2, <1>3, <3>1, <3>2, <3>3, PoolAssumption
  <2>3. NodeCount * (freeBucketList + 1) = NodeCount * freeBucketList + NodeCount
    <3>1. NodeCount \in Int /\ freeBucketList \in Int
      BY PoolAssumption DEF PoolInv, PoolType
    <3> QED
      BY <3>1, BucketsTimesNodes
  <2> QED
    BY <1>1, <2>2, <2>3 DEF PoolInv, BucketsAreCounted
<1> QED
  BY <1>2, <1>4, <1>5, <1>6, <1>7, <1>8, <1>9 DEF PoolInv

-----------------------------------------------------------------------------
(* Giving back.                                                              *)

\* A node that is out is in no list and not counted by its thread.
LEMMA FreeListGrows ==
  ASSUME PoolInv, NEW t \in Threads, NEW n \in Nodes, out[n] > 0
  PROVE  /\ out[n] = 1 /\ n \in Outside
         /\ \A u \in Threads : n \notin allocList[u] /\ n \notin freeList[u]
         /\ Cardinality(freeList[t] \union {n}) = freeCount[t] + 1
<1>1. out[n] = 1
  BY DEF PoolInv, PoolType
<1>2. n \in Outside /\ \A u \in Threads : n \notin allocList[u] /\ n \notin freeList[u]
  BY <1>1 DEF PoolInv, ListsAreApart
<1>3. freeList[t] \in SUBSET Nodes /\ freeCount[t] = Cardinality(freeList[t])
  BY DEF PoolInv, PoolType, FreeListsAreCounted
<1> QED
  BY <1>1, <1>2, <1>3, SubsetsOfNodes, FS_AddElement

LEMMA FreeToListStep ==
  ASSUME PoolInv, NEW t \in Threads, NEW n \in Nodes, FreeToList(t, n)
  PROVE  PoolInv' /\ out[n] = 1 /\ out' = [out EXCEPT ![n] = 0]
<1>1. /\ freeCount[t] + 1 < NodeCount /\ out[n] > 0
      /\ freeList' = [freeList EXCEPT ![t] = @ \union {n}]
      /\ freeCount' = [freeCount EXCEPT ![t] = @ + 1]
      /\ out' = [out EXCEPT ![n] = @ - 1]
      /\ UNCHANGED <<made, allocList, allocBucketList, freeBucketList, useBucketCount>>
  BY DEF FreeToList, TakeBack
<1>2. /\ out[n] = 1 /\ n \in Outside
      /\ \A u \in Threads : n \notin allocList[u] /\ n \notin freeList[u]
      /\ Cardinality(freeList[t] \union {n}) = freeCount[t] + 1
  BY <1>1, FreeListGrows
<1>3. out' = [out EXCEPT ![n] = 0]
  BY <1>1, <1>2
<1>4. Outside' = Outside
  BY <1>1 DEF Outside
<1>5. PoolType'
  BY <1>1, <1>3 DEF PoolInv, PoolType
<1>6. RootIsApart' /\ BucketsAreCounted'
  BY <1>1, <1>4 DEF PoolInv, RootIsApart, BucketsAreCounted
<1>7. ListsAreApart'
  <2>1. \A u \in Threads : freeList'[u] = IF u = t THEN freeList[t] \union {n} ELSE freeList[u]
    BY <1>1 DEF PoolInv, PoolType
  <2>2. \A m \in Nodes : out'[m] = IF m = n THEN 0 ELSE out[m]
    BY <1>3 DEF PoolInv, PoolType
  <2> QED
    BY <1>1, <1>2, <1>4, <2>1, <2>2 DEF PoolInv, ListsAreApart
<1>8. FreeListsAreCounted'
  <2>1. ASSUME NEW u \in Threads
        PROVE  freeCount'[u] = Cardinality(freeList'[u]) /\ freeCount'[u] < NodeCount
    <3>1. CASE u = t
      BY <1>1, <1>2, <3>1 DEF PoolInv, PoolType
    <3>2. CASE u # t
      BY <1>1, <3>2 DEF PoolInv, PoolType, FreeListsAreCounted
    <3> QED
      BY <3>1, <3>2
  <2> QED
    BY <2>1 DEF FreeListsAreCounted
<1> QED
  BY <1>2, <1>3, <1>5, <1>6, <1>7, <1>8 DEF PoolInv

\* The list that goes to the root pool is a whole bucket, and there is an empty
\* one to put it in.
LEMMA FreeToBucketStep ==
  ASSUME PoolInv, NEW t \in Threads, NEW n \in Nodes, FreeToBucket(t, n)
  PROVE  PoolInv' /\ out[n] = 1 /\ out' = [out EXCEPT ![n] = 0]
<1>1. PICK b : b = freeList[t] \union {n}
  OBVIOUS
<1>2. /\ freeCount[t] + 1 >= NodeCount /\ out[n] > 0
      /\ allocBucketList' = allocBucketList \union {b}
      /\ freeBucketList' = freeBucketList - 1
      /\ useBucketCount' = useBucketCount - 1
      /\ freeList' = [freeList EXCEPT ![t] = {}]
      /\ freeCount' = [freeCount EXCEPT ![t] = 0]
      /\ out' = [out EXCEPT ![n] = @ - 1]
      /\ UNCHANGED <<made, allocList>>
  BY <1>1 DEF FreeToBucket, TakeBack, ListAfterBucket
<1>3. /\ out[n] = 1 /\ n \in Outside
      /\ \A u \in Threads : n \notin allocList[u] /\ n \notin freeList[u]
      /\ Cardinality(b) = freeCount[t] + 1
  BY <1>1, <1>2, FreeListGrows
<1>4. out' = [out EXCEPT ![n] = 0]
  BY <1>2, <1>3
<1>5. Cardinality(b) = NodeCount /\ b \subseteq Nodes /\ b \subseteq Outside
  BY <1>1, <1>2, <1>3, PoolAssumption DEF PoolInv, PoolType, FreeListsAreCounted, ListsAreApart
<1>6. b \in Buckets /\ b \subseteq made /\ \A c \in allocBucketList : b \intersect c = {}
  BY <1>5 DEF Buckets, Outside
<1>7. Outside' = Outside \ b
  BY <1>2, <1>6 DEF Outside
<1>8. PoolType'
  BY <1>2, <1>4, <1>6 DEF PoolInv, PoolType
<1>9. RootIsApart'
  BY <1>2, <1>6 DEF PoolInv, RootIsApart
<1>10. ListsAreApart'
  <2>1. \A u \in Threads : freeList'[u] = IF u = t THEN {} ELSE freeList[u]
    BY <1>2 DEF PoolInv, PoolType
  <2>2. \A m \in Nodes : out'[m] = IF m = n THEN 0 ELSE out[m]
    BY <1>4 DEF PoolInv, PoolType
  <2>3. \A u \in Threads : allocList[u] \intersect b = {} /\ (u # t => freeList[u] \intersect b = {})
    BY <1>1, <1>3 DEF PoolInv, ListsAreApart
  <2>4. \A m \in Nodes : out[m] = 1 /\ m # n => m \notin b
    BY <1>1 DEF PoolInv, ListsAreApart
  <2>5. \A u \in Threads : allocList'[u] \subseteq Outside' /\ freeList'[u] \subseteq Outside'
    BY <1>2, <1>7, <2>1, <2>3 DEF PoolInv, ListsAreApart
  <2>6. \A m \in Nodes : out'[m] = 1 =>
           m \in Outside' /\ \A u \in Threads : m \notin allocList'[u] /\ m \notin freeList'[u]
    BY <1>2, <1>7, <2>1, <2>2, <2>4 DEF PoolInv, ListsAreApart
  <2>7. /\ \A u, v \in Threads : allocList'[u] \intersect freeList'[v] = {}
        /\ \A u, v \in Threads : u # v =>
              allocList'[u] \intersect allocList'[v] = {} /\ freeList'[u] \intersect freeList'[v] = {}
    BY <1>2, <2>1 DEF PoolInv, ListsAreApart
  <2> QED
    BY <2>5, <2>6, <2>7 DEF ListsAreApart
<1>11. FreeListsAreCounted'
  <2>1. ASSUME NEW u \in Threads
        PROVE  freeCount'[u] = Cardinality(freeList'[u]) /\ freeCount'[u] < NodeCount
    <3>1. CASE u = t
      BY <1>2, <3>1, FS_EmptySet, PoolAssumption DEF PoolInv, PoolType
    <3>2. CASE u # t
      BY <1>2, <3>2 DEF PoolInv, PoolType, FreeListsAreCounted
    <3> QED
      BY <3>1, <3>2
  <2> QED
    BY <2>1 DEF FreeListsAreCounted
<1>12. BucketsAreCounted'
  <2>1. Outside \in SUBSET Nodes
    BY DEF PoolInv, PoolType, Outside
  <2>2. Cardinality(Outside \ b) = Cardinality(Outside) - NodeCount
    <3>1. IsFiniteSet(Outside) /\ IsFiniteSet(b) /\ Outside \intersect b = b
      BY <1>5, <2>1, SubsetsOfNodes
    <3>2. Cardinality(Outside \ b) = Cardinality(Outside) - Cardinality(Outside \intersect b)
      BY <3>1, FS_Difference
    <3> QED
      BY <1>5, <3>1, <3>2
  <2>3. NodeCount * (freeBucketList - 1) = NodeCount * freeBucketList - NodeCount
    BY PoolAssumption, BucketsTimesNodes DEF PoolInv, PoolType
  <2> QED
    BY <1>2, <1>7, <2>2, <2>3 DEF PoolInv, BucketsAreCounted
<1> QED
  BY <1>3, <1>4, <1>8, <1>9, <1>10, <1>11, <1>12 DEF PoolInv

-----------------------------------------------------------------------------
(* The pool.                                                                 *)

\* A call of the pool moves one node, to the caller or from it.
LEMMA PoolStep ==
  ASSUME PoolInv, PoolNext
  PROVE  /\ PoolInv'
         /\ \E n \in Nodes : \/ out[n] = 0 /\ out' = [out EXCEPT ![n] = 1]
                             \/ out[n] = 1 /\ out' = [out EXCEPT ![n] = 0]
<1>1. PICK t \in Threads, n \in Nodes : NodeAlloc(t, n) \/ NodeFree(t, n)
  BY DEF PoolNext
<1>2. CASE AllocFromList(t, n)
  BY <1>2, AllocFromListStep
<1>3. ASSUME NEW b \in Buckets, AllocFromBucket(t, b, n)
      PROVE  PoolInv' /\ out[n] = 0 /\ out' = [out EXCEPT ![n] = 1]
  BY <1>3, AllocFromBucketStep
<1>4. CASE FreeToList(t, n)
  BY <1>4, FreeToListStep
<1>5. CASE FreeToBucket(t, n)
  BY <1>5, FreeToBucketStep
<1> QED
  BY <1>1, <1>2, <1>3, <1>4, <1>5 DEF NodeAlloc, NodeFree

LEMMA PoolStutter == PoolInv /\ UNCHANGED poolVars => PoolInv'
  BY DEF PoolInv, PoolType, RootIsApart, ListsAreApart, FreeListsAreCounted, BucketsAreCounted,
         Outside, poolVars, rootVars, tlsVars

THEOREM PoolInvariant == PoolSpec => []PoolInv
<1>1. PoolInv /\ [PoolNext]_poolVars => PoolInv'
  BY PoolStep, PoolStutter
<1> QED
  BY <1>1, PoolInitial, PTL DEF PoolSpec

\* BucketFree, which takes an empty bucket without looking, always finds one.
THEOREM EmptyBucketIsFound == PoolSpec => []BucketFreeFindsBucket
  BY PoolInvariant, BucketNumber, PTL

\* The pool implements NodePool: a node has one caller at a time.
THEOREM PoolKeepsPromise == PoolSpec => KeepsPromise
<1>1. PoolInit => Promise!Init
  BY DEF PoolInit, Promise!Init
<1>2. PoolInv /\ [PoolNext]_poolVars => [Promise!Next]_out
  <2>1. ASSUME PoolInv, PoolNext PROVE Promise!Next
    BY <2>1, PoolStep DEF Promise!Next, Promise!Take, Promise!Give
  <2>2. UNCHANGED poolVars => UNCHANGED out
    BY DEF poolVars
  <2> QED
    BY <2>1, <2>2
<1> QED
  BY <1>1, <1>2, PoolInvariant, PTL DEF PoolSpec, KeepsPromise, Promise!Spec

-----------------------------------------------------------------------------
(* The counters of a thread, which wrap at Dword.                            *)

\* What a thread owns, before its counters are reduced.
Listed(t) == Cardinality(allocList[t]) + Cardinality(freeList[t])

CountersMatch ==
    /\ useCount \in [Threads -> 0 .. Dword - 1] /\ totalCount \in [Threads -> 0 .. Dword - 1]
    /\ \A t \in Threads : \E k \in Int : totalCount[t] = useCount[t] + Listed(t) + Dword * k

LEMMA Wraps == \A x \in Int : x % Dword \in 0 .. Dword - 1 /\ \E q \in Int : x % Dword = x + Dword * q
<1> SUFFICES ASSUME NEW x \in Int
             PROVE  x % Dword \in 0 .. Dword - 1 /\ \E q \in Int : x % Dword = x + Dword * q
  OBVIOUS
<1>1. x % Dword \in 0 .. Dword - 1 /\ x \div Dword \in Int /\ x = Dword * (x \div Dword) + (x % Dword)
  BY PoolAssumption
<1>2. PICK q \in Int : q = -(x \div Dword)
  BY <1>1
<1>3. \A d, b \in Int : d * (-b) = -(d * b)
  OBVIOUS
<1>4. Dword \in Int /\ x % Dword \in Int /\ Dword * (x \div Dword) \in Int
  BY <1>1, PoolAssumption
<1>5. Dword * q = -(Dword * (x \div Dword))
  BY <1>1, <1>2, <1>3, <1>4
<1>6. x % Dword = x + Dword * q
  BY <1>1, <1>4, <1>5
<1> QED
  BY <1>1, <1>6

\* Two numbers below Dword that are equal but for multiples of it are equal.
LEMMA SameRemainder ==
  ASSUME NEW x \in 0 .. Dword - 1, NEW y \in 0 .. Dword - 1, NEW k \in Int, NEW j \in Int,
         x + Dword * k = y + Dword * j
  PROVE  x = y
<1>1. Dword \in Nat \ {0}
  BY PoolAssumption
<1>2. PICK i \in Int : i = j - k
  OBVIOUS
<1>3. \A d, a, b, c \in Int : c = b - a => d * c = d * b - d * a
  OBVIOUS
<1>4. Dword * i = Dword * j - Dword * k
  BY <1>1, <1>2, <1>3
<1>5. Dword * k \in Int /\ Dword * j \in Int /\ x \in Int /\ y \in Int
  BY <1>1
<1>6. Dword * i = x - y
  BY <1>4, <1>5
<1>7. Dword * i < Dword /\ Dword * i > -Dword
  BY <1>1, <1>6
<1>8. \A d \in Nat \ {0}, c \in Int : d * c < d /\ d * c > -d => c = 0
  OBVIOUS
<1>9. i = 0
  BY <1>1, <1>7, <1>8
<1> QED
  BY <1>1, <1>6, <1>9

\* A step of t that adds a to useCount and c to totalCount, when the lists of the
\* thread change by the difference.
Moves(t, a, c) ==
    /\ useCount' = [useCount EXCEPT ![t] = (@ + a) % Dword]
    /\ totalCount' = [totalCount EXCEPT ![t] = (@ + c) % Dword] \/ (c = 0 /\ totalCount' = totalCount)
    /\ Listed(t) \in Int
    /\ Listed(t)' = Listed(t) + c - a
    /\ \A u \in Threads \ {t} : allocList'[u] = allocList[u] /\ freeList'[u] = freeList[u]

LEMMA ThreadMoves ==
  ASSUME CountersMatch, NEW t \in Threads, NEW a \in Int, NEW c \in Int, Moves(t, a, c)
  PROVE  CountersMatch'
<1>0. /\ useCount' = [useCount EXCEPT ![t] = (@ + a) % Dword]
      /\ totalCount' = [totalCount EXCEPT ![t] = (@ + c) % Dword] \/ (c = 0 /\ totalCount' = totalCount)
      /\ Listed(t) \in Int /\ Listed(t)' = Listed(t) + c - a
      /\ \A u \in Threads \ {t} : allocList'[u] = allocList[u] /\ freeList'[u] = freeList[u]
  BY DEF Moves
<1>1. /\ useCount \in [Threads -> 0 .. Dword - 1] /\ totalCount \in [Threads -> 0 .. Dword - 1]
      /\ useCount[t] \in 0 .. Dword - 1 /\ totalCount[t] \in 0 .. Dword - 1
  BY DEF CountersMatch
<1>2. Dword \in Nat \ {0} /\ useCount[t] \in Int /\ totalCount[t] \in Int
  BY <1>1, PoolAssumption
<1>3. useCount[t] + a \in Int /\ totalCount[t] + c \in Int
  BY <1>2
<1>4. useCount'[t] = (useCount[t] + a) % Dword
  BY <1>0, <1>1
<1>5. useCount'[t] \in 0 .. Dword - 1 /\ \E q \in Int : useCount'[t] = (useCount[t] + a) + Dword * q
  BY <1>3, <1>4, Wraps
<1>6. totalCount'[t] \in 0 .. Dword - 1 /\ \E q \in Int : totalCount'[t] = (totalCount[t] + c) + Dword * q
  <2>1. CASE totalCount' = [totalCount EXCEPT ![t] = (@ + c) % Dword]
    <3>1. totalCount'[t] = (totalCount[t] + c) % Dword
      BY <1>1, <2>1
    <3> QED
      BY <1>3, <3>1, Wraps
  <2>2. CASE c = 0 /\ totalCount' = totalCount
    <3>1. totalCount'[t] = (totalCount[t] + c) + Dword * 0
      BY <1>2, <2>2
    <3> QED
      BY <1>1, <2>2, <3>1
  <2> QED
    BY <1>0, <2>1, <2>2
<1>7. useCount' \in [Threads -> 0 .. Dword - 1]
  BY <1>0, <1>1, <1>4, <1>5
<1>8. totalCount' \in [Threads -> 0 .. Dword - 1]
  BY <1>0, <1>1, <1>6
<1>9. PICK k \in Int : totalCount[t] = useCount[t] + Listed(t) + Dword * k
  BY DEF CountersMatch
<1>10. PICK p \in Int : totalCount'[t] = (totalCount[t] + c) + Dword * p
  BY <1>6
<1>11. PICK q \in Int : useCount'[t] = (useCount[t] + a) + Dword * q
  BY <1>5
<1>12. PICK j \in Int : j = k + p - q
  OBVIOUS
<1>13. totalCount'[t] = useCount'[t] + Listed(t)' + Dword * j
  <2>1. \A d \in Int : d * j = d * k + d * p - d * q
    BY <1>12
  <2>2. Dword \in Int
    BY <1>2
  <2>3. Dword * j = Dword * k + Dword * p - Dword * q
    BY <2>1, <2>2
  <2>4. Dword * j \in Int /\ Dword * k \in Int /\ Dword * p \in Int /\ Dword * q \in Int
    BY <2>2
  <2>5. PICK x \in Int, y \in Int, z \in Int, w \in Int :
           x = Dword * k /\ y = Dword * p /\ z = Dword * q /\ w = Dword * j
    BY <2>4
  <2>6. PICK u \in Int, l \in Int : u = useCount[t] /\ l = Listed(t)
    BY <1>0, <1>2
  <2>7. w = x + y - z
    BY <2>3, <2>5
  <2>8. ((u + l + x) + c) + y = ((u + a) + z) + (l + c - a) + w
    BY <2>7
  <2> QED
    BY <1>0, <1>9, <1>10, <1>11, <2>5, <2>6, <2>8
<1>14. ASSUME NEW v \in Threads
       PROVE  \E i \in Int : totalCount'[v] = useCount'[v] + Listed(v)' + Dword * i
  <2>1. CASE v = t
    BY <1>13, <2>1
  <2>2. CASE v # t
    <3>1. useCount'[v] = useCount[v] /\ totalCount'[v] = totalCount[v]
      BY <1>0, <1>1, <2>2
    <3>2. Listed(v)' = Listed(v)
      BY <1>0, <2>2 DEF Listed
    <3>3. \E i \in Int : totalCount[v] = useCount[v] + Listed(v) + Dword * i
      BY DEF CountersMatch
    <3> QED
      BY <3>1, <3>2, <3>3
  <2> QED
    BY <2>1, <2>2
<1> QED
  BY <1>7, <1>8, <1>14 DEF CountersMatch

LEMMA ListedIsNat == ASSUME PoolInv, NEW t \in Threads
                     PROVE  /\ IsFiniteSet(allocList[t]) /\ IsFiniteSet(freeList[t])
                            /\ Cardinality(allocList[t]) \in Nat /\ Cardinality(freeList[t]) \in Nat
                            /\ Listed(t) \in Int
<1>1. allocList[t] \in SUBSET Nodes /\ freeList[t] \in SUBSET Nodes
  BY DEF PoolInv, PoolType
<1>2. /\ IsFiniteSet(allocList[t]) /\ IsFiniteSet(freeList[t])
      /\ Cardinality(allocList[t]) \in Nat /\ Cardinality(freeList[t]) \in Nat
  BY <1>1, SubsetsOfNodes
<1> QED
  BY <1>2 DEF Listed

LEMMA AllocKeepsCounters ==
  ASSUME PoolInv, CountersMatch, NEW t \in Threads, NEW n \in Nodes, NodeAlloc(t, n)
  PROVE  CountersMatch'
<1> USE ListedIsNat
<1>1. PoolType /\ NodeCount \in Int
  BY PoolAssumption DEF PoolInv
<1>2. CASE AllocFromList(t, n)
  <2>1. /\ n \in allocList[t] /\ allocList' = [allocList EXCEPT ![t] = @ \ {n}]
        /\ useCount' = [useCount EXCEPT ![t] = (@ + 1) % Dword]
        /\ totalCount' = totalCount /\ freeList' = freeList
    BY <1>2 DEF AllocFromList, HandOut
  <2>2. allocList'[t] = allocList[t] \ {n} /\ \A u \in Threads \ {t} : allocList'[u] = allocList[u]
    BY <1>1, <2>1 DEF PoolType
  <2>3. Cardinality(allocList'[t]) = Cardinality(allocList[t]) - 1
    BY <2>1, <2>2, FS_RemoveElement
  <2>4. Listed(t)' = Listed(t) + 0 - 1
    BY <2>1, <2>3 DEF Listed
  <2>5. Moves(t, 1, 0)
    BY <2>1, <2>2, <2>4 DEF Moves
  <2> QED
    BY <2>5, ThreadMoves
<1>3. ASSUME NEW b \in Buckets, AllocFromBucket(t, b, n)
      PROVE  CountersMatch'
  <2>1. /\ n \in b /\ allocList[t] = {} /\ allocList' = [allocList EXCEPT ![t] = b \ {n}]
        /\ useCount' = [useCount EXCEPT ![t] = (@ + 1) % Dword]
        /\ totalCount' = [totalCount EXCEPT ![t] = (@ + NodeCount) % Dword] /\ freeList' = freeList
    BY <1>3 DEF AllocFromBucket, HandOut, NoneLeft
  <2>2. allocList'[t] = b \ {n} /\ \A u \in Threads \ {t} : allocList'[u] = allocList[u]
    BY <1>1, <2>1 DEF PoolType
  <2>3. b \in SUBSET Nodes /\ Cardinality(b) = NodeCount
    BY DEF Buckets
  <2>4. Cardinality(allocList'[t]) = NodeCount - 1 /\ Cardinality(allocList[t]) = 0
    <3>1. IsFiniteSet(b) /\ Cardinality(b \ {n}) = Cardinality(b) - 1
      BY <2>1, <2>3, SubsetsOfNodes, FS_RemoveElement
    <3> QED
      BY <2>1, <2>2, <2>3, <3>1, FS_EmptySet
  <2>5. Listed(t)' = Listed(t) + NodeCount - 1
    BY <1>1, <2>1, <2>4 DEF Listed
  <2>6. Moves(t, 1, NodeCount)
    BY <2>1, <2>2, <2>5 DEF Moves
  <2> QED
    BY <1>1, <2>6, ThreadMoves
<1> QED
  BY <1>2, <1>3 DEF NodeAlloc

LEMMA FreeKeepsCounters ==
  ASSUME PoolInv, CountersMatch, NEW t \in Threads, NEW n \in Nodes, NodeFree(t, n)
  PROVE  CountersMatch'
<1> USE ListedIsNat
<1>1. PoolType /\ NodeCount \in Int /\ freeCount[t] = Cardinality(freeList[t])
  BY PoolAssumption DEF PoolInv, FreeListsAreCounted
<1>2. ASSUME TakeBack(t, n)
      PROVE  /\ useCount' = [useCount EXCEPT ![t] = (@ + (-1)) % Dword]
             /\ allocList' = allocList
             /\ Cardinality(freeList[t] \union {n}) = freeCount[t] + 1
  <2>1. /\ out[n] > 0 /\ allocList' = allocList
        /\ useCount' = [useCount EXCEPT ![t] = (@ - 1) % Dword]
    BY <1>2 DEF TakeBack
  <2>2. useCount[t] \in Int
    BY PoolAssumption DEF CountersMatch
  <2>3. useCount[t] - 1 = useCount[t] + (-1)
    BY <2>2
  <2>4. useCount' = [useCount EXCEPT ![t] = (useCount[t] + (-1)) % Dword]
    BY <2>1, <2>3
  <2> QED
    BY <2>1, <2>4, FreeListGrows
<1>3. CASE FreeToList(t, n)
  <2>1. /\ freeList' = [freeList EXCEPT ![t] = @ \union {n}] /\ totalCount' = totalCount
        /\ TakeBack(t, n)
    BY <1>3 DEF FreeToList
  <2>2. freeList'[t] = freeList[t] \union {n} /\ \A u \in Threads \ {t} : freeList'[u] = freeList[u]
    BY <1>1, <2>1 DEF PoolType
  <2>3. Cardinality(freeList'[t]) = Cardinality(freeList[t]) + 1 /\ allocList' = allocList
    BY <1>1, <1>2, <2>1, <2>2
  <2>4. Listed(t)' = Listed(t) + 0 - (-1)
    BY <2>3 DEF Listed
  <2>5. Moves(t, -1, 0)
    BY <1>2, <2>1, <2>2, <2>3, <2>4 DEF Moves
  <2> QED
    BY <2>5, ThreadMoves
<1>4. CASE FreeToBucket(t, n)
  <2>1. /\ freeList' = [freeList EXCEPT ![t] = {}] /\ freeCount[t] + 1 >= NodeCount
        /\ totalCount' = [totalCount EXCEPT ![t] = (@ - NodeCount) % Dword]
        /\ TakeBack(t, n)
    BY <1>4 DEF FreeToBucket, ListAfterBucket
  <2>2. freeList'[t] = {} /\ \A u \in Threads \ {t} : freeList'[u] = freeList[u]
    BY <1>1, <2>1 DEF PoolType
  <2>3. Cardinality(freeList[t]) = NodeCount - 1 /\ Cardinality(freeList'[t]) = 0
    BY <1>1, <2>1, <2>2, FS_EmptySet DEF PoolInv, FreeListsAreCounted, PoolType
  <2>4. Listed(t)' = Listed(t) + (-NodeCount) - (-1)
    BY <1>1, <1>2, <2>1, <2>3 DEF Listed
  <2>5. totalCount[t] \in Int
    BY PoolAssumption DEF CountersMatch
  <2>6. totalCount[t] - NodeCount = totalCount[t] + (-NodeCount)
    BY <1>1, <2>5
  <2>7. totalCount' = [totalCount EXCEPT ![t] = (@ + (-NodeCount)) % Dword]
    BY <2>1, <2>6
  <2>8. -NodeCount \in Int
    BY <1>1
  <2>9. Moves(t, -1, -NodeCount)
    BY <1>2, <2>1, <2>2, <2>4, <2>7 DEF Moves
  <2> QED
    BY <2>8, <2>9, ThreadMoves
<1> QED
  BY <1>3, <1>4 DEF NodeFree

LEMMA CountersGiveSum == PoolInv /\ CountersMatch => ThreadCountersAddUp
<1> SUFFICES ASSUME PoolInv, CountersMatch, NEW t \in Threads
             PROVE  /\ freeCount[t] = Cardinality(freeList[t])
                    /\ totalCount[t] = (useCount[t] + Cardinality(allocList[t]) + Cardinality(freeList[t])) % Dword
  BY DEF ThreadCountersAddUp
<1>1. freeCount[t] = Cardinality(freeList[t])
  BY DEF PoolInv, FreeListsAreCounted
<1>2. PICK x : x = useCount[t] + Cardinality(allocList[t]) + Cardinality(freeList[t])
  OBVIOUS
<1>3. useCount[t] \in Int /\ totalCount[t] \in 0 .. Dword - 1 /\ Dword \in Int
  BY PoolAssumption DEF CountersMatch
<1>4. x \in Int /\ x = useCount[t] + Listed(t)
  BY <1>2, <1>3, ListedIsNat DEF Listed
<1>5. PICK k \in Int : totalCount[t] = x + Dword * k
  BY <1>4 DEF CountersMatch
<1>6. x % Dword \in 0 .. Dword - 1
  BY <1>4, Wraps
<1>7. PICK q \in Int : x % Dword = x + Dword * q
  BY <1>4, Wraps
<1>8. totalCount[t] + Dword * q = (x % Dword) + Dword * k
  <2>1. Dword * k \in Int /\ Dword * q \in Int /\ totalCount[t] \in Int
    BY <1>3
  <2> QED
    BY <1>4, <1>5, <1>7, <2>1
<1>9. totalCount[t] = x % Dword
  BY <1>3, <1>6, <1>8, SameRemainder
<1> QED
  BY <1>1, <1>2, <1>9

\* The counters of every thread agree with its lists, however often they wrap and
\* whichever thread frees what another one took.
THEOREM CountersAddUp == PoolSpec => []ThreadCountersAddUp
<1>1. PoolInit => CountersMatch
  <2> SUFFICES ASSUME PoolInit PROVE CountersMatch
    OBVIOUS
  <2>1. \A t \in Threads : Listed(t) = 0 /\ useCount[t] = 0 /\ totalCount[t] = 0
    BY FS_EmptySet DEF PoolInit, Listed
  <2>2. \A t \in Threads : totalCount[t] = useCount[t] + Listed(t) + Dword * 0
    BY <2>1, PoolAssumption
  <2> QED
    BY <2>2, PoolAssumption DEF PoolInit, CountersMatch
<1>2. PoolInv /\ CountersMatch /\ [PoolNext]_poolVars => CountersMatch'
  <2>1. ASSUME PoolInv, CountersMatch, PoolNext PROVE CountersMatch'
    BY <2>1, AllocKeepsCounters, FreeKeepsCounters DEF PoolNext
  <2>2. CountersMatch /\ UNCHANGED poolVars => CountersMatch'
    BY DEF CountersMatch, Listed, poolVars, tlsVars
  <2> QED
    BY <2>1, <2>2
<1> QED
  BY <1>1, <1>2, CountersGiveSum, PoolInvariant, PTL DEF PoolSpec

-----------------------------------------------------------------------------
(* How far the pool grows.                                                   *)

\* Sets of at most m members, one for every member of L, have at most
\* Cardinality(L) * m members in all: each is reached from a member of L and a
\* number up to m.
LEMMA UnionIsBounded ==
  ASSUME NEW L, IsFiniteSet(L), NEW F, NEW m \in Nat, NEW K,
         \A l \in L : IsFiniteSet(F[l]) /\ Cardinality(F[l]) <= m,
         \A x \in K : \E l \in L : x \in F[l]
  PROVE  IsFiniteSet(K) /\ Cardinality(K) <= Cardinality(L) * m
<1>1. ASSUME NEW l \in L
      PROVE  \E h : \A x \in F[l] : \E i \in 1 .. m : h[i] = x
  <2>1. Cardinality(F[l]) \in Nat /\ ExistsBijection(1 .. Cardinality(F[l]), F[l])
    BY FS_CardinalityType
  <2>2. PICK h : h \in Bijection(1 .. Cardinality(F[l]), F[l])
    BY <2>1 DEF ExistsBijection
  <2>3. \A x \in F[l] : \E i \in 1 .. Cardinality(F[l]) : h[i] = x
    BY <2>2 DEF Bijection, Surjection
  <2>4. \A i \in 1 .. Cardinality(F[l]) : i \in 1 .. m
    BY <2>1
  <2> QED
    BY <2>3, <2>4
<1>2. PICK num : num = [l \in L |-> CHOOSE h : \A x \in F[l] : \E i \in 1 .. m : h[i] = x]
  OBVIOUS
<1>3. \A l \in L : \A x \in F[l] : \E i \in 1 .. m : num[l][i] = x
  BY <1>1, <1>2
<1>4. IsFiniteSet(1 .. m) /\ Cardinality(1 .. m) = m
  BY FS_Interval
<1>5. IsFiniteSet(L \X (1 .. m)) /\ Cardinality(L \X (1 .. m)) = Cardinality(L) * m
  BY <1>4, FS_Product
<1>6. \A x \in K : \E q \in L \X (1 .. m) : num[q[1]][q[2]] = x
  <2>1. ASSUME NEW x \in K PROVE \E q \in L \X (1 .. m) : num[q[1]][q[2]] = x
    <3>1. PICK l \in L, i \in 1 .. m : num[l][i] = x
      BY <1>3
    <3>2. <<l, i>> \in L \X (1 .. m) /\ num[<<l, i>>[1]][<<l, i>>[2]] = x
      BY <3>1
    <3> QED
      BY <3>2
  <2> QED
    BY <2>1
<1>7. PICK place : place = [x \in K |-> CHOOSE q \in L \X (1 .. m) : num[q[1]][q[2]] = x]
  OBVIOUS
<1>8. \A x \in K : place[x] \in L \X (1 .. m) /\ num[place[x][1]][place[x][2]] = x
  BY <1>6, <1>7
<1>9. place \in [K -> L \X (1 .. m)]
  BY <1>7, <1>8
<1>10. \A x, y \in K : place[x] = place[y] => x = y
  BY <1>8
<1>11. place \in Injection(K, L \X (1 .. m))
  BY <1>9, <1>10 DEF Injection, IsInjective
<1> QED
  BY <1>5, <1>11, FS_Injection

\* A node outside of the root pool is given out or in a list, and what a thread
\* has to give out is less than a bucket.
NodesAreKept ==
    /\ \A n \in Outside : out[n] = 1 \/ \E t \in Threads : n \in allocList[t] \/ n \in freeList[t]
    /\ \A t \in Threads : Cardinality(allocList[t]) < NodeCount

LEMMA AllocKeepsNodes ==
  ASSUME PoolInv, NodesAreKept, NEW t \in Threads, NEW n \in Nodes, NodeAlloc(t, n)
  PROVE  NodesAreKept'
<1>1. PoolType /\ NodeCount \in Nat \ {0}
  BY PoolAssumption DEF PoolInv
<1>2. CASE AllocFromList(t, n)
  <2>1. /\ n \in allocList[t] /\ allocList' = [allocList EXCEPT ![t] = @ \ {n}]
        /\ out' = [out EXCEPT ![n] = 1] /\ freeList' = freeList
        /\ Outside' = Outside
    BY <1>2, AllocFromListStep DEF AllocFromList, HandOut, rootVars, Outside
  <2>2. \A m \in Outside' : out'[m] = 1 \/ \E u \in Threads : m \in allocList'[u] \/ m \in freeList'[u]
    BY <1>1, <2>1 DEF NodesAreKept, PoolType
  <2>3. Cardinality(allocList[t] \ {n}) < NodeCount
    <3>1. /\ IsFiniteSet(allocList[t]) /\ Cardinality(allocList[t]) \in Nat
          /\ Cardinality(allocList[t]) < NodeCount
      BY ListedIsNat DEF NodesAreKept
    <3>2. Cardinality(allocList[t] \ {n}) = Cardinality(allocList[t]) - 1
      BY <2>1, <3>1, FS_RemoveElement
    <3> QED
      BY <1>1, <3>1, <3>2
  <2>4. \A u \in Threads : Cardinality(allocList'[u]) < NodeCount
    BY <1>1, <2>1, <2>3 DEF NodesAreKept, PoolType
  <2> QED
    BY <2>2, <2>4 DEF NodesAreKept
<1>3. ASSUME NEW b \in Buckets, AllocFromBucket(t, b, n)
      PROVE  NodesAreKept'
  <2>1. /\ n \in b /\ allocList[t] = {} /\ allocList' = [allocList EXCEPT ![t] = b \ {n}]
        /\ out' = [out EXCEPT ![n] = 1] /\ freeList' = freeList
    BY <1>3, AllocFromBucketStep DEF AllocFromBucket, HandOut, NoneLeft
  <2>2. Outside' = Outside \union b
    BY <1>3, BucketTaken DEF AllocFromBucket
  <2>3. b \in SUBSET Nodes /\ Cardinality(b) = NodeCount
    BY DEF Buckets
  <2>4. \A m \in Outside' : out'[m] = 1 \/ \E u \in Threads : m \in allocList'[u] \/ m \in freeList'[u]
    BY <1>1, <2>1, <2>2, <2>3 DEF NodesAreKept, PoolType, Outside
  <2>5. IsFiniteSet(b) /\ Cardinality(b \ {n}) = NodeCount - 1
    BY <2>1, <2>3, SubsetsOfNodes, FS_RemoveElement
  <2>6. \A u \in Threads : Cardinality(allocList'[u]) < NodeCount
    BY <1>1, <2>1, <2>5 DEF NodesAreKept, PoolType
  <2> QED
    BY <2>4, <2>6 DEF NodesAreKept
<1> QED
  BY <1>2, <1>3 DEF NodeAlloc

LEMMA FreeKeepsNodes ==
  ASSUME PoolInv, NodesAreKept, NEW t \in Threads, NEW n \in Nodes, NodeFree(t, n)
  PROVE  NodesAreKept'
<1>1. PoolType
  BY DEF PoolInv
<1>2. allocList' = allocList /\ \A u \in Threads : Cardinality(allocList'[u]) < NodeCount
  BY DEF NodeFree, FreeToList, FreeToBucket, TakeBack, NodesAreKept
<1>3. CASE FreeToList(t, n)
  <2>1. /\ freeList' = [freeList EXCEPT ![t] = @ \union {n}]
        /\ out' = [out EXCEPT ![n] = 0] /\ Outside' = Outside
    BY <1>3, FreeToListStep DEF FreeToList, TakeBack, Outside
  <2>2. \A m \in Outside' : out'[m] = 1 \/ \E u \in Threads : m \in allocList'[u] \/ m \in freeList'[u]
    BY <1>1, <1>2, <2>1 DEF NodesAreKept, PoolType
  <2> QED
    BY <1>2, <2>2 DEF NodesAreKept
<1>4. CASE FreeToBucket(t, n)
  <2>1. /\ freeList' = [freeList EXCEPT ![t] = {}] /\ made' = made
        /\ allocBucketList' = allocBucketList \union {freeList[t] \union {n}}
        /\ out' = [out EXCEPT ![n] = 0]
    BY <1>4, FreeToBucketStep DEF FreeToBucket, TakeBack, ListAfterBucket
  <2>2. Outside' = Outside \ (freeList[t] \union {n})
    BY <2>1 DEF Outside
  <2>3. \A m \in Outside' : out'[m] = 1 \/ \E u \in Threads : m \in allocList'[u] \/ m \in freeList'[u]
    BY <1>1, <1>2, <2>1, <2>2 DEF NodesAreKept, PoolType
  <2> QED
    BY <1>2, <2>3 DEF NodesAreKept
<1> QED
  BY <1>3, <1>4 DEF NodeFree

Used == {n \in Nodes : out[n] > 0}

\* What all threads keep, when one of them has nothing left to give out.
LEMMA KeptIsBounded ==
  ASSUME PoolInv, NodesAreKept, NEW t \in Threads, NoneLeft(t)
  PROVE  Cardinality(Outside) <= Cardinality(Used) + (2 * Cardinality(Threads) - 1) * (NodeCount - 1)
<1>1. PICK L : L = (Threads \X {0, 1}) \ {<<t, 0>>}
  OBVIOUS
<1>2. PICK F : F = [l \in L |-> IF l[2] = 0 THEN allocList[l[1]] ELSE freeList[l[1]]]
  OBVIOUS
<1>3. PICK K : K = Outside \ Used
  OBVIOUS
<1>4. PICK m \in Nat : m = NodeCount - 1
  BY PoolAssumption
<1>5. IsFiniteSet(L) /\ Cardinality(L) = 2 * Cardinality(Threads) - 1
  <2>1. IsFiniteSet({0, 1}) /\ Cardinality({0, 1}) = 2
    <3>1. {0, 1} = {0} \union {1} /\ 1 \notin {0}
      OBVIOUS
    <3>2. IsFiniteSet({0}) /\ Cardinality({0}) = 1
      BY FS_Singleton
    <3>3. IsFiniteSet({0} \union {1}) /\ Cardinality({0} \union {1}) = 1 + 1
      BY <3>1, <3>2, FS_AddElement
    <3> QED
      BY <3>1, <3>3
  <2>2. /\ IsFiniteSet(Threads \X {0, 1})
        /\ Cardinality(Threads \X {0, 1}) = Cardinality(Threads) * Cardinality({0, 1})
    BY <2>1, FS_Product, PacketAssumption
  <2>3. Cardinality(Threads) \in Nat
    BY FS_CardinalityType, PacketAssumption
  <2>4. Cardinality(Threads \X {0, 1}) = 2 * Cardinality(Threads)
    BY <2>1, <2>2, <2>3
  <2>5. IsFiniteSet(L) /\ Cardinality(L) = Cardinality(Threads \X {0, 1}) - 1
    <3>1. <<t, 0>> \in Threads \X {0, 1}
      OBVIOUS
    <3> QED
      BY <1>1, <2>2, <3>1, FS_RemoveElement
  <2> QED
    BY <2>4, <2>5
<1>6. \A l \in L : IsFiniteSet(F[l]) /\ Cardinality(F[l]) <= m
  <2>1. ASSUME NEW u \in Threads
        PROVE  /\ IsFiniteSet(allocList[u]) /\ Cardinality(allocList[u]) <= m
               /\ IsFiniteSet(freeList[u]) /\ Cardinality(freeList[u]) <= m
    <3>1. Cardinality(allocList[u]) < NodeCount /\ Cardinality(freeList[u]) < NodeCount
      BY DEF NodesAreKept, PoolInv, FreeListsAreCounted
    <3> QED
      BY <1>4, <3>1, ListedIsNat, PoolAssumption
  <2>2. \A l \in L : l[1] \in Threads /\ (F[l] = allocList[l[1]] \/ F[l] = freeList[l[1]])
    BY <1>1, <1>2
  <2> QED
    BY <2>1, <2>2
<1>7. \A x \in K : \E l \in L : x \in F[l]
  <2>1. ASSUME NEW x \in K PROVE \E l \in L : x \in F[l]
    <3>1. x \in Outside /\ x \in Nodes /\ ~(out[x] > 0)
      BY <1>3 DEF Used, Outside, PoolInv, PoolType
    <3>2. PICK u \in Threads : x \in allocList[u] \/ x \in freeList[u]
      BY <3>1 DEF NodesAreKept
    <3>3. CASE x \in allocList[u]
      <4>1. u # t
        BY <3>3 DEF NoneLeft
      <4>2. <<u, 0>> \in L /\ F[<<u, 0>>] = allocList[u]
        BY <1>1, <1>2, <4>1
      <4> QED
        BY <3>3, <4>2
    <3>4. CASE x \in freeList[u]
      <4>1. <<u, 1>> \in L /\ F[<<u, 1>>] = freeList[u]
        BY <1>1, <1>2
      <4> QED
        BY <3>4, <4>1
    <3> QED
      BY <3>2, <3>3, <3>4
  <2> QED
    BY <2>1
<1>8. Cardinality(K) <= Cardinality(L) * m
  BY <1>5, <1>6, <1>7, UnionIsBounded
<1>9. Outside \in SUBSET Nodes /\ Used \in SUBSET Nodes
  BY DEF Outside, Used, PoolInv, PoolType
<1>10. /\ IsFiniteSet(Outside) /\ Cardinality(Outside) \in Nat
       /\ IsFiniteSet(Used) /\ Cardinality(Used) \in Nat
       /\ Cardinality(Outside \intersect Used) \in Nat
       /\ Cardinality(Outside \intersect Used) <= Cardinality(Used)
  <2>1. IsFiniteSet(Outside) /\ IsFiniteSet(Used) /\ Cardinality(Outside) \in Nat /\ Cardinality(Used) \in Nat
    BY <1>9, SubsetsOfNodes
  <2>2. Outside \intersect Used \in SUBSET Nodes
    BY <1>9
  <2> QED
    BY <2>1, <2>2, SubsetsOfNodes, FS_Intersection
<1>11. Cardinality(K) = Cardinality(Outside) - Cardinality(Outside \intersect Used)
  BY <1>3, <1>10, FS_Difference
<1>12. Cardinality(L) * m = (2 * Cardinality(Threads) - 1) * (NodeCount - 1)
  BY <1>4, <1>5
<1>13. PICK x : x = Cardinality(L) * m
  OBVIOUS
<1>14. x \in Int
  <2>1. Cardinality(L) \in Int
    BY <1>5, FS_CardinalityType
  <2> QED
    BY <1>13, <2>1
<1>15. Cardinality(Outside) <= Cardinality(Used) + x
  BY <1>8, <1>10, <1>11, <1>13, <1>14
<1> QED
  BY <1>12, <1>13, <1>15

\* The pool grows only when the nodes it has are in use, but for what the lists of
\* the threads hold back, for any number of threads.
THEOREM PoolGrowsWhenNeeded == PoolSpec => GrowsOnlyWhenNeeded
<1>1. PoolInit => NodesAreKept
  BY FS_EmptySet, PoolAssumption DEF PoolInit, NodesAreKept, Outside
<1>2. PoolInv /\ NodesAreKept /\ [PoolNext]_poolVars => NodesAreKept'
  <2>1. ASSUME PoolInv, NodesAreKept, PoolNext PROVE NodesAreKept'
    BY <2>1, AllocKeepsNodes, FreeKeepsNodes DEF PoolNext
  <2>2. NodesAreKept /\ UNCHANGED poolVars => NodesAreKept'
    BY DEF NodesAreKept, Outside, poolVars, rootVars, tlsVars
  <2> QED
    BY <2>1, <2>2
<1>3. PoolInv /\ NodesAreKept /\ [PoolNext]_poolVars =>
         [made' # made => Cardinality(made) <= Cardinality({n \in Nodes : out[n] > 0})
                             + (2 * Cardinality(Threads) - 1) * (NodeCount - 1)]_poolVars
  <2> SUFFICES ASSUME PoolInv, NodesAreKept, PoolNext, made' # made
               PROVE  Cardinality(made) <= Cardinality({n \in Nodes : out[n] > 0})
                             + (2 * Cardinality(Threads) - 1) * (NodeCount - 1)
    OBVIOUS
  <2>1. PICK t \in Threads, n \in Nodes : NodeAlloc(t, n) \/ NodeFree(t, n)
    BY DEF PoolNext
  <2>2. PICK b \in Buckets : AllocFromBucket(t, b, n)
    BY <2>1 DEF NodeAlloc, NodeFree, AllocFromList, FreeToList, FreeToBucket, TakeBack, rootVars
  <2>3. NoneLeft(t) /\ NewBucket(b)
    BY <2>2 DEF AllocFromBucket, RootBucket
  <2>4. made = Outside
    BY <2>3 DEF NewBucket, Outside
  <2> QED
    BY <2>3, <2>4, KeptIsBounded DEF Used
<1> QED
  BY <1>1, <1>2, <1>3, PoolInvariant, PTL DEF PoolSpec, GrowsOnlyWhenNeeded

-----------------------------------------------------------------------------
(* The packets.                                                              *)

PacketType ==
    /\ refCount \in [Nodes -> Int]
    /\ reading \in [Workers -> Nodes \union {None}]
    /\ jobs \subseteq Nodes /\ held \subseteq Nodes /\ lost \subseteq Nodes
    /\ sending \in [to : Sessions, packet : Nodes] \union {NoCall}
    /\ sendQ \in [Sessions -> SUBSET Nodes]

\* A packet that is read, in a job or lost is nowhere else; one that is sent is
\* held and not yet in the queue it is sent to.
PlacesExclude ==
    /\ \A w \in Workers : reading[w] # None =>
          /\ reading[w] \notin jobs /\ reading[w] \notin held /\ reading[w] \notin lost
          /\ \A s \in Sessions : reading[w] \notin sendQ[s]
          /\ \A v \in Workers : v # w => reading[v] # reading[w]
    /\ jobs \intersect held = {} /\ jobs \intersect lost = {} /\ held \intersect lost = {}
    /\ \A s \in Sessions : jobs \intersect sendQ[s] = {} /\ lost \intersect sendQ[s] = {}
    /\ sending # NoCall => sending.packet \in held /\ sending.packet \notin sendQ[sending.to]

PacketInv == PoolInv /\ PacketType /\ PlacesExclude /\ RefCountIsHolders

LEMMA PlacesAre ==
  /\ IsFiniteSet(Places)
  /\ \A p \in Places :
        \/ \E w \in Workers : p = <<"reading", w>>
        \/ \E s \in Sessions : p = <<"queue", s>>
        \/ p \in {<<"jobs", None>>, <<"held", None>>, <<"sending", None>>, <<"lost", None>>}
  /\ \A w \in Workers : <<"reading", w>> \in Places
  /\ \A s \in Sessions : <<"queue", s>> \in Places
  /\ {<<"jobs", None>>, <<"held", None>>, <<"sending", None>>, <<"lost", None>>} \subseteq Places
<1>1. IsFiniteSet(Workers) /\ IsFiniteSet(Sessions)
  BY FS_Difference, PacketAssumption DEF Workers
<1>2. IsFiniteSet({"reading"}) /\ IsFiniteSet({"queue"}) /\ IsFiniteSet({None})
  BY FS_Singleton
<1>3. IsFiniteSet({"jobs", "held", "sending", "lost"})
  <2>1. {"jobs", "held", "sending", "lost"} = (({"jobs"} \union {"held"}) \union {"sending"}) \union {"lost"}
    OBVIOUS
  <2>2. IsFiniteSet({"jobs"} \union {"held"})
    BY FS_Singleton, FS_AddElement
  <2>3. IsFiniteSet(({"jobs"} \union {"held"}) \union {"sending"})
    BY <2>2, FS_AddElement
  <2> QED
    BY <2>1, <2>3, FS_AddElement
<1>4. /\ IsFiniteSet({"reading"} \X Workers)
      /\ IsFiniteSet({"queue"} \X Sessions)
      /\ IsFiniteSet({"jobs", "held", "sending", "lost"} \X {None})
  BY <1>1, <1>2, <1>3, FS_Product
<1>5. IsFiniteSet(Places)
  <2>1. IsFiniteSet(({"reading"} \X Workers) \union ({"queue"} \X Sessions))
    BY <1>4, FS_Union
  <2> QED
    BY <1>4, <2>1, FS_Union DEF Places
<1> QED
  BY <1>5 DEF Places

\* What a place has to do with a packet, place by place.
LEMMA HoldersAre ==
  ASSUME NEW n \in Nodes
  PROVE  /\ \A w \in Workers : <<"reading", w>> \in Holders(n) <=> reading[w] = n
         /\ \A s \in Sessions : <<"queue", s>> \in Holders(n) <=> n \in sendQ[s]
         /\ <<"jobs", None>> \in Holders(n) <=> n \in jobs
         /\ <<"held", None>> \in Holders(n) <=> n \in held
         /\ <<"sending", None>> \in Holders(n) <=> n = sending.packet
         /\ <<"lost", None>> \in Holders(n) <=> n \in lost
         /\ IsFiniteSet(Holders(n)) /\ Cardinality(Holders(n)) \in Nat
<1>1. Holders(n) \in SUBSET Places
  BY DEF Holders
<1>2. IsFiniteSet(Holders(n)) /\ Cardinality(Holders(n)) \in Nat
  BY <1>1, PlacesAre, FS_Subset, FS_CardinalityType
<1> QED
  BY <1>2, PlacesAre DEF Holders, Refers

\* A packet the pool gives out is referred to from nowhere.
LEMMA CreatedIsNew ==
  ASSUME PacketInv, NEW t \in Threads, NEW n \in Nodes, Create(t, n)
  PROVE  /\ PoolInv' /\ out' = [out EXCEPT ![n] = 1]
         /\ refCount[n] = 0 /\ refCount' = [refCount EXCEPT ![n] = @ + 1]
         /\ \A p \in Places : ~Refers(p, n)
         /\ \A w \in Workers : reading[w] # n
         /\ \A s \in Sessions : n \notin sendQ[s]
         /\ n \notin jobs /\ n \notin held /\ n \notin lost /\ n # sending.packet
<1>1. NodeAlloc(t, n) /\ refCount' = [refCount EXCEPT ![n] = @ + 1]
  BY DEF Create, AddRef
<1>2. PoolInv' /\ out[n] = 0 /\ out' = [out EXCEPT ![n] = 1]
  <2>1. CASE AllocFromList(t, n)
    BY <2>1, AllocFromListStep DEF PacketInv
  <2>2. ASSUME NEW b \in Buckets, AllocFromBucket(t, b, n)
        PROVE  PoolInv' /\ out[n] = 0 /\ out' = [out EXCEPT ![n] = 1]
    BY <2>2, AllocFromBucketStep DEF PacketInv
  <2> QED
    BY <1>1, <2>1, <2>2 DEF NodeAlloc
<1>3. Cardinality(Holders(n)) \in Nat /\ IsFiniteSet(Holders(n))
  BY HoldersAre
<1>4. refCount[n] = 0 /\ Cardinality(Holders(n)) = 0
  BY <1>2, <1>3 DEF PacketInv, RefCountIsHolders
<1>5. Holders(n) = {}
  BY <1>3, <1>4, FS_EmptySet
<1> QED
  BY <1>1, <1>2, <1>4, <1>5, HoldersAre DEF Holders

\* Dropping a reference: the last one gives the packet back, no other does.
LEMMA DroppedReference ==
  ASSUME PacketInv, NEW t \in Threads, NEW n \in Nodes, subRef(t, n)
  PROVE  /\ PoolInv'
         /\ refCount' = [refCount EXCEPT ![n] = @ - 1]
         /\ out' = IF refCount[n] = 1 THEN [out EXCEPT ![n] = 0] ELSE out
<1>1. refCount' = [refCount EXCEPT ![n] = @ - 1]
  BY DEF subRef
<1>2. CASE refCount[n] = 1
  <2>1. NodeFree(t, n)
    BY <1>2 DEF subRef, LastReference
  <2> QED
    BY <1>1, <1>2, <2>1, FreeToListStep, FreeToBucketStep DEF NodeFree, PacketInv
<1>3. CASE refCount[n] # 1
  <2>1. UNCHANGED poolVars
    BY <1>3 DEF subRef, LastReference
  <2> QED
    BY <1>1, <1>3, <2>1, PoolStutter DEF PacketInv, poolVars
<1> QED
  BY <1>2, <1>3

-----------------------------------------------------------------------------
(* One place more, one place less, one place for another.                    *)

LEMMA OnePlaceMore ==
  ASSUME PacketInv, NEW n \in Nodes, NEW place \in Places,
         refCount' = [refCount EXCEPT ![n] = @ + 1],
         out' = [out EXCEPT ![n] = 1],
         ~Refers(place, n),
         \A m \in Nodes, p \in Places : Refers(p, m)' <=> Refers(p, m) \/ (p = place /\ m = n)
  PROVE  RefCountIsHolders'
<1>1. ASSUME NEW m \in Nodes
      PROVE  /\ refCount'[m] = Cardinality(Holders(m)')
             /\ out'[m] = IF refCount'[m] > 0 THEN 1 ELSE 0
  <2>1. /\ refCount[m] = Cardinality(Holders(m)) /\ out[m] = IF refCount[m] > 0 THEN 1 ELSE 0
        /\ IsFiniteSet(Holders(m)) /\ Cardinality(Holders(m)) \in Nat
    BY HoldersAre DEF PacketInv, RefCountIsHolders
  <2>2. CASE m = n
    <3>1. Holders(m)' = Holders(m) \union {place}
      BY <2>2 DEF Holders
    <3>2. place \notin Holders(m)
      BY <2>2 DEF Holders
    <3>3. Cardinality(Holders(m)') = Cardinality(Holders(m)) + 1
      BY <2>1, <3>1, <3>2, FS_AddElement
    <3> QED
      BY <2>1, <2>2, <3>3 DEF PacketInv, PacketType, PoolInv, PoolType
  <2>3. CASE m # n
    <3>1. Holders(m)' = Holders(m)
      BY <2>3 DEF Holders
    <3> QED
      BY <2>1, <2>3, <3>1 DEF PacketInv, PacketType, PoolInv, PoolType
  <2> QED
    BY <2>2, <2>3
<1> QED
  BY <1>1 DEF RefCountIsHolders

LEMMA OnePlaceLess ==
  ASSUME PacketInv, NEW n \in Nodes, NEW place \in Places,
         refCount' = [refCount EXCEPT ![n] = @ - 1],
         out' = IF refCount[n] = 1 THEN [out EXCEPT ![n] = 0] ELSE out,
         Refers(place, n),
         \A m \in Nodes, p \in Places : Refers(p, m)' <=> Refers(p, m) /\ ~(p = place /\ m = n)
  PROVE  RefCountIsHolders'
<1>1. ASSUME NEW m \in Nodes
      PROVE  /\ refCount'[m] = Cardinality(Holders(m)')
             /\ out'[m] = IF refCount'[m] > 0 THEN 1 ELSE 0
  <2>1. /\ refCount[m] = Cardinality(Holders(m)) /\ out[m] = IF refCount[m] > 0 THEN 1 ELSE 0
        /\ IsFiniteSet(Holders(m)) /\ Cardinality(Holders(m)) \in Nat
    BY HoldersAre DEF PacketInv, RefCountIsHolders
  <2>2. CASE m = n
    <3>1. Holders(m)' = Holders(m) \ {place}
      BY <2>2 DEF Holders
    <3>2. place \in Holders(m)
      BY <2>2 DEF Holders
    <3>3. Cardinality(Holders(m)') = Cardinality(Holders(m)) - 1
      BY <2>1, <3>1, <3>2, FS_RemoveElement
    <3>4. refCount'[m] = refCount[m] - 1
      BY <2>2 DEF PacketInv, PacketType
    <3>5. refCount[m] >= 1
      <4>1. Cardinality(Holders(m)) # 0
        BY <2>1, <3>2, FS_EmptySet
      <4> QED
        BY <2>1, <4>1
    <3>6. out'[m] = IF refCount[m] = 1 THEN 0 ELSE out[m]
      BY <2>2 DEF PacketInv, PoolInv, PoolType
    <3> QED
      BY <2>1, <3>3, <3>4, <3>5, <3>6
  <2>3. CASE m # n
    <3>1. Holders(m)' = Holders(m)
      BY <2>3 DEF Holders
    <3> QED
      BY <2>1, <2>3, <3>1 DEF PacketInv, PacketType, PoolInv, PoolType
  <2> QED
    BY <2>2, <2>3
<1> QED
  BY <1>1 DEF RefCountIsHolders

LEMMA AnotherPlace ==
  ASSUME PacketInv, NEW n \in Nodes, NEW from \in Places, NEW to \in Places,
         UNCHANGED <<refCount, out>>,
         Refers(from, n), ~Refers(to, n),
         \A m \in Nodes, p \in Places :
            Refers(p, m)' <=> (Refers(p, m) /\ ~(p = from /\ m = n)) \/ (p = to /\ m = n)
  PROVE  RefCountIsHolders'
<1>1. ASSUME NEW m \in Nodes
      PROVE  Cardinality(Holders(m)') = Cardinality(Holders(m))
  <2>1. IsFiniteSet(Holders(m)) /\ Cardinality(Holders(m)) \in Nat
    BY HoldersAre
  <2>2. CASE m = n
    <3>1. Holders(m)' = (Holders(m) \ {from}) \union {to}
      BY <2>2 DEF Holders
    <3>2. from \in Holders(m) /\ to \notin Holders(m)
      BY <2>2 DEF Holders
    <3>3. IsFiniteSet(Holders(m) \ {from}) /\ Cardinality(Holders(m) \ {from}) = Cardinality(Holders(m)) - 1
      BY <2>1, <3>2, FS_RemoveElement
    <3>4. to \notin Holders(m) \ {from}
      BY <3>2
    <3>5. Cardinality((Holders(m) \ {from}) \union {to}) = Cardinality(Holders(m) \ {from}) + 1
      BY <3>3, <3>4, FS_AddElement
    <3> QED
      BY <2>1, <3>1, <3>3, <3>5
  <2>3. CASE m # n
    BY <2>3 DEF Holders
  <2> QED
    BY <2>2, <2>3
<1> QED
  BY <1>1 DEF RefCountIsHolders, PacketInv

-----------------------------------------------------------------------------
(* The actions.                                                              *)

LEMMA ReadHeaderStep ==
  ASSUME PacketInv, NEW w \in Workers, NEW n \in Nodes, ReadHeader(w, n)
  PROVE  PacketInv'
<1>1. /\ Create(w, n) /\ w \in Threads /\ reading[w] = None
      /\ reading' = [reading EXCEPT ![w] = n]
      /\ UNCHANGED <<jobs, held, sending, sendQ, lost>>
  BY DEF ReadHeader, Workers
<1>2. /\ PoolInv' /\ out' = [out EXCEPT ![n] = 1] /\ refCount' = [refCount EXCEPT ![n] = @ + 1]
      /\ \A p \in Places : ~Refers(p, n)
      /\ \A v \in Workers : reading[v] # n
      /\ \A s \in Sessions : n \notin sendQ[s]
      /\ n \notin jobs /\ n \notin held /\ n \notin lost
  BY <1>1, CreatedIsNew
<1>3. PacketType'
  BY <1>1, <1>2 DEF PacketInv, PacketType
<1>4. PlacesExclude'
  BY <1>1, <1>2 DEF PacketInv, PacketType, PlacesExclude
<1>5. \A m \in Nodes, p \in Places : Refers(p, m)' <=> Refers(p, m) \/ (p = <<"reading", w>> /\ m = n)
  <2>1. \A v \in Workers : reading'[v] = IF v = w THEN n ELSE reading[v]
    BY <1>1 DEF PacketInv, PacketType
  <2> QED
    BY <1>1, <2>1, PlacesAre, PacketAssumption DEF Refers
<1>6. <<"reading", w>> \in Places /\ ~Refers(<<"reading", w>>, n)
  BY <1>2, PlacesAre
<1>7. RefCountIsHolders'
  BY <1>2, <1>5, <1>6, OnePlaceMore
<1> QED
  BY <1>2, <1>3, <1>4, <1>7 DEF PacketInv

LEMMA OnMessageStep ==
  ASSUME PacketInv, NEW w \in Workers, OnMessage(w)
  PROVE  PacketInv'
<1>1. PICK n : n = reading[w]
  OBVIOUS
<1>2. /\ n \in Nodes /\ n # None
      /\ jobs' = jobs \union {n}
      /\ reading' = [reading EXCEPT ![w] = None]
      /\ UNCHANGED <<poolVars, refCount, held, sending, sendQ, lost>>
  BY <1>1 DEF OnMessage, PacketInv, PacketType
<1>3. /\ n \notin jobs /\ n \notin held /\ n \notin lost
      /\ \A s \in Sessions : n \notin sendQ[s]
      /\ \A v \in Workers : v # w => reading[v] # n
  BY <1>1, <1>2 DEF PacketInv, PlacesExclude
<1>4. PoolInv'
  BY <1>2, PoolStutter DEF PacketInv
<1>5. PacketType'
  BY <1>2 DEF PacketInv, PacketType
<1>6. PlacesExclude'
  BY <1>2, <1>3 DEF PacketInv, PacketType, PlacesExclude
<1>7. \A m \in Nodes, p \in Places :
         Refers(p, m)' <=> (Refers(p, m) /\ ~(p = <<"reading", w>> /\ m = n)) \/ (p = <<"jobs", None>> /\ m = n)
  <2>1. \A v \in Workers : reading'[v] = IF v = w THEN None ELSE reading[v]
    BY <1>2 DEF PacketInv, PacketType
  <2> QED
    BY <1>1, <1>2, <2>1, PlacesAre, PacketAssumption DEF Refers
<1>8. Refers(<<"reading", w>>, n) /\ ~Refers(<<"jobs", None>>, n)
  BY <1>1, <1>3 DEF Refers
<1>9. RefCountIsHolders'
  BY <1>2, <1>7, <1>8, AnotherPlace, PlacesAre DEF poolVars
<1> QED
  BY <1>4, <1>5, <1>6, <1>9 DEF PacketInv

LEMMA IncompleteStep ==
  ASSUME PacketInv, NEW w \in Workers, Incomplete(w)
  PROVE  PacketInv'
<1>1. PICK n : n = reading[w]
  OBVIOUS
<1>2. /\ n \in Nodes /\ w \in Threads /\ subRef(w, n)
      /\ reading' = [reading EXCEPT ![w] = None]
      /\ UNCHANGED <<jobs, held, sending, sendQ, lost>>
  BY <1>1 DEF Incomplete, PacketInv, PacketType, Workers
<1>3. /\ PoolInv' /\ refCount' = [refCount EXCEPT ![n] = @ - 1]
      /\ out' = IF refCount[n] = 1 THEN [out EXCEPT ![n] = 0] ELSE out
  BY <1>2, DroppedReference
<1>4. PacketType'
  BY <1>2, <1>3 DEF PacketInv, PacketType
<1>5. PlacesExclude'
  BY <1>2 DEF PacketInv, PacketType, PlacesExclude
<1>6. \A m \in Nodes, p \in Places : Refers(p, m)' <=> Refers(p, m) /\ ~(p = <<"reading", w>> /\ m = n)
  <2>1. \A v \in Workers : reading'[v] = IF v = w THEN None ELSE reading[v]
    BY <1>2 DEF PacketInv, PacketType
  <2> QED
    BY <1>1, <1>2, <2>1, PlacesAre, PacketAssumption DEF Refers
<1>7. Refers(<<"reading", w>>, n)
  BY <1>1 DEF Refers
<1>8. RefCountIsHolders'
  BY <1>2, <1>3, <1>6, <1>7, OnePlaceLess, PlacesAre
<1> QED
  BY <1>3, <1>4, <1>5, <1>8 DEF PacketInv

LEMMA SentStep ==
  ASSUME PacketInv, NEW t \in Threads, NEW s \in Sessions, NEW n \in Nodes, Sent(t, s, n)
  PROVE  PacketInv'
<1>1. /\ n \in sendQ[s] /\ subRef(t, n)
      /\ sendQ' = [sendQ EXCEPT ![s] = @ \ {n}]
      /\ UNCHANGED <<reading, jobs, held, sending, lost>>
  BY DEF Sent
<1>2. /\ PoolInv' /\ refCount' = [refCount EXCEPT ![n] = @ - 1]
      /\ out' = IF refCount[n] = 1 THEN [out EXCEPT ![n] = 0] ELSE out
  BY <1>1, DroppedReference
<1>3. PacketType'
  BY <1>1, <1>2 DEF PacketInv, PacketType
<1>4. \A u \in Sessions : sendQ'[u] = IF u = s THEN sendQ[s] \ {n} ELSE sendQ[u]
  BY <1>1 DEF PacketInv, PacketType
<1>5. PlacesExclude'
  <2>1. \A u \in Sessions : sendQ'[u] \subseteq sendQ[u]
    BY <1>4
  <2>2. sending # NoCall => sending.to \in Sessions
    BY DEF PacketInv, PacketType
  <2> QED
    BY <1>1, <2>1, <2>2 DEF PacketInv, PlacesExclude
<1>6. \A m \in Nodes, p \in Places : Refers(p, m)' <=> Refers(p, m) /\ ~(p = <<"queue", s>> /\ m = n)
  BY <1>1, <1>4, PlacesAre DEF Refers
<1>7. Refers(<<"queue", s>>, n)
  BY <1>1 DEF Refers
<1>8. RefCountIsHolders'
  BY <1>1, <1>2, <1>6, <1>7, OnePlaceLess, PlacesAre
<1> QED
  BY <1>2, <1>3, <1>5, <1>8 DEF PacketInv

LEMMA HandleStep ==
  ASSUME PacketInv, NEW n \in Nodes, Handle(n)
  PROVE  PacketInv'
<1>1. /\ held = {} /\ n \in jobs /\ held' = {n} /\ jobs' = jobs \ {n}
      /\ UNCHANGED <<poolVars, refCount, reading, sending, sendQ, lost>>
  BY DEF Handle
<1>2. PoolInv'
  BY <1>1, PoolStutter DEF PacketInv
<1>3. PacketType'
  BY <1>1 DEF PacketInv, PacketType
<1>4. PlacesExclude'
  BY <1>1 DEF PacketInv, PlacesExclude
<1>5. \A m \in Nodes, p \in Places :
         Refers(p, m)' <=> (Refers(p, m) /\ ~(p = <<"jobs", None>> /\ m = n)) \/ (p = <<"held", None>> /\ m = n)
  BY <1>1, PlacesAre DEF Refers
<1>6. Refers(<<"jobs", None>>, n) /\ ~Refers(<<"held", None>>, n)
  BY <1>1 DEF Refers
<1>7. RefCountIsHolders'
  BY <1>1, <1>5, <1>6, AnotherPlace, PlacesAre DEF poolVars
<1> QED
  BY <1>2, <1>3, <1>4, <1>7 DEF PacketInv

LEMMA InitPacketStep ==
  ASSUME PacketInv, NEW n \in Nodes, InitPacket(n)
  PROVE  PacketInv'
<1>1. /\ Create(Update, n) /\ Update \in Threads /\ held' = held \union {n}
      /\ UNCHANGED <<reading, jobs, sending, sendQ, lost>>
  BY PacketAssumption DEF InitPacket
<1>2. /\ PoolInv' /\ out' = [out EXCEPT ![n] = 1] /\ refCount' = [refCount EXCEPT ![n] = @ + 1]
      /\ \A p \in Places : ~Refers(p, n)
      /\ \A v \in Workers : reading[v] # n
      /\ \A s \in Sessions : n \notin sendQ[s]
      /\ n \notin jobs /\ n \notin held /\ n \notin lost
  BY <1>1, CreatedIsNew
<1>3. PacketType'
  BY <1>1, <1>2 DEF PacketInv, PacketType
<1>4. PlacesExclude'
  BY <1>1, <1>2 DEF PacketInv, PlacesExclude
<1>5. \A m \in Nodes, p \in Places : Refers(p, m)' <=> Refers(p, m) \/ (p = <<"held", None>> /\ m = n)
  BY <1>1, PlacesAre DEF Refers
<1>6. <<"held", None>> \in Places /\ ~Refers(<<"held", None>>, n)
  BY <1>2, PlacesAre
<1>7. RefCountIsHolders'
  BY <1>2, <1>5, <1>6, OnePlaceMore
<1> QED
  BY <1>2, <1>3, <1>4, <1>7 DEF PacketInv

LEMMA SendAddRefStep ==
  ASSUME PacketInv, NEW s \in Sessions, NEW n \in Nodes, SendAddRef(s, n)
  PROVE  PacketInv'
<1>1. /\ sending = NoCall /\ n \in held /\ n \notin sendQ[s]
      /\ sending' = [to |-> s, packet |-> n]
      /\ refCount' = [refCount EXCEPT ![n] = @ + 1]
      /\ UNCHANGED <<poolVars, reading, jobs, held, sendQ, lost>>
  BY DEF SendAddRef, AddRef
<1>2. PoolInv'
  BY <1>1, PoolStutter DEF PacketInv
<1>3. PacketType'
  BY <1>1 DEF PacketInv, PacketType
<1>4. PlacesExclude'
  BY <1>1 DEF PacketInv, PlacesExclude
<1>5. out' = [out EXCEPT ![n] = 1]
  <2>1. <<"held", None>> \in Holders(n) /\ IsFiniteSet(Holders(n)) /\ Cardinality(Holders(n)) \in Nat
    BY <1>1, HoldersAre
  <2>2. Cardinality(Holders(n)) # 0
    BY <2>1, FS_EmptySet
  <2>3. out[n] = 1
    BY <2>1, <2>2 DEF PacketInv, RefCountIsHolders
  <2> QED
    BY <1>1, <2>3 DEF PacketInv, PoolInv, PoolType, poolVars
<1>6. \A m \in Nodes, p \in Places : Refers(p, m)' <=> Refers(p, m) \/ (p = <<"sending", None>> /\ m = n)
  BY <1>1, PlacesAre, PacketAssumption DEF Refers, NoCall
<1>7. ~Refers(<<"sending", None>>, n)
  BY <1>1, PacketAssumption DEF Refers, NoCall
<1>8. RefCountIsHolders'
  BY <1>1, <1>5, <1>6, <1>7, OnePlaceMore, PlacesAre
<1> QED
  BY <1>2, <1>3, <1>4, <1>8 DEF PacketInv

LEMMA SendEnqueueStep ==
  ASSUME PacketInv, SendEnqueue
  PROVE  PacketInv'
<1>1. PICK n, s : n = sending.packet /\ s = sending.to
  OBVIOUS
<1>2. /\ sending # NoCall /\ n \in Nodes /\ s \in Sessions
      /\ sendQ' = [sendQ EXCEPT ![s] = @ \union {n}]
      /\ sending' = NoCall
      /\ UNCHANGED <<poolVars, refCount, reading, jobs, held, lost>>
  BY <1>1 DEF SendEnqueue, PacketInv, PacketType
<1>3. n \in held /\ n \notin sendQ[s]
  BY <1>1, <1>2 DEF PacketInv, PlacesExclude
<1>4. PoolInv'
  BY <1>2, PoolStutter DEF PacketInv
<1>5. PacketType'
  BY <1>2 DEF PacketInv, PacketType
<1>6. \A u \in Sessions : sendQ'[u] = IF u = s THEN sendQ[s] \union {n} ELSE sendQ[u]
  BY <1>2 DEF PacketInv, PacketType
<1>7. PlacesExclude'
  BY <1>2, <1>3, <1>6 DEF PacketInv, PlacesExclude
<1>8. \A m \in Nodes, p \in Places :
         Refers(p, m)' <=> (Refers(p, m) /\ ~(p = <<"sending", None>> /\ m = n)) \/ (p = <<"queue", s>> /\ m = n)
  BY <1>1, <1>2, <1>6, PlacesAre, PacketAssumption DEF Refers, NoCall
<1>9. Refers(<<"sending", None>>, n) /\ ~Refers(<<"queue", s>>, n)
  BY <1>1, <1>3 DEF Refers
<1>10. RefCountIsHolders'
  BY <1>2, <1>8, <1>9, AnotherPlace, PlacesAre DEF poolVars
<1> QED
  BY <1>4, <1>5, <1>7, <1>10 DEF PacketInv

LEMMA DoneStep ==
  ASSUME PacketInv, NEW n \in Nodes, Done(n)
  PROVE  PacketInv'
<1>1. /\ sending = NoCall /\ n \in held /\ Update \in Threads /\ subRef(Update, n)
      /\ held' = held \ {n}
      /\ UNCHANGED <<reading, jobs, sending, sendQ, lost>>
  BY PacketAssumption DEF Done
<1>2. /\ PoolInv' /\ refCount' = [refCount EXCEPT ![n] = @ - 1]
      /\ out' = IF refCount[n] = 1 THEN [out EXCEPT ![n] = 0] ELSE out
  BY <1>1, DroppedReference
<1>3. PacketType'
  BY <1>1, <1>2 DEF PacketInv, PacketType
<1>4. PlacesExclude'
  BY <1>1 DEF PacketInv, PlacesExclude
<1>5. \A m \in Nodes, p \in Places : Refers(p, m)' <=> Refers(p, m) /\ ~(p = <<"held", None>> /\ m = n)
  BY <1>1, PlacesAre DEF Refers
<1>6. Refers(<<"held", None>>, n)
  BY <1>1 DEF Refers
<1>7. RefCountIsHolders'
  BY <1>1, <1>2, <1>5, <1>6, OnePlaceLess, PlacesAre
<1> QED
  BY <1>2, <1>3, <1>4, <1>7 DEF PacketInv

LEMMA EarlyReturnStep ==
  ASSUME PacketInv, NEW n \in Nodes, EarlyReturn(n)
  PROVE  PacketInv'
<1>1. /\ held = {n} /\ sending = NoCall /\ \A s \in Sessions : n \notin sendQ[s]
      /\ held' = {} /\ lost' = lost \union {n}
      /\ UNCHANGED <<poolVars, refCount, reading, jobs, sending, sendQ>>
  BY DEF EarlyReturn
<1>2. n \notin lost
  BY <1>1 DEF PacketInv, PlacesExclude
<1>3. PoolInv'
  BY <1>1, PoolStutter DEF PacketInv
<1>4. PacketType'
  BY <1>1 DEF PacketInv, PacketType
<1>5. PlacesExclude'
  BY <1>1 DEF PacketInv, PlacesExclude
<1>6. \A m \in Nodes, p \in Places :
         Refers(p, m)' <=> (Refers(p, m) /\ ~(p = <<"held", None>> /\ m = n)) \/ (p = <<"lost", None>> /\ m = n)
  BY <1>1, PlacesAre DEF Refers
<1>7. Refers(<<"held", None>>, n) /\ ~Refers(<<"lost", None>>, n)
  BY <1>1, <1>2 DEF Refers
<1>8. RefCountIsHolders'
  BY <1>1, <1>6, <1>7, AnotherPlace, PlacesAre DEF poolVars
<1> QED
  BY <1>3, <1>4, <1>5, <1>8 DEF PacketInv

-----------------------------------------------------------------------------
LEMMA PacketInitial == Init => PacketInv
<1> SUFFICES ASSUME Init PROVE PacketInv
  OBVIOUS
<1>1. PoolInv
  BY PoolInitial DEF Init
<1>2. PacketType /\ PlacesExclude
  BY DEF Init, PacketType, PlacesExclude
<1>3. ASSUME NEW n \in Nodes PROVE Holders(n) = {}
  <2>1. n # None /\ \A w \in Workers : reading[w] = None
    BY PacketAssumption DEF Init
  <2>2. ASSUME NEW p \in Places PROVE ~Refers(p, n)
    <3>1. ASSUME NEW w \in Workers, p = <<"reading", w>> PROVE ~Refers(p, n)
      BY <2>1, <3>1 DEF Refers
    <3>2. ASSUME NEW s \in Sessions, p = <<"queue", s>> PROVE ~Refers(p, n)
      BY <3>2 DEF Refers, Init
    <3>3. CASE p \in {<<"jobs", None>>, <<"held", None>>, <<"sending", None>>, <<"lost", None>>}
      BY <2>1, <3>3 DEF Refers, Init, NoCall
    <3> QED
      BY <3>1, <3>2, <3>3, PlacesAre
  <2> QED
    BY <2>2 DEF Holders
<1>4. RefCountIsHolders
  <2>1. \A n \in Nodes : refCount[n] = 0 /\ out[n] = 0
    BY DEF Init, PoolInit
  <2>2. \A n \in Nodes : Cardinality(Holders(n)) = 0
    BY <1>3, FS_EmptySet
  <2> QED
    BY <2>1, <2>2 DEF RefCountIsHolders
<1> QED
  BY <1>1, <1>2, <1>4 DEF PacketInv

LEMMA PacketStep == PacketInv /\ [Next]_vars => PacketInv'
<1> SUFFICES ASSUME PacketInv, [Next]_vars PROVE PacketInv'
  OBVIOUS
<1>1. ASSUME NEW w \in Workers, (\E n \in Nodes : ReadHeader(w, n)) \/ OnMessage(w) \/ Incomplete(w)
      PROVE  PacketInv'
  BY <1>1, ReadHeaderStep, OnMessageStep, IncompleteStep
<1>2. ASSUME NEW t \in Threads, NEW s \in Sessions, NEW n \in Nodes, Sent(t, s, n)
      PROVE  PacketInv'
  BY <1>2, SentStep
<1>3. ASSUME NEW n \in Nodes, \/ Handle(n) \/ InitPacket(n) \/ Done(n) \/ EarlyReturn(n)
                              \/ \E s \in Sessions : SendAddRef(s, n)
      PROVE  PacketInv'
  BY <1>3, HandleStep, InitPacketStep, DoneStep, EarlyReturnStep, SendAddRefStep
<1>4. CASE SendEnqueue
  BY <1>4, SendEnqueueStep
<1>5. CASE UNCHANGED vars
  <2>1. UNCHANGED poolVars /\ UNCHANGED packetVars
    BY <1>5 DEF vars
  <2>2. PoolInv'
    BY <2>1, PoolStutter DEF PacketInv
  <2>3. PacketType' /\ PlacesExclude'
    BY <2>1 DEF PacketInv, PacketType, PlacesExclude, packetVars
  <2>4. RefCountIsHolders'
    BY <2>1 DEF PacketInv, RefCountIsHolders, Holders, Refers, packetVars, poolVars
  <2> QED
    BY <2>2, <2>3, <2>4 DEF PacketInv
<1> QED
  BY <1>1, <1>2, <1>3, <1>4, <1>5 DEF Next

\* A packet's count is the number of places that refer to it, and it is in the
\* pool exactly when none does: no packet is reused while somebody may send it.
THEOREM ReferencesAreCounted == Spec => []RefCountIsHolders
<1>1. PacketInv => RefCountIsHolders
  BY DEF PacketInv
<1> QED
  BY <1>1, PacketInitial, PacketStep, PTL DEF Spec

\* Whatever the threads do with packets, they use the pool by its calls only: what
\* holds of the pool by itself holds of it here.
THEOREM PacketsUseThePool == Spec => PoolSpec
<1>1. Init => PoolInit
  BY DEF Init
<1>2. PacketInv /\ [Next]_vars => [PoolNext]_poolVars
  <2> SUFFICES ASSUME PacketInv, Next PROVE [PoolNext]_poolVars
    BY DEF vars
  <2>1. ASSUME NEW t \in Threads, NEW n \in Nodes, Create(t, n) \/ subRef(t, n)
        PROVE  [PoolNext]_poolVars
    BY <2>1 DEF Create, subRef, PoolNext
  <2>2. ASSUME NEW w \in Workers, (\E n \in Nodes : ReadHeader(w, n)) \/ OnMessage(w) \/ Incomplete(w)
        PROVE  [PoolNext]_poolVars
    <3>1. w \in Threads /\ (reading[w] # None => reading[w] \in Nodes)
      BY DEF Workers, PacketInv, PacketType
    <3> QED
      BY <2>1, <2>2, <3>1 DEF ReadHeader, OnMessage, Incomplete
  <2>3. ASSUME NEW t \in Threads, NEW s \in Sessions, NEW n \in Nodes, Sent(t, s, n)
        PROVE  [PoolNext]_poolVars
    BY <2>1, <2>3 DEF Sent
  <2>4. ASSUME NEW n \in Nodes, \/ Handle(n) \/ InitPacket(n) \/ Done(n) \/ EarlyReturn(n)
                                \/ \E s \in Sessions : SendAddRef(s, n)
        PROVE  [PoolNext]_poolVars
    BY <2>1, <2>4, PacketAssumption DEF Handle, InitPacket, Done, EarlyReturn, SendAddRef
  <2>5. CASE SendEnqueue
    BY <2>5 DEF SendEnqueue
  <2> QED
    BY <2>2, <2>3, <2>4, <2>5 DEF Next
<1> QED
  BY <1>1, <1>2, PacketInitial, PacketStep, PTL DEF Spec, PoolSpec
=============================================================================
