----------------------------- MODULE BucketPool -----------------------------
(* CBucketPool<T>: every thread takes nodes from a list of its own, filled   *)
(* from the root pool one bucket of NODE_COUNT nodes at a time, and gives    *)
(* nodes to another list of its own, which goes back to the root pool as a   *)
(* bucket when it is full.  A node may come back through a thread that never *)
(* took one, so buckets wander and thread counters go below zero.            *)
(*                                                                           *)
(* A list is the set of its nodes.  The steps of NodeAlloc and NodeFree that *)
(* touch the root pool hold the SRW lock; the others touch only what is the  *)
(* thread's.  Each is one action.                                            *)
EXTENDS Integers, FiniteSets

CONSTANTS
    Threads,      \* the threads that have an entry of tlspool
    NodeCount,    \* NODE_COUNT, the nodes of a bucket
    BucketCount,  \* BUCKET_COUNT, the buckets the constructor makes
    Nodes,        \* the nodes there is memory for
    Dword         \* the counters are kept modulo Dword

ASSUME PoolAssumption ==
    /\ NodeCount \in Nat \ {0} /\ BucketCount \in Nat /\ Dword \in Nat \ {0}
    /\ IsFiniteSet(Nodes)

VARIABLES
    made,              \* the nodes that exist
    allocBucketList,   \* the full buckets of the root pool, each its set of nodes
    freeBucketList,    \* the number of empty buckets kept to be filled again
    useBucketCount, totalBucketCount,
    allocList, freeList, useCount, freeCount, totalCount,  \* the TLSPool of each thread
    out                \* NodePool: how many callers have each node

rootVars == <<made, allocBucketList, freeBucketList, useBucketCount, totalBucketCount>>
tlsVars == <<allocList, freeList, useCount, freeCount, totalCount>>
poolVars == <<rootVars, tlsVars, out>>

Buckets == {b \in SUBSET Nodes : Cardinality(b) = NodeCount}

PoolInit ==
    /\ allocBucketList \in {list \in SUBSET Buckets : Cardinality(list) = BucketCount}
    /\ \A b, c \in allocBucketList : b # c => b \intersect c = {}
    /\ made = UNION allocBucketList
    /\ freeBucketList = 0
    /\ useBucketCount = 0
    /\ totalBucketCount = BucketCount
    /\ allocList = [t \in Threads |-> {}]
    /\ freeList = [t \in Threads |-> {}]
    /\ useCount = [t \in Threads |-> 0]
    /\ freeCount = [t \in Threads |-> 0]
    /\ totalCount = [t \in Threads |-> 0]
    /\ out = [n \in Nodes |-> 0]

-----------------------------------------------------------------------------
\* Mutant: the bucket also stays where it was.
RootWithoutNone(b) == allocBucketList

RootWithout(b) == allocBucketList \ {b}

\* BucketAlloc takes bucket b off the root pool; an empty root makes a new one.
RootBucket(b) ==
    /\ b \in allocBucketList
    /\ allocBucketList' = RootWithout(b)
    /\ UNCHANGED <<made, totalBucketCount>>

NewBucket(b) ==
    /\ allocBucketList = {}
    /\ b \intersect made = {}
    /\ made' = made \union b
    /\ totalBucketCount' = totalBucketCount + 1
    /\ UNCHANGED allocBucketList

\* Mutant: the emptied bucket is dropped.
EmptiedDropped(headers) == headers

\* The emptied bucket goes to freeBucketList.
Emptied(headers) == headers + 1

\* The caller t has node n from now on.
HandOut(t, n) ==
    /\ out' = [out EXCEPT ![n] = @ + 1]
    /\ useCount' = [useCount EXCEPT ![t] = (@ + 1) % Dword]
    /\ UNCHANGED <<freeList, freeCount>>

AllocFromList(t, n) ==
    /\ n \in allocList[t]
    /\ allocList' = [allocList EXCEPT ![t] = @ \ {n}]
    /\ HandOut(t, n)
    /\ UNCHANGED <<rootVars, totalCount>>

\* Mutant: a thread asks for a bucket when it is down to its last node.
NoneLeftButOne(t) == Cardinality(allocList[t]) <= 1

NoneLeft(t) == allocList[t] = {}

AllocFromBucket(t, b, n) ==
    /\ NoneLeft(t)
    /\ n \in b
    /\ RootBucket(b) \/ NewBucket(b)
    /\ allocList' = [allocList EXCEPT ![t] = b \ {n}]
    /\ totalCount' = [totalCount EXCEPT ![t] = (@ + NodeCount) % Dword]
    /\ freeBucketList' = Emptied(freeBucketList)
    /\ useBucketCount' = useBucketCount + 1
    /\ HandOut(t, n)

NodeAlloc(t, n) ==
    AllocFromList(t, n) \/ \E b \in Buckets : AllocFromBucket(t, b, n)

-----------------------------------------------------------------------------
TakeBack(t, n) ==
    /\ out[n] > 0
    /\ out' = [out EXCEPT ![n] = @ - 1]
    /\ useCount' = [useCount EXCEPT ![t] = (@ - 1) % Dword]
    /\ UNCHANGED <<made, totalBucketCount, allocList>>

FreeToList(t, n) ==
    /\ freeCount[t] + 1 < NodeCount
    /\ TakeBack(t, n)
    /\ freeList' = [freeList EXCEPT ![t] = @ \union {n}]
    /\ freeCount' = [freeCount EXCEPT ![t] = @ + 1]
    /\ UNCHANGED <<allocBucketList, freeBucketList, useBucketCount, totalCount>>

\* Mutant: the list that went to the root pool is not cleared.
ListAfterBucketKept(list) == list

\* freeList once its nodes have become a bucket.
ListAfterBucket(list) == {}

\* BucketFree fills an empty bucket, which it takes from freeBucketList without
\* looking whether there is one.
FreeToBucket(t, n) ==
    /\ freeCount[t] + 1 >= NodeCount
    /\ TakeBack(t, n)
    /\ allocBucketList' = allocBucketList \union {freeList[t] \union {n}}
    /\ freeBucketList' = freeBucketList - 1
    /\ useBucketCount' = useBucketCount - 1
    /\ freeList' = [freeList EXCEPT ![t] = ListAfterBucket(@)]
    /\ totalCount' = [totalCount EXCEPT ![t] = (@ - NodeCount) % Dword]
    /\ freeCount' = [freeCount EXCEPT ![t] = 0]

NodeFree(t, n) == FreeToList(t, n) \/ FreeToBucket(t, n)

PoolNext == \E t \in Threads, n \in Nodes : NodeAlloc(t, n) \/ NodeFree(t, n)

PoolSpec == PoolInit /\ [][PoolNext]_poolVars

-----------------------------------------------------------------------------
\* The nodes that are not in the root pool: in the lists of threads, or given out.
Outside == made \ UNION allocBucketList

\* BucketFree never finds freeBucketList empty, which it would dereference: the
\* buckets that were emptied and not filled again hold, together, the nodes
\* outside of the root pool, whichever threads these came and went through.
BucketFreeFindsBucket ==
    /\ freeBucketList >= 0
    /\ freeBucketList = useBucketCount
    /\ Cardinality(Outside) = NodeCount * freeBucketList

\* The counters of a thread agree with its lists, modulo the width they wrap at,
\* although useCount falls below zero in a thread that frees what others took.
ThreadCountersAddUp ==
    \A t \in Threads :
        /\ freeCount[t] = Cardinality(freeList[t])
        /\ totalCount[t] = (useCount[t] + Cardinality(allocList[t]) + Cardinality(freeList[t])) % Dword

\* The pool grows only when its nodes are in use, but for what each thread can
\* keep: less than a bucket to give out, and less than a bucket given back.
GrowsOnlyWhenNeeded ==
    [][made' # made =>
        Cardinality(made) <= Cardinality({n \in Nodes : out[n] > 0})
                                 + (2 * Cardinality(Threads) - 1) * (NodeCount - 1)]_poolVars

\* A node is given to one caller at a time.
Promise == INSTANCE NodePool
KeepsPromise == Promise!Spec
=============================================================================
