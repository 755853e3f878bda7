# Verification of the Omok game server

TLA+ models of the server under `src/OmokGameServer`, checked with TLC, with theorems
checked by TLAPS. Line numbers refer to files of that directory.

## The system

A Windows IOCP server. One **accept** thread gives each connection a slot of
`sessionArray`. **Worker** threads take completions of receives and sends from the
completion port; a received message becomes a job in one queue. One **update** thread
takes the jobs in order and is the only one that touches users, rooms and games; it
sends by putting packets into the send queue of a slot and waking a worker.

| Component | State | Operations | Interacts through |
|---|---|---|---|
| Omok board (`COmokBoard`, `GameRecord`) | board, record, game flag, turn | place, record, reset, start, over, winner test | owned by a room |
| Room (`CRoom`) | roster, two seats, player count, board | add, erase, seat, cancel seat, game wrappers | called by the handlers |
| Users and handlers (`CServer`) | `userManager`, `_accountKey`, `CUser`, counters | join, login, release, enter, leave, chat, seat change, ready, cancel, stone | jobs in; packets out; `Disconnect` |
| Session slots (`CNetLibrary`, `Session`) | `IOCount`, id, flags, `sendQ`, `sendingArray`, pending I/O | accept, `RecvPost`, `SendPost`, `ReleaseSession`, `SendMessages`, `Disconnect` | shared by all threads, Interlocked operations only |
| Queue, stack, pools (`CLFQueue`, `CLFStack`, `CMemoryPool`, `CBucketPool`) | linked nodes, stamps, counters | lock-free push/pop, bucket transfer | used by slots, jobs, packets |
| Packet, ring buffer (`CPacket`, `CRBuffer`) | reference count, write position; two positions | AddRef/subRef; enqueue, peek, move | slots and jobs |

What is hard here: `IOCount` is the only thing that keeps four kinds of threads from
using a slot after it is released; the send path is a hand-written wake-up protocol;
jobs of one session are queued by three kinds of threads; and the handlers keep four
tables (`userManager`, `_accountKey`, rosters, seats) and several flags in agreement
without a common place that does so. `DebugBreak` is the assertion of this code: with no
debugger attached it ends the process. The models treat it so (`halted`).

`PROJECT.json` lists the hazards, each at its line with the properties that watch it.

## The modules

| Module | Models | Lines it follows |
|---|---|---|
| `OmokBoard` | the board of a room, as operators on a record | `COmokBoard.*`, `CRoom.cpp`, the test of `CServer::PutStone` |
| `OmokGame` | one board under any moves | `CServer.cpp` 1393-1425, 1683-1764 |
| `Gomoku` | the game the board is to play (abstract) | none |
| `GameServer` | users, accounts, rosters, seats, ready, games, counters: one action per job | `CServer.cpp` 92-180, 437-584, 1003-1764, `CRoom.h` |
| `Presence` | where an account is: offline, lobby, one room (abstract) | none |
| `RoomView` | what the members of a room have been told of it; extends `GameServer` | `CServer.cpp` 772-892, 1003-1105, 1219-1629 |
| `Packet` | how much room what the handlers write takes, as operators | `CPacket.cpp`, the `Make...Packet` functions of `CServer.cpp` |
| `NetSession` | slots, threads, completion port, job queue: one step per shared access | `CNetLibrary.cpp` 61-718, `CServer.cpp` 182-237, 340-402 |
| `LFQueue` | the lock-free queue, and the event that wakes its consumer | `CLFQueue.h`, `CServer.cpp` 191-196, 353-358 |
| `IndexPool` | the lock-free stack, as the index pool uses it | `CLFStack.h`, `CNetLibrary.cpp` 49-53, 345-357 |
| `MemoryPool` | the free list under the queues and the stack | `CMemoryPool.h` |
| `BucketPool` | the pool with lists of its own for every thread | `CBucketPool.h` |
| `NodePool` | what a pool promises (abstract) | none |
| `PacketPool` | packets: the pool, the reference counts and the threads that hold references; extends `BucketPool` | `CPacket.h`, `CNetLibrary.cpp` 478-540, 687-697, the handlers |
| `RecvBuffer` | a session's ring buffer, `WSARecv` and the worker's loop over messages | `CRBuffer.h`, `CNetLibrary.cpp` 122-152, 469-533 |
| `MCGameServer`, `MCRoomView`, `MCNetSession`, `MCIndexPool`, `MCMemoryPool`, `MCPacketPool` | bounds and symmetry for TLC | none |
| `OmokGame_proofs`, `RoomView_proofs`, `NetSession_proofs`, `PacketPool_proofs`, `RecvBuffer_proofs`, `LFQueue_proofs`, `MemoryPool_proofs`, `IndexPool_proofs` | theorems; those of `OmokBoard` are in `OmokGame_proofs`, those of `GameServer`, `Presence` and `Packet` in `RoomView_proofs` | none |

**OmokBoard / OmokGame.** A board is `[cells, record, gameFlag, turn]`. `AfterMove` is
what an accepted `PutStone` does: stone, record, turn toggle, then draw test and winner
test, then the game flag. Refused moves change nothing and are stuttering. The size of
the board, the row length and the capacity of the record are constants;
`BoardAssumption` says what the literals 15, 5 and 255 satisfy. The constructor leaves
`_turn` unset, so `NewBoards` has both values.

**GameServer.** Each action is one job, the whole handler with every call it makes. A
user is a session: `account`, `room`, `position`, `ready` are its `CUser` fields,
`players` the seats of a room, `userMap` its roster. A handler that answers "no" and
changes nothing is a stuttering step; so are chat and the room list. Where the code would
stop (an assertion, a null pointer, an erase at the end iterator) the action sets
`halted` to the reason and nothing follows. Clients follow the protocol: one login per
connection, requests with their own account and position and the room they believe they
are in. That belief is `view`, because one handler makes it wrong (a leave during a
game). Other requests still in flight when the client's state changes are not modelled.

**RoomView** adds to every action of `GameServer` the answers and alarms its handler
sends, to whom, and what they say: `told` is what a client knows of its room once it has
read them. Packets of one session arrive in order, so `told` changes where they are
queued. Two exceptions to full knowledge are recorded where the code makes them:
`vanished` (`ReleaseUser` tells nobody) and `halfTold` (`EnterSuccess` sends the seats
only while `_playerCnt` is positive, which it need not be while players sit). The list of
members is measured with `Packet` and stops the server when it outgrows its buffer.

**NetSession.** Threads have a program counter (`at`), a slot and a session id. A step is
one access other threads can tell apart: an Interlocked operation on `IOCount`,
`sendFlag` or `disconnectFlag`, one operation on the job queue, the send queue or the
index pool, or the read of a shared field on which a later step relies (for instance
`ReadID`: the id for `ReleaseSession` is read after the count has reached 0). Several
accesses are one step where no other thread can see the difference. The kernel completes
what is pending; the peer sends, leaves or resets. A worker takes completions in any
order. Update's handlers are reduced to what they do to sessions: join, leave, login,
login of an account already in use, and any other request, which sends to one logged in
session or to none.

**LFQueue, IndexPool, MemoryPool** have one step per access to memory other threads
touch, with the local variables of each call in `thread` (`producer`, `consumer`). Nodes
are reused: a thread can hold the address of a node that has been freed and belongs to
another by now. The server object is global, so the members no constructor sets (the
stamps, `topNode`) start at zero. In `CLFStack` the stamp is computed by
`prevTop >> 47 + 1`, which is a shift by 48, so it stays zero; `IndexPool` has it so.
In `CLFQueue` the link between nodes has no stamp; `stale` records that a producer has
linked its node behind one that is not in the list any more. Stamps are not wrapped: 17
bits of frees do not pass during one call.

**BucketPool, PacketPool.** `NodeAlloc` and `NodeFree` are each one action: what they do
to the root is under a lock, what they do to a thread's lists no other thread sees. A
list is the set of its nodes, so whichever node of it is handed out is covered. Counters
wrap at `Dword`. `PacketPool` adds who holds packets: a worker that reads, the job queue,
the handler of the update thread (with the alarm it makes beside the answer), a send
under way between `AddRef` and `Enqueue`, the sessions' queues, and the requests early
returns drop without `subRef` (`lost`).

**RecvBuffer.** A byte is its place in the client's stream. A receive completes with any
number of bytes; the worker cuts what is there into messages and posts the next receive
with the one or two free areas. A header that is read at a wrong place says anything, so
that a slip of one byte does not go unnoticed.

**How they fit together.** `NetSession` takes the queue as a FIFO queue and the index
pool as a set; `LFQueue` and `IndexPool` check what makes that sound (`IsAQueue`,
`ItemsComeOutOnce`, `IndexIsInOnePlace`), and show its limit: after a stale link the items
of two producers can come out in another order than they were linked in. `LFQueue` and
`IndexPool` take their nodes from a pool; `MemoryPool` shows it to keep `NodePool`'s
promise. `GameServer` takes the job queue as an order in which jobs arrive; `JobsInOrder`
and `QueuedIsTaken` of `NetSession` are what it relies on. `RecvBuffer` justifies that a
receive is a message in `NetSession`.

## What the runs check

All runs but `IndexPool` set `CHECK_DEADLOCK FALSE`: the models stop where the program
ends (`halted`), and where a bound is used up. `IndexPool` has no bound on its steps.

| Run | Shows | Bounds |
|---|---|---|
| `OmokGame` | the record replays to the board and the turn is its parity; a row ends the game and only the winner has one; the record never fills; the board implements `Gomoku` | 3 x 3, three in a row, record of 10 |
| `GameServer` | `_accountKey`, rosters, seats, ready flags and counters agree with the users; which assertions can be tripped; two ready players always have a game; who starts one, with one exception; implements `Presence` | 4 sessions, 3 accounts, 1 room for 2, board 2 x 2 with two in a row |
| `RoomView` | a member knows who is in the room, who sits where, who is ready and whether a game runs, but for the two exceptions above; only the list of members outgrows its packet | 4 sessions, 4 accounts, 1 room for 4, packets of 100 bytes, names of 19 |
| `NetSafety` | `IOCount` counts exactly the references; a slot given back is quiet; one sender at a time; packets are released once; a session's jobs are in order; which assertions can be tripped | 1 slot, 2 workers, 2 sessions, 3 messages |
| `NetLiveness` | what is queued to send is taken; a disconnected or abandoned session gives its slot back | 1 slot, 2 workers, 2 sessions, 2 messages |
| `LFQueue` | FIFO unless a link was stale; no item lost or doubled even then; no node in two places; every item arrives | 2 producers with 2 items each, 4 nodes |
| `IndexPool` | every index is free, owned or being carried, once; the size promises what is there | the accept thread, which pushes and pops, 3 others that push, 3 indices |
| `MemoryPool` | whoever counted itself in finds a node; no node is lost; the counters are exact; implements `NodePool` | 3 threads, 3 nodes, 3 frees |
| `PacketPool` | an empty bucket is found whenever one is needed; counters add up; the pool grows only when its nodes are in use; a packet has as many holders as its count says; implements `NodePool` | 2 threads, 6 nodes in buckets of 2, 4 packets in use, 2 sessions |
| `RecvBuffer` | messages come out whole and in order; a receive's areas are the free bytes; a message whose last byte came is delivered | ring of 6 bytes, payloads of 1 to 3, 4 messages, any stream and any cut |

Why these are enough to meet the interesting cases:

- 3 x 3 has rows in all four directions, rows completed from the end and by filling the
  gap, boards that fill without a winner, and games after games with either starter.
- Three accounts and a room for two reach a full room, two players and a third who
  waits; the fourth session lets an account come back after it was disconnected, which
  meets the seat it left behind. On a 2 x 2 board with rows of two a game is won at
  the third stone, so that whole games, their end and a restart happen. `PlayerCntRange`
  bounds the drift of `_playerCnt`.
- In `RoomView` everybody but the requester is a different case (opponent, other player,
  spectator, newcomer), hence four. A packet of 100 bytes with names of 19 holds two
  other members, so that a room that is not full has lists that fit and lists that do
  not; the proofs have the real 512.
- One slot is the worst case for reuse: the second session always gets the first one's
  slot. Two workers reach every pair of roles on the send path; the third message lets a
  login, a login of the same account and a send be in one run.
  The slot is found from the id and threads hold one slot at a time, so a second slot adds
  sessions side by side and no new interleaving on one `IOCount`.
- Stale links need a node to be freed and taken by another producer between two steps of
  the first: two producers with two items, and fewer nodes than items and dummies.
- Three releasing threads and one that pops let the top of the stack go and come back
  under a push; three threads at the free list let one pop and push between two steps of
  another while a third holds the node below.
- With buckets of two and two threads, a thread that only frees fills buckets another
  emptied, counters pass zero in both directions (`Dword` is 4), and the pool grows twice.
- Streams of four messages are longer than two turns of the ring of six bytes, so front
  and rear meet every wrap-around, in the header and in the payload.
- Symmetry is used in runs of safety properties only.

**Fairness.** `NetSession`: weak fairness for each thread: the operating system runs
every runnable thread, and none of them waits for another except through the queues.
Weak fairness of `KernelStep`: a receive on a reset connection completes, and so does a
send, which assumes that the peer reads or goes away. Nothing is assumed of arrivals,
of new connections or of peers leaving. The order in which workers take completions is
free, so both liveness properties hold for every order. `LFQueue`: weak fairness for each
producer's `Enqueue` and for the consumer, the scheduler again; the loops retry only when
another thread has moved on. `RecvBuffer`: weak fairness of the worker alone; the client
may stop in the middle of a message.

**Runs that end in a violation.** Each checks what a comment of the code says:

| Run | Says | What happens |
|---|---|---|
| `OmokDraw` | `CRoom.cpp:19`: flag 3 is a draw | the record never holds 255 stones; a full board stays "in game" |
| `NetLogin` | `CServer.cpp:467`: the previous session is disconnected | the slot belongs to another client by then |

**Assertions that can be tripped.** `OnlyKnownHalts` states, in `GameServer` and in
`NetSession`, that clients which follow the protocol trip none of the modelled assertions
but these; each was met in the model by a run that denied it:

| Where | How |
|---|---|
| `CServer.cpp:172` | a client connects and leaves without a login, or was refused one |
| `CServer.cpp:1198` | a leave during a game is carried out and answered with "no" (line 943); the client's next request about the room |
| `CServer.cpp:1668` | the opponent's connection went, or it left, before the winning stone: a null pointer |
| `CNetLibrary.cpp:621`, `682` | `Disconnect` or `SendMessages` finds another session in the slot, which drops its own references before this one is given back |
| `CServer.cpp:112` | update takes a reference after a worker has dropped the last one, and drops it: both go to `ReleaseSession` (`CNetLibrary.cpp:549`, `716`). One releases, accept reuses the slot, its session ends, and the compare and swap of the other succeeds under the id of the first session, which leaves twice |
| `CServer.cpp:828` (`RoomView`) | the list of members outgrows its packet: 12 others with names of 19 characters fit, a room takes 20 |

The pools and the queue hold more than they look: a stack without a working stamp loses
no index because one thread alone pops (with more, mutant `AllPop`, it does), and a stale
link of the queue only changes the order of items.

## What is proved

For every value of the constants that satisfies the assumptions of the module. Each module
of proofs is one inductive argument, or a few; there is one lemma per action, split by the
conjuncts the action can disturb.

- `OmokGame_proofs!RecordIsTheGame`: type correctness and `RecordFollowsGame`, which is
  inductive. A move appends the stone it places (`MoveAllowed` makes the point free, so
  the record has no point twice, and gives the colour the parity that the turn has).
- `OmokGame_proofs!RecordHasRoom`: the record array is never full, over any number of
  games, so it is never written past its end and the draw of run `OmokDraw` is unreachable
  on a board of any size. The record repeats no point, so by the pigeonhole principle it
  has no more entries than the board has points.
- `OmokGame_proofs!RowsAreFound`: `CheckWinner` looks only at the lines through the last
  stone, and counts in both directions until the colour ends. While a game runs there was
  no row before the stone, so a new row has the stone in it, and the run counted around
  the stone is at least the row; a run that long is a row. The count of a direction is the
  size of a set of distances that has all those below its own, hence an interval
  (`PrefixIsInterval`), so no induction is needed. `BoardPlaysGomoku`: with `Alternates`
  (the two colours differ by the turn) every call of the board is a step of `Gomoku` or a
  stutter.
- `RoomView_proofs!ServerInvariant`: `[]IInv` of `GameServer`. The properties lean on each
  other: a seat is found because the roster is right, the roster is right because the key
  table is. `IInv` is their conjunction with `AbsentUsersAreBlank`, which the properties
  do not state but need: a session without a user has the fields of a fresh `CUser`, and a
  seat never names a session id that was not given out yet. Without it a new connection
  could, for all the other parts say, already own a seat or a room. From `IInv` follow
  `TypeCorrect`, `AssertionsHold` and the action property `StartsNeedTwoPlayers`
  (`StartersAreSeated` is what it needs of the tables). `ReadyPairsAlwaysPlay` and
  `CountersAreExact` are inductions of their own on top of it, the second with the
  cardinality theorems and `Sessions` finite; with it follows `TablesAgree`.
- `RoomView_proofs!ServerKeepsPresence`: `GameServer` implements `Presence`. `IInv` makes
  what the key table and the rosters say of an account (`Where`) the same as what its
  session says (`Place`), which every job changes for one account at most; the capacity of
  a room is that of its roster, and `Accounts` is finite. Rooms are not named "offline" or
  "lobby", which `ServerAssumption` says because the abstract state uses those names.
- `RoomView_proofs!MembersAreInformed`: as long as the server runs, `IInv` holds and every
  member of a room knows its roster, its game and its seats (`RoomInv`). A handler tells
  those on the roster, and `IInv` says that these are the sessions of the room. The part
  that is not in the properties: who is in `vanished` is not on the roster; otherwise an
  account that comes back and leaves again would be forgotten by those who saw it vanish.
  `RoomIsSeen` and `SeatsAreSeen` follow; of a server that an assertion has stopped they
  say nothing. `RostersOverflowOnly` has the server's 512 bytes and its longest names.
- `RoomView_proofs!AnswersFit`, `AlarmsFit`, `RosterLimit`, `ShortNamesFit`: with 512
  bytes every answer and every alarm fits, for all names up to 19 and chats up to 127
  characters, but the list of members: with names of 19 it fits if and only if it has at
  most twelve; with names up to eleven a full room fits. `AnswersFit` rests on `Clear`,
  which each handler calls before it writes its answer over the request.
- `NetSession_proofs!Invariant`, for any number of slots and workers and any number of
  sessions and messages. `Counted` is `CountIsReferences` as an equation: `ioCount` of a
  slot is the threads that hold a reference to it, the requests at the kernel or in the
  port, and `RELEASE` while the slot is not in use. What it needs besides:
  - `FlaggedIsQuiet` and `OneOwner`: a slot not in use has no request, no packet and one
    owner (the pool, the accept thread or the thread that pushes it), so that the compare
    and swap from 0 to `RELEASE` is won once.
  - `OneAtRecv` and `OneAtSend`: one receive at a time, and one holder of `sendFlag`; they
    make what a step takes out of a slot what an earlier step put there.
  - `LeftOver`: a failed `WSASend` leaves `sendCount` behind. It is not taken for packets
    of the next session, as whoever gathers there finds the queue not empty.
  - `RequestsAreBounded`: every request for a wake-up stems from one message, which is in
    one place at a time. With it a count without the flag stays below `RELEASE`, which is
    `FlagTellsUse`. `NetAssumption` asks for a `RELEASE` above the number of messages, of
    threads and 3; the code has 0x10000, so the theorems speak of executions in which
    fewer than some 65000 messages arrive. What the flag can really stand is that many
    messages and requests not dealt with yet, the sum that this part bounds; the model has
    no smaller bound for it, and neither has the code.
  - `IDsInOrder`, `IDsAreKnown`, `JobsAreKnown`: ids are given out in order and stay with
    their slot, so a thread with an old id is found out by the comparison in `Compare`.
  - `LiveHasUser`: a session that is there has a user or a join job before its other jobs,
    which `JobsInOrder` does not say and `OnlyKnownHalts` needs.

  Theorems: `Typed`, `CountsReferences`, `FlagTellsUse`, `FreeIsQuiet`, `SendsAlone`,
  `HeldOnce`, `InOrder`, `KnownHalts`.
- `PacketPool_proofs!PoolInvariant`: a node is given out, in one thread's list, in one
  bucket or not made yet, and every bucket has `NodeCount` nodes. `EmptyBucketIsFound`
  counts: the nodes outside of the root are `NodeCount` times the empty buckets, so when a
  thread has a full list to give back there is at least one, whoever took those nodes.
  `PoolKeepsPromise` is the refinement of `NodePool`. `ReferencesAreCounted` is an
  induction of its own over who holds a packet, with `PacketsUseThePool` for the pool
  beneath it: each step moves one holder, and the counts of the other packets stay.
- `PacketPool_proofs!CountersAddUp`: `CountersMatch` states the equation of the counters
  in the integers, with a multiple of `Dword` for the wrap-arounds; its remainder is the
  property. `PoolGrowsWhenNeeded`: nodes outside of the root are in use or in a list of a
  thread, and `NodesAreKept` bounds what those lists keep back.
- `RecvBuffer_proofs!BufferInvariant`: cell `After(front, i)` holds byte `arrived - used +
  i + 1` of the stream for every `i` below the used size `used`, and `code` is that size
  while the worker is in its loop. From it, for a ring of any size and any cut of the
  stream, `StreamIsDelivered` and `ReceiveFitsTheRing`: the areas are exactly the free
  cells and never empty, as a whole message fits the ring (`HeaderSize + MaxSize <
  BufferSize`).
- `MemoryPool_proofs!Invariant`: the free list, which the module defines as the least set
  that has the top and what its nodes lead to (`Leads`), is exactly the nodes that were
  made and that nobody has (`Chained`). That the compare and swap of a pop puts the right
  node on top rests on the stamps: a free has a stamp that was never at the top
  (`StampsAreFresh`), so while a top has the stamp it was seen with, nodes were only
  popped, and its node is still at the top or out of the list (`SeenIsNotBelow`), and what
  was read behind it is still behind it (`NextIsKnown`). `CountsAgree` has the two
  counters and the nodes promised to those who were told there is one. Theorems:
  `NothingIsLost`, `PoppersAreServed`, `CountersCount`, and `PoolKeepsItsPromise`, the
  refinement of `NodePool`.
- `IndexPool_proofs!Invariant`: the same chain, without stamps. In their place stands
  `PopIsCurrent`: what the accept thread has read of the top's node stays true, for a node
  in the list is not written to and nobody else takes it out; so its compare and swap is
  right whenever the node is the same, and that of a push is right whatever happened
  between (`PushIsLinked`). `Placed` and `SizeAgrees` count with it. Theorems:
  `IndexHasOnePlace` and `SizeIsKept`. They need no stamp and no bound on the threads that
  release, only that one thread pops; that thread pushes as well.
- `LFQueue_proofs!Invariant`, for any number of producers, items and nodes, in two layers.
  The first survives a stale link: every node in use leads to a node in use that is not
  the dummy and not a producer's new node, and no two lead to the same (`Chained`), so the
  nodes are chains, of which the list is one; every item sent has come out or is in one
  node (`ItemsAreKept`); `size`, what is promised to the consumer and the producers that
  have not counted yet account for what was linked (`SizeAgrees`). When the consumer moves
  `tail` it moves it off the dummy, which is why `tail` is never null (`TailIsKnown`). The
  second layer, `ListIsOrder`, holds until a link is stale: the nodes from the dummy on
  are one sequence without repetition, with the items that were linked and have not come
  out, and a new node leads nowhere. A link behind a node of the list is then a link at
  its end, as no other node of it leads to null. Theorems: `NodesHaveOnePlace` and
  `ItemsComeOut` from the first layer (all out and `size` 0 leave no room for a full node:
  the free list has all nodes but one), `DequeueFindsItsItem` and `QueueInOrder` from the
  second. The last needs that the node at `i` of the list leads to exactly those behind
  it: the least one it would not lead to has one before it that it does lead to.
  `QueueAssumption` asks for finitely many producers.

The inductive invariants were checked with TLC on the instances of the runs before they
were proved.

Only model-checked, and why:

- Liveness (`QueuedIsTaken`, `GoneIsReleased`, `EveryItemArrives`,
  `WholeMessagesAreDelivered`): fairness and `ENABLED` are out of the prover's reach.
- The runs that end in a violation: a counterexample needs no proof. That the draw cannot
  be reached on a board of any size is `RecordHasRoom`.

## What is not modelled

- Creating rooms: the handler begins with `DebugBreak`. `MakeGetUserListPacket`,
  `MakeLeaveAlarmPacket` and `MakeRecordPacket`: not called.
- `Encoding` and `Decoding` of packets: not called; they expect a header of five bytes,
  and the server's has two.
- Names and chats longer than the buffers they are read into: clients follow the protocol.
- Start-up, shutdown of the threads, `Pause`, monitoring, TPS counters and printing. Of
  message 59000 only the answer's size is modelled: it changes nothing.
- The capacity of 512 bytes of the packet a message is copied into: `RecvBuffer` lets a
  payload have any size up to `MaxSize`. With the header a payload of 511 bytes would not
  fit; no request of the protocol is that long.
- The loop of `SendPost` when 200 packets wait for one session, and a send posted after
  `CancelIoEx`: whether they end depends on the peer alone.
- Statistics of the pools (`GetUseNode` and the like), destructors, `CPool`, and `Enqueue`
  of `CRBuffer`: not called, or they change nothing.
- The code no part of the server calls (`CGroup*`, `CGameServerInterface`,
  `CNetworkClientLib`, `CMonitorChatClient`, `CRedisDBManager`).

## Plan

Done, in this order: the board and its game; the server's tables; the session slots; the
inductive invariants of the board and the server; the queue, the stack and the pools; the
ring buffer and the packets with their invariants; what the members of a room are told;
the theorems of the rows, the room's view, the sessions, the pools, the stack and the
queue.

Next:

1. Clients whose requests cross a change of their own state (cancel of ready at the end of
   a game, two seat changes in flight).
2. `LFQueue` over the steps of `MemoryPool` rather than over its promise.
