-------------------------- MODULE RecvBuffer_proofs --------------------------
(* The receive path, for any size of buffer and of payload and any number of *)
(* messages: what the worker cuts out of the ring is what the client sent.   *)
EXTENDS RecvBuffer, TLAPS

-----------------------------------------------------------------------------
(* The arithmetic of the ring.                                               *)

LEMMA Sizes == BufferSize \in Nat /\ BufferSize > 3 /\ MaxSize \in Nat /\ HeaderSize = 2 /\ Messages \in Nat
  BY BufferAssumption

LEMMA UseAndFree ==
  ASSUME NEW f \in Cells, NEW r \in Cells
  PROVE  /\ UseSize(f, r) \in 0 .. BufferSize - 1
         /\ FreeSize(f, r) \in 0 .. BufferSize - 1
         /\ UseSize(f, r) + FreeSize(f, r) = BufferSize - 1
  BY Sizes DEF Cells, UseSize, FreeSize

LEMMA AfterIsCell ==
  ASSUME NEW p \in Cells, NEW i \in 0 .. BufferSize - 1
  PROVE  After(p, i) \in Cells
  BY Sizes DEF Cells, After

LEMMA AfterAdds ==
  ASSUME NEW p \in Cells, NEW i \in Nat, NEW j \in Nat, i + j < BufferSize
  PROVE  After(After(p, i), j) = After(p, i + j)
  BY Sizes DEF Cells, After

\* The data end where rear is, and a received byte moves only the end.
LEMMA RearIsAfterData ==
  ASSUME NEW f \in Cells, NEW r \in Cells
  PROVE  After(f, UseSize(f, r)) = r
  BY Sizes DEF Cells, After, UseSize

LEMMA RearMoves ==
  ASSUME NEW f \in Cells, NEW r \in Cells, NEW n \in Nat, n <= FreeSize(f, r)
  PROVE  /\ MoveRear(f, r, n) = After(r, n) /\ After(r, n) \in Cells
         /\ UseSize(f, After(r, n)) = UseSize(f, r) + n
  BY Sizes DEF Cells, After, UseSize, FreeSize, MoveRear

LEMMA FrontMoves ==
  ASSUME NEW f \in Cells, NEW r \in Cells, NEW n \in Nat, n <= UseSize(f, r)
  PROVE  /\ MoveFront(f, r, n) = After(f, n) /\ After(f, n) \in Cells
         /\ UseSize(After(f, n), r) = UseSize(f, r) - n
  BY Sizes DEF Cells, After, UseSize, MoveFront

\* Peek goes round the ring as the pointers do.
LEMMA PeekIsAfter ==
  ASSUME NEW f \in Cells, NEW r \in Cells, NEW i \in 0 .. UseSize(f, r) - 1
  PROVE  Peek(f, r, i) = After(f, i)
  BY Sizes DEF Cells, After, UseSize, DirectDequeueSize, Peek

\* The two areas of a receive are all of the free space, in the order of the ring.
LEMMA AreasAreAll ==
  ASSUME NEW f \in Cells, NEW r \in Cells
  PROVE  LET a == Areas(f, r) IN
         /\ a.at = r /\ a.len \in Nat /\ a.rest \in Nat
         /\ a.len + a.rest = FreeSize(f, r)
         /\ a.rest > 0 => a.len = BufferSize - r
         /\ r + a.len <= BufferSize /\ a.rest <= r
  BY Sizes DEF Cells, UseSize, FreeSize, DirectEnqueueSize, Areas

LEMMA AreasAreFreeCells ==
  ASSUME NEW f \in Cells, NEW r \in Cells, NEW c \in Cells
  PROVE  (c \in r .. r + Areas(f, r).len - 1 \/ c < Areas(f, r).rest)
            <=> c \in {After(r, i) : i \in 0 .. FreeSize(f, r) - 1}
<1>1. PICK len, rest : len = Areas(f, r).len /\ rest = Areas(f, r).rest
  OBVIOUS
<1>2. /\ len \in Nat /\ rest \in Nat /\ len + rest = FreeSize(f, r)
      /\ rest > 0 => len = BufferSize - r
      /\ r + len <= BufferSize /\ rest <= r
  BY <1>1, AreasAreAll
<1>3. c \in Nat /\ r \in Nat /\ c < BufferSize /\ r < BufferSize
  BY Sizes DEF Cells
<1>4. ASSUME c \in r .. r + len - 1 PROVE \E i \in 0 .. len + rest - 1 : c = After(r, i)
  <2>1. c - r \in 0 .. len + rest - 1 /\ After(r, c - r) = c
    BY <1>2, <1>3, <1>4, Sizes DEF After
  <2> QED
    BY <2>1
<1>5. ASSUME c < rest PROVE \E i \in 0 .. len + rest - 1 : c = After(r, i)
  <2>1. c + BufferSize - r \in 0 .. len + rest - 1 /\ After(r, c + BufferSize - r) = c
    BY <1>2, <1>3, <1>5, Sizes DEF After
  <2> QED
    BY <2>1
<1>6. ASSUME NEW i \in 0 .. len + rest - 1, c = After(r, i)
      PROVE  c \in r .. r + len - 1 \/ c < rest
  BY <1>2, <1>3, <1>6, Sizes DEF After
<1> QED
  BY <1>1, <1>2, <1>4, <1>5, <1>6

-----------------------------------------------------------------------------
(* The worker and its buffer.                                                *)

BufferType ==
    /\ start \in [0 .. Messages -> Nat] /\ start[0] = 0
    /\ \A k \in 1 .. Messages : Payload(k) \in 1 .. MaxSize
    /\ arrived \in Nat /\ arrived <= start[Messages]
    /\ memory \in [Cells -> Int]
    /\ front \in Cells /\ rear \in Cells
    /\ at \in {"recv", "frame"}
    /\ delivered \in 0 .. Messages

\* The ring holds the bytes of the stream that follow the last message that was
\* delivered, up to the last one received, in order from front on.
RingHoldsTheRest ==
    /\ start[delivered] + UseSize(front, rear) = arrived
    /\ \A i \in 0 .. UseSize(front, rear) - 1 : memory[After(front, i)] = start[delivered] + i + 1

\* Between two receives the worker has counted what is in the ring; it posts a
\* receive when that is less than a message can have.
WorkerCounts ==
    /\ at = "frame" => code = UseSize(front, rear)
    /\ at = "recv" => posted = Areas(front, rear) /\ UseSize(front, rear) < HeaderSize + MaxSize

BufferInv == BufferType /\ RingHoldsTheRest /\ WorkerCounts /\ MessagesAreWhole

LEMMA StreamType ==
  ASSUME NEW s \in Streams
  PROVE  /\ s \in [0 .. Messages -> Nat] /\ s[0] = 0
         /\ \A k \in 1 .. Messages : s[k] - s[k - 1] - HeaderSize \in 1 .. MaxSize
<1>1. \A k \in 0 .. Messages : s[k] \in Nat
  BY Sizes DEF Streams
<1>2. \A k \in 1 .. Messages : k - 1 \in 0 .. Messages /\ k \in 0 .. Messages
  BY Sizes
<1>3. ASSUME NEW k \in 1 .. Messages PROVE s[k] - s[k - 1] - HeaderSize \in 1 .. MaxSize
  <2>1. s[k] - s[k - 1] \in (HeaderSize + 1) .. (HeaderSize + MaxSize)
    BY DEF Streams
  <2>2. s[k] \in Nat /\ s[k - 1] \in Nat
    BY <1>1, <1>2
  <2> QED
    BY <2>1, <2>2, Sizes
<1> QED
  BY <1>1, <1>3 DEF Streams

LEMMA BufferInitial == Init => BufferInv
<1> SUFFICES ASSUME Init PROVE BufferInv
  OBVIOUS
<1>1. 0 \in Cells /\ UseSize(0, 0) = 0
  BY Sizes DEF Cells, UseSize
<1>2. BufferType
  BY <1>1, StreamType, Sizes DEF Init, BufferType, Payload
<1>3. RingHoldsTheRest
  BY <1>1, <1>2 DEF Init, BufferType, RingHoldsTheRest
<1>4. WorkerCounts
  BY <1>1, Sizes DEF Init, WorkerCounts
<1>5. MessagesAreWhole
  BY Sizes DEF Init, MessagesAreWhole
<1> QED
  BY <1>2, <1>3, <1>4, <1>5 DEF BufferInv

\* A receive of n bytes puts them behind the data, and nowhere else.
LEMMA CompleteStep ==
  ASSUME BufferInv, NEW n \in 1 .. BufferSize, Complete(n)
  PROVE  BufferInv'
<1>1. PICK u : u = UseSize(front, rear)
  OBVIOUS
<1>2. /\ at = "recv" /\ posted = Areas(front, rear)
      /\ n \in Nat /\ n <= posted.len + posted.rest /\ arrived + n <= start[Messages]
      /\ memory' = [c \in Cells |-> Filled(c, n)]
      /\ arrived' = arrived + n
      /\ rear' = MoveRear(front, rear, n)
      /\ code' = UseSize(front, rear') /\ at' = "frame"
      /\ UNCHANGED <<start, front, posted, delivered, packet>>
  BY DEF Complete, BufferInv, WorkerCounts
<1>3. front \in Cells /\ rear \in Cells /\ arrived \in Nat /\ start[delivered] \in Nat
  BY DEF BufferInv, BufferType
<1>4. /\ posted.at = rear /\ posted.len \in Nat /\ posted.rest \in Nat
      /\ posted.len + posted.rest = FreeSize(front, rear)
      /\ posted.rest > 0 => posted.len = BufferSize - rear
      /\ rear + posted.len <= BufferSize /\ posted.rest <= rear
  BY <1>2, <1>3, AreasAreAll
<1>5. u \in 0 .. BufferSize - 1 /\ u + FreeSize(front, rear) = BufferSize - 1
  BY <1>1, <1>3, UseAndFree
<1>6. rear' = After(rear, n) /\ rear' \in Cells /\ UseSize(front', rear') = u + n
  BY <1>1, <1>2, <1>3, <1>4, RearMoves
<1>7. BufferType'
  <2>1. ASSUME NEW c \in Cells PROVE Filled(c, n) \in Int
    <3>1. memory[c] \in Int
      BY DEF BufferInv, BufferType
    <3>2. c - posted.at \in Int
      BY <1>3, <1>4, Sizes DEF Cells
    <3> QED
      BY <1>3, <1>4, <3>1, <3>2, Sizes DEF Filled, Cells
  <2> QED
    BY <1>2, <1>3, <1>6, <2>1 DEF BufferInv, BufferType, Payload
<1>8. ASSUME NEW i \in 0 .. u + n - 1
      PROVE  memory'[After(front, i)] = start[delivered] + i + 1
  <2>1. i \in 0 .. BufferSize - 1 /\ After(front, i) \in Cells
    <3>1. i \in 0 .. BufferSize - 1
      BY <1>2, <1>4, <1>5, <1>8, Sizes
    <3> QED
      BY <1>3, <3>1, AfterIsCell
  <2>2. memory'[After(front, i)] = Filled(After(front, i), n)
    BY <1>2, <2>1
  <2>3. start[delivered] + u = arrived
    BY <1>1 DEF BufferInv, RingHoldsTheRest
  <2>4. CASE i < u
    <3>1. memory[After(front, i)] = start[delivered] + i + 1
      BY <1>1, <1>3, <1>5, <1>8, <2>4 DEF BufferInv, RingHoldsTheRest
    <3>2. ~(After(front, i) \in rear .. rear + posted.len - 1) /\ ~(After(front, i) < posted.rest)
      BY <1>1, <1>3, <1>4, <1>5, <2>1, <2>4, Sizes DEF After, Cells, UseSize
    <3>3. Filled(After(front, i), n) = memory[After(front, i)]
      BY <1>3, <1>4, <2>1, <3>2 DEF Filled, Cells
    <3> QED
      BY <2>2, <3>1, <3>3
  <2>5. CASE i >= u
    <3>1. i - u \in Nat /\ i - u < n /\ After(front, i) = After(rear, i - u)
      <4>1. i - u \in Nat /\ i - u < n
        BY <1>2, <1>5, <1>8, <2>5
      <4>2. After(After(front, u), i - u) = After(front, u + (i - u))
        BY <1>3, <1>5, <2>1, <4>1, AfterAdds, Sizes
      <4> QED
        BY <1>1, <1>3, <1>5, <2>1, <4>1, <4>2, RearIsAfterData
    <3>2. Filled(After(rear, i - u), n) = arrived + (i - u) + 1
      <4>1. PICK j \in Nat : j = i - u /\ j < n /\ j < posted.len + posted.rest
        BY <1>2, <1>4, <3>1
      <4>2. PICK c \in Cells : c = After(rear, j)
        BY <2>1, <3>1, <4>1
      <4>3. CASE j < posted.len
        <5>1. c = rear + j
          BY <1>3, <1>4, <4>1, <4>2, <4>3, Sizes DEF After, Cells
        <5>2. c - posted.at = j /\ j \in 0 .. posted.len - 1
          BY <1>3, <1>4, <4>1, <4>3, <5>1 DEF Cells
        <5> QED
          BY <4>1, <4>2, <5>2 DEF Filled
      <4>4. CASE j >= posted.len
        <5>1. c = j - posted.len /\ c < posted.rest
          BY <1>3, <1>4, <4>1, <4>2, <4>4, Sizes DEF After, Cells
        <5>2. c - posted.at < 0 /\ posted.len + c = j
          BY <1>3, <1>4, <4>1, <5>1 DEF Cells
        <5>3. ~(c - posted.at \in 0 .. posted.len - 1)
          BY <1>3, <1>4, <5>2 DEF Cells
        <5>4. Filled(c, n) = arrived + posted.len + c + 1
          BY <4>1, <5>1, <5>2, <5>3 DEF Filled
        <5> QED
          BY <1>3, <1>4, <4>1, <4>2, <5>1, <5>4
      <4> QED
        BY <1>4, <4>1, <4>3, <4>4
    <3> QED
      BY <1>3, <1>5, <2>1, <2>2, <2>3, <3>1, <3>2
  <2> QED
    BY <1>5, <1>8, <2>4, <2>5
<1>9. RingHoldsTheRest'
  <2>1. start'[delivered'] + UseSize(front', rear') = arrived'
    <3>1. start[delivered] + u = arrived
      BY <1>1 DEF BufferInv, RingHoldsTheRest
    <3>2. start'[delivered'] = start[delivered] /\ arrived' = arrived + n /\ UseSize(front', rear') = u + n
      BY <1>2, <1>6
    <3> QED
      <4>1. n \in Nat /\ u \in Nat /\ start[delivered] \in Nat
        BY <1>2, <1>3, <1>5, Sizes
      <4> QED
        BY <3>1, <3>2, <4>1
  <2>2. \A i \in 0 .. UseSize(front', rear') - 1 : memory'[After(front', i)] = start'[delivered'] + i + 1
    <3>1. UseSize(front', rear') = u + n
      BY <1>6
    <3>2. front' = front /\ start'[delivered'] = start[delivered]
      BY <1>2
    <3>3. \A i \in 0 .. u + n - 1 : memory'[After(front, i)] = start[delivered] + i + 1
      BY <1>8
    <3>4. ASSUME NEW i \in 0 .. UseSize(front', rear') - 1
          PROVE  memory'[After(front', i)] = start'[delivered'] + i + 1
      <4>1. i \in 0 .. u + n - 1
        <5>1. u \in Nat /\ n \in Nat
          BY <1>2, <1>3, <1>5, Sizes
        <5>2. PICK w \in Nat : w = u + n
          BY <5>1
        <5>3. i \in 0 .. w - 1
          BY <3>1, <5>2
        <5> QED
          BY <5>1, <5>2, <5>3
      <4>2. After(front', i) = After(front, i)
        BY <3>2 DEF After
      <4>3. memory'[After(front, i)] = start[delivered] + i + 1
        BY <3>3, <4>1
      <4> QED
        BY <3>2, <4>2, <4>3
    <3> QED
      BY <3>4
  <2> QED
    BY <2>1, <2>2 DEF RingHoldsTheRest
<1>10. WorkerCounts' /\ MessagesAreWhole'
  BY <1>2 DEF BufferInv, WorkerCounts, MessagesAreWhole, Payload
<1> QED
  BY <1>7, <1>9, <1>10 DEF BufferInv

\* The bytes at front are the header of the next message, so what the worker takes
\* for its size is its size, and the bytes that follow are its payload.
LEMMA FrameStep ==
  ASSUME BufferInv, NEW size \in 0 .. MaxSize, Frame(size)
  PROVE  BufferInv'
<1>1. PICK u, base, payload :
         u = UseSize(front, rear) /\ base = start[delivered] /\ payload = MoveFront(front, rear, HeaderSize)
  OBVIOUS
<1>2. /\ at = "frame" /\ code >= HeaderSize /\ HeaderSays(size) /\ HeaderSize + size <= code
      /\ packet' = [i \in 1 .. size |-> memory[Peek(payload, rear, i - 1)]]
      /\ front' = MoveFront(payload, rear, size)
      /\ delivered' = delivered + 1
      /\ code' = code - (size + HeaderSize)
      /\ UNCHANGED <<start, arrived, memory, rear, posted, at>>
  BY <1>1 DEF Frame, IsWhole, Dequeue
<1>3. /\ front \in Cells /\ rear \in Cells /\ arrived \in Nat /\ base \in Nat /\ delivered \in 0 .. Messages
      /\ size \in Nat /\ u \in 0 .. BufferSize - 1 /\ code = u /\ base + u = arrived
      /\ \A i \in 0 .. u - 1 : memory[After(front, i)] = base + i + 1
  BY <1>1, <1>2, UseAndFree, Sizes DEF BufferInv, BufferType, RingHoldsTheRest, WorkerCounts
<1>4. u >= 2 + size
  BY <1>2, <1>3, Sizes
<1>5. delivered < Messages
  <2>1. delivered # Messages
    BY <1>1, <1>3, <1>4 DEF BufferInv, BufferType
  <2> QED
    BY <1>3, <2>1, Sizes
<1>6. size = Payload(delivered + 1)
  <2>1. delivered + 1 \in 1 .. Messages /\ (delivered + 1) - 1 = delivered
    BY <1>3, <1>5, Sizes
  <2>2. Peek(front, rear, 0) = After(front, 0) /\ Peek(front, rear, 1) = After(front, 1)
    BY <1>1, <1>3, <1>4, PeekIsAfter
  <2>3. memory[After(front, 0)] = base + 1 /\ memory[After(front, 1)] = base + 2
    BY <1>3, <1>4
  <2> QED
    BY <1>1, <1>2, <2>1, <2>2, <2>3 DEF HeaderSays
<1>7. start[delivered + 1] = base + 2 + size
  <2>1. start[delivered + 1] \in Nat /\ (delivered + 1) - 1 = delivered
    BY <1>3, <1>5, Sizes DEF BufferInv, BufferType
  <2> QED
    BY <1>1, <1>3, <1>6, <2>1, Sizes DEF Payload
<1>8. /\ payload = After(front, 2) /\ payload \in Cells /\ UseSize(payload, rear) = u - 2
  BY <1>1, <1>3, <1>4, FrontMoves, Sizes
<1>9. /\ front' = After(front, 2 + size) /\ front' \in Cells /\ UseSize(front', rear) = u - 2 - size
  <2>1. /\ front' = After(payload, size) /\ front' \in Cells /\ UseSize(front', rear) = u - 2 - size
    BY <1>2, <1>3, <1>4, <1>8, FrontMoves
  <2>2. After(After(front, 2), size) = After(front, 2 + size)
    BY <1>3, <1>4, AfterAdds, Sizes
  <2> QED
    BY <1>8, <2>1, <2>2
<1>10. BufferType'
  <2>1. delivered' \in 0 .. Messages
    BY <1>2, <1>3, <1>5, Sizes
  <2>2. \A k \in 1 .. Messages : Payload(k)' = Payload(k)
    BY <1>2 DEF Payload
  <2> QED
    BY <1>2, <1>9, <2>1, <2>2 DEF BufferInv, BufferType
<1>11. RingHoldsTheRest'
  <2>1. start'[delivered'] + UseSize(front', rear') = arrived'
    <3>1. start'[delivered'] = base + 2 + size /\ arrived' = base + u /\ UseSize(front', rear') = u - 2 - size
      BY <1>2, <1>3, <1>7, <1>9
    <3> QED
      BY <1>3, <3>1
  <2>2. ASSUME NEW i \in 0 .. u - 2 - size - 1
        PROVE  memory'[After(front', i)] = start'[delivered'] + i + 1
    <3>1. After(front', i) = After(front, 2 + size + i)
      BY <1>3, <1>4, <1>9, <2>2, AfterAdds, Sizes
    <3>2. memory[After(front, 2 + size + i)] = base + (2 + size + i) + 1
      BY <1>3, <1>4, <2>2
    <3> QED
      BY <1>2, <1>3, <1>7, <2>2, <3>1, <3>2
  <2> QED
    BY <1>2, <1>9, <2>1, <2>2 DEF RingHoldsTheRest
<1>12. WorkerCounts'
  BY <1>2, <1>3, <1>4, <1>9, Sizes DEF WorkerCounts
<1>13. MessagesAreWhole'
  <2>1. ASSUME NEW i \in 1 .. size PROVE memory[Peek(payload, rear, i - 1)] = base + 2 + i
    <3>1. Peek(payload, rear, i - 1) = After(payload, i - 1)
      <4>1. i - 1 \in 0 .. UseSize(payload, rear) - 1
        BY <1>3, <1>4, <1>8, <2>1
      <4> QED
        BY <1>3, <1>8, <4>1, PeekIsAfter
    <3>2. After(payload, i - 1) = After(front, 2 + (i - 1))
      BY <1>3, <1>4, <1>8, <2>1, AfterAdds, Sizes
    <3>3. 2 + (i - 1) \in 0 .. u - 1
      BY <1>3, <1>4, <2>1
    <3>4. memory[After(front, 2 + (i - 1))] = base + (2 + (i - 1)) + 1
      BY <1>3, <3>3
    <3> QED
      BY <1>3, <2>1, <3>1, <3>2, <3>4
  <2>2. packet' = [i \in 1 .. size |-> base + 2 + i]
    BY <1>2, <2>1
  <2>3. (delivered + 1) - 1 = delivered /\ delivered + 1 <= Messages
    BY <1>3, <1>5, Sizes
  <2> QED
    BY <1>1, <1>2, <1>6, <2>2, <2>3, Sizes DEF MessagesAreWhole, Payload
<1> QED
  BY <1>10, <1>11, <1>12, <1>13 DEF BufferInv

\* The next receive is posted only when the ring holds less than a message can be.
LEMMA RecvPostStep ==
  ASSUME BufferInv, RecvPost
  PROVE  BufferInv'
<1>1. /\ at = "frame" /\ posted' = Areas(front, rear) /\ at' = "recv"
      /\ UNCHANGED <<start, arrived, memory, front, rear, code, delivered, packet>>
  BY DEF RecvPost
<1>2. code < HeaderSize + MaxSize
  <2>1. code \in Nat
    BY <1>1, UseAndFree, Sizes DEF BufferInv, BufferType, WorkerCounts
  <2> QED
    BY <2>1, Sizes DEF RecvPost, IsWhole
<1>3. BufferType' /\ RingHoldsTheRest' /\ MessagesAreWhole'
  BY <1>1 DEF BufferInv, BufferType, RingHoldsTheRest, MessagesAreWhole, Payload
<1>4. WorkerCounts'
  BY <1>1, <1>2 DEF BufferInv, WorkerCounts
<1> QED
  BY <1>3, <1>4 DEF BufferInv

LEMMA BufferStep == BufferInv /\ [Next]_vars => BufferInv'
<1> SUFFICES ASSUME BufferInv, [Next]_vars PROVE BufferInv'
  OBVIOUS
<1>1. ASSUME NEW n \in 1 .. BufferSize, Complete(n) PROVE BufferInv'
  BY <1>1, CompleteStep
<1>2. ASSUME NEW size \in 0 .. MaxSize, Frame(size) PROVE BufferInv'
  BY <1>2, FrameStep
<1>3. CASE RecvPost
  BY <1>3, RecvPostStep
<1>4. CASE UNCHANGED vars
  BY <1>4 DEF vars, BufferInv, BufferType, RingHoldsTheRest, WorkerCounts, MessagesAreWhole, Payload
<1> QED
  BY <1>1, <1>2, <1>3, <1>4 DEF Next, Work

THEOREM BufferInvariant == Spec => []BufferInv
  BY BufferInitial, BufferStep, PTL DEF Spec

\* OnMessage gets the client's messages, whole and in order, wherever the receives
\* cut the stream and the ring wraps.
THEOREM StreamIsDelivered == Spec => []MessagesAreWhole
<1>1. BufferInv => MessagesAreWhole
  BY DEF BufferInv
<1> QED
  BY <1>1, BufferInvariant, PTL

\* A receive is given exactly the free cells, and there is at least one.
THEOREM ReceiveFitsTheRing == Spec => [](AreasAreFree /\ RecvHasRoom)
<1>1. ASSUME BufferInv, at = "recv"
      PROVE  /\ posted.len + posted.rest = FreeSize(front, rear)
             /\ posted.len + posted.rest > 0
             /\ \A c \in Cells :
                   (c \in posted.at .. posted.at + posted.len - 1 \/ c < posted.rest)
                      <=> c \in {After(rear, i) : i \in 0 .. FreeSize(front, rear) - 1}
  <2>1. posted = Areas(front, rear) /\ UseSize(front, rear) < HeaderSize + MaxSize
    BY <1>1 DEF BufferInv, WorkerCounts
  <2>2. front \in Cells /\ rear \in Cells
    BY <1>1 DEF BufferInv, BufferType
  <2>3. posted.at = rear /\ posted.len + posted.rest = FreeSize(front, rear)
    BY <2>1, <2>2, AreasAreAll
  <2>4. FreeSize(front, rear) > 0
    BY <2>1, <2>2, UseAndFree, BufferAssumption
  <2> QED
    BY <2>1, <2>2, <2>3, <2>4, AreasAreFreeCells
<1>2. BufferInv => AreasAreFree /\ RecvHasRoom
  BY <1>1 DEF AreasAreFree, RecvHasRoom
<1> QED
  BY <1>2, BufferInvariant, PTL
=============================================================================
