----------------------------- MODULE RecvBuffer -----------------------------
(* A session's receive path: WSARecv fills the free part of the ring buffer  *)
(* (CRBuffer), given as one or two areas, and the worker that gets the       *)
(* completion cuts messages out of it, each a header with the size of its    *)
(* payload and the payload, and posts the next WSARecv.  At most one receive *)
(* is posted, so nobody else touches the buffer.                             *)
(*                                                                           *)
(* A byte is its place in the client's stream, counted from 1, whatever its  *)
(* value; only the two bytes of a header say something.                      *)
EXTENDS Integers

CONSTANTS
    BufferSize,  \* _bufferSize
    HeaderSize,  \* the bytes of a header, 2
    MaxSize,     \* the largest payload the worker accepts
    Messages     \* bound: messages the client sends

ASSUME BufferAssumption ==
    /\ BufferSize \in Nat /\ MaxSize \in Nat \ {0} /\ Messages \in Nat
    /\ HeaderSize = 2
    /\ HeaderSize + MaxSize < BufferSize

Cells == 0 .. BufferSize - 1

VARIABLES
    start,        \* the stream: message k is its bytes start[k - 1] + 1 .. start[k]
    arrived,      \* how many bytes of it the receives have taken
    memory,       \* the cells from _bufferStart on
    front, rear,  \* _front and _rear, from _bufferStart
    posted,       \* the areas of the WSARecv under way
    at,           \* "recv" while it is under way, "frame" in the worker's loop
    code,         \* the worker's count of the bytes it has not looked at
    delivered,    \* how many messages OnMessage was called with
    packet        \* the payload of the last

vars == <<start, arrived, memory, front, rear, posted, at, code, delivered, packet>>

Streams ==
    {s \in [0 .. Messages -> 0 .. Messages * (HeaderSize + MaxSize)] :
        /\ s[0] = 0
        /\ \A k \in 1 .. Messages : s[k] - s[k - 1] \in (HeaderSize + 1) .. (HeaderSize + MaxSize)}

Payload(k) == start[k] - start[k - 1] - HeaderSize

-----------------------------------------------------------------------------
(* CRBuffer, for any place of its two pointers.                              *)

UseSize(f, r) == IF f <= r THEN r - f ELSE r + BufferSize - f

FreeSize(f, r) == BufferSize - 1 - UseSize(f, r)

\* Mutant: the whole tail of the buffer is free, wherever the data starts.
DirectEnqueueTail(f, r) == IF f <= r THEN BufferSize - r ELSE f - r - 1

DirectEnqueueSize(f, r) ==
    IF f = 0 THEN BufferSize - r - 1 ELSE IF f <= r THEN BufferSize - r ELSE f - r - 1

\* Mutant: data that wraps is cut one byte before the end of the buffer.
DirectDequeueShort(f, r) == IF f <= r THEN r - f ELSE BufferSize - f - 1

DirectDequeueSize(f, r) == IF f <= r THEN r - f ELSE BufferSize - f

\* A pointer that moves past the last cell goes on from the first.
After(p, size) == IF p + size < BufferSize THEN p + size ELSE p + size - BufferSize

MoveRear(f, r, size) == IF size <= FreeSize(f, r) THEN After(r, size) ELSE r

MoveFront(f, r, size) == IF size <= UseSize(f, r) THEN After(f, size) ELSE f

\* The cell Peek copies its i-th byte from, counted from 0.
Peek(f, r, i) ==
    IF i < DirectDequeueSize(f, r) THEN f + i ELSE i - DirectDequeueSize(f, r)

\* The bytes of m that Dequeue copies out; MoveFront follows.
Dequeue(m, f, r, size) == [i \in 1 .. size |-> m[Peek(f, r, i - 1)]]

-----------------------------------------------------------------------------
\* The areas RecvPost gives to WSARecv: from rear on, and from the start.
Areas(f, r) ==
    [at |-> r, len |-> DirectEnqueueSize(f, r),
     rest |-> IF FreeSize(f, r) # DirectEnqueueSize(f, r)
              THEN FreeSize(f, r) - DirectEnqueueSize(f, r) ELSE 0]

Init ==
    /\ start \in Streams
    /\ arrived = 0
    /\ memory = [c \in Cells |-> 0]
    /\ front = 0 /\ rear = 0
    /\ posted = Areas(0, 0)
    /\ at = "recv"
    /\ code = 0
    /\ delivered = 0
    /\ packet = <<>>

\* What cell c holds once the receive has put n bytes in its areas.
Filled(c, n) ==
    LET i == c - posted.at
    IN IF i \in 0 .. posted.len - 1 /\ i < n THEN arrived + i + 1
       ELSE IF c < posted.rest /\ posted.len + c < n THEN arrived + posted.len + c + 1
       ELSE memory[c]

Complete(n) ==
    /\ at = "recv"
    /\ n <= posted.len + posted.rest /\ arrived + n <= start[Messages]
    /\ memory' = [c \in Cells |-> Filled(c, n)]
    /\ arrived' = arrived + n
    /\ rear' = MoveRear(front, rear, n)
    /\ code' = UseSize(front, rear')
    /\ at' = "frame"
    /\ UNCHANGED <<start, front, posted, delivered, packet>>

\* The two bytes at front are read as the header of a payload of that size:
\* the message's, if they are its header, and any otherwise.
HeaderSays(size) ==
    \A k \in 1 .. Messages :
        /\ memory[Peek(front, rear, 0)] = start[k - 1] + 1
        /\ memory[Peek(front, rear, 1)] = start[k - 1] + 2
        => size = Payload(k)

\* Mutant: the last byte of a message is taken for one of the next.
IsWholeAndMore(size) == HeaderSize + size < code

IsWhole(size) == HeaderSize + size <= code

Frame(size) ==
    /\ at = "frame" /\ code >= HeaderSize
    /\ HeaderSays(size)
    /\ IsWhole(size)
    /\ LET payload == MoveFront(front, rear, HeaderSize)
       IN /\ packet' = Dequeue(memory, payload, rear, size)
          /\ front' = MoveFront(payload, rear, size)
    /\ delivered' = delivered + 1
    /\ code' = code - (size + HeaderSize)
    /\ UNCHANGED <<start, arrived, memory, rear, posted, at>>

\* The rest is not a whole message: the worker waits for more of it.
RecvPost ==
    /\ at = "frame"
    /\ code < HeaderSize \/ \E size \in 0 .. MaxSize : HeaderSays(size) /\ ~IsWhole(size)
    /\ posted' = Areas(front, rear)
    /\ at' = "recv"
    /\ UNCHANGED <<start, arrived, memory, front, rear, code, delivered, packet>>

Work == RecvPost \/ \E size \in 0 .. MaxSize : Frame(size)

Next == Work \/ \E n \in 1 .. BufferSize : Complete(n)

Spec == Init /\ [][Next]_vars

\* The worker goes on; the client may stop sending at any byte.
FairSpec == Spec /\ WF_vars(Work)

-----------------------------------------------------------------------------
\* What OnMessage gets is the payload of the client's next message, whole and
\* in order, however the receives cut the stream and wherever the data wraps.
MessagesAreWhole ==
    /\ delivered <= Messages
    /\ delivered > 0 =>
        packet = [i \in 1 .. Payload(delivered) |-> start[delivered - 1] + HeaderSize + i]

\* The areas of a receive are the free cells, in the order of the ring: it
\* never overwrites a byte that was not read.
AreasAreFree ==
    at = "recv" =>
        /\ posted.len + posted.rest = FreeSize(front, rear)
        /\ \A c \in Cells :
            (c \in posted.at .. posted.at + posted.len - 1 \/ c < posted.rest)
                <=> c \in {After(rear, i) : i \in 0 .. FreeSize(front, rear) - 1}

\* A receive always has room: one without would complete with no bytes, which
\* the worker takes for the end of the connection.
RecvHasRoom == at = "recv" => posted.len + posted.rest > 0

\* A message is delivered once its last byte has come, without any byte more.
WholeMessagesAreDelivered ==
    \A k \in 1 .. Messages : arrived >= start[k] ~> delivered >= k
=============================================================================
