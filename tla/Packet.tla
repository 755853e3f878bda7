------------------------------- MODULE Packet -------------------------------
(* CPacket as the handlers write it: a buffer of iBufferSize bytes whose     *)
(* first bytes are left for the header.  A packet is the position of pPush,  *)
(* the byte that is written next; Clear puts it behind the header, operator  *)
(* << and PutData move it on.  PutData asserts that what it copies fits; <<  *)
(* does not look, but in the packets that grow a text always comes last.     *)
EXTENDS Naturals

CONSTANTS
    BufferSize,  \* iBufferSize
    HeaderSize   \* headerSize

\* The widths of what is written, in bytes.
Type == 2
AccountNo == 8
RoomNo == 2
Byte == 1

\* A length and so many characters of two bytes.
Text(length) == Byte + 2 * length

\* Mutant: the answer is written behind the request it is made from.
ClearKept(pPush) == pPush

\* A handler makes its answer from the packet of the request.
Clear(pPush) == HeaderSize

\* PutData's assertion, for a packet written up to pPush.
Fits(pPush) == pPush <= BufferSize

-----------------------------------------------------------------------------
(* What the client sends: how far the worker moves pPush.                    *)

LoginRequest(name) == HeaderSize + Type + AccountNo + Text(name)
ChatRequest(chat) == HeaderSize + Type + AccountNo + RoomNo + Text(chat)
PositionRequest(name) == HeaderSize + Type + AccountNo + RoomNo + 2 * Byte + Text(name)

\* The longest of the others, PutStone's.
ShortRequest == HeaderSize + Type + AccountNo + RoomNo + 3 * Byte

-----------------------------------------------------------------------------
(* What the server sends: answers, made from the request...                  *)

LoginAnswer(name) == Clear(LoginRequest(name)) + Type + AccountNo + Text(name) + Byte
RoomListAnswer == Clear(ShortRequest) + Type + AccountNo + Byte + 2 + 10 * RoomNo
EnterAnswer == Clear(ShortRequest) + Type + AccountNo + RoomNo + Byte
LeaveAnswer == Clear(ShortRequest) + Type + AccountNo + RoomNo + Byte
ChatAnswer(name, chat) ==
    Clear(ChatRequest(chat)) + Type + AccountNo + RoomNo + Text(name) + Text(chat)
PositionAnswer(name) ==
    Clear(PositionRequest(name)) + Type + AccountNo + RoomNo + 2 * Byte + Text(name) + Byte
ReadyAnswer == Clear(ShortRequest) + Type + AccountNo + RoomNo + 2 * Byte
CancelAnswer == Clear(ShortRequest) + Type + AccountNo + RoomNo + 2 * Byte
StoneAnswer == Clear(ShortRequest) + Type + AccountNo + RoomNo + Byte + 3 * Byte
ShutdownAnswer == Clear(ShortRequest) + Type + AccountNo

(* ... and alarms, in packets of their own.                                  *)

NewPacket == Clear(0)

MembersAlarm(others, name) == NewPacket + Type + AccountNo + RoomNo + Byte + others * Text(name)
EnterAlarm(name) == NewPacket + Type + RoomNo + Text(name)
LeaveAlarm(name) == NewPacket + Type + RoomNo + Text(name)
PlayerAlarm(name) == NewPacket + Type + RoomNo + Byte + 2 * (2 * Byte + Text(name))
StartAlarm == NewPacket + Type + RoomNo
GameOverAlarm(name) == NewPacket + Type + RoomNo + Byte + 2 * Text(name)

=============================================================================
