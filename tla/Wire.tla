------------------------------- MODULE Wire -------------------------------
(***************************************************************************)
(* The buffers of src/primitives/buffer.ts: what WriteBuffer and           *)
(* WriteMessageBuffer write and what ReadBuffer reads of it.               *)
(*                                                                         *)
(* A byte has Base values, 256 in the program; every width and limit is in *)
(* bytes, so that with a small Base all the integers of a width can be     *)
(* tried.  NoBytes is what throws.  A ReadBuffer is the bytes left in it.  *)
(***************************************************************************)
EXTENDS Integers, Sequences

CONSTANTS
    Base,         \* values of a byte
    SafeHi,       \* the high half of the first integer that is not safe, 2^21
    BufferInc,    \* BUFFER_INC_SIZE
    NoBytes

-----------------------------------------------------------------------------
(* Integers, big-endian.                                                   *)

BytesOf(n, width) == [i \in 1..width |-> (n \div Base^(width - i)) % Base]

ValueOf(bytes) ==
    LET upTo[n \in 0..Len(bytes)] == IF n = 0 THEN 0 ELSE Base * upTo[n - 1] + bytes[n]
    IN  upTo[Len(bytes)]

\* writeUInt16(), writeUInt32(); writeInt16(), writeInt32(), of two's complement.
UInt(n, width) == IF n \in 0..(Base^width - 1) THEN BytesOf(n, width) ELSE NoBytes
SInt(n, width) ==
    LET half == Base^width \div 2
    IN  IF n \in -half..(half - 1) THEN BytesOf(n % Base^width, width) ELSE NoBytes

\* readUInt16() and the like; what is longer than width is left.
ReadUInt(b, width) == IF Len(b) < width THEN NoBytes ELSE ValueOf(SubSeq(b, 1, width))
SignedOf(n, width) == IF n < Base^width \div 2 THEN n ELSE n - Base^width
ReadInt(b, width) == IF Len(b) < width THEN NoBytes ELSE SignedOf(ReadUInt(b, width), width)

\* discard(), and what a read leaves.
Left(b, n) == IF Len(b) < n THEN NoBytes ELSE SubSeq(b, n + 1, Len(b))

Half == Base^4

\* writeInt64(), of a JavaScript number.
Int64(n) ==
    LET hi == n \div Half lo == n - hi * Half
    IN  IF SInt(hi, 4) = NoBytes THEN NoBytes ELSE SInt(hi, 4) \o UInt(lo, 4)

\* writeBigInt64(): a negative number is written as its complement.
BigInt64(n) ==
    LET ii == IF n < 0 THEN Half * Half + n ELSE n
    IN  IF UInt(ii \div Half, 4) = NoBytes THEN NoBytes
        ELSE UInt(ii \div Half, 4) \o UInt(ii % Half, 4)

\* readInt64(): numbers that a double does not hold are refused.
ReadInt64(b) ==
    LET hi == ReadInt(b, 4) lo == ReadUInt(SubSeq(b, 5, 8), 4)
    IN  IF Len(b) < 8 THEN NoBytes
        ELSE IF hi = 0 THEN lo
        ELSE IF hi >= -SafeHi /\ hi < SafeHi THEN hi * Half + lo
        ELSE NoBytes

\* readBigInt64(), and readBigInt64Fallback() where the platform has none.
ReadBigInt64(b) == ReadInt(b, 8)
ReadBigInt64Fallback(b) ==
    LET hi == ReadUInt(b, 4)
        n  == hi * Half + ReadUInt(SubSeq(b, 5, 8), 4)
    IN  IF hi >= Half \div 2 THEN n - Half * Half ELSE n

-----------------------------------------------------------------------------
(* WriteBuffer: data has size bytes, the first pos of them are written.    *)

Junk == Base

EmptyBuffer == [size |-> BufferInc, pos |-> 0, data |-> [i \in 1..BufferInc |-> Junk]]

\* ensureAlloced(), __realloc().
EnsureAlloced(b, extra) ==
    LET size == b.pos + extra + BufferInc
    IN  IF b.pos + extra <= b.size THEN b
        ELSE [b EXCEPT !.size = size,
                       !.data = [i \in 1..size |-> IF i <= b.pos THEN b.data[i] ELSE Junk]]

\* The bytes at a position: outside of the buffer nothing is written.
Poke(b, at, bytes) ==
    [b EXCEPT !.data = [i \in DOMAIN @ |-> IF i - at \in DOMAIN bytes THEN bytes[i - at] ELSE @[i]]]

\* writeChar(), writeInt32(), writeBuffer() ...
Write(b, bytes) ==
    [Poke(EnsureAlloced(b, Len(bytes)), b.pos, bytes) EXCEPT !.pos = @ + Len(bytes)]

\* writeBytes(), writeString().
WriteBytes(b, bytes) == Write(b, SInt(Len(bytes), 4) \o bytes)

Unwrap(b) == SubSeq(b.data, 1, b.pos)

-----------------------------------------------------------------------------
(* WriteMessageBuffer: [buffer, messagePos], or NoBytes.                   *)

NewMessages == [buffer |-> EmptyBuffer, messagePos |-> -1]

BeginMessage(m, mtype) ==
    IF m.messagePos >= 0 THEN NoBytes
    ELSE [buffer |-> Write(Write(m.buffer, <<mtype>>), SInt(0, 4)), messagePos |-> m.buffer.pos]

\* Faulty variant: the position of the last message is used.
WholeBuffer(m) == m.buffer.pos - 1

\* The length of a message counts its length field and not its type.
MessageLength(m) == m.buffer.pos - m.messagePos - 1

EndMessage(m) ==
    IF m.messagePos < 0 THEN NoBytes
    ELSE [buffer |-> Poke(m.buffer, m.messagePos + 1, SInt(MessageLength(m), 4)), messagePos |-> -1]

\* writeChar() ... writeBuffer() of a message.
WriteInMessage(m, bytes) ==
    IF m.messagePos < 0 THEN NoBytes ELSE [m EXCEPT !.buffer = Write(@, bytes)]

\* writeHeaders(), of pairs <<code, value>>; undefined ones were left out.
WriteHeaders(m, headers) ==
    LET upTo[n \in 0..Len(headers)] ==
            IF n = 0 THEN Write(m.buffer, UInt(Len(headers), 2))
            ELSE WriteBytes(Write(upTo[n - 1], UInt(headers[n][1], 2)), headers[n][2])
    IN  IF m.messagePos < 0 THEN NoBytes ELSE [m EXCEPT !.buffer = upTo[Len(headers)]]

\* writeSync(), writeFlush(): a whole message of no content.
WriteWhole(m, mtype) ==
    IF m.messagePos >= 0 THEN NoBytes
    ELSE [m EXCEPT !.buffer = Write(@, <<mtype>> \o SInt(4, 4))]

UnwrapMessages(m) == IF m.messagePos >= 0 THEN NoBytes ELSE Unwrap(m.buffer)

\* One call on the message buffer: a record [op, ...].
Apply(m, call) ==
    IF m = NoBytes THEN NoBytes
    ELSE CASE call.op = "begin"   -> BeginMessage(m, call.mtype)
           [] call.op = "write"   -> WriteInMessage(m, call.bytes)
           [] call.op = "headers" -> WriteHeaders(m, call.headers)
           [] call.op = "end"     -> EndMessage(m)
           [] call.op = "whole"   -> WriteWhole(m, call.mtype)

Written(calls) ==
    LET upTo[n \in 0..Len(calls)] == IF n = 0 THEN NewMessages ELSE Apply(upTo[n - 1], calls[n])
    IN  IF upTo[Len(calls)] = NoBytes THEN NoBytes ELSE UnwrapMessages(upTo[Len(calls)])
=============================================================================
