--------------------------- MODULE MessageBuffer ---------------------------
(***************************************************************************)
(* How a connection cuts what its socket receives into messages:           *)
(* ReadMessageBuffer (src/primitives/buffer.ts) over a ring of chunks, the *)
(* socket's "data" event and pauses, _waitForMessage() (src/rawConn.ts),   *)
(* and the operations that read messages (src/baseConn.ts).                *)
(*                                                                         *)
(* A byte is named by its place in all that the buffer was fed, which says *)
(* what it is: the type of a message, a part of its length, or a part of   *)
(* its payload.  A chunk is an interval of places.  Of the first chunk,    *)
(* buf0, only the part that is not read yet is kept (so pos0 is 0).        *)
(***************************************************************************)
EXTENDS Ring, FiniteSets

CONSTANTS
    Stream,      \* what the server sends: [data, size] of each message, in order
    ChunkSizes   \* the sizes of the chunks that the socket delivers

\* No more than the bytes of a message's header fit in a full ring otherwise.
ASSUME StreamAssumption ==
    /\ Capacity > 5
    /\ Stream \in Seq([data : BOOLEAN, size : Nat])
    /\ ChunkSizes \subseteq Nat \ {0}

VARIABLES
    buffer,    \* the connection's ReadMessageBuffer
    paused,    \* conn.paused: the socket delivers nothing
    pc,        \* the operation: idle, taking, waiting, reading, data, failed or crashed
    received,  \* number of bytes that the socket has delivered
    fed,       \* number of those that the buffer has taken
    lost,      \* that number when the buffer first refused a chunk
    message,   \* history: what was read of the message that is being read
    handed,    \* history: the messages that were read
    overflow,  \* history: an operation was told of an overflow
    cause      \* history: what made a read fail

net  == <<received, fed, lost>>
seen == <<message, handed, overflow, cause>>
vars == <<buffer, paused, pc, received, fed, lost, message, handed, overflow, cause>>

-----------------------------------------------------------------------------
(* What the bytes are.                                                     *)

Number == 1..Len(Stream)

\* Where a message begins: one byte for its type, four for its length.
Start[n \in 1..(Len(Stream) + 1)] ==
    IF n = 1 THEN 0 ELSE Start[n - 1] + 5 + Stream[n - 1].size

Total == Start[Len(Stream) + 1]

Payload(n) == [k \in 1..Stream[n].size |-> Start[n] + 4 + k]

\* The message that a byte is the type of.  What is fed after a chunk was
\* lost is not what its place says.
Garbage == Len(Stream) + 1

TypeAt(p) ==
    IF p < lost /\ \E n \in Number : Start[n] = p
    THEN CHOOSE n \in Number : Start[n] = p ELSE Garbage

\* The length that four bytes say.
LengthAt(p) ==
    IF p + 3 < lost /\ \E n \in Number : Start[n] + 1 = p
    THEN 4 + Stream[CHOOSE n \in Number : Start[n] + 1 = p].size ELSE 4

-----------------------------------------------------------------------------
(* The buffer.                                                             *)

Size(chunk) == chunk.to - chunk.from

NewBuffer == [bufs |-> NewRing, buf0 |-> [from |-> 0, to |-> 0], len |-> 0,
              type |-> 0, length |-> 0, unread |-> 0, ready |-> FALSE]

\* Faulty variant: whether chunks are in the ring is not looked at.
IsFirstIfRead(b) == Size(b.buf0) = 0

\* feed() puts the chunk in the place of the first one.
IsFirst(b) == Size(b.buf0) = 0 /\ b.bufs.len = 0

\* feed() and feedEnqueue(), when the ring takes the chunk.
Fed(b, chunk) ==
    IF IsFirst(b)
    THEN [b EXCEPT !.buf0 = chunk, !.len = Size(chunk)]
    ELSE [b EXCEPT !.bufs = Enq(@, chunk), !.len = @ + Size(chunk)]

\* What feed() returns: the socket is to be paused.
IsFull(b) == ~IsFirst(b) /\ Full(Enq(b.bufs, [from |-> 0, to |-> 0]))

Overflows(b) == ~IsFirst(b) /\ (Rejects(b.bufs) \/ (IsFull(b) /\ b.type # 0))

\* ensureFirstBuf() throws.
NoBytes(b) == Size(b.buf0) = 0 /\ Drained(b.bufs)

\* The chunk that is read after n others.
ChunkAt(b, n) == IF n = 0 THEN b.buf0 ELSE Nth(b.bufs, n)

\* The number of chunks that end before byte p.
ChunksBefore(b, p) ==
    Cardinality({n \in 0..b.bufs.len : ChunkAt(b, n).to <= p})

\* _readBuffer(size) and discardBuffer(size): buf0 becomes the chunk that has
\* the last byte read.
Skip(b, size) ==
    LET n == ChunksBefore(b, b.buf0.from + size - 1)
    IN  [b EXCEPT !.buf0 = [from |-> b.buf0.from + size, to |-> ChunkAt(b, n).to],
                  !.bufs = Deq(@, n), !.len = @ - size]

\* ensureFirstBuf(): the chunk that has the next byte.
EnsureFirstBuf(b) ==
    LET n == ChunksBefore(b, b.buf0.from)
    IN  [b EXCEPT !.buf0 = ChunkAt(b, n), !.bufs = Deq(@, n)]

Read(b, size) == IF size = 0 THEN EnsureFirstBuf(b) ELSE Skip(b, size)

\* Where the next byte is.
At(b) == EnsureFirstBuf(b).buf0.from

Bytes(b, size) == [k \in 1..size |-> At(b) + k - 1]

\* Faulty variant: the length is not looked for after the type.
HeaderInTwoSteps(b) ==
    IF b.type # 0 THEN IF b.length = 0 /\ b.len >= 4 THEN 4 ELSE 0
    ELSE IF b.len >= 1 THEN 1 ELSE 0

\* The number of bytes of the header that takeMessage() reads.
Header(b) ==
    IF b.type # 0 THEN IF b.length = 0 /\ b.len >= 4 THEN 4 ELSE 0
    ELSE IF b.len >= 5 THEN 5 ELSE IF b.len >= 1 THEN 1 ELSE 0

\* The payload has arrived.
Arrived(b, size, unread) == b.len - size >= unread

\* takeMessage(); what it returns is "ready".
TakeMessage(b) ==
    IF b.ready THEN b
    ELSE LET size   == Header(b)
             type   == IF b.type = 0 /\ size > 0 THEN TypeAt(At(b)) ELSE b.type
             length == IF size >= 4 THEN LengthAt(At(b) + size - 4) ELSE b.length
             unread == IF size >= 4 THEN length - 4 ELSE b.unread
         IN  [(IF size > 0 THEN Skip(b, size) ELSE b) EXCEPT
                 !.type = type, !.length = length, !.unread = unread,
                 !.ready = length # 0 /\ Arrived(b, size, unread)]

IsData(type) == type \in Number /\ Stream[type].data

\* takeMessageType($D); ensureFirstBuf() is also the first thing that
\* takeMessage() does.
TakeData(b) ==
    IF b.ready \/ b.len < 1 THEN b
    ELSE IF IsData(TypeAt(At(b))) THEN TakeMessage(b) ELSE EnsureFirstBuf(b)

\* Faulty variant: the length is not reset.
FinishedHalf(b) == [b EXCEPT !.type = 0, !.unread = 0, !.ready = FALSE]

\* _finishMessage().
Finished(b) == [b EXCEPT !.type = 0, !.length = 0, !.unread = 0, !.ready = FALSE]

-----------------------------------------------------------------------------
(* The socket.                                                             *)

Init ==
    /\ buffer = NewBuffer /\ paused = FALSE /\ pc = "idle"
    /\ received = 0 /\ fed = 0 /\ lost = Total
    /\ message = <<>> /\ handed = <<>>
    /\ overflow = FALSE /\ cause = "none"

Chunk(size) == [from |-> fed, to |-> fed + size]

\* _onData() of a chunk that the buffer takes or not.  Operations read without
\* awaiting anything.
Data(size, takes) ==
    /\ pc \in {"idle", "waiting"} /\ ~paused
    /\ received + size <= Total
    /\ received' = received + size
    /\ fed' = IF takes THEN fed + size ELSE fed
    /\ lost' = IF takes \/ lost < Total THEN lost ELSE fed

OnData(size) ==
    /\ Data(size, TRUE)
    /\ ~Overflows(buffer)
    /\ paused' = IsFull(buffer)
    /\ IF pc = "waiting"
       THEN /\ buffer' = TakeMessage(Fed(buffer, Chunk(size)))
            /\ pc' = IF buffer'.ready THEN "reading" ELSE "waiting"
       ELSE buffer' = Fed(buffer, Chunk(size)) /\ UNCHANGED pc
    /\ UNCHANGED seen

\* feed() throws: the operation that waits is told; without one the exception
\* ends the process.
OnDataOverflow(size) ==
    /\ Data(size, ~Rejects(buffer.bufs))
    /\ Overflows(buffer)
    /\ buffer' = IF Rejects(buffer.bufs) THEN buffer ELSE Fed(buffer, Chunk(size))
    /\ IF pc = "waiting" THEN pc' = "idle" /\ overflow' = TRUE
                         ELSE pc' = "crashed" /\ UNCHANGED overflow
    /\ UNCHANGED <<paused, message, handed, cause>>

-----------------------------------------------------------------------------
(* An operation.                                                           *)

Resume == paused' = FALSE

\* takeMessage() in the loop of an operation, then _waitForMessage().  In the
\* middle of an operation ("taking") nothing arrives before it.
WaitForMessage ==
    /\ pc \in {"idle", "taking"}
    /\ buffer' = TakeMessage(buffer)
    /\ \/ buffer'.ready /\ pc' = "reading" /\ UNCHANGED paused
       \/ ~buffer'.ready /\ pc' = "waiting" /\ Resume
    /\ UNCHANGED <<net, seen>>

\* The message is finished, and its bytes are those.
HandOver(bytes) ==
    /\ handed' = Append(handed, [type |-> buffer.type, bytes |-> bytes])
    /\ message' = <<>>

\* A read of that size throws: checkOverread(), or ensureFirstBuf() and
\* __nextBuf().
Throws(size) == size > buffer.len \/ NoBytes(buffer)

\* The size of a field; an empty one comes after its length.
IsField(size) == size > 0 \/ message # <<>>

\* readChar(), readInt32(), readBuffer() ...: a field, perhaps an empty one.
ReadField(size) ==
    /\ pc = "reading" /\ ~IsData(buffer.type)
    /\ IsField(size)
    /\ ~Throws(size)
    /\ buffer' = [Read(buffer, size) EXCEPT !.unread = @ - size]
    /\ message' = message \o Bytes(buffer, size)
    /\ UNCHANGED <<paused, pc, net, handed, overflow, cause>>

ReadFails(size) ==
    /\ pc = "reading"
    /\ IF IsData(buffer.type) THEN size = buffer.unread /\ size > 0 ELSE IsField(size)
    /\ Throws(size)
    /\ pc' = "failed"
    /\ cause' = IF size = 0 THEN "empty field" ELSE "missing bytes"
    /\ UNCHANGED <<buffer, paused, net, message, handed, overflow>>

\* finishMessage(), after which the operation has ended or takes another one.
FinishMessage ==
    /\ pc = "reading" /\ ~IsData(buffer.type)
    /\ buffer.unread = 0
    /\ buffer' = Finished(buffer)
    /\ HandOver(message)
    /\ pc' \in {"idle", "taking"}
    /\ UNCHANGED <<paused, net, overflow, cause>>

\* All of the message is read at once; nothing is read of an empty one.
TakeRest ==
    /\ pc = "reading" /\ IsData(buffer.type)
    /\ buffer.unread <= buffer.len
    /\ buffer' = Finished(IF buffer.unread > 0 THEN Skip(buffer, buffer.unread) ELSE buffer)
    /\ HandOver(Bytes(buffer, buffer.unread))

\* consumeMessageInto(), in the loop of _parseDataMessages().
ConsumeMessage ==
    /\ TakeRest
    /\ pc' = "data"
    /\ UNCHANGED <<paused, net, overflow, cause>>

TakeNextData ==
    /\ pc = "data"
    /\ buffer' = TakeData(buffer)
    /\ pc' = IF buffer'.ready THEN "reading" ELSE "taking"
    /\ UNCHANGED <<paused, net, seen>>

\* discardMessage(): an error was found before.
DiscardMessage ==
    /\ TakeRest
    /\ pc' = "taking"
    /\ UNCHANGED <<paused, net, overflow, cause>>

\* Nothing more is sent, received or read.
Rest ==
    /\ pc \in {"failed", "crashed"} \/ received = Total \/ overflow \/ paused
    /\ UNCHANGED vars

Socket == \E size \in ChunkSizes : OnData(size) \/ OnDataOverflow(size)

Operation ==
    \/ WaitForMessage
    \/ \E size \in 0..buffer.unread : ReadField(size) \/ ReadFails(size)
    \/ FinishMessage \/ ConsumeMessage \/ TakeNextData \/ DiscardMessage

Next == Socket \/ Operation \/ Rest

Spec == Init /\ [][Next]_vars

\* The network delivers, and somebody waits for messages.
FairSpec == Spec /\ WF_vars(Socket) /\ WF_vars(Operation)

-----------------------------------------------------------------------------
(* Properties.                                                             *)

\* The types of the variables; the chunks follow one another, and len counts
\* their bytes.
TypeOK ==
    /\ paused \in BOOLEAN /\ overflow \in BOOLEAN
    /\ pc \in {"idle", "taking", "waiting", "reading", "data", "failed", "crashed"}
    /\ fed \in 0..Total /\ received \in 0..Total /\ lost \in 0..Total
    /\ buffer.bufs.len \in 0..(Capacity - 1)
    /\ buffer.len = fed - buffer.buf0.from
    /\ \A n \in 1..buffer.bufs.len :
           ChunkAt(buffer, n).from = ChunkAt(buffer, n - 1).to

\* However the bytes are cut into chunks, and even after an overflow, messages
\* are read in the order they were sent, each with its own bytes and all of
\* them.
MessagesIntact ==
    \A n \in DOMAIN handed : handed[n] = [type |-> n, bytes |-> Payload(n)]

\* An overflow ends the process only after an operation was told of it.
ToldBeforeCrash == pc = "crashed" => overflow

\* Every message is read: nobody waits for what the client itself holds back,
\* and nothing but a message too long for the ring, or an empty field at the
\* end of all that was received, makes an operation fail.
AllAreRead ==
    <>(Len(handed) = Len(Stream) \/ overflow \/ cause = "empty field")
=============================================================================
