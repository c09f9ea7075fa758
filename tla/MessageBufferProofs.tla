------------------------ MODULE MessageBufferProofs ------------------------
(***************************************************************************)
(* The safety properties of MessageBuffer, for any messages, any sizes of  *)
(* chunks and a ring of any capacity that holds more than a header.        *)
(*                                                                         *)
(* The argument: the chunks that the buffer holds follow one another up to *)
(* the last byte that it was fed (Chained), and what takeMessage() has     *)
(* read says where in the stream the next byte is (Parsed), wherever the   *)
(* chunks were cut.  A full ring means that the socket is paused, or that  *)
(* an operation waits, or that one was told of an overflow (Told); and a   *)
(* chunk is lost only when the message in the ring can not end any more    *)
(* (Stuck), so that nothing is read past the loss.                         *)
(***************************************************************************)
EXTENDS MessageBuffer, TLAPS, FiniteSetTheorems, SequenceTheorems,
        WellFoundedInduction

Chunks == [from : Nat, to : Nat]

Rings == [buffer : [0..(Capacity - 1) -> Chunks \cup {Undefined}], len : 0..(Capacity - 1),
          reader : 0..(Capacity - 1), writer : 0..(Capacity - 1)]

Buffers == [bufs : Rings, buf0 : Chunks, len : Nat,
            type : Nat, length : Nat, unread : Nat, ready : BOOLEAN]

\* A ring's writer is as far from its reader as its length says.
RingOK(r) == r \in Rings /\ r.writer = (r.reader + r.len) % Capacity

\* The chunks of b follow one another, the last one ends at the given place.
Chained(b, end) ==
    LET L == b.bufs.len
    IN  /\ b \in Buffers /\ RingOK(b.bufs)
        /\ b.buf0.from <= b.buf0.to
        /\ \A n \in 1..L : ChunkAt(b, n) \in Chunks /\ ChunkAt(b, n).from < ChunkAt(b, n).to
        /\ \A n \in 1..L : ChunkAt(b, n).from = ChunkAt(b, n - 1).to
        /\ \A m, n \in 0..L : m < n => ChunkAt(b, m).to <= ChunkAt(b, n).from
        /\ ChunkAt(b, L).to = end /\ b.len = end - b.buf0.from

\* The first bytes of the payload of a message.
Beginning(c, size) == [k \in 1..size |-> Start[c] + 4 + k]

\* What b has read of message c, and the part of it that was read in fields.
Parsed(b, c, read) ==
    \/ /\ b.type = 0 /\ b.length = 0 /\ b.unread = 0 /\ ~b.ready
       /\ b.buf0.from = Start[c] /\ read = <<>>
    \/ /\ c \in Number /\ b.type = c /\ b.length = 0 /\ b.unread = 0 /\ ~b.ready
       /\ b.buf0.from = Start[c] + 1 /\ read = <<>>
    \/ /\ c \in Number /\ b.type = c /\ b.length = 4 + Stream[c].size
       /\ b.unread <= Stream[c].size
       /\ b.buf0.from = Start[c] + 5 + Stream[c].size - b.unread
       /\ read = Beginning(c, Stream[c].size - b.unread)
       /\ b.ready => b.unread <= b.len
       /\ ~b.ready \/ Stream[c].data => b.unread = Stream[c].size

\* There is not enough for takeMessage() to go on.
Starved(b) ==
    /\ ~b.ready
    /\ IF b.type = 0 THEN b.len = 0 ELSE IF b.length = 0 THEN b.len < 4 ELSE b.len < b.unread

Places == {"idle", "taking", "waiting", "reading", "data", "failed", "crashed"}

Typed ==
    /\ paused \in BOOLEAN /\ overflow \in BOOLEAN /\ pc \in Places
    /\ fed \in Nat /\ received \in Nat /\ lost \in Nat
    /\ fed <= received /\ received <= Total /\ fed <= lost /\ lost <= Total
    /\ handed \in Seq([type : Nat, bytes : Seq(Nat)]) /\ message \in Seq(Nat)
    /\ Len(handed) <= Len(Stream)

\* What the operation that is at work knows of the buffer.
Placed ==
    /\ pc = "reading" => buffer.ready
    /\ pc \notin {"reading", "failed"} => ~buffer.ready
    /\ pc = "idle" /\ ~overflow => buffer.type = 0
    /\ pc = "data" => buffer.type = 0
    /\ pc = "waiting" => Starved(buffer)

Told ==
    /\ Full(buffer.bufs) /\ ~overflow => paused \/ pc = "waiting"
    /\ ToldBeforeCrash

\* What is known once a chunk was lost.
Stuck ==
    lost < Total =>
        \/ pc = "crashed"
        \/ pc \in {"idle", "waiting"} /\ Full(buffer.bufs) /\ Starved(buffer)

MInv ==
    /\ Typed /\ Chained(buffer, fed) /\ Parsed(buffer, Len(handed) + 1, message)
    /\ Placed /\ Told /\ Stuck /\ MessagesIntact

-----------------------------------------------------------------------------
(* Induction over the naturals, for a set.                                 *)

LEMMA LeastNat ==
    ASSUME NEW T, T \subseteq Nat, T # {}
    PROVE  \E n \in T : \A m \in T : ~(m < n)
<1> DEFINE U == {0..n : n \in T}
           R == StrictSubsetOrdering(Nat)
           F == FiniteSubsetsOf(Nat)
<1>1. IsWellFoundedOn(R, F)
  BY FS_StrictSubsetOrderingWellFounded
<1>2. U \subseteq F /\ U # {}
  <2>1. ASSUME NEW n \in T PROVE 0..n \in F
    <3>1. IsFiniteSet(0..n)
      BY FS_Interval
    <3>2. 0..n \in SUBSET Nat
      OBVIOUS
    <3> QED
      BY <3>1, <3>2 DEF FiniteSubsetsOf
  <2> QED
    BY <2>1
<1>3. ASSUME NEW m \in T, NEW n \in T, m < n
      PROVE  <<0..m, 0..n>> \in R
  <2>1. m \in Nat /\ n \in Nat
    OBVIOUS
  <2>2. 0..m \subseteq 0..n /\ n \in 0..n /\ n \notin 0..m
    BY <1>3, <2>1
  <2>3. 0..m \in SUBSET Nat /\ 0..n \in SUBSET Nat /\ 0..m # 0..n
    BY <2>1, <2>2
  <2> QED
    BY <2>2, <2>3 DEF StrictSubsetOrdering
<1> HIDE DEF R, F
<1>4. PICK X \in U : \A Y \in U : ~(<<Y, X>> \in R)
  <2> HIDE DEF U
  <2> QED
    BY <1>1, <1>2, WFMin
<1>5. PICK n \in T : X = 0..n
  BY <1>4
<1> QED
  BY <1>3, <1>4, <1>5

LEMMA SetInduction ==
    ASSUME NEW S, 0 \in S, \A n \in Nat : n \in S => n + 1 \in S
    PROVE  Nat \subseteq S
<1> SUFFICES ASSUME Nat \ S # {} PROVE FALSE
  OBVIOUS
<1>1. PICK n \in Nat \ S : \A m \in Nat \ S : ~(m < n)
  BY LeastNat
<1>2. n # 0 /\ n - 1 \in Nat /\ (n - 1) + 1 = n /\ n - 1 < n
  BY <1>1
<1>3. n - 1 \in S
  BY <1>1, <1>2
<1> QED
  BY <1>1, <1>2, <1>3

-----------------------------------------------------------------------------
(* Where the messages begin.                                               *)

Begins(f, m) ==
    /\ f \in [1..(m + 1) -> Nat] /\ f[1] = 0
    /\ \A n \in 1..m : f[n + 1] = f[n] + 5 + Stream[n].size

LEMMA StreamFacts ==
    /\ Len(Stream) \in Nat
    /\ \A n \in 1..Len(Stream) : Stream[n].size \in Nat /\ Stream[n].data \in BOOLEAN
<1>1. Stream \in Seq([data : BOOLEAN, size : Nat])
  BY StreamAssumption
<1>2. Len(Stream) \in Nat /\ \A n \in 1..Len(Stream) : Stream[n] \in [data : BOOLEAN, size : Nat]
  BY <1>1, LenProperties, ElementOfSeq
<1> QED
  BY <1>2

\* The recursive definition of Start has a value.
LEMMA BeginsUpTo ==
    ASSUME NEW N \in Nat, N <= Len(Stream)
    PROVE  \E f : Begins(f, N)
<1> DEFINE S == {m \in Nat : m <= N => \E f : Begins(f, m)}
<1>1. 0 \in S
  <2>1. Begins([n \in 1..1 |-> 0], 0)
    BY DEF Begins
  <2> QED
    BY <2>1
<1>2. ASSUME NEW m \in Nat, m \in S PROVE m + 1 \in S
  <2>1. CASE ~(m + 1 <= N)
    BY <2>1
  <2>2. CASE m + 1 <= N
    <3>1. PICK f : Begins(f, m)
      BY <1>2, <2>2
    <3>2. PICK s \in Nat : s = Stream[m + 1].size
      BY <2>2, StreamFacts
    <3>3. f[m + 1] \in Nat
      BY <3>1 DEF Begins
    <3> DEFINE g == [n \in 1..(m + 2) |-> IF n = m + 2 THEN f[m + 1] + 5 + s ELSE f[n]]
    <3>4. /\ g \in [1..((m + 1) + 1) -> Nat] /\ g[1] = 0
      BY <3>1, <3>2, <3>3 DEF Begins
    <3>5. ASSUME NEW n \in 1..(m + 1) PROVE g[n + 1] = g[n] + 5 + Stream[n].size
      <4>1. CASE n = m + 1
        <5>1. g[n + 1] = f[m + 1] + 5 + s /\ g[n] = f[m + 1] /\ Stream[n].size = s
          BY <3>2, <4>1
        <5> QED
          BY <5>1
      <4>2. CASE n # m + 1
        <5>1. n \in 1..m
          BY <4>2
        <5>2. g[n + 1] = f[n + 1] /\ g[n] = f[n]
          BY <5>1
        <5> QED
          BY <3>1, <5>1, <5>2 DEF Begins
      <4> QED
        BY <4>1, <4>2
    <3>6. Begins(g, m + 1)
      BY <3>4, <3>5 DEF Begins
    <3> QED
      BY <3>6
  <2> QED
    BY <2>1, <2>2
<1> HIDE DEF S
<1>3. Nat \subseteq S
  BY <1>1, <1>2, SetInduction
<1>4. N \in S
  BY <1>3
<1> QED
  BY <1>4 DEF S

LEMMA StartBegins == Begins(Start, Len(Stream))
<1>1. PICK f : Begins(f, Len(Stream))
  BY BeginsUpTo, StreamFacts
<1>2. f = [n \in 1..(Len(Stream) + 1) |->
              IF n = 1 THEN 0 ELSE f[n - 1] + 5 + Stream[n - 1].size]
  <2>1. ASSUME NEW n \in 1..(Len(Stream) + 1)
        PROVE  f[n] = IF n = 1 THEN 0 ELSE f[n - 1] + 5 + Stream[n - 1].size
    <3>1. CASE n = 1
      BY <1>1, <3>1 DEF Begins
    <3>2. CASE n # 1
      <4>1. n - 1 \in 1..Len(Stream) /\ (n - 1) + 1 = n
        BY <3>2, StreamFacts
      <4>2. PICK p \in 1..Len(Stream) : p = n - 1
        BY <4>1
      <4>3. f[p + 1] = f[p] + 5 + Stream[p].size /\ p + 1 = n
        BY <1>1, <4>1, <4>2 DEF Begins
      <4> QED
        BY <3>2, <4>2, <4>3
    <3> QED
      BY <3>1, <3>2
  <2>2. DOMAIN f = 1..(Len(Stream) + 1) /\ f = [n \in DOMAIN f |-> f[n]]
    BY <1>1 DEF Begins
  <2> QED
    BY <2>1, <2>2
<1>3. Start = [n \in 1..(Len(Stream) + 1) |->
              IF n = 1 THEN 0 ELSE Start[n - 1] + 5 + Stream[n - 1].size]
  BY <1>2 DEF Start
<1>4. Start[1] = 0 /\ DOMAIN Start = 1..(Len(Stream) + 1)
  BY <1>3, StreamFacts
<1>5. ASSUME NEW n \in 1..Len(Stream) PROVE Start[n + 1] = Start[n] + 5 + Stream[n].size
  <2>1. PICK p \in 1..(Len(Stream) + 1) : p = n + 1
    BY StreamFacts
  <2>2. Start[p] = Start[p - 1] + 5 + Stream[p - 1].size
    BY <1>3, <2>1
  <2>3. p - 1 = n
    BY <2>1
  <2> QED
    BY <2>1, <2>2, <2>3
<1> DEFINE S == {n \in Nat : n <= Len(Stream) => Start[n + 1] \in Nat}
<1>6. 0 \in S
  BY <1>4
<1>7. ASSUME NEW n \in Nat, n \in S PROVE n + 1 \in S
  <2>1. CASE ~(n + 1 <= Len(Stream))
    BY <2>1
  <2>2. CASE n + 1 <= Len(Stream)
    <3>1. PICK p \in 1..Len(Stream) : p = n + 1
      BY <2>2, StreamFacts
    <3>2. Start[p] \in Nat /\ Stream[p].size \in Nat
      BY <1>7, <2>2, <3>1, StreamFacts
    <3>3. Start[p + 1] \in Nat
      BY <1>5, <3>2
    <3> QED
      BY <3>1, <3>3
  <2> QED
    BY <2>1, <2>2
<1> HIDE DEF S
<1>8. Nat \subseteq S
  BY <1>6, <1>7, SetInduction
<1>9. ASSUME NEW n \in 1..(Len(Stream) + 1) PROVE Start[n] \in Nat
  <2>1. PICK p \in Nat : p = n - 1 /\ p <= Len(Stream) /\ p + 1 = n
    BY StreamFacts
  <2>2. p \in S
    BY <1>8
  <2>3. Start[p + 1] \in Nat
    BY <2>1, <2>2 DEF S
  <2> QED
    BY <2>1, <2>3
<1>10. Start \in [1..(Len(Stream) + 1) -> Nat]
  <2>1. Start = [n \in DOMAIN Start |-> Start[n]]
    BY <1>3
  <2> QED
    BY <1>4, <1>9, <2>1
<1> QED
  BY <1>4, <1>5, <1>10 DEF Begins

LEMMA StartFacts ==
    /\ \A n \in 1..(Len(Stream) + 1) : Start[n] \in Nat
    /\ \A n \in Number : Start[n + 1] = Start[n] + 5 + Stream[n].size
    /\ Start[1] = 0 /\ Total = Start[Len(Stream) + 1] /\ Total \in Nat
<1>1. Len(Stream) + 1 \in 1..(Len(Stream) + 1)
  BY StreamFacts
<1> QED
  BY <1>1, StartBegins DEF Begins, Number, Total

\* A message begins after those before it have ended.
LEMMA StartsApart ==
    \A m, n \in 1..(Len(Stream) + 1) : m < n => Start[m] + 5 <= Start[n]
<1> DEFINE S == {k \in Nat : \A m \in 1..(Len(Stream) + 1) :
                    m + k + 1 <= Len(Stream) + 1 => Start[m] + 5 <= Start[m + k + 1]}
<1>1. 0 \in S
  <2>1. ASSUME NEW m \in 1..(Len(Stream) + 1), m + 1 <= Len(Stream) + 1
        PROVE  Start[m] + 5 <= Start[m + 1]
    <3>1. m \in Number
      BY <2>1, StreamFacts DEF Number
    <3>2. /\ Start[m] \in Nat /\ Stream[m].size \in Nat
          /\ Start[m + 1] = Start[m] + 5 + Stream[m].size
      BY <3>1, StartFacts, StreamFacts DEF Number
    <3> QED
      BY <3>2
  <2>2. \A m \in 1..(Len(Stream) + 1) : m + 0 + 1 = m + 1
    BY StreamFacts
  <2> QED
    BY <2>1, <2>2
<1>2. ASSUME NEW k \in Nat, k \in S PROVE k + 1 \in S
  <2>1. ASSUME NEW m \in 1..(Len(Stream) + 1), m + (k + 1) + 1 <= Len(Stream) + 1
        PROVE  Start[m] + 5 <= Start[m + (k + 1) + 1]
    <3>1. PICK p \in Nat : p = m + k + 1
      BY StreamFacts
    <3>2. p \in Number /\ p \in 1..(Len(Stream) + 1) /\ m + (k + 1) + 1 = p + 1
      BY <2>1, <3>1, StreamFacts DEF Number
    <3>3. Start[m] + 5 <= Start[p]
      BY <1>2, <2>1, <3>1, <3>2, StreamFacts
    <3>4. Start[p + 1] = Start[p] + 5 + Stream[p].size /\ Stream[p].size \in Nat
          /\ Start[p] \in Nat /\ Start[m] \in Nat
      BY <3>2, StartFacts, StreamFacts DEF Number
    <3>5. Start[m] + 5 <= Start[p + 1]
      BY <3>3, <3>4
    <3> QED
      BY <3>2, <3>5
  <2> QED
    BY <2>1
<1> HIDE DEF S
<1>3. Nat \subseteq S
  BY <1>1, <1>2, SetInduction
<1>4. ASSUME NEW m \in 1..(Len(Stream) + 1), NEW n \in 1..(Len(Stream) + 1), m < n
      PROVE  Start[m] + 5 <= Start[n]
  <2>1. PICK k \in Nat : k = n - m - 1 /\ m + k + 1 = n
    BY <1>4, StreamFacts
  <2>2. k \in S
    BY <1>3
  <2> QED
    BY <2>1, <2>2, StreamFacts DEF S
<1> QED
  BY <1>4

-----------------------------------------------------------------------------
(* The ring.                                                               *)

\* x is y places from the first one of the array, which goes round.
Wraps(x, y) ==
    /\ x \in 0..(Capacity - 1)
    /\ \/ y < Capacity /\ x = y
       \/ y >= Capacity /\ x = y - Capacity

LEMMA ModWraps ==
    ASSUME NEW y \in Nat, y < 2 * Capacity
    PROVE  Wraps(y % Capacity, y)
BY CapacityAssumption DEF Wraps

\* Where the n-th element is.
Spot(r, n) == (r.reader + n - 1) % Capacity

LEMMA RingFacts ==
    ASSUME NEW r, RingOK(r)
    PROVE  /\ r.len \in Nat /\ r.len < Capacity /\ r.reader \in Nat /\ r.reader < Capacity
           /\ r.writer \in Nat /\ r.writer < Capacity /\ Capacity \in Nat /\ Capacity > 5
           /\ Wraps(r.writer, r.reader + r.len)
           /\ Wraps(After(r.writer), r.writer + 1)
           /\ \A n \in 1..Capacity : Wraps(Spot(r, n), r.reader + n - 1)
           /\ r.buffer \in [0..(Capacity - 1) -> Chunks \cup {Undefined}]
           /\ \A n : Nth(r, n) = r.buffer[Spot(r, n)]
<1>1. /\ r.len \in Nat /\ r.len < Capacity /\ r.reader \in Nat /\ r.reader < Capacity
      /\ r.writer \in Nat /\ r.writer < Capacity /\ Capacity \in Nat /\ Capacity > 5
      /\ r.buffer \in [0..(Capacity - 1) -> Chunks \cup {Undefined}]
      /\ r.writer = (r.reader + r.len) % Capacity
  BY CapacityAssumption, StreamAssumption DEF RingOK, Rings
<1>2. Wraps(r.writer, r.reader + r.len)
  <2>1. r.reader + r.len \in Nat /\ r.reader + r.len < 2 * Capacity
    BY <1>1
  <2> QED
    BY <1>1, <2>1, ModWraps
<1>3. Wraps(After(r.writer), r.writer + 1)
  <2>1. r.writer + 1 \in Nat /\ r.writer + 1 < 2 * Capacity
    BY <1>1
  <2> QED
    BY <2>1, ModWraps DEF After
<1>4. ASSUME NEW n \in 1..Capacity PROVE Wraps(Spot(r, n), r.reader + n - 1)
  <2>1. r.reader + n - 1 \in Nat /\ r.reader + n - 1 < 2 * Capacity
    BY <1>1
  <2> QED
    BY <2>1, ModWraps DEF Spot
<1>5. \A n : Nth(r, n) = r.buffer[Spot(r, n)]
  BY DEF Nth, Spot
<1> QED
  BY <1>1, <1>2, <1>3, <1>4, <1>5

LEMMA RejectsIsFull ==
    ASSUME NEW r, RingOK(r)
    PROVE  (Rejects(r) <=> Full(r)) /\ (Drained(r) <=> r.len = 0)
<1>1. /\ r.len \in Nat /\ r.len < Capacity /\ r.reader \in Nat /\ r.reader < Capacity
      /\ r.writer \in Nat /\ r.writer < Capacity /\ Capacity \in Nat /\ Capacity > 5
      /\ Wraps(r.writer, r.reader + r.len)
      /\ Wraps(After(r.writer), r.writer + 1)
  BY RingFacts
<1>2. PICK c \in Nat, l \in Nat, a \in Nat, w \in Nat :
        /\ c = Capacity /\ l = r.len /\ a = r.reader /\ w = r.writer
        /\ l < c /\ a < c /\ w < c /\ c > 5
  BY <1>1
<1>3. (a + l < c /\ w = a + l) \/ (a + l >= c /\ w = a + l - c)
  BY <1>1, <1>2 DEF Wraps
<1>4. PICK v \in Nat : v = After(r.writer) /\ v < c
        /\ ((w + 1 < c /\ v = w + 1) \/ (w + 1 >= c /\ v = w + 1 - c))
  BY <1>1, <1>2 DEF Wraps
<1>5. a = v <=> l = c - 1
  BY ONLY <1>2, <1>3, <1>4
<1>6. a = w <=> l = 0
  BY ONLY <1>2, <1>3
<1> QED
  BY <1>2, <1>4, <1>5, <1>6 DEF Rejects, Full, Drained

LEMMA EnqFacts ==
    ASSUME NEW r, RingOK(r), ~Full(r), NEW d \in Chunks, NEW q, q = Enq(r, d)
    PROVE  /\ RingOK(q) /\ q.len = r.len + 1
           /\ \A n \in 1..r.len : Nth(q, n) = Nth(r, n)
           /\ Nth(q, q.len) = d
<1>1. /\ r.len \in Nat /\ r.len < Capacity /\ r.reader \in Nat /\ r.reader < Capacity
      /\ r.writer \in Nat /\ r.writer < Capacity /\ Capacity \in Nat /\ Capacity > 5
      /\ Wraps(r.writer, r.reader + r.len)
      /\ Wraps(After(r.writer), r.writer + 1)
      /\ \A n \in 1..Capacity : Wraps(Spot(r, n), r.reader + n - 1)
      /\ r.buffer \in [0..(Capacity - 1) -> Chunks \cup {Undefined}]
      /\ \A n : Nth(r, n) = r.buffer[Spot(r, n)]
  BY RingFacts
<1>2. /\ q.buffer = [r.buffer EXCEPT ![r.writer] = d] /\ q.writer = After(r.writer)
      /\ q.len = r.len + 1 /\ q.reader = r.reader
      /\ q = [buffer |-> q.buffer, len |-> q.len, reader |-> q.reader, writer |-> q.writer]
  BY DEF RingOK, Enq, Rings
<1> DEFINE c == Capacity
           l == r.len
           a == r.reader
           w == r.writer
           v == After(r.writer)
<1>3. /\ c \in Nat /\ l \in Nat /\ a \in Nat /\ w \in Nat /\ v \in Nat
      /\ l < c - 1 /\ a < c /\ w < c /\ v < c /\ c > 5
      /\ (a + l < c /\ w = a + l) \/ (a + l >= c /\ w = a + l - c)
      /\ (w + 1 < c /\ v = w + 1) \/ (w + 1 >= c /\ v = w + 1 - c)
  <2>1. c \in Nat /\ l \in Nat /\ a \in Nat /\ w \in Nat /\ l < c /\ a < c /\ w < c /\ c > 5
    BY <1>1
  <2>2. Wraps(w, a + l) /\ Wraps(v, w + 1)
    BY <1>1
  <2>3. l # c - 1
    BY DEF Full
  <2> HIDE DEF l, a, w, v
  <2>4. v \in Nat /\ v < c
    BY <2>1, <2>2 DEF Wraps
  <2>5. /\ (a + l < c /\ w = a + l) \/ (a + l >= c /\ w = a + l - c)
        /\ (w + 1 < c /\ v = w + 1) \/ (w + 1 >= c /\ v = w + 1 - c)
    BY ONLY <2>1, <2>2 DEF Wraps
  <2>6. l < c - 1
    BY ONLY <2>1, <2>3
  <2> QED
    BY <2>1, <2>4, <2>5, <2>6
<1>3a. c = Capacity /\ l = r.len /\ a = r.reader /\ w = r.writer /\ v = After(r.writer)
  OBVIOUS
<1> HIDE DEF c, l, a, w, v
<1>4. RingOK(q)
  <2>1. PICK x \in Nat : x = a + l + 1 /\ x < 2 * Capacity
    BY <1>3, <1>3a
  <2>2. Wraps(x % Capacity, x)
    BY <2>1, ModWraps
  <2>3. v = x % Capacity
    <3>1. PICK y \in Nat : y = x % Capacity
            /\ ((x < c /\ y = x) \/ (x >= c /\ y = x - c))
      BY <1>3, <1>3a, <2>2 DEF Wraps
    <3>2. v = y
      BY ONLY <1>3, <2>1, <3>1
    <3> QED
      BY <3>1, <3>2
  <2>4. q.writer = (q.reader + q.len) % Capacity
    BY <1>2, <1>3, <1>3a, <2>1, <2>3
  <2>5. /\ q.buffer \in [0..(Capacity - 1) -> Chunks \cup {Undefined}]
        /\ q.len \in 0..(Capacity - 1) /\ q.reader \in 0..(Capacity - 1)
        /\ q.writer \in 0..(Capacity - 1)
    BY <1>1, <1>2, <1>3, <1>3a
  <2> QED
    BY <1>2, <2>4, <2>5 DEF RingOK, Rings
<1>5. ASSUME NEW n \in 1..(r.len + 1)
      PROVE  Spot(q, n) = Spot(r, n) /\ Spot(r, n) \in 0..(Capacity - 1)
             /\ (Spot(r, n) = r.writer <=> n = r.len + 1)
  <2>1. n \in 1..Capacity
    BY <1>1
  <2>2. Wraps(Spot(r, n), r.reader + n - 1)
    BY <1>1, <2>1
  <2>3. Spot(q, n) = Spot(r, n)
    BY <1>2 DEF Spot
  <2>4. PICK s \in Nat, m \in Nat : s = Spot(r, n) /\ m = n /\ s < c /\ m > 0 /\ m <= l + 1
          /\ ((a + m - 1 < c /\ s = a + m - 1) \/ (a + m - 1 >= c /\ s = a + m - 1 - c))
    BY <1>3, <1>3a, <2>2 DEF Wraps
  <2>5. s = w <=> m = l + 1
    BY ONLY <1>3, <2>4
  <2> QED
    BY <1>3, <1>3a, <2>3, <2>4, <2>5
<1>6. \A n : Nth(q, n) = q.buffer[Spot(q, n)]
  BY <1>4, RingFacts
<1>7. ASSUME NEW n \in 1..r.len PROVE Nth(q, n) = Nth(r, n)
  <2>1. n \in 1..(r.len + 1) /\ n # r.len + 1
    BY <1>1
  <2>2. q.buffer[Spot(r, n)] = r.buffer[Spot(r, n)]
    BY <1>1, <1>2, <1>5, <2>1
  <2> QED
    BY <1>1, <1>5, <1>6, <2>1, <2>2
<1>8. Nth(q, q.len) = d
  <2>0. r.len \in Nat
    BY <1>1
  <2> DEFINE n == r.len + 1
  <2>1. n \in 1..(r.len + 1) /\ n = r.len + 1
    BY ONLY <2>0
  <2> HIDE DEF n
  <2>2. Spot(q, n) = r.writer
    BY <1>5, <2>1
  <2>3. q.buffer[Spot(q, n)] = d
    BY <1>1, <1>2, <2>2
  <2> QED
    BY <1>2, <1>6, <2>1, <2>3
<1> QED
  BY <1>2, <1>4, <1>7, <1>8

LEMMA DeqFacts ==
    ASSUME NEW r, RingOK(r), NEW k \in 0..r.len, NEW q, q = Deq(r, k)
    PROVE  /\ RingOK(q) /\ q.len = r.len - k
           /\ \A n \in 1..(r.len - k) : Nth(q, n) = Nth(r, n + k)
<1>1. /\ r.len \in Nat /\ r.len < Capacity /\ r.reader \in Nat /\ r.reader < Capacity
      /\ r.writer \in Nat /\ r.writer < Capacity /\ Capacity \in Nat /\ Capacity > 5
      /\ Wraps(r.writer, r.reader + r.len)
      /\ \A n \in 1..Capacity : Wraps(Spot(r, n), r.reader + n - 1)
      /\ r.buffer \in [0..(Capacity - 1) -> Chunks \cup {Undefined}]
      /\ \A n : Nth(r, n) = r.buffer[Spot(r, n)]
  BY RingFacts
<1> DEFINE gone(i) == \E j \in 0..(k - 1) : i = (r.reader + j) % Capacity
<1>2. /\ q.buffer = [i \in 0..(Capacity - 1) |-> IF gone(i) THEN Undefined ELSE r.buffer[i]]
      /\ q.reader = (r.reader + k) % Capacity
      /\ q.len = r.len - k /\ q.writer = r.writer
      /\ q = [buffer |-> q.buffer, len |-> q.len, reader |-> q.reader, writer |-> q.writer]
  BY <1>1 DEF RingOK, Deq, Rings
<1> HIDE DEF gone
<1>3. Wraps(q.reader, r.reader + k)
  <2>1. r.reader + k \in Nat /\ r.reader + k < 2 * Capacity
    BY <1>1
  <2> QED
    BY <1>2, <2>1, ModWraps
<1> DEFINE c == Capacity
           l == r.len
           a == r.reader
           w == r.writer
           b == q.reader
           h == k
<1>4. /\ c \in Nat /\ l \in Nat /\ a \in Nat /\ w \in Nat /\ b \in Nat /\ h \in Nat
      /\ l < c /\ a < c /\ w < c /\ b < c /\ h <= l /\ c > 5
      /\ (a + l < c /\ w = a + l) \/ (a + l >= c /\ w = a + l - c)
      /\ (a + h < c /\ b = a + h) \/ (a + h >= c /\ b = a + h - c)
  <2>1. /\ c \in Nat /\ l \in Nat /\ a \in Nat /\ w \in Nat /\ l < c /\ a < c /\ w < c /\ c > 5
        /\ h \in Nat /\ h <= l
    BY <1>1
  <2>2. Wraps(w, a + l) /\ Wraps(b, a + h)
    BY <1>1, <1>3
  <2> HIDE DEF l, a, w, b, h
  <2>3. b \in Nat /\ b < c
    BY <2>1, <2>2 DEF Wraps
  <2>4. /\ (a + l < c /\ w = a + l) \/ (a + l >= c /\ w = a + l - c)
        /\ (a + h < c /\ b = a + h) \/ (a + h >= c /\ b = a + h - c)
    BY ONLY <2>1, <2>2 DEF Wraps
  <2> QED
    BY <2>1, <2>3, <2>4
<1>4a. c = Capacity /\ l = r.len /\ a = r.reader /\ w = r.writer /\ b = q.reader /\ h = k
  OBVIOUS
<1> HIDE DEF c, l, a, w, b, h
<1>5. RingOK(q)
  <2>1. PICK x \in Nat : x = b + (l - h) /\ x < 2 * Capacity
    BY <1>4, <1>4a
  <2>2. Wraps(x % Capacity, x)
    BY <2>1, ModWraps
  <2>3. w = x % Capacity
    <3>1. PICK y \in Nat : y = x % Capacity
            /\ ((x < c /\ y = x) \/ (x >= c /\ y = x - c))
      BY <1>4, <1>4a, <2>2 DEF Wraps
    <3>2. w = y
      BY ONLY <1>4, <2>1, <3>1
    <3> QED
      BY <3>1, <3>2
  <2>4. q.writer = (q.reader + q.len) % Capacity
    BY <1>2, <1>4, <1>4a, <2>1, <2>3
  <2>5. q.buffer \in [0..(Capacity - 1) -> Chunks \cup {Undefined}]
    BY <1>1, <1>2
  <2>6. /\ q.len \in 0..(Capacity - 1) /\ q.reader \in 0..(Capacity - 1)
        /\ q.writer \in 0..(Capacity - 1)
    <3>1. q.len = l - h
      BY <1>2, <1>4a
    <3>2. l - h \in 0..(c - 1) /\ b \in 0..(c - 1) /\ w \in 0..(c - 1)
      BY ONLY <1>4
    <3> QED
      BY <1>2, <1>4a, <3>1, <3>2
  <2> QED
    BY <1>2, <2>4, <2>5, <2>6 DEF RingOK, Rings
<1>6. ASSUME NEW n \in 1..(r.len - k) PROVE Nth(q, n) = Nth(r, n + k)
  <2>1. PICK m \in 1..Capacity, p \in Nat : m = n + k /\ p = n /\ p > 0 /\ m = p + h /\ m <= l
    BY <1>4, <1>4a
  <2>2. Wraps(Spot(r, m), r.reader + m - 1)
    BY <1>1, <2>1
  <2>3. PICK s \in Nat : s = Spot(r, m) /\ s < c
          /\ ((a + m - 1 < c /\ s = a + m - 1) \/ (a + m - 1 >= c /\ s = a + m - 1 - c))
    BY <1>4, <1>4a, <2>2 DEF Wraps
  <2>4. Spot(q, n) = s
    <3>1. n \in 1..Capacity
      BY <1>1
    <3>2. Wraps(Spot(q, n), q.reader + n - 1)
      BY <1>5, <3>1, RingFacts
    <3>3. PICK t \in Nat : t = Spot(q, n) /\ t < c
            /\ ((b + p - 1 < c /\ t = b + p - 1) \/ (b + p - 1 >= c /\ t = b + p - 1 - c))
      BY <1>4, <1>4a, <2>1, <3>2 DEF Wraps
    <3>4. t = s
      BY ONLY <1>4, <2>1, <2>3, <3>3
    <3> QED
      BY <3>3, <3>4
  <2>5. ASSUME gone(s) PROVE FALSE
    <3>1. PICK j \in 0..(k - 1) : s = (r.reader + j) % Capacity
      BY <2>5 DEF gone
    <3>2. PICK i \in Nat : i = j /\ i < h
      BY <1>4, <1>4a, <3>1
    <3>3. PICK x \in Nat : x = a + i /\ x < 2 * Capacity
      BY <1>4, <1>4a, <3>2
    <3>4. Wraps(x % Capacity, x)
      BY <3>3, ModWraps
    <3>5. (x < c /\ s = x) \/ (x >= c /\ s = x - c)
      BY <1>4, <1>4a, <3>1, <3>2, <3>3, <3>4 DEF Wraps
    <3> QED
      BY ONLY <1>4, <2>1, <2>3, <3>2, <3>3, <3>5
  <2>6. q.buffer[s] = r.buffer[s]
    BY <1>2, <1>4, <1>4a, <2>3, <2>5
  <2>7. Nth(q, n) = r.buffer[s]
    BY <1>5, <2>4, <2>6, RingFacts
  <2> QED
    BY <1>1, <2>1, <2>3, <2>7
<1> QED
  BY <1>2, <1>5, <1>6

-----------------------------------------------------------------------------
(* The chunks of the buffer.                                               *)

\* b has the fields of a buffer, but for the chunks.
Fields(b) ==
    /\ b.type \in Nat /\ b.length \in Nat /\ b.unread \in Nat /\ b.ready \in BOOLEAN
    /\ b = [bufs |-> b.bufs, buf0 |-> b.buf0, len |-> b.len, type |-> b.type,
            length |-> b.length, unread |-> b.unread, ready |-> b.ready]

SameFields(b, c) ==
    c.type = b.type /\ c.length = b.length /\ c.unread = b.unread /\ c.ready = b.ready

\* The chunks of d after the first n are those of b, up to the place f in the
\* first one of them.
Follows(d, b, n, f, end) ==
    /\ d.bufs = Deq(b.bufs, n) /\ d.buf0 = [from |-> f, to |-> ChunkAt(b, n).to]
    /\ d.len = end - f

LEMMA ChainFacts ==
    ASSUME NEW b, NEW end, Chained(b, end)
    PROVE  /\ Fields(b) /\ RingOK(b.bufs) /\ b.bufs.len \in Nat /\ b.bufs.len < Capacity
           /\ b.buf0 \in Chunks /\ b.buf0.from \in Nat /\ b.buf0.to \in Nat
           /\ b.buf0.from <= b.buf0.to
           /\ \A n \in 0..b.bufs.len : ChunkAt(b, n) \in Chunks
           /\ \A n \in 0..b.bufs.len : ChunkAt(b, n).to \in Nat /\ ChunkAt(b, n).from \in Nat
           /\ ChunkAt(b, 0) = b.buf0 /\ ChunkAt(b, b.bufs.len).to = end
           /\ end \in Nat /\ b.len \in Nat /\ b.len = end - b.buf0.from
<1>1. /\ b \in Buffers /\ RingOK(b.bufs) /\ b.buf0.from <= b.buf0.to
      /\ ChunkAt(b, b.bufs.len).to = end /\ b.len = end - b.buf0.from
      /\ \A n \in 1..b.bufs.len : ChunkAt(b, n) \in Chunks
  BY DEF Chained
<1>2. /\ b.bufs.len \in Nat /\ b.bufs.len < Capacity
  BY <1>1, RingFacts
<1>3. /\ Fields(b) /\ b.buf0 \in Chunks /\ b.len \in Nat
      /\ b.buf0.from \in Nat /\ b.buf0.to \in Nat
  BY <1>1 DEF Buffers, Fields, Chunks
<1>4. ChunkAt(b, 0) = b.buf0
  BY DEF ChunkAt
<1>5. ASSUME NEW n \in 0..b.bufs.len PROVE ChunkAt(b, n) \in Chunks
  <2>1. CASE n = 0
    BY <1>3, <1>4, <2>1
  <2>2. CASE n # 0
    <3>1. n \in 1..b.bufs.len
      BY <1>2, <2>2
    <3> QED
      BY <1>1, <3>1
  <2> QED
    BY <2>1, <2>2
<1>6. \A n \in 0..b.bufs.len : ChunkAt(b, n).to \in Nat /\ ChunkAt(b, n).from \in Nat
  BY <1>5 DEF Chunks
<1>7. b.bufs.len \in 0..b.bufs.len
  BY <1>2
<1>8. end \in Nat
  BY <1>1, <1>6, <1>7
<1> QED
  BY <1>1, <1>2, <1>3, <1>4, <1>5, <1>6, <1>8

LEMMA FollowsFacts ==
    ASSUME NEW b, NEW end, Chained(b, end), NEW n \in 0..b.bufs.len,
           NEW f \in Nat, f <= ChunkAt(b, n).to,
           NEW d, Fields(d), Follows(d, b, n, f, end)
    PROVE  Chained(d, end) /\ d.buf0.from = f /\ d.bufs.len <= b.bufs.len
<1> DEFINE L == b.bufs.len
           M == d.bufs.len
<1>1. /\ RingOK(b.bufs) /\ L \in Nat /\ end \in Nat
      /\ \A m \in 0..L : ChunkAt(b, m).to \in Nat
      /\ ChunkAt(b, L).to = end
  BY ChainFacts
<1>2. /\ \A m \in 1..L : ChunkAt(b, m) \in Chunks /\ ChunkAt(b, m).from < ChunkAt(b, m).to
      /\ \A m \in 1..L : ChunkAt(b, m).from = ChunkAt(b, m - 1).to
      /\ \A k, m \in 0..L : k < m => ChunkAt(b, k).to <= ChunkAt(b, m).from
  BY DEF Chained
<1>3. /\ RingOK(d.bufs) /\ M = L - n
      /\ \A m \in 1..(L - n) : Nth(d.bufs, m) = Nth(b.bufs, m + n)
  <2>1. d.bufs = Deq(b.bufs, n)
    BY DEF Follows
  <2> QED
    BY <1>1, <2>1, DeqFacts
<1>4. M \in Nat /\ M <= L
  BY <1>1, <1>3
<1>5. /\ d.buf0.from = f /\ d.buf0.to = ChunkAt(b, n).to /\ d.buf0 \in Chunks
      /\ ChunkAt(d, 0) = d.buf0
  BY <1>1 DEF Follows, Chunks, ChunkAt
<1>6. ASSUME NEW m \in 1..M
      PROVE  ChunkAt(d, m) = ChunkAt(b, m + n) /\ m + n \in 1..L
  <2>1. m # 0 /\ m + n # 0 /\ m + n \in 1..L /\ m \in 1..(L - n)
    BY <1>1, <1>3
  <2> QED
    BY <1>3, <2>1 DEF ChunkAt
<1>7. ASSUME NEW m \in 0..M
      PROVE  ChunkAt(d, m).to = ChunkAt(b, m + n).to /\ m + n \in 0..L
  <2>1. CASE m = 0
    BY <1>5, <2>1
  <2>2. CASE m # 0
    <3>1. m \in 1..M
      BY <1>4, <2>2
    <3> QED
      BY <1>6, <3>1
  <2> QED
    BY <2>1, <2>2
<1> HIDE DEF L, M
<1>8. \A m \in 1..M : ChunkAt(d, m) \in Chunks /\ ChunkAt(d, m).from < ChunkAt(d, m).to
  BY <1>2, <1>6
<1>9. ASSUME NEW m \in 1..M PROVE ChunkAt(d, m).from = ChunkAt(d, m - 1).to
  <2>1. PICK p \in 0..M : p = m - 1 /\ p + n = (m + n) - 1
    BY <1>4
  <2>2. ChunkAt(d, p).to = ChunkAt(b, p + n).to
    BY <1>7, <2>1
  <2>3. ChunkAt(d, m).from = ChunkAt(b, (m + n) - 1).to
    BY <1>2, <1>6
  <2> QED
    BY <2>1, <2>2, <2>3
<1>10. ASSUME NEW k \in 0..M, NEW m \in 0..M, k < m
       PROVE  ChunkAt(d, k).to <= ChunkAt(d, m).from
  <2>1. m \in 1..M /\ k + n < m + n
    BY <1>4, <1>10
  <2>2. ChunkAt(b, k + n).to <= ChunkAt(b, m + n).from
    BY <1>2, <1>7, <2>1
  <2> QED
    BY <1>6, <1>7, <2>1, <2>2
<1>11. ChunkAt(d, M).to = end
  <2>1. M \in 0..M /\ M + n = L
    BY <1>1, <1>3, <1>4
  <2> QED
    BY <1>1, <1>7, <2>1
<1>12. d.len = end - d.buf0.from /\ d.len \in Nat
  <2>1. f <= end
    <3>1. CASE n = L
      BY <1>1, <3>1
    <3>2. CASE n # L
      <4>1. n \in 0..L /\ L \in 0..L /\ L \in 1..L /\ n < L
        BY <1>1, <3>2 DEF L
      <4>2. ChunkAt(b, n).to <= ChunkAt(b, L).from /\ ChunkAt(b, L).from < ChunkAt(b, L).to
        BY <1>2, <4>1
      <4>3. ChunkAt(b, L).from \in Nat /\ ChunkAt(b, n).to \in Nat
        BY <1>1, <1>2, <4>1 DEF Chunks
      <4> QED
        BY <1>1, <4>2, <4>3
    <3> QED
      BY <3>1, <3>2
  <2>2. d.len = end - f
    BY DEF Follows
  <2> QED
    BY <1>1, <1>5, <2>1, <2>2
<1>13. d \in Buffers
  BY <1>3, <1>5, <1>12 DEF Fields, Buffers, RingOK
<1>14. d.buf0.from <= d.buf0.to
  BY <1>5
<1> QED
  BY <1>3, <1>4, <1>5, <1>8, <1>9, <1>10, <1>11, <1>12, <1>13, <1>14 DEF Chained, L, M

\* Where byte p is.
LEMMA ChunksBeforeFacts ==
    ASSUME NEW b, NEW end, Chained(b, end), NEW p \in Nat, p < end,
           NEW n, n = ChunksBefore(b, p)
    PROVE  /\ n \in 0..b.bufs.len /\ p < ChunkAt(b, n).to
           /\ \A m \in 0..b.bufs.len : m < n => ChunkAt(b, m).to <= p
<1> DEFINE L == b.bufs.len
           T == {m \in 0..L : p < ChunkAt(b, m).to}
<1>1. /\ L \in Nat /\ end \in Nat /\ \A m \in 0..L : ChunkAt(b, m).to \in Nat
      /\ \A m \in 0..L : ChunkAt(b, m).from \in Nat
      /\ ChunkAt(b, L).to = end
  BY ChainFacts
<1>2. /\ \A m \in 1..L : ChunkAt(b, m).from < ChunkAt(b, m).to
      /\ \A k, m \in 0..L : k < m => ChunkAt(b, k).to <= ChunkAt(b, m).from
  BY DEF Chained
<1> HIDE DEF L
<1>3. L \in T /\ T \subseteq Nat
  BY <1>1
<1>4. PICK t \in T : \A m \in T : ~(m < t)
  BY <1>3, LeastNat
<1>5. ASSUME NEW m \in 0..L PROVE m < t <=> ChunkAt(b, m).to <= p
  <2>1. CASE m < t
    <3>1. m \notin T
      BY <1>4, <2>1
    <3> QED
      BY <1>1, <2>1, <3>1
  <2>2. CASE m = t
    BY <1>1, <2>2
  <2>3. CASE t < m
    <3>1. t \in 0..L /\ m \in 1..L
      BY <2>3
    <3>2. ChunkAt(b, t).to <= ChunkAt(b, m).from /\ ChunkAt(b, m).from < ChunkAt(b, m).to
      BY <1>2, <2>3, <3>1
    <3>3. p < ChunkAt(b, m).to
      BY <1>1, <3>1, <3>2
    <3> QED
      BY <1>1, <2>3, <3>3
  <2> QED
    BY <1>1, <2>1, <2>2, <2>3
<1>6. {m \in 0..L : ChunkAt(b, m).to <= p} = 0..(t - 1)
  <2>1. t \in 0..L
    OBVIOUS
  <2>2. \A m : m \in 0..(t - 1) <=> m \in 0..L /\ m < t
    BY <1>1, <2>1
  <2> QED
    BY <1>5, <2>2
<1>7. Cardinality(0..(t - 1)) = t
  <2>1. t \in Nat
    BY <1>1
  <2>2. Cardinality(0..(t - 1)) = IF 0 > t - 1 THEN 0 ELSE (t - 1) - 0 + 1
    BY <2>1, FS_Interval
  <2> QED
    BY <2>1, <2>2
<1>8. n = t
  BY <1>6, <1>7 DEF ChunksBefore, L
<1> QED
  BY <1>5, <1>8 DEF L

-----------------------------------------------------------------------------
(* What reads the bytes of the chunks, and what adds one.                  *)

\* size bytes were taken from b, and d is what is left.
Taken(d, b, size, end) ==
    /\ Chained(d, end) /\ SameFields(b, d)
    /\ d.buf0.from = b.buf0.from + size /\ d.len = b.len - size
    /\ d.bufs.len <= b.bufs.len

LEMMA SkipFacts ==
    ASSUME NEW b, NEW end, Chained(b, end), NEW size \in Nat, size > 0, size <= b.len,
           NEW d, d = Skip(b, size)
    PROVE  Taken(d, b, size, end)
<1>1. /\ Fields(b) /\ b.buf0.from \in Nat /\ end \in Nat /\ b.len \in Nat
      /\ b.len = end - b.buf0.from
      /\ \A n \in 0..b.bufs.len : ChunkAt(b, n).to \in Nat
  BY ChainFacts
<1>2. PICK p \in Nat : p = b.buf0.from + size - 1 /\ p < end
  BY <1>1
<1>3. PICK n : n = ChunksBefore(b, p)
  OBVIOUS
<1>4. n \in 0..b.bufs.len /\ p < ChunkAt(b, n).to
  BY <1>2, <1>3, ChunksBeforeFacts
<1>5. PICK f \in Nat : f = b.buf0.from + size
  BY <1>1
<1>6. f <= ChunkAt(b, n).to
  BY <1>1, <1>2, <1>4, <1>5
<1>7. /\ d.buf0 = [from |-> f, to |-> ChunkAt(b, n).to]
      /\ d.bufs = Deq(b.bufs, n) /\ d.len = b.len - size
      /\ SameFields(b, d) /\ Fields(d)
  BY <1>1, <1>2, <1>3, <1>5 DEF Skip, Fields, SameFields
<1>8. d.len = end - f
  BY <1>1, <1>5, <1>7
<1>9. Follows(d, b, n, f, end)
  BY <1>7, <1>8 DEF Follows
<1>10. Chained(d, end) /\ d.buf0.from = f /\ d.bufs.len <= b.bufs.len
  BY <1>4, <1>6, <1>7, <1>9, FollowsFacts
<1> QED
  BY <1>5, <1>7, <1>10 DEF Taken

LEMMA EnsureFacts ==
    ASSUME NEW b, NEW end, Chained(b, end), b.len >= 1, NEW d, d = EnsureFirstBuf(b)
    PROVE  Taken(d, b, 0, end)
<1>1. /\ Fields(b) /\ b.buf0.from \in Nat /\ end \in Nat /\ b.len \in Nat
      /\ b.len = end - b.buf0.from /\ b.bufs.len \in Nat
      /\ b.buf0.from <= b.buf0.to /\ b.buf0.to \in Nat
      /\ \A n \in 0..b.bufs.len : ChunkAt(b, n).to \in Nat /\ ChunkAt(b, n).from \in Nat
      /\ \A n \in 0..b.bufs.len : ChunkAt(b, n) \in Chunks
      /\ ChunkAt(b, 0) = b.buf0
  BY ChainFacts
<1>2. PICK p \in Nat : p = b.buf0.from /\ p < end
  BY <1>1
<1>3. PICK n : n = ChunksBefore(b, p)
  OBVIOUS
<1>4. /\ n \in 0..b.bufs.len /\ p < ChunkAt(b, n).to
      /\ \A m \in 0..b.bufs.len : m < n => ChunkAt(b, m).to <= p
  BY <1>2, <1>3, ChunksBeforeFacts
<1>5. ChunkAt(b, n).from = p
  <2>1. CASE n = 0
    BY <1>1, <1>2, <2>1
  <2>2. CASE n # 0
    <3>1. PICK m \in 0..b.bufs.len : m = n - 1 /\ m < n
      BY <1>1, <1>4, <2>2
    <3>2. ChunkAt(b, n).from = ChunkAt(b, m).to /\ ChunkAt(b, m).to <= p
      BY <1>4, <2>2, <3>1 DEF Chained
    <3>3. CASE m = 0
      BY <1>1, <1>2, <3>2, <3>3
    <3>4. CASE m # 0
      <4>1. 0 \in 0..b.bufs.len /\ m \in 1..b.bufs.len /\ 0 < m
        BY <1>1, <3>4
      <4>2. /\ ChunkAt(b, 0).to <= ChunkAt(b, m).from
            /\ ChunkAt(b, m).from < ChunkAt(b, m).to
        BY <4>1 DEF Chained
      <4> QED
        BY <1>1, <1>2, <3>2, <4>2
    <3> QED
      BY <3>3, <3>4
  <2> QED
    BY <2>1, <2>2
<1>6. /\ d.buf0 = ChunkAt(b, n) /\ d.bufs = Deq(b.bufs, n) /\ d.len = b.len
      /\ SameFields(b, d) /\ Fields(d)
  BY <1>1, <1>2, <1>3 DEF EnsureFirstBuf, Fields, SameFields
<1>7. d.buf0 = [from |-> p, to |-> ChunkAt(b, n).to]
  BY <1>1, <1>4, <1>5, <1>6 DEF Chunks
<1>8. Follows(d, b, n, p, end)
  BY <1>1, <1>2, <1>6, <1>7 DEF Follows
<1>9. Chained(d, end) /\ d.buf0.from = p /\ d.bufs.len <= b.bufs.len
  BY <1>1, <1>4, <1>6, <1>8, FollowsFacts
<1>10. d.buf0.from = b.buf0.from + 0 /\ d.len = b.len - 0
  BY <1>1, <1>2, <1>6, <1>9
<1> QED
  BY <1>6, <1>9, <1>10 DEF Taken

\* Where the next byte is.
LEMMA AtIsNext ==
    ASSUME NEW b, NEW end, Chained(b, end), b.len >= 1
    PROVE  At(b) = b.buf0.from
<1>1. Taken(EnsureFirstBuf(b), b, 0, end)
  BY EnsureFacts
<1>2. b.buf0.from \in Nat
  BY ChainFacts
<1> QED
  BY <1>1, <1>2 DEF Taken, At

\* A buffer whose chunks have no bytes has none.
LEMMA NoBytesIsEmpty ==
    ASSUME NEW b, NEW end, Chained(b, end)
    PROVE  NoBytes(b) <=> b.len = 0
<1>1. /\ b.buf0.from \in Nat /\ end \in Nat /\ b.len \in Nat
      /\ b.len = end - b.buf0.from /\ b.bufs.len \in Nat
      /\ b.buf0.from <= b.buf0.to /\ b.buf0.to \in Nat
      /\ \A n \in 0..b.bufs.len : ChunkAt(b, n).to \in Nat /\ ChunkAt(b, n).from \in Nat
      /\ ChunkAt(b, 0) = b.buf0 /\ ChunkAt(b, b.bufs.len).to = end
      /\ RingOK(b.bufs)
  BY ChainFacts
<1>2. Drained(b.bufs) <=> b.bufs.len = 0
  BY <1>1, RejectsIsFull
<1>3. Size(b.buf0) = 0 <=> b.buf0.to = b.buf0.from
  BY <1>1 DEF Size
<1>4. CASE b.bufs.len = 0
  BY <1>1, <1>2, <1>3, <1>4 DEF NoBytes
<1>5. CASE b.bufs.len # 0
  <2>1. 0 \in 0..b.bufs.len /\ b.bufs.len \in 1..b.bufs.len /\ 0 < b.bufs.len
    BY <1>1, <1>5
  <2>2. /\ ChunkAt(b, 0).to <= ChunkAt(b, b.bufs.len).from
        /\ ChunkAt(b, b.bufs.len).from < ChunkAt(b, b.bufs.len).to
    BY <2>1 DEF Chained
  <2>3. ChunkAt(b, b.bufs.len).from \in Nat
    BY <1>1, <2>1
  <2>4. b.buf0.from < end
    BY <1>1, <2>2, <2>3
  <2>5. b.len # 0
    BY <1>1, <2>4
  <2> QED
    BY <1>2, <1>5, <2>5 DEF NoBytes
<1> QED
  BY <1>4, <1>5

LEMMA ReadFacts ==
    ASSUME NEW b, NEW end, Chained(b, end), NEW size \in Nat, ~Throws(size),
           b = buffer, NEW d, d = Read(b, size)
    PROVE  Taken(d, b, size, end) /\ At(b) = b.buf0.from
<1>1. b.len \in Nat
  BY ChainFacts
<1>2. b.len >= 1 /\ size <= b.len
  BY <1>1, NoBytesIsEmpty DEF Throws
<1>3. At(b) = b.buf0.from
  BY <1>2, AtIsNext
<1>4. CASE size = 0
  <2>1. d = EnsureFirstBuf(b)
    BY <1>4 DEF Read
  <2> QED
    BY <1>2, <1>3, <1>4, <2>1, EnsureFacts
<1>5. CASE size # 0
  <2>1. d = Skip(b, size) /\ size > 0
    BY <1>5 DEF Read
  <2> QED
    BY <1>2, <1>3, <2>1, SkipFacts
<1> QED
  BY <1>4, <1>5

\* A buffer that takes a chunk has its bytes after those that it had.
LEMMA FedFacts ==
    ASSUME NEW b, NEW end, Chained(b, end), NEW size \in Nat, size > 0,
           IsFirst(b) \/ ~Rejects(b.bufs),
           NEW d, d = Fed(b, [from |-> end, to |-> end + size])
    PROVE  /\ Chained(d, end + size) /\ SameFields(b, d)
           /\ d.buf0.from = b.buf0.from /\ d.len = b.len + size
           /\ Full(d.bufs) => IsFull(b)
<1>1. /\ Fields(b) /\ b.buf0.from \in Nat /\ end \in Nat /\ b.len \in Nat
      /\ b.len = end - b.buf0.from /\ b.bufs.len \in Nat /\ b.buf0 \in Chunks
      /\ b.buf0.from <= b.buf0.to /\ b.buf0.to \in Nat
      /\ \A n \in 0..b.bufs.len : ChunkAt(b, n).to \in Nat /\ ChunkAt(b, n).from \in Nat
      /\ ChunkAt(b, 0) = b.buf0 /\ ChunkAt(b, b.bufs.len).to = end
      /\ RingOK(b.bufs)
  BY ChainFacts
<1>2. PICK c \in Chunks : c = [from |-> end, to |-> end + size]
        /\ c.from = end /\ c.to = end + size
  BY <1>1 DEF Chunks
<1>2a. d = Fed(b, c) /\ Size(c) = size
  BY <1>1, <1>2 DEF Size
<1>3. CASE IsFirst(b)
  <2>0. d = [b EXCEPT !.buf0 = c, !.len = size]
    BY <1>2a, <1>3 DEF Fed
  <2>1. d.buf0 = c /\ d.bufs = b.bufs /\ d.len = size /\ SameFields(b, d) /\ Fields(d)
    BY <1>1, <2>0 DEF Fields, SameFields
  <2>2. b.bufs.len = 0 /\ b.buf0.to = b.buf0.from
    BY <1>1, <1>3 DEF IsFirst, Size
  <2>3. b.buf0.from = end /\ b.len = 0
    BY <1>1, <2>2
  <2>4. d.buf0.from = b.buf0.from /\ d.len = b.len + size
    BY <1>2, <2>1, <2>3
  <2>5. ChunkAt(d, d.bufs.len).to = end + size /\ d.len = (end + size) - d.buf0.from
    BY <1>1, <1>2, <2>1, <2>2 DEF ChunkAt
  <2>6. d \in Buffers
    BY <1>1, <1>2, <2>1 DEF Fields, Buffers, RingOK
  <2>7. /\ 1..d.bufs.len = {} /\ \A m, n \in 0..d.bufs.len : ~(m < n)
        /\ d.buf0.from <= d.buf0.to
    BY <1>1, <1>2, <2>1, <2>2
  <2>8. Chained(d, end + size)
    BY <1>1, <2>1, <2>5, <2>6, <2>7 DEF Chained
  <2>9. ~Full(d.bufs)
    BY <1>1, <2>1, <2>2, RingFacts DEF Full
  <2> QED
    BY <2>1, <2>4, <2>8, <2>9
<1>4. CASE ~IsFirst(b)
  <2> DEFINE L == b.bufs.len
             M == d.bufs.len
  <2>1. ~Full(b.bufs)
    BY <1>1, <1>4, RejectsIsFull
  <2>2. /\ d.buf0 = b.buf0 /\ d.bufs = Enq(b.bufs, c) /\ d.len = b.len + size
        /\ SameFields(b, d) /\ Fields(d)
    <3>1. d = [b EXCEPT !.bufs = Enq(@, c), !.len = @ + size]
      BY <1>2a, <1>4 DEF Fed
    <3> QED
      BY <1>1, <3>1 DEF Fields, SameFields
  <2>3. /\ RingOK(d.bufs) /\ M = L + 1
        /\ \A n \in 1..L : Nth(d.bufs, n) = Nth(b.bufs, n)
        /\ Nth(d.bufs, M) = c
    BY <1>1, <2>1, <2>2, EnqFacts
  <2>4. L \in Nat /\ M \in Nat /\ M # 0
    BY <1>1, <2>3
  <2>5. /\ \A n \in 1..L : ChunkAt(b, n) \in Chunks /\ ChunkAt(b, n).from < ChunkAt(b, n).to
        /\ \A n \in 1..L : ChunkAt(b, n).from = ChunkAt(b, n - 1).to
        /\ \A m, n \in 0..L : m < n => ChunkAt(b, m).to <= ChunkAt(b, n).from
    BY DEF Chained
  <2>6. ASSUME NEW n \in 0..L PROVE ChunkAt(d, n) = ChunkAt(b, n)
    <3>1. CASE n = 0
      BY <2>2, <3>1 DEF ChunkAt
    <3>2. CASE n # 0
      <4>1. n \in 1..L
        BY <2>4, <3>2
      <4> QED
        BY <2>3, <3>2, <4>1 DEF ChunkAt
    <3> QED
      BY <3>1, <3>2
  <2>7. ChunkAt(d, M) = c
    BY <2>3, <2>4 DEF ChunkAt
  <2>8. /\ ChunkAt(b, L).to = end /\ \A n \in 0..L : ChunkAt(b, n).to \in Nat
        /\ \A n \in 0..L : ChunkAt(b, n).from \in Nat
    BY <1>1
  <2> HIDE DEF L, M
  <2>9. ASSUME NEW n \in 1..M
        PROVE  /\ ChunkAt(d, n) \in Chunks /\ ChunkAt(d, n).from < ChunkAt(d, n).to
               /\ ChunkAt(d, n).from = ChunkAt(d, n - 1).to
    <3>1. CASE n = M
      <4>1. L \in 0..L /\ n - 1 = L
        BY <2>3, <2>4, <3>1
      <4>2. ChunkAt(d, n - 1).to = end
        BY <2>6, <2>8, <4>1
      <4>3. c.from < c.to
        BY <1>1, <1>2
      <4> QED
        BY <1>2, <2>7, <3>1, <4>2, <4>3
    <3>2. CASE n # M
      <4>1. n \in 1..L /\ n \in 0..L /\ n - 1 \in 0..L
        BY <2>3, <2>4, <3>2
      <4> QED
        BY <2>5, <2>6, <4>1
    <3> QED
      BY <3>1, <3>2
  <2>10. ASSUME NEW m \in 0..M, NEW n \in 0..M, m < n
         PROVE  ChunkAt(d, m).to <= ChunkAt(d, n).from
    <3>1. m \in 0..L
      BY <2>3, <2>4, <2>10
    <3>2. CASE n = M
      <4>1. L \in 0..L
        BY <2>4
      <4>2. ChunkAt(b, m).to <= end
        <5>1. CASE m = L
          BY <1>1, <2>8, <5>1
        <5>2. CASE m # L
          <6>1. m < L /\ L \in 1..L
            BY <2>4, <3>1, <5>2
          <6>2. ChunkAt(b, m).to <= ChunkAt(b, L).from /\ ChunkAt(b, L).from < ChunkAt(b, L).to
            BY <2>5, <3>1, <4>1, <6>1
          <6> QED
            BY <2>8, <3>1, <4>1, <6>2
        <5> QED
          BY <5>1, <5>2
      <4> QED
        BY <1>2, <2>6, <2>7, <3>1, <3>2, <4>2
    <3>3. CASE n # M
      <4>1. n \in 0..L
        BY <2>3, <2>4, <3>3
      <4> QED
        BY <2>5, <2>6, <2>10, <3>1, <4>1
    <3> QED
      BY <3>2, <3>3
  <2>11. d \in Buffers /\ d.buf0.from <= d.buf0.to
    BY <1>1, <2>2, <2>3 DEF Fields, Buffers, RingOK
  <2>12. d.len = (end + size) - d.buf0.from
    BY <1>1, <2>2
  <2>13. Chained(d, end + size)
    BY <1>2, <2>3, <2>7, <2>9, <2>10, <2>11, <2>12 DEF Chained, M
  <2>14. IsFull(b) <=> L + 1 = Capacity - 1
    BY <1>1, <1>4 DEF IsFull, Full, Enq, RingOK, Rings, L
  <2>15. Full(d.bufs) => IsFull(b)
    BY <2>3, <2>14 DEF Full, M
  <2> QED
    BY <2>2, <2>13, <2>15
<1> QED
  BY <1>3, <1>4

-----------------------------------------------------------------------------
(* What takeMessage() reads.                                               *)

LEMMA TypeThere ==
    ASSUME NEW c \in Number, Start[c] < lost
    PROVE  TypeAt(Start[c]) = c
<1>1. \A n \in Number : Start[n] = Start[c] => n = c
  <2>1. ASSUME NEW n \in Number, Start[n] = Start[c] PROVE n = c
    <3>1. n \in 1..(Len(Stream) + 1) /\ c \in 1..(Len(Stream) + 1)
      BY StreamFacts DEF Number
    <3>2. Start[n] \in Nat /\ Start[c] \in Nat
      BY <3>1, StartFacts
    <3>3. ~(n < c) /\ ~(c < n)
      BY <2>1, <3>1, <3>2, StartsApart
    <3> QED
      BY <3>1, <3>3, StreamFacts
  <2> QED
    BY <2>1
<1>2. (CHOOSE n \in Number : Start[n] = Start[c]) = c
  BY <1>1
<1> QED
  BY <1>2 DEF TypeAt

LEMMA LengthThere ==
    ASSUME NEW c \in Number, NEW p \in Nat, p = Start[c] + 1, p + 3 < lost
    PROVE  LengthAt(p) = 4 + Stream[c].size
<1>1. \A n \in Number : Start[n] + 1 = p => n = c
  <2>1. ASSUME NEW n \in Number, Start[n] + 1 = p PROVE n = c
    <3>1. n \in 1..(Len(Stream) + 1) /\ c \in 1..(Len(Stream) + 1)
      BY StreamFacts DEF Number
    <3>2. Start[n] \in Nat /\ Start[c] \in Nat
      BY <3>1, StartFacts
    <3>3. Start[n] = Start[c]
      BY <2>1, <3>2
    <3>4. ~(n < c) /\ ~(c < n)
      BY <3>1, <3>2, <3>3, StartsApart
    <3> QED
      BY <3>1, <3>4, StreamFacts
  <2> QED
    BY <2>1
<1>2. (CHOOSE n \in Number : Start[n] + 1 = p) = c
  BY <1>1
<1> QED
  BY <1>2 DEF LengthAt

\* b with what its header says.
With(b, type, length, unread, ready) ==
    [b EXCEPT !.type = type, !.length = length, !.unread = unread, !.ready = ready]

LEMMA SameChunks ==
    ASSUME NEW b, NEW end, Chained(b, end), NEW d, Fields(d),
           d.buf0 = b.buf0, d.bufs = b.bufs, d.len = b.len
    PROVE  Chained(d, end)
<1>1. b \in Buffers /\ RingOK(b.bufs)
  BY DEF Chained
<1>2. d \in Buffers
  BY <1>1 DEF Fields, Buffers
<1>3. \A n : ChunkAt(d, n) = ChunkAt(b, n)
  BY DEF ChunkAt
<1> QED
  BY <1>2, <1>3 DEF Chained

LEMMA WithFacts ==
    ASSUME NEW b, NEW end, Chained(b, end), NEW type \in Nat, NEW length \in Nat,
           NEW unread \in Nat, NEW ready \in BOOLEAN,
           NEW d, d = With(b, type, length, unread, ready)
    PROVE  /\ Chained(d, end) /\ d.buf0 = b.buf0 /\ d.bufs = b.bufs /\ d.len = b.len
           /\ d.type = type /\ d.length = length /\ d.unread = unread /\ d.ready = ready
<1>1. /\ b \in Buffers /\ b.buf0 \in Chunks /\ b.len \in Nat
  BY ChainFacts DEF Chained
<1>2. /\ d.buf0 = b.buf0 /\ d.bufs = b.bufs /\ d.len = b.len
      /\ d.type = type /\ d.length = length /\ d.unread = unread /\ d.ready = ready
      /\ d \in Buffers
  BY <1>1 DEF With, Buffers
<1>3. \A n : ChunkAt(d, n) = ChunkAt(b, n)
  BY <1>2 DEF ChunkAt
<1>4. Chained(d, end)
  BY <1>2, <1>3 DEF Chained
<1> QED
  BY <1>2, <1>4

\* What d has more than b of message c, the header of which d may have read.
Took(d, b, end, c, read) ==
    /\ Chained(d, end) /\ Parsed(d, c, read) /\ d.bufs.len <= b.bufs.len
    /\ ~d.ready => Starved(d)

LEMMA TakeIs ==
    ASSUME NEW b, ~b.ready, NEW d, d = TakeMessage(b), NEW size, size = Header(b),
           NEW type, type = IF b.type = 0 /\ size > 0 THEN TypeAt(At(b)) ELSE b.type,
           NEW length, length = IF size >= 4 THEN LengthAt(At(b) + size - 4) ELSE b.length,
           NEW unread, unread = IF size >= 4 THEN length - 4 ELSE b.unread,
           NEW t, t = IF size > 0 THEN Skip(b, size) ELSE b
    PROVE  d = With(t, type, length, unread, length # 0 /\ Arrived(b, size, unread))
BY DEF TakeMessage, With

\* Nothing of message c has come.
LEMMA NothingRead ==
    ASSUME NEW t, NEW end, Chained(t, end), NEW c, t.buf0.from = Start[c], t.len = 0,
           NEW type, type = 0, NEW length, length = 0, NEW unread, unread = 0,
           NEW ready \in BOOLEAN, ~ready, NEW d, d = With(t, type, length, unread, ready),
           NEW b, t.bufs.len <= b.bufs.len, NEW read, read = <<>>
    PROVE  Took(d, b, end, c, read)
<1>1. type \in Nat /\ length \in Nat /\ unread \in Nat
  OBVIOUS
<1>2. /\ Chained(d, end) /\ d.buf0 = t.buf0 /\ d.bufs = t.bufs /\ d.len = t.len
      /\ d.type = type /\ d.length = length /\ d.unread = unread /\ d.ready = ready
  BY ONLY Chained(t, end), <1>1, ready \in BOOLEAN,
          d = With(t, type, length, unread, ready), WithFacts
<1>3. Parsed(d, c, read)
  BY <1>2 DEF Parsed
<1>4. Starved(d)
  BY <1>2 DEF Starved
<1> QED
  BY <1>2, <1>3, <1>4 DEF Took

\* No more than the type of message c was read, and there is not its length.
LEMMA TypeRead ==
    ASSUME NEW t, NEW end, Chained(t, end), NEW c \in Number,
           t.buf0.from = Start[c] + 1, t.len < 4,
           NEW type, type = c, NEW length, length = 0, NEW unread, unread = 0,
           NEW ready \in BOOLEAN, ~ready, NEW d, d = With(t, type, length, unread, ready),
           NEW b, t.bufs.len <= b.bufs.len, NEW read, read = <<>>
    PROVE  Took(d, b, end, c, read)
<1>1. /\ type \in Nat /\ length \in Nat /\ unread \in Nat
      /\ type # 0
  <2>1. c \in Nat /\ c # 0
    BY StreamFacts DEF Number
  <2> QED
    BY <2>1
<1>2. /\ Chained(d, end) /\ d.buf0 = t.buf0 /\ d.bufs = t.bufs /\ d.len = t.len
      /\ d.type = type /\ d.length = length /\ d.unread = unread /\ d.ready = ready
  BY ONLY Chained(t, end), <1>1, ready \in BOOLEAN,
          d = With(t, type, length, unread, ready), WithFacts
<1>3. Parsed(d, c, read)
  BY <1>2 DEF Parsed
<1>4. Starved(d)
  BY <1>1, <1>2 DEF Starved
<1> QED
  BY <1>2, <1>3, <1>4 DEF Took

\* The header of message c was read, and it is known whether it has come.
LEMMA HeaderRead ==
    ASSUME NEW t, NEW end, Chained(t, end), NEW c \in Number, NEW s \in Nat,
           s = Stream[c].size, t.buf0.from = Start[c] + 5,
           NEW type, type = c, NEW length, length = 4 + s, NEW unread, unread = s,
           NEW ready \in BOOLEAN, ready <=> t.len >= s,
           NEW d, d = With(t, type, length, unread, ready),
           NEW b, t.bufs.len <= b.bufs.len, NEW read, read = <<>>
    PROVE  Took(d, b, end, c, read)
<1>1. /\ type \in Nat /\ length \in Nat /\ unread \in Nat
      /\ type # 0 /\ length # 0
  BY StreamFacts DEF Number
<1>2. /\ Chained(d, end) /\ d.buf0 = t.buf0 /\ d.bufs = t.bufs /\ d.len = t.len
      /\ d.type = type /\ d.length = length /\ d.unread = unread /\ d.ready = ready
  BY ONLY Chained(t, end), <1>1, ready \in BOOLEAN,
          d = With(t, type, length, unread, ready), WithFacts
<1>3. t.len \in Nat /\ Start[c] \in Nat
  BY ChainFacts, StartFacts, StreamFacts DEF Number
<1>4. Beginning(c, s - s) = <<>>
  <2>1. 1..(s - s) = {}
    OBVIOUS
  <2> QED
    BY <2>1 DEF Beginning
<1>5. t.buf0.from = Start[c] + 5 + s - s
  BY <1>3
<1>6. Parsed(d, c, read)
  <2>1. /\ d.type = c /\ d.length = 4 + Stream[c].size /\ d.unread = s
        /\ d.unread = Stream[c].size /\ d.unread <= Stream[c].size
    BY <1>2
  <2>2. d.buf0.from = Start[c] + 5 + Stream[c].size - d.unread
    BY <1>2, <1>5, <2>1
  <2>3. read = Beginning(c, Stream[c].size - d.unread)
    BY <1>4, <2>1
  <2>4. d.ready => d.unread <= d.len
    BY <1>2, <1>3, <2>1
  <2> QED
    BY <2>1, <2>2, <2>3, <2>4 DEF Parsed
<1>7. ~d.ready => Starved(d)
  BY <1>1, <1>2, <1>3 DEF Starved
<1> QED
  BY <1>2, <1>6, <1>7 DEF Took

\* A message of which less than all has come begins before what comes.
LEMMA Unfinished ==
    ASSUME NEW b, NEW end, Chained(b, end), end <= Total, b.len >= 1,
           NEW c \in 1..(Len(Stream) + 1), b.buf0.from = Start[c]
    PROVE  c \in Number
<1>1. b.len \in Nat /\ b.len = end - b.buf0.from /\ b.buf0.from \in Nat /\ end \in Nat
  BY ChainFacts
<1>2. c # Len(Stream) + 1
  BY <1>1, StartFacts
<1> QED
  BY <1>2, StreamFacts DEF Number

LEMMA TakeFacts ==
    ASSUME NEW b, NEW end, Chained(b, end), lost \in Nat, end <= lost, end <= Total,
           NEW c \in 1..(Len(Stream) + 1), NEW read, Parsed(b, c, read), ~b.ready,
           NEW d, d = TakeMessage(b)
    PROVE  Took(d, b, end, c, read)
<1>1. /\ Fields(b) /\ b.buf0.from \in Nat /\ end \in Nat /\ b.len \in Nat
      /\ b.len = end - b.buf0.from /\ b.bufs.len \in Nat
      /\ b.type \in Nat /\ b.length \in Nat /\ b.unread \in Nat
  BY ChainFacts DEF Fields
<1>2. /\ Start[c] \in Nat
      /\ c \in Number => Stream[c].size \in Nat /\ c \in Nat /\ c # 0
  BY StartFacts, StreamFacts DEF Number
<1>3. PICK size, t, type, length, unread :
        /\ size = Header(b)
        /\ t = IF size > 0 THEN Skip(b, size) ELSE b
        /\ type = IF b.type = 0 /\ size > 0 THEN TypeAt(At(b)) ELSE b.type
        /\ length = IF size >= 4 THEN LengthAt(At(b) + size - 4) ELSE b.length
        /\ unread = IF size >= 4 THEN length - 4 ELSE b.unread
  OBVIOUS
<1>4. PICK ready \in BOOLEAN : ready = (length # 0 /\ Arrived(b, size, unread))
  OBVIOUS
<1>4a. ready <=> length # 0 /\ b.len - size >= unread
  BY <1>4 DEF Arrived
<1>5. d = With(t, type, length, unread, ready)
  BY <1>3, <1>4, TakeIs
<1>6. ASSUME size \in Nat, size > 0, size <= b.len
      PROVE  Taken(t, b, size, end)
  BY <1>3, <1>6, SkipFacts
<1>7. ASSUME b.type = 0, b.length = 0, b.unread = 0, b.buf0.from = Start[c], read = <<>>
      PROVE  Took(d, b, end, c, read)
  <2>1. CASE b.len = 0
    <3>1. size = 0
      BY <1>3, <1>7, <2>1 DEF Header
    <3>2. t = b /\ type = 0 /\ length = 0 /\ unread = 0 /\ ~ready
      BY <1>3, <1>4a, <1>7, <3>1
    <3> QED
      BY <1>1, <1>5, <1>7, <2>1, <3>2, NothingRead
  <2>2. ASSUME b.len >= 1
        PROVE  /\ c \in Number /\ At(b) = Start[c] /\ TypeAt(At(b)) = c
    <3>1. c \in Number
      BY <1>7, <2>2, Unfinished
    <3>2. At(b) = Start[c]
      BY <1>7, <2>2, AtIsNext
    <3>3. Start[c] < lost
      BY <1>1, <1>7, <2>2
    <3> QED
      BY <3>1, <3>2, <3>3, TypeThere
  <2>3. CASE b.len >= 1 /\ b.len < 5
    <3>1. size = 1
      BY <1>1, <1>3, <1>7, <2>3 DEF Header
    <3>2. Taken(t, b, size, end)
      BY <1>6, <2>3, <3>1
    <3>3. type = c /\ length = 0 /\ unread = 0 /\ ~ready
      BY <1>3, <1>4a, <1>7, <2>2, <2>3, <3>1
    <3>4. /\ Chained(t, end) /\ t.buf0.from = Start[c] + 1 /\ t.len < 4
          /\ t.bufs.len <= b.bufs.len
      BY <1>1, <1>7, <2>3, <3>1, <3>2 DEF Taken
    <3> QED
      BY <1>5, <1>7, <2>2, <2>3, <3>3, <3>4, TypeRead
  <2>4. CASE b.len >= 5
    <3>1. size = 5
      BY <1>1, <1>3, <1>7, <2>4 DEF Header
    <3>2. Taken(t, b, size, end)
      BY <1>6, <2>4, <3>1
    <3>3. c \in Number /\ At(b) = Start[c] /\ TypeAt(At(b)) = c
      BY <1>1, <2>2, <2>4
    <3>4. PICK s \in Nat : s = Stream[c].size
      BY <1>2, <3>3
    <3>5. LengthAt(At(b) + size - 4) = 4 + s
      <4>1. PICK p \in Nat : p = Start[c] + 1 /\ p = At(b) + size - 4
        BY <1>2, <3>1, <3>3
      <4>2. p + 3 < lost
        BY <1>1, <1>7, <2>4, <4>1
      <4> QED
        BY <3>3, <3>4, <4>1, <4>2, LengthThere
    <3>6. type = c /\ length = 4 + s /\ unread = s
      BY <1>3, <1>7, <3>1, <3>3, <3>5
    <3>7. /\ Chained(t, end) /\ t.buf0.from = Start[c] + 5 /\ t.len = b.len - size
          /\ t.bufs.len <= b.bufs.len
      BY <1>1, <1>7, <3>1, <3>2 DEF Taken
    <3>8. ready <=> t.len >= s
      BY <1>2, <1>4a, <3>4, <3>6, <3>7
    <3> QED
      BY <1>5, <1>7, <3>3, <3>4, <3>6, <3>7, <3>8, HeaderRead
  <2> QED
    BY <1>1, <2>1, <2>3, <2>4
<1>8. ASSUME c \in Number, b.type = c, b.length = 0, b.unread = 0,
             b.buf0.from = Start[c] + 1, read = <<>>
      PROVE  Took(d, b, end, c, read)
  <2>1. CASE b.len < 4
    <3>1. size = 0
      BY <1>1, <1>2, <1>3, <1>8, <2>1 DEF Header
    <3>2. t = b /\ type = c /\ length = 0 /\ unread = 0 /\ ~ready
      BY <1>3, <1>4a, <1>8, <3>1
    <3> QED
      BY <1>1, <1>5, <1>8, <2>1, <3>2, TypeRead
  <2>2. CASE b.len >= 4
    <3>1. size = 4
      BY <1>1, <1>2, <1>3, <1>8, <2>2 DEF Header
    <3>2. Taken(t, b, size, end)
      BY <1>6, <2>2, <3>1
    <3>3. At(b) = Start[c] + 1
      BY <1>1, <1>8, <2>2, AtIsNext
    <3>4. PICK s \in Nat : s = Stream[c].size
      BY <1>2, <1>8
    <3>5. LengthAt(At(b) + size - 4) = 4 + s
      <4>1. PICK p \in Nat : p = Start[c] + 1
        BY <1>2
      <4>2. p + 3 < lost /\ p = At(b) + size - 4
        BY <1>1, <1>8, <2>2, <3>1, <3>3, <4>1
      <4> QED
        BY <1>8, <3>4, <4>1, <4>2, LengthThere
    <3>6. type = c /\ length = 4 + s /\ unread = s
      BY <1>2, <1>3, <1>8, <3>1, <3>5
    <3>7. /\ Chained(t, end) /\ t.buf0.from = Start[c] + 5 /\ t.len = b.len - size
          /\ t.bufs.len <= b.bufs.len
      BY <1>1, <1>2, <1>8, <3>1, <3>2 DEF Taken
    <3>8. ready <=> t.len >= s
      BY <1>2, <1>4a, <3>4, <3>6, <3>7
    <3> QED
      BY <1>5, <1>8, <3>4, <3>6, <3>7, <3>8, HeaderRead
  <2> QED
    BY <1>1, <2>1, <2>2
<1>9. ASSUME c \in Number, b.type = c, b.length = 4 + Stream[c].size,
             b.unread = Stream[c].size,
             b.buf0.from = Start[c] + 5 + Stream[c].size - b.unread,
             read = Beginning(c, Stream[c].size - b.unread)
      PROVE  Took(d, b, end, c, read)
  <2>1. PICK s \in Nat : s = Stream[c].size
    BY <1>2, <1>9
  <2>2. size = 0
    BY <1>1, <1>2, <1>3, <1>9, <2>1 DEF Header
  <2>3. t = b /\ type = c /\ length = 4 + s /\ unread = s
    BY <1>3, <1>9, <2>1, <2>2
  <2>4. ready <=> t.len >= s
    BY <1>1, <1>4a, <2>1, <2>2, <2>3
  <2>5. b.buf0.from = Start[c] + 5 /\ Beginning(c, s - s) = <<>>
    <3>1. 1..(s - s) = {}
      OBVIOUS
    <3> QED
      BY <1>2, <1>9, <2>1, <3>1 DEF Beginning
  <2>6. read = <<>>
    BY <1>9, <2>1, <2>5
  <2>7. Chained(t, end) /\ t.buf0.from = Start[c] + 5 /\ t.bufs.len <= b.bufs.len
    BY <1>1, <2>3, <2>5
  <2> QED
    BY <1>5, <1>9, <2>1, <2>3, <2>4, <2>6, <2>7, HeaderRead
<1> QED
  BY <1>7, <1>8, <1>9 DEF Parsed

\* takeMessage() takes nothing when there is not enough.
LEMMA StarvedStays ==
    ASSUME NEW b, NEW end, Chained(b, end), NEW c, NEW read, Parsed(b, c, read), Starved(b),
           NEW d, d = TakeMessage(b)
    PROVE  ~d.ready /\ d.bufs = b.bufs
<1>1. b.len \in Nat /\ b.type \in Nat /\ b.length \in Nat /\ b.unread \in Nat /\ b \in Buffers
  BY ChainFacts DEF Fields, Chained
<1>2. c \in Number => c # 0 /\ 4 + Stream[c].size # 0
  BY StreamFacts DEF Number
<1>3. Header(b) = 0
  BY <1>1, <1>2 DEF Header, Starved, Parsed
<1>4. ~(b.length # 0 /\ b.len - 0 >= b.unread)
  BY <1>1, <1>2 DEF Starved, Parsed
<1>5. ~b.ready
  BY DEF Starved
<1>6. PICK size, type, length, unread, t :
        /\ size = Header(b)
        /\ type = IF b.type = 0 /\ size > 0 THEN TypeAt(At(b)) ELSE b.type
        /\ length = IF size >= 4 THEN LengthAt(At(b) + size - 4) ELSE b.length
        /\ unread = IF size >= 4 THEN length - 4 ELSE b.unread
        /\ t = IF size > 0 THEN Skip(b, size) ELSE b
  OBVIOUS
<1>7. t = b /\ length = b.length /\ unread = b.unread /\ size = 0
  BY <1>3, <1>6
<1>8. PICK ready \in BOOLEAN : ready = (length # 0 /\ Arrived(b, size, unread))
  OBVIOUS
<1>9. ~ready
  BY <1>4, <1>7, <1>8 DEF Arrived
<1>10. d = With(t, type, length, unread, ready)
  BY <1>5, <1>6, <1>8, TakeIs
<1>11. d.ready = ready /\ d.bufs = b.bufs
  BY <1>1, <1>7, <1>10 DEF With, Buffers
<1> QED
  BY <1>9, <1>11

-----------------------------------------------------------------------------
(* What the steps have in common.                                          *)

LEMMA InvFacts ==
    ASSUME MInv
    PROVE  /\ Typed /\ Chained(buffer, fed) /\ Parsed(buffer, Len(handed) + 1, message)
           /\ Placed /\ Told /\ Stuck /\ MessagesIntact
           /\ fed \in Nat /\ lost \in Nat /\ fed <= lost /\ fed <= Total /\ lost <= Total
           /\ Total \in Nat
           /\ Len(handed) + 1 \in 1..(Len(Stream) + 1) /\ Len(handed) \in Nat
           /\ RingOK(buffer.bufs)
<1>1. /\ Typed /\ Chained(buffer, fed) /\ Parsed(buffer, Len(handed) + 1, message)
      /\ Placed /\ Told /\ Stuck /\ MessagesIntact
  BY DEF MInv
<1>2. Total \in Nat
  BY StartFacts
<1>3. /\ fed \in Nat /\ lost \in Nat /\ received \in Nat /\ fed <= lost /\ lost <= Total
      /\ Len(handed) <= Len(Stream)
      /\ handed \in Seq([type : Nat, bytes : Seq(Nat)])
  BY <1>1 DEF Typed
<1>4. fed <= Total
  BY <1>2, <1>3
<1>5. Len(handed) \in Nat
  BY <1>3, LenProperties
<1>6. Len(handed) + 1 \in 1..(Len(Stream) + 1)
  BY <1>3, <1>5, StreamFacts
<1>7. RingOK(buffer.bufs)
  BY <1>1, ChainFacts
<1> QED
  BY <1>1, <1>2, <1>3, <1>4, <1>5, <1>6, <1>7

\* A ring that has lost elements is full only if it was.
LEMMA FullBefore ==
    ASSUME NEW r, RingOK(r), NEW q, RingOK(q), q.len <= r.len, Full(q)
    PROVE  Full(r)
<1>1. r.len \in Nat /\ r.len < Capacity /\ q.len \in Nat /\ Capacity \in Nat
  BY RingFacts
<1> QED
  BY <1>1 DEF Full

\* A step that only reads leaves the socket and what is known of it alone.
LEMMA OnlyReads ==
    ASSUME MInv, pc \in {"reading", "data"},
           pc' \in {"reading", "data", "idle", "taking", "failed"},
           UNCHANGED <<paused, net, overflow>>,
           Chained(buffer', fed), buffer'.bufs.len <= buffer.bufs.len
    PROVE  Told' /\ Stuck' /\ Chained(buffer', fed')
<1>1. Told /\ Stuck /\ RingOK(buffer.bufs) /\ RingOK(buffer'.bufs)
  BY InvFacts, ChainFacts
<1>2. Full(buffer'.bufs) => Full(buffer.bufs)
  BY <1>1, FullBefore
<1>3. Told'
  BY <1>1, <1>2 DEF Told, ToldBeforeCrash
<1>4. Total' = Total
  BY DEF Total
<1>5. Stuck'
  BY <1>1, <1>4 DEF Stuck, net
<1>6. Chained(buffer', fed')
  BY DEF net
<1> QED
  BY <1>3, <1>5, <1>6

LEMMA FinishedFacts ==
    ASSUME NEW b, NEW end, Chained(b, end), NEW c \in Number,
           b.buf0.from = Start[c] + 5 + Stream[c].size, NEW d, d = Finished(b)
    PROVE  /\ Chained(d, end) /\ Parsed(d, c + 1, <<>>) /\ d.bufs = b.bufs
           /\ d.type = 0 /\ ~d.ready
<1>1. PICK z \in Nat, f \in BOOLEAN : z = 0 /\ ~f
  OBVIOUS
<1>2. d = With(b, z, z, z, f)
  <2>1. f = FALSE
    BY <1>1
  <2> QED
    BY <1>1, <2>1 DEF Finished, With
<1>3. /\ Chained(d, end) /\ d.buf0 = b.buf0 /\ d.bufs = b.bufs /\ d.len = b.len
      /\ d.type = z /\ d.length = z /\ d.unread = z /\ d.ready = f
  BY ONLY Chained(b, end), <1>2, z \in Nat, f \in BOOLEAN, WithFacts
<1>4. Start[c + 1] = Start[c] + 5 + Stream[c].size
  BY StartFacts
<1>5. Parsed(d, c + 1, <<>>)
  BY <1>1, <1>3, <1>4 DEF Parsed
<1> QED
  BY <1>1, <1>3, <1>5

\* The message that is handed over is the next one.
LEMMA HandedOver ==
    ASSUME MInv, NEW c \in Number, c = Len(handed) + 1, buffer.type = c,
           NEW bytes, bytes = Payload(c), HandOver(bytes)
    PROVE  /\ handed' \in Seq([type : Nat, bytes : Seq(Nat)]) /\ Len(handed') = c
           /\ MessagesIntact' /\ message' = <<>> /\ message' \in Seq(Nat)
           /\ c <= Len(Stream)
<1>1. /\ handed \in Seq([type : Nat, bytes : Seq(Nat)]) /\ MessagesIntact
      /\ Len(handed) \in Nat
  BY InvFacts DEF Typed
<1>2. c \in Nat /\ c <= Len(Stream) /\ Start[c] \in Nat /\ Stream[c].size \in Nat
  BY StartFacts, StreamFacts DEF Number
<1>3. bytes \in Seq(Nat)
  <2>1. PICK s \in Nat : s = Stream[c].size
    BY <1>2
  <2>2. bytes = [k \in 1..s |-> Start[c] + 4 + k]
    BY <2>1 DEF Payload
  <2>3. \A k \in 1..s : Start[c] + 4 + k \in Nat
    BY <1>2
  <2> QED
    BY <2>2, <2>3, IsASeq
<1>4. PICK e \in [type : Nat, bytes : Seq(Nat)] : e = [type |-> c, bytes |-> bytes]
  BY <1>2, <1>3
<1>5. handed' = Append(handed, e) /\ message' = <<>>
  BY <1>4 DEF HandOver
<1>6. /\ handed' \in Seq([type : Nat, bytes : Seq(Nat)]) /\ Len(handed') = Len(handed) + 1
      /\ \A i \in 1..Len(handed) : handed'[i] = handed[i]
      /\ handed'[Len(handed) + 1] = e
  BY <1>1, <1>5, AppendProperties
<1>7. DOMAIN handed' = 1..(Len(handed) + 1) /\ DOMAIN handed = 1..Len(handed)
  BY <1>1, <1>6, LenProperties
<1>8. \A n \in DOMAIN handed' : handed'[n] = [type |-> n, bytes |-> Payload(n)]
  <2>1. ASSUME NEW n \in 1..(Len(handed) + 1)
        PROVE  handed'[n] = [type |-> n, bytes |-> Payload(n)]
    <3>1. CASE n = Len(handed) + 1
      BY <1>4, <1>6, <3>1
    <3>2. CASE n # Len(handed) + 1
      <4>1. n \in 1..Len(handed)
        BY <1>1, <3>2
      <4> QED
        BY <1>1, <1>6, <1>7, <4>1 DEF MessagesIntact
    <3> QED
      BY <3>1, <3>2
  <2> QED
    BY <1>7, <2>1
<1>9. MessagesIntact'
  BY <1>8 DEF MessagesIntact, Payload
<1> QED
  BY <1>2, <1>5, <1>6, <1>9, EmptySeq

-----------------------------------------------------------------------------
(* The steps.                                                              *)

LEMMA Starts == Init => MInv
<1> SUFFICES ASSUME Init PROVE MInv
  OBVIOUS
<1>1. /\ buffer = NewBuffer /\ paused = FALSE /\ pc = "idle" /\ received = 0 /\ fed = 0
      /\ lost = Total /\ message = <<>> /\ handed = <<>> /\ overflow = FALSE
  BY DEF Init
<1>2. Total \in Nat /\ Start[1] = 0 /\ Len(Stream) \in Nat /\ Capacity \in Nat /\ Capacity > 5
  BY StartFacts, StreamFacts, CapacityAssumption, StreamAssumption
<1>3. /\ handed \in Seq([type : Nat, bytes : Seq(Nat)]) /\ message \in Seq(Nat)
      /\ Len(handed) = 0
  BY <1>1, EmptySeq
<1>4. Typed
  <2>1. /\ paused \in BOOLEAN /\ overflow \in BOOLEAN /\ pc \in Places
    BY <1>1 DEF Places
  <2>2. /\ fed \in Nat /\ received \in Nat /\ lost \in Nat
        /\ fed <= received /\ received <= Total /\ fed <= lost /\ lost <= Total
    BY <1>1, <1>2
  <2>3. Len(handed) <= Len(Stream)
    BY <1>2, <1>3
  <2> QED
    BY <1>3, <2>1, <2>2, <2>3 DEF Typed
<1>5. RingOK(NewRing)
  <2>1. 0 \in 0..(Capacity - 1) /\ (0 + 0) % Capacity = 0
    BY <1>2
  <2>2. NewRing.buffer \in [0..(Capacity - 1) -> Chunks \cup {Undefined}]
    BY DEF NewRing
  <2> QED
    BY <2>1, <2>2 DEF NewRing, RingOK, Rings
<1>6. Chained(NewBuffer, 0)
  <2>1. NewBuffer \in Buffers
    BY <1>5 DEF NewBuffer, Buffers, Chunks, RingOK
  <2>2. /\ NewBuffer.bufs = NewRing /\ NewRing.len = 0 /\ NewBuffer.len = 0
        /\ NewBuffer.buf0 = [from |-> 0, to |-> 0]
    BY DEF NewBuffer, NewRing
  <2>3. ChunkAt(NewBuffer, 0) = NewBuffer.buf0
    BY DEF ChunkAt
  <2>4. 1..0 = {} /\ \A m, n \in 0..0 : ~(m < n)
    OBVIOUS
  <2> QED
    BY <1>5, <2>1, <2>2, <2>3, <2>4 DEF Chained
<1>7. Parsed(buffer, Len(handed) + 1, message)
  BY <1>1, <1>2, <1>3 DEF NewBuffer, Parsed
<1>8. Placed /\ ~Full(buffer.bufs)
  BY <1>1, <1>2 DEF Placed, NewBuffer, NewRing, Full
<1>9. Told /\ Stuck
  BY <1>1, <1>2, <1>8 DEF Told, ToldBeforeCrash, Stuck
<1>10. MessagesIntact
  <2>1. DOMAIN handed = {}
    BY <1>1
  <2> QED
    BY <2>1 DEF MessagesIntact
<1> QED
  BY <1>1, <1>4, <1>6, <1>7, <1>8, <1>9, <1>10 DEF MInv

\* A buffer with more bytes has read what it had read.
LEMMA FedParsed ==
    ASSUME NEW b, NEW d, SameFields(b, d), d.buf0.from = b.buf0.from, ~b.ready,
           NEW c, NEW read, Parsed(b, c, read)
    PROVE  Parsed(d, c, read) /\ ~d.ready
BY DEF Parsed, SameFields

\* No chunk comes after one was lost that the buffer takes.
LEMMA TakesNoMore ==
    ASSUME MInv, pc # "crashed", IsFirst(buffer) \/ ~Rejects(buffer.bufs)
    PROVE  lost = Total
<1>1. /\ Stuck /\ RingOK(buffer.bufs) /\ lost \in Nat /\ Total \in Nat /\ lost <= Total
  BY InvFacts
<1>2. ~Full(buffer.bufs)
  <2>1. buffer.bufs.len \in Nat /\ Capacity \in Nat /\ Capacity > 5
    BY <1>1, RingFacts
  <2>2. Full(buffer.bufs) => Rejects(buffer.bufs) /\ buffer.bufs.len # 0
    BY <1>1, <2>1, RejectsIsFull DEF Full
  <2> QED
    BY <2>2 DEF IsFirst
<1>3. ~(lost < Total)
  BY <1>2 DEF Stuck, MInv
<1> QED
  BY <1>1, <1>3

\* What every chunk that the buffer takes does.
LEMMA Takes ==
    ASSUME MInv, NEW size \in ChunkSizes, Data(size, TRUE),
           IsFirst(buffer) \/ ~Rejects(buffer.bufs),
           NEW b, b = Fed(buffer, Chunk(size))
    PROVE  /\ Chained(b, fed') /\ SameFields(buffer, b) /\ ~b.ready
           /\ Parsed(b, Len(handed) + 1, message)
           /\ Full(b.bufs) => IsFull(buffer)
           /\ fed' \in Nat /\ received' \in Nat /\ fed' <= received' /\ received' <= Total
           /\ lost' = Total /\ lost = Total /\ fed' <= Total
<1>1. /\ Typed /\ Chained(buffer, fed) /\ Parsed(buffer, Len(handed) + 1, message)
      /\ Placed /\ Total \in Nat /\ fed \in Nat
  BY InvFacts
<1>2. /\ pc \in {"idle", "waiting"} /\ received + size <= Total
      /\ received' = received + size /\ fed' = fed + size /\ lost' = lost
  BY DEF Data
<1>3. size \in Nat /\ size > 0
  <2>1. size \in Nat \ {0}
    BY StreamAssumption
  <2> QED
    BY <2>1
<1>4. lost = Total
  BY <1>2, TakesNoMore
<1>5. received \in Nat /\ fed <= received
  BY <1>1 DEF Typed
<1>6. /\ fed' \in Nat /\ received' \in Nat /\ fed' <= received' /\ received' <= Total
      /\ fed' <= Total
  BY <1>1, <1>2, <1>3, <1>5
<1>7. b = Fed(buffer, [from |-> fed, to |-> fed + size])
  BY DEF Chunk
<1>8. /\ Chained(b, fed + size) /\ SameFields(buffer, b)
      /\ b.buf0.from = buffer.buf0.from /\ (Full(b.bufs) => IsFull(buffer))
  BY <1>1, <1>3, <1>7, FedFacts
<1>9. ~buffer.ready
  BY <1>1, <1>2 DEF Placed
<1>10. Parsed(b, Len(handed) + 1, message) /\ ~b.ready
  BY <1>1, <1>8, <1>9, FedParsed
<1> QED
  BY <1>2, <1>4, <1>6, <1>8, <1>10

LEMMA OnDataStep ==
    ASSUME MInv, NEW size \in ChunkSizes, OnData(size)
    PROVE  MInv'
<1>1. /\ Data(size, TRUE) /\ ~Overflows(buffer) /\ paused' = IsFull(buffer)
      /\ UNCHANGED <<message, handed, overflow, cause>>
      /\ pc \in {"idle", "waiting"}
  BY DEF OnData, Data, seen
<1>2. IsFirst(buffer) \/ ~Rejects(buffer.bufs)
  BY <1>1 DEF Overflows
<1>3. PICK b : b = Fed(buffer, Chunk(size))
  OBVIOUS
<1>4. /\ Chained(b, fed') /\ SameFields(buffer, b) /\ ~b.ready
      /\ Parsed(b, Len(handed) + 1, message)
      /\ Full(b.bufs) => IsFull(buffer)
      /\ fed' \in Nat /\ received' \in Nat /\ fed' <= received' /\ received' <= Total
      /\ lost' = Total /\ lost = Total /\ fed' <= Total
  BY <1>1, <1>2, <1>3, Takes
<1>5. /\ Typed /\ Placed /\ Told /\ MessagesIntact /\ Total \in Nat
      /\ Len(handed) + 1 \in 1..(Len(Stream) + 1)
  BY InvFacts
<1>6. Total' = Total
  BY DEF Total
<1>7. paused' \in BOOLEAN
  BY <1>1 DEF IsFull
<1>8. MessagesIntact' /\ Stuck'
  BY <1>1, <1>4, <1>5, <1>6 DEF MessagesIntact, Payload, Stuck
<1>9. CASE pc = "idle"
  <2>1. buffer' = b /\ pc' = "idle"
    BY <1>3, <1>9 DEF OnData
  <2>2. Typed'
    BY <1>1, <1>4, <1>5, <1>6, <1>7, <1>9, <2>1 DEF Typed, Places
  <2>3. Placed'
    BY <1>1, <1>4, <1>5, <1>9, <2>1 DEF Placed, SameFields
  <2>4. Told'
    BY <1>1, <1>4, <2>1 DEF Told, ToldBeforeCrash
  <2> QED
    BY <1>1, <1>4, <1>8, <2>1, <2>2, <2>3, <2>4 DEF MInv
<1>10. CASE pc = "waiting"
  <2>1. /\ buffer' = TakeMessage(b)
        /\ pc' = IF buffer'.ready THEN "reading" ELSE "waiting"
    BY <1>3, <1>10 DEF OnData
  <2>2. Took(buffer', b, fed', Len(handed) + 1, message)
    BY <1>4, <1>5, <2>1, TakeFacts
  <2>3. Full(buffer'.bufs) => paused'
    <3>1. RingOK(b.bufs) /\ RingOK(buffer'.bufs)
      BY <1>4, <2>2, ChainFacts DEF Took
    <3> QED
      BY <1>1, <1>4, <2>2, <3>1, FullBefore DEF Took
  <2>4. Typed'
    BY <1>1, <1>4, <1>5, <1>6, <1>7, <2>1 DEF Typed, Places
  <2>5. Placed'
    BY <2>1, <2>2 DEF Placed, Took
  <2>6. Told'
    BY <2>1, <2>3 DEF Told, ToldBeforeCrash
  <2> QED
    BY <1>1, <1>8, <2>2, <2>4, <2>5, <2>6 DEF MInv, Took
<1> QED
  BY <1>1, <1>9, <1>10

LEMMA OnDataOverflowStep ==
    ASSUME MInv, NEW size \in ChunkSizes, OnDataOverflow(size)
    PROVE  MInv'
<1>1. /\ Data(size, ~Rejects(buffer.bufs)) /\ Overflows(buffer)
      /\ pc \in {"idle", "waiting"} /\ ~paused
      /\ UNCHANGED <<paused, message, handed, cause>>
      /\ pc = "waiting" => pc' = "idle" /\ overflow' = TRUE
      /\ pc = "idle" => pc' = "crashed" /\ overflow' = overflow
  BY DEF OnDataOverflow, Data
<1>2. /\ Typed /\ Placed /\ Told /\ Stuck /\ MessagesIntact /\ Total \in Nat
      /\ Chained(buffer, fed) /\ RingOK(buffer.bufs)
      /\ Parsed(buffer, Len(handed) + 1, message)
      /\ fed \in Nat /\ lost \in Nat /\ fed <= lost /\ lost <= Total /\ fed <= Total
  BY InvFacts
<1>3. Total' = Total
  BY DEF Total
<1>4. overflow' = TRUE
  <2>1. CASE pc = "waiting"
    BY <1>1, <2>1
  <2>2. CASE pc = "idle"
    <3>1. Full(buffer.bufs) \/ buffer.type # 0
      BY <1>1, <1>2, RejectsIsFull DEF Overflows
    <3>2. overflow \in BOOLEAN /\ (overflow \/ buffer.type = 0)
          /\ (Full(buffer.bufs) => overflow)
      BY <1>1, <1>2, <2>2 DEF Typed, Placed, Told
    <3> QED
      BY <1>1, <2>2, <3>1, <3>2
  <2> QED
    BY <1>1, <2>1, <2>2
<1>5. /\ pc' \in {"idle", "crashed"} /\ pc' \in Places
      /\ (pc = "waiting" /\ pc' = "idle") \/ (pc = "idle" /\ pc' = "crashed")
  BY <1>1 DEF Places
<1>6. Told' /\ MessagesIntact'
  BY <1>1, <1>2, <1>4 DEF Told, ToldBeforeCrash, MessagesIntact, Payload
<1>7. ~buffer.ready
  BY <1>1, <1>2 DEF Placed
<1>8. CASE Rejects(buffer.bufs)
  <2>1. /\ buffer' = buffer /\ received' = received + size /\ received + size <= Total
        /\ fed' = fed /\ lost' = IF lost < Total THEN lost ELSE fed
    BY <1>8 DEF OnDataOverflow, Data
  <2>2. lost' \in Nat /\ fed' <= lost' /\ lost' <= Total
    BY <1>2, <2>1
  <2>3. received' \in Nat /\ fed' <= received' /\ received' <= Total
    <3>1. size \in Nat
      BY StreamAssumption
    <3> QED
      BY <1>2, <2>1, <3>1 DEF Typed
  <2>4. Typed'
    BY <1>1, <1>2, <1>3, <1>4, <1>5, <2>1, <2>2, <2>3 DEF Typed
  <2>5. Placed'
    BY <1>4, <1>5, <1>7, <2>1 DEF Placed
  <2>6. Stuck'
    <3>1. Full(buffer'.bufs)
      BY <1>2, <1>8, <2>1, RejectsIsFull
    <3>2. pc = "waiting" => Starved(buffer')
      BY <1>2, <2>1 DEF Placed
    <3> QED
      BY <1>5, <3>1, <3>2 DEF Stuck
  <2>7. Chained(buffer', fed') /\ Parsed(buffer', Len(handed') + 1, message')
    BY <1>1, <1>2, <2>1
  <2> QED
    BY <1>6, <2>4, <2>5, <2>6, <2>7 DEF MInv
<1>9. CASE ~Rejects(buffer.bufs)
  <2>1. Data(size, TRUE) /\ buffer' = Fed(buffer, Chunk(size))
    BY <1>9 DEF OnDataOverflow, Data
  <2>2. PICK b : b = Fed(buffer, Chunk(size)) /\ buffer' = b
    BY <2>1
  <2>3. /\ Chained(b, fed') /\ SameFields(buffer, b) /\ ~b.ready
        /\ Parsed(b, Len(handed) + 1, message)
        /\ fed' \in Nat /\ received' \in Nat /\ fed' <= received' /\ received' <= Total
        /\ lost' = Total /\ lost = Total /\ fed' <= Total
    BY <1>9, <2>1, <2>2, Takes
  <2>4. Typed'
    BY <1>1, <1>2, <1>3, <1>4, <1>5, <2>3 DEF Typed
  <2>5. Placed'
    BY <1>4, <1>5, <2>2, <2>3 DEF Placed
  <2>6. Stuck'
    BY <1>2, <1>3, <2>3 DEF Stuck
  <2>7. Chained(buffer', fed') /\ Parsed(buffer', Len(handed') + 1, message')
    BY <1>1, <2>2, <2>3
  <2> QED
    BY <1>6, <2>4, <2>5, <2>6, <2>7 DEF MInv
<1> QED
  BY <1>8, <1>9

LEMMA WaitForMessageStep ==
    ASSUME MInv, WaitForMessage
    PROVE  MInv'
<1>1. /\ pc \in {"idle", "taking"} /\ buffer' = TakeMessage(buffer)
      /\ UNCHANGED <<received, fed, lost, message, handed, overflow, cause>>
      /\ \/ buffer'.ready /\ pc' = "reading" /\ paused' = paused
         \/ ~buffer'.ready /\ pc' = "waiting" /\ paused' = FALSE
  BY DEF WaitForMessage, Resume, net, seen
<1>2. /\ Typed /\ Placed /\ Told /\ Stuck /\ MessagesIntact
      /\ Chained(buffer, fed) /\ RingOK(buffer.bufs)
      /\ Parsed(buffer, Len(handed) + 1, message)
      /\ Len(handed) + 1 \in 1..(Len(Stream) + 1)
      /\ fed \in Nat /\ lost \in Nat /\ fed <= lost /\ fed <= Total
  BY InvFacts
<1>3. ~buffer.ready
  BY <1>1, <1>2 DEF Placed
<1>4. Took(buffer', buffer, fed, Len(handed) + 1, message)
  BY <1>1, <1>2, <1>3, TakeFacts
<1>5. Total' = Total
  BY DEF Total
<1>6. Typed'
  BY <1>1, <1>2, <1>5 DEF Typed, Places
<1>7. Placed'
  BY <1>1, <1>4 DEF Placed, Took
<1>8. Told'
  <2>1. Full(buffer'.bufs) => Full(buffer.bufs)
    <3>1. RingOK(buffer'.bufs)
      BY <1>4, ChainFacts DEF Took
    <3> QED
      BY <1>2, <1>4, <3>1, FullBefore DEF Took
  <2> QED
    BY <1>1, <1>2, <2>1 DEF Told, ToldBeforeCrash
<1>9. Stuck'
  <2>1. ASSUME lost < Total
        PROVE  pc' = "waiting" /\ Full(buffer'.bufs) /\ Starved(buffer')
    <3>1. Full(buffer.bufs) /\ Starved(buffer)
      BY <1>1, <1>2, <2>1 DEF Stuck
    <3>2. ~buffer'.ready /\ buffer'.bufs = buffer.bufs
      BY <1>1, <1>2, <3>1, StarvedStays
    <3> QED
      BY <1>1, <1>4, <3>1, <3>2 DEF Took
  <2> QED
    BY <1>1, <1>5, <2>1 DEF Stuck
<1>10. MessagesIntact'
  BY <1>1, <1>2 DEF MessagesIntact, Payload
<1> QED
  BY <1>1, <1>4, <1>6, <1>7, <1>8, <1>9, <1>10 DEF MInv, Took

\* What is read of the message that has come.
LEMMA ReadyFacts ==
    ASSUME MInv, pc = "reading", NEW c, c = Len(handed) + 1
    PROVE  /\ c \in Number /\ buffer.ready /\ buffer.type = c
           /\ buffer.length = 4 + Stream[c].size
           /\ buffer.unread \in Nat /\ buffer.unread <= Stream[c].size
           /\ buffer.unread <= buffer.len /\ buffer.len \in Nat
           /\ buffer.buf0.from = Start[c] + 5 + Stream[c].size - buffer.unread
           /\ message = Beginning(c, Stream[c].size - buffer.unread)
           /\ Stream[c].data => buffer.unread = Stream[c].size
           /\ IsData(buffer.type) <=> Stream[c].data
           /\ Start[c] \in Nat /\ Stream[c].size \in Nat
           /\ Fields(buffer)
<1>1. /\ Chained(buffer, fed) /\ Parsed(buffer, c, message) /\ buffer.ready
  BY InvFacts DEF Placed
<1>2. /\ c \in Number /\ buffer.type = c /\ buffer.length = 4 + Stream[c].size
      /\ buffer.unread <= Stream[c].size
      /\ buffer.buf0.from = Start[c] + 5 + Stream[c].size - buffer.unread
      /\ message = Beginning(c, Stream[c].size - buffer.unread)
      /\ buffer.unread <= buffer.len
      /\ Stream[c].data => buffer.unread = Stream[c].size
  BY <1>1 DEF Parsed
<1>3. buffer.unread \in Nat /\ buffer.len \in Nat /\ Fields(buffer)
  BY <1>1, ChainFacts DEF Fields
<1>4. Start[c] \in Nat /\ Stream[c].size \in Nat
  <2>1. c \in 1..Len(Stream) /\ c \in 1..(Len(Stream) + 1)
    BY <1>2, StreamFacts DEF Number
  <2> QED
    BY <2>1, StartFacts, StreamFacts
<1>5. IsData(buffer.type) <=> Stream[c].data
  BY <1>2 DEF IsData
<1> QED
  BY <1>1, <1>2, <1>3, <1>4, <1>5

\* So many bytes from p on.
Run(p, size) == [k \in 1..size |-> p + k - 1]

Join(a, b) == a \o b

\* The bytes that are read after the first ones of a payload are the next.
LEMMA NextBytes ==
    ASSUME NEW c, Start[c] \in Nat, NEW m \in Nat, NEW size \in Nat, NEW p \in Nat,
           p = Start[c] + 5 + m
    PROVE  /\ Join(Beginning(c, m), Run(p, size)) = Beginning(c, m + size)
           /\ Beginning(c, m + size) \in Seq(Nat)
<1> DEFINE a == Beginning(c, m)
           bytes == Run(p, size)
           z == a \o bytes
<1>1. a = [k \in 1..m |-> Start[c] + 4 + k]
  BY DEF Beginning
<1>2. a \in Seq(Nat) /\ Len(a) = m
  <2>1. \A k \in 1..m : Start[c] + 4 + k \in Nat
    OBVIOUS
  <2>2. a \in Seq(Nat)
    BY <1>1, <2>1, IsASeq
  <2>3. DOMAIN a = 1..m
    BY <1>1
  <2> QED
    BY <2>2, <2>3, LenProperties
<1>3. bytes = [k \in 1..size |-> p + k - 1]
  BY DEF Run
<1>4. bytes \in Seq(Nat) /\ Len(bytes) = size
  <2>1. \A k \in 1..size : p + k - 1 \in Nat
    OBVIOUS
  <2>2. bytes \in Seq(Nat)
    BY <1>3, <2>1, IsASeq
  <2>3. DOMAIN bytes = 1..size
    BY <1>3
  <2> QED
    BY <2>2, <2>3, LenProperties
<1> HIDE DEF a, bytes
<1>5. /\ z \in Seq(Nat) /\ Len(z) = m + size
      /\ \A i \in 1..(m + size) : z[i] = IF i <= m THEN a[i] ELSE bytes[i - m]
  BY <1>2, <1>4, ConcatProperties
<1> HIDE DEF z
<1>6. ASSUME NEW i \in 1..(m + size) PROVE z[i] = Start[c] + 4 + i
  <2>1. CASE i <= m
    BY <1>1, <1>5, <2>1
  <2>2. CASE ~(i <= m)
    <3>1. PICK k \in 1..size : k = i - m
      BY <2>2
    <3>2. z[i] = p + k - 1
      BY <1>3, <1>5, <2>2, <3>1
    <3> QED
      BY <3>1, <3>2
  <2> QED
    BY <2>1, <2>2
<1>7. z = [i \in 1..(m + size) |-> Start[c] + 4 + i]
  <2>1. z = [i \in 1..(m + size) |-> z[i]]
    BY <1>5, LenProperties
  <2> QED
    BY <1>6, <2>1
<1> QED
  BY <1>5, <1>7 DEF Beginning, Join, a, bytes, z

LEMMA ReadFieldStep ==
    ASSUME MInv, NEW size \in 0..buffer.unread, ReadField(size)
    PROVE  MInv'
<1>1. /\ pc = "reading" /\ ~IsData(buffer.type) /\ ~Throws(size)
      /\ buffer' = [Read(buffer, size) EXCEPT !.unread = @ - size]
      /\ message' = message \o Bytes(buffer, size)
      /\ UNCHANGED <<paused, pc, received, fed, lost, handed, overflow, cause>>
  BY DEF ReadField, net
<1>2. PICK c : c = Len(handed) + 1
  OBVIOUS
<1>3. /\ c \in Number /\ buffer.ready /\ buffer.type = c
      /\ buffer.length = 4 + Stream[c].size
      /\ buffer.unread \in Nat /\ buffer.unread <= Stream[c].size
      /\ buffer.unread <= buffer.len /\ buffer.len \in Nat
      /\ buffer.buf0.from = Start[c] + 5 + Stream[c].size - buffer.unread
      /\ message = Beginning(c, Stream[c].size - buffer.unread)
      /\ ~Stream[c].data
      /\ Start[c] \in Nat /\ Stream[c].size \in Nat
  BY <1>1, <1>2, ReadyFacts
<1>4. Typed /\ Chained(buffer, fed) /\ MessagesIntact
  BY InvFacts
<1>5. size \in Nat /\ size <= buffer.unread
  BY <1>3
<1>6. PICK d : d = Read(buffer, size) /\ Taken(d, buffer, size, fed)
               /\ At(buffer) = buffer.buf0.from
  BY <1>1, <1>4, <1>5, ReadFacts
<1>7. PICK u \in Nat : u = buffer.unread - size
  BY <1>3, <1>5
<1>8. /\ Chained(d, fed) /\ d.type = buffer.type /\ d.length = buffer.length
      /\ d.unread = buffer.unread /\ d.ready = buffer.ready
      /\ d.buf0.from = buffer.buf0.from + size /\ d.len = buffer.len - size
      /\ d.bufs.len <= buffer.bufs.len
  BY <1>6 DEF Taken, SameFields
<1>9. Fields(d)
  BY <1>8, ChainFacts
<1>10. /\ buffer'.buf0 = d.buf0 /\ buffer'.bufs = d.bufs /\ buffer'.len = d.len
       /\ buffer'.type = d.type /\ buffer'.length = d.length /\ buffer'.unread = u
       /\ buffer'.ready = d.ready /\ Fields(buffer')
  <2>1. buffer' = [d EXCEPT !.unread = u]
    BY <1>1, <1>6, <1>7, <1>8, <1>9 DEF Fields
  <2> QED
    BY <1>9, <2>1 DEF Fields
<1>11. Chained(buffer', fed)
  BY <1>8, <1>10, SameChunks
<1>12. /\ message' = Beginning(c, Stream[c].size - u) /\ message' \in Seq(Nat)
  <2>1. PICK m \in Nat, p \in Nat : /\ m = Stream[c].size - buffer.unread
                                    /\ p = buffer.buf0.from /\ p = Start[c] + 5 + m
    BY <1>3
  <2>2. Bytes(buffer, size) = Run(p, size)
    BY <1>6, <2>1 DEF Bytes, Run
  <2>3. message' = Join(Beginning(c, m), Run(p, size))
    BY <1>1, <1>3, <2>1, <2>2 DEF Join
  <2>4. /\ Join(Beginning(c, m), Run(p, size)) = Beginning(c, m + size)
        /\ Beginning(c, m + size) \in Seq(Nat)
    <3>1. /\ Start[c] \in Nat /\ m \in Nat /\ size \in Nat /\ p \in Nat
          /\ p = Start[c] + 5 + m
      BY <1>3, <1>5, <2>1
    <3> QED
      BY ONLY <3>1, NextBytes
  <2>5. m + size = Stream[c].size - u
    BY <1>3, <1>5, <1>7, <2>1
  <2> QED
    BY <2>3, <2>4, <2>5
<1>13. Parsed(buffer', Len(handed') + 1, message')
  <2>1. /\ buffer'.type = c /\ buffer'.length = 4 + Stream[c].size /\ buffer'.ready
    BY <1>3, <1>8, <1>10, <1>11
  <2>2. /\ buffer'.unread <= Stream[c].size
        /\ buffer'.buf0.from = Start[c] + 5 + Stream[c].size - buffer'.unread
        /\ buffer'.unread <= buffer'.len
    BY <1>3, <1>5, <1>7, <1>8, <1>10, <1>11
  <2>3. message' = Beginning(c, Stream[c].size - buffer'.unread)
    BY <1>10, <1>11, <1>12
  <2> QED
    BY <1>1, <1>2, <1>3, <2>1, <2>2, <2>3 DEF Parsed
<1>14. Told' /\ Stuck' /\ Chained(buffer', fed')
  BY <1>1, <1>8, <1>10, <1>11, OnlyReads DEF net
<1>15. Typed' /\ MessagesIntact' /\ Placed'
  <2>1. Typed'
    BY <1>1, <1>4, <1>12 DEF Typed, Total
  <2>2. MessagesIntact'
    BY <1>1, <1>4 DEF MessagesIntact, Payload
  <2>3. Placed'
    BY <1>1, <1>3, <1>8, <1>10, <1>11 DEF Placed
  <2> QED
    BY <2>1, <2>2, <2>3
<1> QED
  BY <1>13, <1>14, <1>15 DEF MInv

LEMMA ReadFailsStep ==
    ASSUME MInv, NEW size, ReadFails(size)
    PROVE  MInv'
<1>1. /\ pc = "reading" /\ pc' = "failed"
      /\ UNCHANGED <<buffer, paused, received, fed, lost, message, handed, overflow>>
  BY DEF ReadFails, net
<1>2. /\ Typed /\ Placed /\ MessagesIntact /\ Chained(buffer, fed)
      /\ Parsed(buffer, Len(handed) + 1, message) /\ RingOK(buffer.bufs)
  BY InvFacts
<1>3. Told' /\ Stuck' /\ Chained(buffer', fed')
  <2>1. Chained(buffer', fed) /\ buffer'.bufs.len <= buffer.bufs.len
    BY <1>1, <1>2, RingFacts
  <2> QED
    BY <1>1, <2>1, OnlyReads DEF net
<1>4. Typed' /\ MessagesIntact' /\ Placed'
  BY <1>1, <1>2 DEF Typed, Places, Total, MessagesIntact, Payload, Placed
<1> QED
  BY <1>1, <1>2, <1>3, <1>4 DEF MInv

\* A step that ends a message.
LEMMA MessageEnds ==
    ASSUME MInv, pc = "reading", NEW c \in Number, c = Len(handed) + 1, buffer.type = c,
           NEW b, Chained(b, fed), b.buf0.from = Start[c] + 5 + Stream[c].size,
           b.bufs.len <= buffer.bufs.len, buffer' = Finished(b),
           NEW bytes, bytes = Payload(c), HandOver(bytes),
           pc' \in {"idle", "taking", "data"},
           UNCHANGED <<paused, net, overflow, cause>>
    PROVE  MInv'
<1>1. /\ Chained(buffer', fed) /\ Parsed(buffer', c + 1, <<>>) /\ buffer'.bufs = b.bufs
      /\ buffer'.type = 0 /\ ~buffer'.ready
  <2>1. PICK d : d = buffer' /\ d = Finished(b)
    OBVIOUS
  <2>2. /\ Chained(d, fed) /\ Parsed(d, c + 1, <<>>) /\ d.bufs = b.bufs
        /\ d.type = 0 /\ ~d.ready
    BY <2>1, FinishedFacts
  <2> QED
    BY <2>1, <2>2
<1>2. /\ handed' \in Seq([type : Nat, bytes : Seq(Nat)]) /\ Len(handed') = c
      /\ MessagesIntact' /\ message' = <<>> /\ message' \in Seq(Nat)
      /\ c <= Len(Stream)
  BY HandedOver
<1>3. Typed
  BY InvFacts
<1>4. Typed'
  BY <1>2, <1>3 DEF Typed, Places, Total, net
<1>5. Placed'
  BY <1>1 DEF Placed
<1>6. Told' /\ Stuck' /\ Chained(buffer', fed')
  BY <1>1, OnlyReads
<1>7. Parsed(buffer', Len(handed') + 1, message')
  BY <1>1, <1>2
<1> QED
  BY <1>2, <1>4, <1>5, <1>6, <1>7 DEF MInv

LEMMA FinishMessageStep ==
    ASSUME MInv, FinishMessage
    PROVE  MInv'
<1>1. /\ pc = "reading" /\ buffer.unread = 0 /\ buffer' = Finished(buffer)
      /\ HandOver(message) /\ pc' \in {"idle", "taking"}
      /\ UNCHANGED <<paused, net, overflow, cause>>
  BY DEF FinishMessage
<1>2. PICK c : c = Len(handed) + 1
  OBVIOUS
<1>3. /\ c \in Number /\ buffer.type = c
      /\ buffer.buf0.from = Start[c] + 5 + Stream[c].size - buffer.unread
      /\ message = Beginning(c, Stream[c].size - buffer.unread)
      /\ Start[c] \in Nat /\ Stream[c].size \in Nat
  BY <1>1, <1>2, ReadyFacts
<1>4. /\ buffer.buf0.from = Start[c] + 5 + Stream[c].size
      /\ message = Beginning(c, Stream[c].size)
  BY <1>1, <1>3
<1>5. message = Payload(c)
  BY <1>4 DEF Beginning, Payload
<1>6. Chained(buffer, fed) /\ buffer.bufs.len \in Nat
  BY InvFacts, ChainFacts
<1>7. buffer.bufs.len <= buffer.bufs.len
  BY <1>6
<1>8. pc' \in {"idle", "taking", "data"}
  BY <1>1
<1> QED
  BY <1>1, <1>2, <1>3, <1>4, <1>5, <1>6, <1>7, <1>8, MessageEnds

LEMMA TakeRestStep ==
    ASSUME MInv, TakeRest, pc' \in {"taking", "data"},
           UNCHANGED <<paused, net, overflow, cause>>
    PROVE  MInv'
<1>1. /\ pc = "reading" /\ IsData(buffer.type) /\ buffer.unread <= buffer.len
      /\ buffer' = Finished(IF buffer.unread > 0 THEN Skip(buffer, buffer.unread) ELSE buffer)
      /\ HandOver(Bytes(buffer, buffer.unread))
  BY DEF TakeRest
<1>2. PICK c : c = Len(handed) + 1
  OBVIOUS
<1>3. /\ c \in Number /\ buffer.type = c
      /\ buffer.unread = Stream[c].size /\ buffer.unread \in Nat
      /\ buffer.buf0.from = Start[c] + 5 + Stream[c].size - buffer.unread
      /\ Start[c] \in Nat /\ Stream[c].size \in Nat /\ buffer.len \in Nat
  BY <1>1, <1>2, ReadyFacts
<1>4. PICK s \in Nat : s = Stream[c].size /\ s = buffer.unread /\ s <= buffer.len
                       /\ buffer.buf0.from = Start[c] + 5
  BY <1>1, <1>3
<1>5. Chained(buffer, fed) /\ buffer.bufs.len \in Nat
  BY InvFacts, ChainFacts
<1>6. Bytes(buffer, buffer.unread) = Payload(c)
  <2>1. CASE s = 0
    <3>1. 1..s = {}
      BY <2>1
    <3> QED
      BY <1>4, <3>1 DEF Bytes, Payload
  <2>2. CASE s # 0
    <3>1. At(buffer) = Start[c] + 5
      BY <1>3, <1>4, <1>5, <2>2, AtIsNext
    <3>2. \A k \in 1..s : At(buffer) + k - 1 = Start[c] + 4 + k
      BY <1>3, <3>1
    <3> QED
      BY <1>4, <3>2 DEF Bytes, Payload
  <2> QED
    BY <2>1, <2>2
<1>7. PICK b : /\ buffer' = Finished(b) /\ Chained(b, fed)
               /\ b.buf0.from = Start[c] + 5 + Stream[c].size
               /\ b.bufs.len <= buffer.bufs.len
  <2>1. CASE s = 0
    <3>1. buffer' = Finished(buffer)
      BY <1>1, <1>4, <2>1
    <3>2. buffer.buf0.from = Start[c] + 5 + Stream[c].size
      BY <1>3, <1>4, <2>1
    <3> QED
      BY <1>5, <3>1, <3>2
  <2>2. CASE s # 0
    <3>1. s > 0 /\ buffer.unread > 0
      BY <1>4, <2>2
    <3>2. PICK b : b = Skip(buffer, s) /\ buffer' = Finished(b)
      BY <1>1, <1>4, <3>1
    <3>3. Taken(b, buffer, s, fed)
      BY <1>4, <1>5, <3>1, <3>2, SkipFacts
    <3>4. b.buf0.from = Start[c] + 5 + Stream[c].size
      BY <1>4, <3>3 DEF Taken
    <3> QED
      BY <3>2, <3>3, <3>4 DEF Taken
  <2> QED
    BY <2>1, <2>2
<1>8. pc' \in {"idle", "taking", "data"}
  OBVIOUS
<1> QED
  BY <1>1, <1>2, <1>3, <1>6, <1>7, <1>8, MessageEnds

LEMMA TakeNextDataStep ==
    ASSUME MInv, TakeNextData
    PROVE  MInv'
<1>1. /\ pc = "data" /\ buffer' = TakeData(buffer)
      /\ pc' = IF buffer'.ready THEN "reading" ELSE "taking"
      /\ UNCHANGED <<paused, received, fed, lost, message, handed, overflow, cause>>
  BY DEF TakeNextData, net, seen
<1>2. /\ Typed /\ Placed /\ MessagesIntact /\ Chained(buffer, fed)
      /\ Parsed(buffer, Len(handed) + 1, message)
      /\ Len(handed) + 1 \in 1..(Len(Stream) + 1)
      /\ fed \in Nat /\ lost \in Nat /\ fed <= lost /\ fed <= Total
  BY InvFacts
<1>3. ~buffer.ready /\ buffer.len \in Nat /\ buffer.bufs.len \in Nat
      /\ buffer.buf0.from \in Nat
  BY <1>1, <1>2, ChainFacts DEF Placed
<1>4. /\ Chained(buffer', fed) /\ Parsed(buffer', Len(handed) + 1, message)
      /\ buffer'.bufs.len <= buffer.bufs.len
  <2>1. CASE buffer.len < 1
    <3>1. buffer' = buffer
      BY <1>1, <2>1 DEF TakeData
    <3> QED
      BY <1>2, <1>3, <3>1
  <2>2. CASE buffer.len >= 1 /\ IsData(TypeAt(At(buffer)))
    <3>1. buffer' = TakeMessage(buffer)
      BY <1>1, <1>3, <2>2 DEF TakeData
    <3>2. Took(buffer', buffer, fed, Len(handed) + 1, message)
      BY <1>2, <1>3, <3>1, TakeFacts
    <3> QED
      BY <3>2 DEF Took
  <2>3. CASE buffer.len >= 1 /\ ~IsData(TypeAt(At(buffer)))
    <3>1. PICK d : d = EnsureFirstBuf(buffer) /\ buffer' = d
      BY <1>1, <1>3, <2>3 DEF TakeData
    <3>2. Taken(d, buffer, 0, fed)
      BY <1>2, <2>3, <3>1, EnsureFacts
    <3>3. /\ Chained(d, fed) /\ SameFields(buffer, d) /\ d.buf0.from = buffer.buf0.from
          /\ d.bufs.len <= buffer.bufs.len
      BY <1>3, <3>2 DEF Taken
    <3>4. Parsed(d, Len(handed) + 1, message)
      BY <1>2, <1>3, <3>3, FedParsed
    <3> QED
      BY <3>1, <3>3, <3>4
  <2> QED
    BY <1>3, <2>1, <2>2, <2>3
<1>5. pc' \in {"reading", "taking"}
  BY <1>1
<1>6. Told' /\ Stuck' /\ Chained(buffer', fed')
  BY <1>1, <1>4, <1>5, OnlyReads DEF net
<1>7. Placed'
  BY <1>1, <1>5 DEF Placed
<1>8. Typed' /\ MessagesIntact'
  BY <1>1, <1>2, <1>5 DEF Typed, Places, Total, MessagesIntact, Payload
<1> QED
  BY <1>1, <1>4, <1>6, <1>7, <1>8 DEF MInv

LEMMA NothingHappens ==
    ASSUME MInv, UNCHANGED vars
    PROVE  MInv'
<1>1. UNCHANGED <<buffer, paused, pc, received, fed, lost, message, handed, overflow>>
  BY DEF vars
<1>2. /\ Typed /\ Chained(buffer, fed) /\ Parsed(buffer, Len(handed) + 1, message)
      /\ Placed /\ Told /\ Stuck /\ MessagesIntact
  BY DEF MInv
<1>3. /\ Chained(buffer', fed') /\ Parsed(buffer', Len(handed') + 1, message')
  BY <1>1, <1>2
<1>4. Typed' /\ Placed' /\ Told' /\ Stuck' /\ MessagesIntact'
  BY <1>1, <1>2 DEF Typed, Placed, Told, Stuck, Starved, ToldBeforeCrash, MessagesIntact,
                    Total, Payload
<1> QED
  BY <1>3, <1>4 DEF MInv

LEMMA Steps == MInv /\ [Next]_vars => MInv'
<1> SUFFICES ASSUME MInv, [Next]_vars PROVE MInv'
  OBVIOUS
<1>1. ASSUME NEW size \in ChunkSizes, OnData(size) PROVE MInv'
  BY <1>1, OnDataStep
<1>2. ASSUME NEW size \in ChunkSizes, OnDataOverflow(size) PROVE MInv'
  BY <1>2, OnDataOverflowStep
<1>3. CASE WaitForMessage
  BY <1>3, WaitForMessageStep
<1>4. ASSUME NEW size \in 0..buffer.unread, ReadField(size) PROVE MInv'
  BY <1>4, ReadFieldStep
<1>5. ASSUME NEW size \in 0..buffer.unread, ReadFails(size) PROVE MInv'
  BY <1>5, ReadFailsStep
<1>6. CASE FinishMessage
  BY <1>6, FinishMessageStep
<1>7. CASE ConsumeMessage
  <2>1. TakeRest /\ pc' \in {"taking", "data"} /\ UNCHANGED <<paused, net, overflow, cause>>
    BY <1>7 DEF ConsumeMessage
  <2> QED
    BY <2>1, TakeRestStep
<1>8. CASE DiscardMessage
  <2>1. TakeRest /\ pc' \in {"taking", "data"} /\ UNCHANGED <<paused, net, overflow, cause>>
    BY <1>8 DEF DiscardMessage
  <2> QED
    BY <2>1, TakeRestStep
<1>9. CASE TakeNextData
  BY <1>9, TakeNextDataStep
<1>10. CASE Rest \/ UNCHANGED vars
  <2>1. UNCHANGED vars
    BY <1>10 DEF Rest
  <2> QED
    BY <2>1, NothingHappens
<1> QED
  BY <1>1, <1>2, <1>3, <1>4, <1>5, <1>6, <1>7, <1>8, <1>9, <1>10 DEF Next, Socket, Operation

LEMMA Invariant == Spec => []MInv
<1>1. Init => MInv
  BY Starts
<1>2. MInv /\ [Next]_vars => MInv'
  BY Steps
<1> QED
  BY <1>1, <1>2, PTL DEF Spec

-----------------------------------------------------------------------------
(* The theorems.                                                           *)

\* The variables keep their types; the chunks of the buffer follow one
\* another, and len counts their bytes: what ReadMessageBuffer and RingBuffer
\* keep in several fields agrees, whatever was received and read.
THEOREM TypeCorrect == Spec => []TypeOK
<1>1. MInv => TypeOK
  <2> SUFFICES ASSUME MInv PROVE TypeOK
    OBVIOUS
  <2>1. /\ Typed /\ Chained(buffer, fed) /\ RingOK(buffer.bufs) /\ Total \in Nat
        /\ fed \in Nat /\ fed <= Total
    BY InvFacts
  <2>2. buffer.bufs.len \in Nat /\ buffer.bufs.len < Capacity /\ Capacity \in Nat
    BY <2>1, RingFacts
  <2>3. buffer.bufs.len \in 0..(Capacity - 1)
    BY <2>2
  <2>4. fed \in 0..Total /\ received \in 0..Total /\ lost \in 0..Total
    BY <2>1 DEF Typed
  <2>5. /\ buffer.len = fed - buffer.buf0.from
        /\ \A n \in 1..buffer.bufs.len :
               ChunkAt(buffer, n).from = ChunkAt(buffer, n - 1).to
    BY <2>1 DEF Chained
  <2>6. /\ paused \in BOOLEAN /\ overflow \in BOOLEAN /\ pc \in Places
    BY <2>1 DEF Typed
  <2> QED
    BY <2>3, <2>4, <2>5, <2>6 DEF TypeOK, Places
<1> QED
  BY <1>1, Invariant, PTL

\* However the socket cuts the bytes into chunks, whenever the buffer overflows
\* and whatever the operations await, the messages that they read are those
\* that were sent, in order, each with all of its bytes and no others.
THEOREM ReadAsSent == Spec => []MessagesIntact
<1>1. MInv => MessagesIntact
  BY DEF MInv
<1> QED
  BY <1>1, Invariant, PTL

\* An overflow that no operation can be told of, which ends the process, comes
\* only after one that an operation was told of.
THEOREM CrashIsTold == Spec => []ToldBeforeCrash
<1>1. MInv => ToldBeforeCrash
  BY DEF MInv, Told
<1> QED
  BY <1>1, Invariant, PTL
=============================================================================
