---------------------------- MODULE FetchProofs ----------------------------
(***************************************************************************)
(* The safety properties of Fetch, for any queries, types and schemas, any *)
(* number of calls, and a cache of any capacity.                           *)
(*                                                                         *)
(* The argument: within a flow the connection holds either the one request *)
(* that the flow made or its answer, which ReadyForCommand ends (Wire), so *)
(* that what a flow reads is meant for it.  An answer with rows either has *)
(* all those of one execution, of which the flow has collected the first   *)
(* ones, or an error, or new types and no row (Rows).  And from the moment *)
(* that a query which is not read-only is sent to be executed, no step     *)
(* leads to its being sent again: neither the types nor an error that      *)
(* permits a retry can follow (Tried).                                     *)
(***************************************************************************)
EXTENDS Fetch, LRUProofs

\* The flows that execute something.
Exec == {"execute", "optimistic", "script"}

Messages ==
    [k : {"Z", "L", "X", "C"}]
    \cup [k : {"1", "T"}, type : Types, caps : Caps]
    \cup [k : {"D"}, row : Nat \X Nat, type : Types \cup {Null}]
    \cup [k : {"E"}, error : ErrorKinds]

Requests == [flow : Flows, key : Keys, type : Types \cup {Null}, call : Nat]

Runs == [call : Nat, key : Keys, rows : Nat]

Ops == [type : Types \cup {Null}, caps : Caps, error : ErrorKinds \cup {"none"},
        reExec : BOOLEAN, rows : Seq(Nat \X Nat)]

Places == Flows \cup {"idle", "connection", "caught", "sleep"}

\* The variables but the cache have their types; a call has a query, and only
\* one that has ended has an outcome.
Typed ==
    /\ mode \in Modes /\ conn \in {"none", "open", "lost"}
    /\ known \subseteq Types \ Broken /\ prepared \in Types \cup {Null}
    /\ schema \in 0..MaxSchema /\ call \in 0..MaxCalls /\ key \in Keys \cup {Null}
    /\ pc \in Places /\ op \in Ops
    /\ outcome.how \in ErrorKinds \cup {"running", "ok"}
    /\ requests \in Seq(Requests) /\ inbox \in Seq(Messages) /\ runs \in Seq(Runs)
    /\ pc # "idle" => outcome = Running /\ key \in Keys
    /\ pc = "caught" => op.error \in ErrorKinds
    /\ pc \in Flows => (pc = "script" <=> key \in Scripts)

\* The next message to read is one that the client knows.
Live == inbox # <<>> /\ Head(inbox).k # "X"

\* There is a message of kind k among those not read.
In(s, k) == \E n \in DOMAIN s : s[n].k = k

\* The request of the flow the client is in.
Current == [flow |-> pc, key |-> key, type |-> op.type, call |-> call]

\* ReadyForCommand is the last message, and no other.
Closed(s) == \A n \in DOMAIN s : s[n].k = "Z" <=> n = Len(s)

Answered ==
    Live => /\ requests = <<>> /\ pc \in Flows
            /\ \A n \in DOMAIN inbox : inbox[n].k \in Expected \cup {"X"}

Asked == inbox = <<>> => requests = IF pc \in Flows THEN <<Current>> ELSE <<>>

\* What is on the connection: the request of the flow, or its answer.
Wire ==
    /\ pc \in Flows => conn = "open"
    /\ conn # "open" => requests = <<>> /\ inbox = <<>>
    /\ Closed(inbox) /\ Answered /\ Asked
    /\ inbox # <<>> /\ Head(inbox).k = "X" => outcome.how # "ok"

\* The flows that need types have them, and so has the server.
TypesKnown ==
    /\ pc \in {"describe", "execute", "optimistic"} => op.type \in Types
    /\ pc = "parse" /\ Live /\ op.error = "none" =>
           op.type \in Types \/ In(inbox, "1") \/ In(inbox, "E")
    /\ pc = "parse" /\ Live /\ (op.type # Null \/ In(inbox, "1")) => prepared \in Types
    /\ pc = "describe" => prepared \in Types

\* What a flow has collected are the first rows of the i-th execution, and
\* the others have arrived, in their order.
Collected(i) ==
    LET N == runs[i].rows
        j == Len(op.rows)
    IN  /\ runs[i].call = call /\ ~op.reExec /\ j <= N
        /\ (key \in Single => N <= 1) /\ (key \in Scripts => N = 0)
        /\ \A n \in 1..j : op.rows[n] = <<i, n>>
        /\ \A n \in DOMAIN inbox : /\ inbox[n].k = "D" <=> n <= N - j
                                   /\ n <= N - j => inbox[n].row = <<i, j + n>>
        /\ ~In(inbox, "E") /\ ~In(inbox, "T")

\* A flow that has sent its request has nothing yet.
Fresh ==
    pc \in Flows /\ inbox = <<>> =>
        /\ op.rows = <<>> /\ op.error = "none" /\ ~op.reExec
        /\ pc = "parse" => op.type = Null

Rows ==
    pc \in Exec /\ Live /\ op.error = "none" =>
        \/ \E i \in DOMAIN runs : Collected(i)
        \/ In(inbox, "E")
        \/ /\ pc # "script" /\ op.rows = <<>> /\ ~In(inbox, "D")
           /\ In(inbox, "T") \/ op.reExec

RowsKept ==
    /\ pc \in {"parse", "describe"} => op.rows = <<>>
    /\ Fresh /\ Rows /\ OwnRows

Pending(r) == r.flow \in Exec

\* What has been executed, and what is to be.
Executed ==
    /\ ModifiesOnce
    /\ \A i \in DOMAIN runs, n \in DOMAIN requests :
           Pending(requests[n]) /\ runs[i].call = requests[n].call
           => runs[i].key \notin Modifying /\ requests[n].key \notin Modifying
    /\ \A m, n \in DOMAIN requests :
           /\ Pending(requests[m]) /\ Pending(requests[n])
           /\ requests[m].call = requests[n].call /\ requests[m].key \in Modifying
           => m = n
    /\ \A n \in DOMAIN requests :
           requests[n].call <= call /\ (requests[n].call = call => requests[n].key = key)
    /\ \A i \in DOMAIN runs :
           runs[i].call <= call /\ (runs[i].call = call => runs[i].key = key)

\* The query has been executed in this call, or will be unless it fails.
Tried ==
    \/ \E i \in DOMAIN runs : runs[i].call = call
    \/ \E n \in DOMAIN requests : Pending(requests[n]) /\ requests[n].call = call

\* A query that is not read-only and has been tried is not sent again.
TriedOnce ==
    key \in Modifying /\ Tried =>
        \/ pc = "idle"
        \/ pc = "caught" /\ op.error # "conflict"
        \/ /\ pc \in Exec /\ ~op.reExec /\ op.error # "conflict"
           /\ Live => ~In(inbox, "T") /\ ~In(inbox, "E")

\* No message and no entry of the cache calls it read-only.
CapsKept ==
    key \in Modifying =>
        /\ op.caps # "readOnly"
        /\ Live => \A n \in DOMAIN inbox :
                       inbox[n].k \in {"1", "T"} => inbox[n].caps # "readOnly"

OnceKept == Executed /\ TriedOnce /\ CapsKept

Cached == {e \in [key : Keys, value : [type : Types, caps : Caps]] :
               e.key \in Modifying => e.value.caps # "readOnly"}

CacheOK(c) == InOrder(c) /\ c.capacity = CacheSize /\ Entries(c) \in Seq(Cached)

CacheKept == CacheOK(cache)

\* The invariant: the parts that are about the call, and the cache.
CallInv == Typed /\ Wire /\ TypesKnown /\ RowsKept /\ OnceKept

FInv == CallInv /\ CacheKept

-----------------------------------------------------------------------------
(* Sequences and messages.                                                 *)

LEMMA SeqFacts ==
    ASSUME NEW X, NEW s \in Seq(X)
    PROVE  /\ Len(s) \in Nat /\ DOMAIN s = 1..Len(s)
           /\ \A n \in DOMAIN s : s[n] \in X
           /\ s = <<>> <=> Len(s) = 0
           /\ s # <<>> => Len(s) >= 1 /\ 1 \in DOMAIN s /\ Head(s) = s[1] /\ s[1] \in X
BY LenProperties, ElementOfSeq, EmptySeq, HeadTailProperties

LEMMA TailFacts ==
    ASSUME NEW X, NEW s \in Seq(X), s # <<>>, NEW t, t = Tail(s)
    PROVE  /\ t \in Seq(X) /\ Len(t) = Len(s) - 1 /\ DOMAIN t = 1..(Len(s) - 1)
           /\ \A n \in DOMAIN t : n + 1 \in DOMAIN s /\ t[n] = s[n + 1]
<1>1. /\ Len(s) \in Nat /\ Len(s) >= 1 /\ DOMAIN s = 1..Len(s)
  BY SeqFacts
<1>2. t \in Seq(X) /\ Len(t) = Len(s) - 1 /\ \A n \in 1..Len(t) : t[n] = s[n + 1]
  BY HeadTailProperties
<1>3. DOMAIN t = 1..Len(t)
  BY <1>2, SeqFacts
<1> QED
  BY <1>1, <1>2, <1>3

LEMMA AppendFacts ==
    ASSUME NEW X, NEW s \in Seq(X), NEW x \in X, NEW t, t = Append(s, x)
    PROVE  /\ t \in Seq(X) /\ Len(t) = Len(s) + 1 /\ DOMAIN t = 1..(Len(s) + 1)
           /\ t[Len(s) + 1] = x
           /\ \A n \in DOMAIN s : n \in DOMAIN t /\ t[n] = s[n]
           /\ \A n \in DOMAIN t : n \in DOMAIN s \/ n = Len(s) + 1
<1>1. Len(s) \in Nat /\ DOMAIN s = 1..Len(s)
  BY SeqFacts
<1>2. /\ t \in Seq(X) /\ Len(t) = Len(s) + 1 /\ t[Len(s) + 1] = x
      /\ \A n \in 1..Len(s) : t[n] = s[n]
  BY AppendProperties
<1>3. DOMAIN t = 1..Len(t)
  BY <1>2, SeqFacts
<1> QED
  BY <1>1, <1>2, <1>3

\* What the messages of each kind hold.
LEMMA MessageFacts ==
    ASSUME NEW m \in Messages
    PROVE  /\ m.k \in {"Z", "L", "X", "C", "1", "T", "D", "E"}
           /\ m.k \in {"1", "T"} => m.type \in Types /\ m.caps \in Caps
           /\ m.k = "D" => m.row \in Nat \X Nat /\ m.type \in Types \cup {Null}
           /\ m.k = "E" => m.error \in ErrorKinds
<1>1. CASE m \in [k : {"Z", "L", "X", "C"}]
  BY <1>1
<1>2. CASE m \in [k : {"1", "T"}, type : Types, caps : Caps]
  BY <1>2
<1>3. CASE m \in [k : {"D"}, row : Nat \X Nat, type : Types \cup {Null}]
  BY <1>3
<1>4. CASE m \in [k : {"E"}, error : ErrorKinds]
  BY <1>4
<1> QED
  BY <1>1, <1>2, <1>3, <1>4 DEF Messages

LEMMA MessagesAre ==
    /\ \A k \in {"Z", "L", "X", "C"} : [k |-> k] \in Messages
    /\ \A k \in {"1", "T"}, type \in Types, caps \in Caps :
           [k |-> k, type |-> type, caps |-> caps] \in Messages
    /\ \A row \in Nat \X Nat, type \in Types \cup {Null} :
           [k |-> "D", row |-> row, type |-> type] \in Messages
    /\ \A e \in ErrorKinds : [k |-> "E", error |-> e] \in Messages
BY DEF Messages

\* What a message less leaves.
LEMMA InTail ==
    ASSUME NEW s \in Seq(Messages), s # <<>>, NEW t, t = Tail(s), NEW k
    PROVE  /\ In(t, k) => In(s, k)
           /\ In(s, k) /\ Head(s).k # k => In(t, k)
           /\ Head(s).k = k => In(s, k)
<1>1. /\ Len(s) \in Nat /\ DOMAIN s = 1..Len(s) /\ 1 \in DOMAIN s /\ Head(s) = s[1]
  BY SeqFacts
<1>2. /\ DOMAIN t = 1..(Len(s) - 1)
      /\ \A n \in DOMAIN t : n + 1 \in DOMAIN s /\ t[n] = s[n + 1]
  BY TailFacts
<1>3. In(t, k) => In(s, k)
  BY <1>2 DEF In
<1>4. ASSUME In(s, k), Head(s).k # k PROVE In(t, k)
  <2>1. PICK n \in DOMAIN s : s[n].k = k
    BY <1>4 DEF In
  <2>2. n # 1
    BY <1>1, <1>4, <2>1
  <2>3. n - 1 \in DOMAIN t /\ n = (n - 1) + 1
    BY <1>1, <1>2, <2>2
  <2>4. PICK p \in DOMAIN t : n = p + 1
    BY <2>3
  <2> QED
    BY <1>2, <2>1, <2>4 DEF In
<1>5. Head(s).k = k => In(s, k)
  BY <1>1 DEF In
<1> QED
  BY <1>3, <1>4, <1>5

-----------------------------------------------------------------------------
(* The answers of the server.                                              *)

LEMMA EndFacts ==
    ASSUME NEW end \in Ends
    PROVE  /\ end \in Seq(Messages) /\ Len(end) \in {1, 2}
           /\ \A i \in 1..Len(end) : end[i].k \in {"L", "X", "Z"}
           /\ \A i \in 1..Len(end) : end[i].k = "Z" <=> i = Len(end)
<1>1. CASE end = <<[k |-> "Z"]>>
  <2>1. PICK z : z = [k |-> "Z"]
    OBVIOUS
  <2>2. z \in Messages /\ z.k = "Z" /\ end = <<z>>
    BY <1>1, <2>1, MessagesAre
  <2>3. end \in Seq(Messages) /\ Len(end) = 1 /\ end[1] = z
    BY <2>2
  <2> QED
    BY <2>2, <2>3
<1>2. CASE end \in {<<[k |-> k], [k |-> "Z"]>> : k \in {"L", "X"}}
  <2>1. PICK k \in {"L", "X"} : end = <<[k |-> k], [k |-> "Z"]>>
    BY <1>2
  <2>2. PICK z, x : z = [k |-> "Z"] /\ x = [k |-> k]
    OBVIOUS
  <2>3. z \in Messages /\ x \in Messages /\ z.k = "Z" /\ x.k = k /\ end = <<x, z>>
    BY <2>1, <2>2, MessagesAre
  <2>4. end \in Seq(Messages) /\ Len(end) = 2 /\ end[1] = x /\ end[2] = z
    BY <2>3
  <2> QED
    BY <2>3, <2>4
<1> QED
  BY <1>1, <1>2 DEF Ends

\* The rows of a run, in their order.
AreRows(s, run) == \A i \in 1..Len(s) : s[i].k = "D" /\ s[i].row = <<run, i>>

LEMMA RowsFacts ==
    ASSUME NEW run \in Nat, NEW n \in Nat, NEW type \in Types \cup {Null},
           NEW last \in Types \cup {Null}, NEW s, s = RowsOf(run, n, type, last)
    PROVE  s \in Seq(Messages) /\ Len(s) = n /\ AreRows(s, run)
<1> DEFINE row(i) == [k |-> "D", row |-> <<run, i>>, type |-> IF i = n THEN last ELSE type]
<1>1. ASSUME NEW i \in 1..n
      PROVE  row(i) \in Messages /\ row(i).k = "D" /\ row(i).row = <<run, i>>
  <2>1. <<run, i>> \in Nat \X Nat /\ (IF i = n THEN last ELSE type) \in Types \cup {Null}
    OBVIOUS
  <2> QED
    BY <2>1, MessagesAre
<1>2. s = [i \in 1..n |-> row(i)]
  BY DEF RowsOf
<1> HIDE DEF row
<1>3. s \in Seq(Messages)
  BY <1>1, <1>2, IsASeq
<1> QED
  BY <1>1, <1>2, <1>3, LenProperties DEF AreRows

\* The rows w, the message m after them, and an end.
Answer(a, w, m) ==
    /\ a \in Seq(Messages) /\ a # <<>> /\ Head(a).k # "X" /\ Closed(a)
    /\ \A i \in 1..Len(w) : i \in DOMAIN a /\ a[i] = w[i]
    /\ Len(w) + 1 \in DOMAIN a /\ a[Len(w) + 1] = m
    /\ \A i \in DOMAIN a :
           \/ i \in 1..Len(w) \/ i = Len(w) + 1
           \/ i > Len(w) + 1 /\ a[i].k \in {"L", "X", "Z"}

LEMMA AnswerFacts ==
    ASSUME NEW w \in Seq(Messages), \A i \in 1..Len(w) : w[i].k = "D",
           NEW m \in Messages, m.k \notin {"Z", "X"}, NEW end \in Ends,
           NEW a, a = w \o <<m>> \o end
    PROVE  Answer(a, w, m)
<1>1. PICK h : h = <<m>>
  OBVIOUS
<1>2. h \in Seq(Messages) /\ Len(h) = 1 /\ h[1] = m
  BY <1>1
<1>3. PICK b : b = w \o h
  OBVIOUS
<1>4. PICK N \in Nat : N = Len(w)
  BY LenProperties
<1>5. b \in Seq(Messages) /\ Len(b) = N + 1 /\ b[N + 1] = m /\ \A i \in 1..N : b[i] = w[i]
  <2>0. w \in Seq(Messages)
    OBVIOUS
  <2>a. /\ b \in Seq(Messages) /\ Len(b) = Len(w) + Len(h)
        /\ \A i \in 1..(Len(w) + Len(h)) : b[i] = IF i <= Len(w) THEN w[i] ELSE h[i - Len(w)]
    BY ONLY <1>2, <1>3, <2>0, JoinedFacts
  <2>1. b \in Seq(Messages) /\ Len(b) = N + 1
    BY <1>2, <1>4, <2>a
  <2>2. \A i \in 1..(N + 1) : b[i] = IF i <= N THEN w[i] ELSE h[i - N]
    BY <1>2, <1>4, <2>a
  <2>3. b[N + 1] = h[(N + 1) - N] /\ (N + 1) - N = 1
    BY <1>4, <2>2
  <2>4. \A i \in 1..N : b[i] = w[i]
    BY <1>4, <2>2
  <2> QED
    BY <1>2, <2>1, <2>3, <2>4
<1>6. a = b \o end
  BY <1>1, <1>3
<1>7. PICK K \in {1, 2} : K = Len(end)
  BY EndFacts
<1>8. /\ a \in Seq(Messages) /\ Len(a) = N + 1 + K /\ DOMAIN a = 1..(N + 1 + K)
      /\ \A i \in 1..(N + 1 + K) : a[i] = IF i <= N + 1 THEN b[i] ELSE end[i - (N + 1)]
  <2>1. a \in Seq(Messages) /\ Len(a) = N + 1 + K
    BY <1>5, <1>6, <1>7, EndFacts, ConcatProperties
  <2>2. DOMAIN a = 1..(N + 1 + K)
    BY <2>1, SeqFacts
  <2> QED
    BY <1>5, <1>6, <1>7, <2>1, <2>2, EndFacts, ConcatProperties
<1>9. \A i \in 1..N : i \in DOMAIN a /\ a[i] = w[i] /\ a[i].k = "D"
  BY <1>4, <1>5, <1>7, <1>8
<1>10. N + 1 \in DOMAIN a /\ a[N + 1] = m
  BY <1>5, <1>7, <1>8
<1>11. ASSUME NEW i \in DOMAIN a
       PROVE  \/ i \in 1..N \/ i = N + 1
              \/ /\ i > N + 1 /\ a[i].k \in {"L", "X", "Z"}
                 /\ a[i].k = "Z" <=> i = Len(a)
  <2>1. CASE i > N + 1
    <3>1. i - (N + 1) \in 1..K /\ a[i] = end[i - (N + 1)]
      BY <1>7, <1>8, <2>1
    <3>2. i - (N + 1) = K <=> i = N + 1 + K
      BY <1>7, <1>8
    <3> QED
      BY <1>7, <1>8, <2>1, <3>1, <3>2, EndFacts
  <2>2. i > N + 1 \/ i \in 1..N \/ i = N + 1
    BY <1>8
  <2> QED
    BY <2>1, <2>2
<1>12. a # <<>> /\ Head(a).k # "X"
  <2>1. a # <<>> /\ Head(a) = a[1]
    BY <1>7, <1>8, SeqFacts
  <2>2. CASE N = 0
    BY <1>10, <2>1, <2>2
  <2>3. CASE N # 0
    <3>1. 1 \in 1..N
      BY <2>3
    <3> QED
      BY <1>9, <2>1, <3>1
  <2> QED
    BY <2>2, <2>3
<1>13. Closed(a)
  <2>1. ASSUME NEW i \in DOMAIN a PROVE a[i].k = "Z" <=> i = Len(a)
    <3>1. CASE i \in 1..N
      <4>1. a[i].k = "D" /\ i # N + 1 + K
        BY <1>7, <1>9, <3>1
      <4> QED
        BY <1>8, <4>1
    <3>2. CASE i = N + 1
      <4>1. i # N + 1 + K
        BY <1>7, <3>2
      <4> QED
        BY <1>8, <1>10, <3>2, <4>1
    <3> QED
      BY <1>11, <3>1, <3>2
  <2> QED
    BY <2>1 DEF Closed
<1> QED
  BY <1>4, <1>8, <1>9, <1>10, <1>11, <1>12, <1>13 DEF Answer

\* Nothing is sent after a message that stays unread.
Unsent == /\ inbox # <<>> /\ Head(inbox).k = "X" /\ inbox' = inbox
          /\ requests # <<>> /\ requests' = Tail(requests)

\* The request of the flow is answered.
Replied(r) == /\ inbox = <<>> /\ pc \in Flows /\ requests = <<r>> /\ r = Current
              /\ requests' = <<>>

LEMMA HandlesFacts ==
    ASSUME Typed, Wire, NEW r, Handles(r), NEW a, Sends(a)
    PROVE  /\ r \in Requests /\ requests # <<>> /\ r = requests[1]
           /\ Unsent \/ (Replied(r) /\ (a \in Seq(Messages) => inbox' = a))
<1>1. requests # <<>> /\ r = Head(requests) /\ requests' = Tail(requests)
  BY DEF Handles
<1>2. r \in Requests /\ r = requests[1]
  BY <1>1, SeqFacts DEF Typed
<1>3. ~Live
  BY <1>1 DEF Wire, Answered
<1>4. CASE inbox # <<>>
  <2>1. Head(inbox).k = "X"
    BY <1>3, <1>4 DEF Live
  <2> QED
    BY <1>1, <1>2, <1>4, <2>1 DEF Unsent, Sends
<1>5. CASE inbox = <<>>
  <2>1. pc \in Flows /\ requests = <<Current>>
    BY <1>1, <1>5 DEF Wire, Asked
  <2>2. PICK c : c = Current
    OBVIOUS
  <2>3. r = c /\ requests' = <<>>
    BY <1>1, <2>1, <2>2
  <2>4. inbox' = <<>> \o a
    BY <1>5 DEF Sends
  <2>5. a \in Seq(Messages) => inbox' = a
    BY <2>4, ConcatEmptySeq
  <2> QED
    BY <1>2, <1>1, <1>5, <2>1, <2>2, <2>3, <2>5 DEF Replied
<1> QED
  BY <1>4, <1>5

LEMMA ShortAnswer ==
    ASSUME NEW m \in Messages, m.k \notin {"Z", "X"}, NEW end \in Ends,
           NEW a, a = <<m>> \o end
    PROVE  Answer(a, <<>>, m)
<1>1. PICK w : w = <<>>
  OBVIOUS
<1>2. w \in Seq(Messages) /\ Len(w) = 0 /\ \A i \in 1..Len(w) : w[i].k = "D"
  BY <1>1
<1>3. PICK h : h = <<m>>
  OBVIOUS
<1>4. h \in Seq(Messages)
  BY <1>3
<1>5. w \o h = h
  BY <1>1, <1>4, ConcatEmptySeq
<1>6. a = w \o <<m>> \o end
  BY <1>3, <1>5
<1> QED
  BY <1>1, <1>2, <1>6, AnswerFacts

LEMMA TypeNowFacts ==
    ASSUME Typed, NEW k \in Keys PROVE TypeNow(k) \in Types
<1>1. schema \in 0..MaxSchema
  BY DEF Typed
<1>2. TypeOf[k][schema] \in {TypeOf[k][v] : v \in 0..MaxSchema}
  BY <1>1
<1> QED
  BY <1>2, Zenon DEF TypeNow, Types

\* The server sends types.
LEMMA DescribesFacts ==
    ASSUME Typed, Wire, TypesKnown, NEW r, Describes(r)
    PROVE  /\ r \in Requests /\ requests # <<>> /\ r = requests[1]
           /\ r.flow \in {"parse", "describe", "optimistic"}
           /\ runs' = runs /\ prepared' \in Types \cup {Null}
           /\ prepared' \in Types \/ prepared' = prepared
           /\ \/ Unsent
              \/ /\ Replied(r) /\ prepared' \in Types
                 /\ \E m \in Messages :
                       /\ m.k = IF r.flow = "parse" THEN "1" ELSE "T"
                       /\ m.type \in Types /\ m.caps = CapsSent(key)
                       /\ Answer(inbox', <<>>, m)
<1> DEFINE m == [k |-> IF r.flow = "parse" THEN "1" ELSE "T",
                 type |-> prepared', caps |-> CapsSent(r.key)]
<1>1. PICK end \in Ends : Sends(<<m>> \o end)
  BY DEF Describes
<1>2. /\ r \in Requests /\ requests # <<>> /\ r = requests[1]
      /\ Unsent \/ (Replied(r) /\ (<<m>> \o end \in Seq(Messages) => inbox' = <<m>> \o end))
  <2>1. PICK a : a = <<m>> \o end
    OBVIOUS
  <2>2. Sends(a) /\ Handles(r)
    BY <1>1, <2>1 DEF Describes
  <2>3. /\ r \in Requests /\ requests # <<>> /\ r = requests[1]
        /\ Unsent \/ (Replied(r) /\ (a \in Seq(Messages) => inbox' = a))
    BY <2>2, HandlesFacts
  <2> QED
    BY <2>1, <2>3
<1>3. /\ r.flow \in {"parse", "describe", "optimistic"}
      /\ \/ r.flow \in {"parse", "optimistic"} /\ prepared' = TypeNow(r.key)
         \/ r.flow = "describe" /\ prepared' = prepared
      /\ runs' = runs
  BY DEF Describes
<1>4. TypeNow(r.key) \in Types
  BY <1>2, TypeNowFacts DEF Requests
<1>5. ASSUME Replied(r) PROVE prepared' \in Types /\ r.key = key
  <2>1. r.flow = pc /\ r.key = key
    BY <1>5 DEF Replied, Current
  <2> QED
    BY <1>3, <1>4, <2>1 DEF TypesKnown
<1>6. ASSUME Replied(r), ~Unsent
      PROVE  /\ m \in Messages /\ m.k = IF r.flow = "parse" THEN "1" ELSE "T"
             /\ m.type \in Types /\ m.caps = CapsSent(key)
             /\ Answer(inbox', <<>>, m)
  <2>1. CapsSent(r.key) \in Caps
    BY DEF CapsSent, Caps
  <2>2. (IF r.flow = "parse" THEN "1" ELSE "T") \in {"1", "T"}
    OBVIOUS
  <2>3. m \in Messages
    BY <1>5, <1>6, <2>1, <2>2, MessagesAre
  <2>4. /\ m.k = IF r.flow = "parse" THEN "1" ELSE "T"
        /\ m.type = prepared' /\ m.caps = CapsSent(r.key)
    OBVIOUS
  <2>5. PICK n \in Messages : n = m
    BY <2>3
  <2>6. n.k \notin {"Z", "X"}
    BY <2>4, <2>5
  <2>7. PICK a : a = <<n>> \o end
    OBVIOUS
  <2>8. Answer(a, <<>>, n)
    BY <2>6, <2>7, ShortAnswer
  <2>9. inbox' = a
    <3>1. a \in Seq(Messages)
      BY <2>8 DEF Answer
    <3> QED
      BY <1>2, <1>6, <2>5, <2>7, <3>1
  <2> QED
    BY <1>5, <1>6, <2>3, <2>4, <2>5, <2>8, <2>9
<1> HIDE DEF m
<1> QED
  BY <1>2, <1>3, <1>4, <1>5, <1>6 DEF Typed

LEMMA RowCountsFacts ==
    ASSUME NEW k \in Keys, NEW type, NEW n \in RowCounts(k, type)
    PROVE  n \in Nat /\ (k \in Single => n <= 1) /\ (k \in Scripts => n = 0)
<1>1. MaxRows \in Nat
  BY FetchAssumption
<1>2. CASE k \in Scripts \/ <<k, type>> \in NoResult
  BY <1>2 DEF RowCounts
<1>3. CASE ~(k \in Scripts \/ <<k, type>> \in NoResult) /\ k \in Single
  BY <1>3 DEF RowCounts
<1>4. CASE ~(k \in Scripts \/ <<k, type>> \in NoResult) /\ k \notin Single
  BY <1>1, <1>4 DEF RowCounts
<1> QED
  BY <1>2, <1>3, <1>4

\* The server executes a query.
LEMMA ExecutesFacts ==
    ASSUME Typed, Wire, NEW r, Executes(r)
    PROVE  /\ r \in Requests /\ requests # <<>> /\ r = requests[1]
           /\ Pending(r) /\ prepared' = prepared
           /\ \E n \in Nat, run \in Runs :
                 /\ run.call = r.call /\ run.key = r.key /\ run.rows = n
                 /\ runs' = Append(runs, run)
                 /\ (r.key \in Single => n <= 1) /\ (r.key \in Scripts => n = 0)
                 /\ \/ Unsent
                    \/ /\ Replied(r)
                       /\ \E w \in Seq(Messages), m \in Messages :
                             /\ m.k = "C" /\ Len(w) = n
                             /\ AreRows(w, Len(runs) + 1)
                             /\ Answer(inbox', w, m)
<1> DEFINE type == IF r.flow = "execute" THEN prepared ELSE TypeNow(r.key)
<1>1. PICK n \in RowCounts(r.key, type), last \in {type, Null}, end \in Ends :
          /\ runs' = Append(runs, [call |-> r.call, key |-> r.key, rows |-> n])
          /\ Sends(RowsOf(Len(runs) + 1, n, type, last) \o <<[k |-> "C"]>> \o end)
  BY DEF Executes
<1>2. PICK m : m = [k |-> "C"]
  OBVIOUS
<1>3. m \in Messages /\ m.k = "C" /\ m.k \notin {"Z", "X"}
  BY <1>2, MessagesAre
<1>4. PICK w : w = RowsOf(Len(runs) + 1, n, type, last)
  OBVIOUS
<1>5. PICK a : a = w \o <<m>> \o end
  OBVIOUS
<1>6. Sends(a) /\ Handles(r)
  BY <1>1, <1>2, <1>4, <1>5 DEF Executes
<1>7. /\ r \in Requests /\ requests # <<>> /\ r = requests[1]
      /\ Unsent \/ (Replied(r) /\ (a \in Seq(Messages) => inbox' = a))
  BY <1>6, HandlesFacts
<1>8. type \in Types \cup {Null} /\ last \in Types \cup {Null}
  <2>1. TypeNow(r.key) \in Types
    BY <1>7, TypeNowFacts DEF Requests
  <2> QED
    BY <2>1 DEF Typed
<1>9. n \in Nat /\ (r.key \in Single => n <= 1) /\ (r.key \in Scripts => n = 0)
  BY <1>1, <1>7, RowCountsFacts DEF Requests
<1>10. Len(runs) + 1 \in Nat
  BY SeqFacts DEF Typed
<1> HIDE DEF type
<1>11. w \in Seq(Messages) /\ Len(w) = n /\ AreRows(w, Len(runs) + 1)
  BY ONLY <1>4, <1>8, <1>9, <1>10, RowsFacts
<1>12. Answer(a, w, m)
  BY <1>3, <1>5, <1>11, AnswerFacts DEF AreRows
<1>13. a \in Seq(Messages)
  BY <1>12 DEF Answer
<1>14. PICK run : run = [call |-> r.call, key |-> r.key, rows |-> n]
  OBVIOUS
<1>15. run \in Runs /\ run.call = r.call /\ run.key = r.key /\ run.rows = n
  BY <1>7, <1>9, <1>14 DEF Requests, Runs
<1>16. Pending(r) /\ prepared' = prepared
  BY DEF Executes, Pending, Exec
<1>17. runs' = Append(runs, run)
  BY <1>1, <1>14
<1>18. Unsent \/ (Replied(r) /\ Answer(inbox', w, m))
  BY <1>7, <1>12, <1>13
<1> QED
  BY <1>3, <1>7, <1>9, <1>11, <1>15, <1>16, <1>17, <1>18

\* The server reports an error.
LEMMA RejectsFacts ==
    ASSUME Typed, Wire, NEW r, Rejects(r)
    PROVE  /\ r \in Requests /\ requests # <<>> /\ r = requests[1]
           /\ prepared' = prepared /\ runs' = runs
           /\ \/ Unsent
              \/ /\ Replied(r)
                 /\ \E w \in Seq(Messages), m \in Messages :
                       /\ m.k = "E" /\ \A i \in 1..Len(w) : w[i].k = "D"
                       /\ pc \notin {"execute", "optimistic"} => Len(w) = 0
                       /\ Answer(inbox', w, m)
<1> DEFINE counts == IF r.flow \in {"execute", "optimistic"} THEN RowCounts(r.key, r.type) ELSE {0}
<1>1. PICK e \in ErrorKinds \ {"conn"}, end \in Ends, n \in counts :
          Sends(RowsOf(0, n, r.type, r.type) \o <<[k |-> "E", error |-> e]>> \o end)
  BY DEF Rejects
<1>2. PICK m : m = [k |-> "E", error |-> e]
  OBVIOUS
<1>3. m \in Messages /\ m.k = "E" /\ m.k \notin {"Z", "X"}
  BY <1>2, MessagesAre
<1>4. PICK w : w = RowsOf(0, n, r.type, r.type)
  OBVIOUS
<1>5. PICK a : a = w \o <<m>> \o end
  OBVIOUS
<1>6. Sends(a) /\ Handles(r)
  BY <1>1, <1>2, <1>4, <1>5 DEF Rejects
<1>7. /\ r \in Requests /\ requests # <<>> /\ r = requests[1]
      /\ Unsent \/ (Replied(r) /\ (a \in Seq(Messages) => inbox' = a))
  BY <1>6, HandlesFacts
<1>8. r.type \in Types \cup {Null} /\ r.key \in Keys
  BY <1>7 DEF Requests
<1>9. n \in Nat /\ (r.flow \notin {"execute", "optimistic"} => n = 0)
  <2>1. CASE r.flow \in {"execute", "optimistic"}
    BY <1>1, <1>8, <2>1, RowCountsFacts
  <2>2. CASE r.flow \notin {"execute", "optimistic"}
    BY <1>1, <2>2
  <2> QED
    BY <2>1, <2>2
<1> HIDE DEF counts
<1>10. PICK none \in Nat : w = RowsOf(none, n, r.type, r.type)
  BY <1>4
<1>a. w \in Seq(Messages) /\ Len(w) = n /\ AreRows(w, none)
  BY ONLY <1>8, <1>9, <1>10, RowsFacts
<1>11. w \in Seq(Messages) /\ Len(w) = n /\ \A i \in 1..n : w[i].k = "D"
  BY <1>a DEF AreRows
<1>12. Answer(a, w, m)
  BY <1>3, <1>5, <1>11, AnswerFacts DEF AreRows
<1>13. a \in Seq(Messages)
  BY <1>12 DEF Answer
<1>16. prepared' = prepared /\ runs' = runs
  BY DEF Rejects
<1>17. Replied(r) => r.flow = pc
  BY DEF Replied, Current
<1>18. Unsent \/ (Replied(r) /\ Answer(inbox', w, m))
  BY <1>7, <1>12, <1>13
<1> QED
  BY <1>3, <1>7, <1>9, <1>11, <1>16, <1>17, <1>18

LEMMA AnswerKinds ==
    ASSUME NEW a, NEW w \in Seq(Messages), NEW m, Answer(a, w, m),
           \A i \in 1..Len(w) : w[i].k = "D"
    PROVE  /\ In(a, m.k)
           /\ \A k : In(a, k) => k \in {m.k, "L", "X", "Z"} \/ (k = "D" /\ Len(w) # 0)
<1>1. In(a, m.k)
  BY DEF Answer, In
<1>2. ASSUME NEW i \in DOMAIN a
      PROVE  a[i].k \in {m.k, "L", "X", "Z"} \/ (a[i].k = "D" /\ Len(w) # 0)
  <2>1. CASE i \in 1..Len(w)
    <3>1. Len(w) # 0
      BY <2>1
    <3> QED
      BY <2>1, <3>1 DEF Answer
  <2>2. CASE i \notin 1..Len(w)
    BY <2>2 DEF Answer
  <2> QED
    BY <2>1, <2>2
<1> QED
  BY <1>1, <1>2 DEF In

LEMMA ExpectedFacts ==
    ASSUME pc \in Flows
    PROVE  /\ {"E", "Z", "S", "L"} \subseteq Expected
           /\ "X" \notin Expected
           /\ "1" \in Expected <=> pc = "parse"
           /\ "T" \in Expected <=> pc \in {"describe", "optimistic"}
           /\ "D" \in Expected <=> pc \in {"execute", "optimistic"}
           /\ "C" \in Expected <=> pc \in {"execute", "optimistic", "script"}
<1>1. CASE pc = "parse"
  BY <1>1 DEF Expected
<1>2. CASE pc = "describe"
  BY <1>2 DEF Expected
<1>3. CASE pc = "execute"
  BY <1>3 DEF Expected
<1>4. CASE pc = "optimistic"
  BY <1>4 DEF Expected
<1>5. CASE pc = "script"
  BY <1>5 DEF Expected
<1> QED
  BY <1>1, <1>2, <1>3, <1>4, <1>5 DEF Flows

-----------------------------------------------------------------------------
(* Serve.                                                                  *)

\* What Serve leaves alone.
Served == UNCHANGED <<mode, conn, cache, known, schema, call, key, pc, op, outcome>>

LEMMA UnsentWire ==
    ASSUME Typed, Wire, Unsent, Served PROVE Wire'
<1>1. /\ inbox' = inbox /\ inbox # <<>> /\ Head(inbox).k = "X"
      /\ conn' = conn /\ pc' = pc /\ outcome' = outcome
  BY DEF Unsent, Served
<1>2. conn' = "open"
  BY <1>1 DEF Wire, Typed
<1>3. Closed(inbox')
  BY <1>1 DEF Wire
<1>4. Answered' /\ Asked'
  BY <1>1 DEF Answered, Asked, Live
<1> QED
  BY <1>1, <1>2, <1>3, <1>4 DEF Wire

LEMMA RepliedWire ==
    ASSUME Typed, Wire, NEW r, Replied(r), Served, NEW w \in Seq(Messages), NEW m,
           Answer(inbox', w, m), \A i \in 1..Len(w) : w[i].k = "D", m.k \in Expected,
           Len(w) = 0 \/ pc \in {"execute", "optimistic"}
    PROVE  Wire'
<1>1. /\ pc \in Flows /\ requests' = <<>> /\ pc' = pc /\ conn' = conn
      /\ outcome' = outcome
  BY DEF Replied, Served
<1>2. /\ inbox' # <<>> /\ Head(inbox').k # "X" /\ Closed(inbox')
  BY DEF Answer
<1>3. conn' = "open"
  BY <1>1 DEF Wire
<1>4. Expected' = Expected
  BY <1>1 DEF Expected
<1>5. ASSUME NEW n \in DOMAIN inbox' PROVE inbox'[n].k \in Expected \cup {"X"}
  <2>1. In(inbox', inbox'[n].k)
    BY DEF In
  <2>2. inbox'[n].k \in {m.k, "L", "X", "Z"} \/ (inbox'[n].k = "D" /\ Len(w) # 0)
    BY <2>1, AnswerKinds
  <2> QED
    BY <1>1, <2>2, ExpectedFacts
<1>6. Answered'
  BY <1>1, <1>4, <1>5 DEF Answered
<1>7. Asked'
  BY <1>2 DEF Asked
<1> QED
  BY <1>1, <1>2, <1>3, <1>6, <1>7 DEF Wire

\* The three outcomes of Serve, with what they have in common.
LEMMA ServeFacts ==
    ASSUME Typed, Wire, Serve
    PROVE  /\ Served /\ UNCHANGED iter
           /\ \E r : /\ requests' = Tail(requests)
                     /\ Describes(r) \/ Executes(r) \/ Rejects(r)
BY DEF Serve, Served, caller, Describes, Executes, Rejects, Handles

LEMMA ServeWire ==
    ASSUME Typed, Wire, TypesKnown, Serve PROVE Wire'
<1>1. Served
  BY ServeFacts
<1>2. PICK r : Describes(r) \/ Executes(r) \/ Rejects(r)
  BY ServeFacts
<1>3. Replied(r) => pc = r.flow /\ pc \in Flows
  BY DEF Replied, Current
<1>4. CASE Describes(r)
  <2>1. CASE Unsent
    BY <1>1, <2>1, UnsentWire
  <2>2. CASE ~Unsent
    <3>1. PICK m \in Messages :
              /\ Replied(r) /\ r.flow \in {"parse", "describe", "optimistic"}
              /\ m.k = IF r.flow = "parse" THEN "1" ELSE "T"
              /\ Answer(inbox', <<>>, m)
      BY <1>4, <2>2, DescribesFacts
    <3>2. m.k \in Expected
      BY <1>3, <3>1, ExpectedFacts
    <3>3. PICK w : w = <<>>
      OBVIOUS
    <3>4. w \in Seq(Messages) /\ Len(w) = 0 /\ Answer(inbox', w, m)
      BY <3>1, <3>3
    <3>5. \A i \in 1..Len(w) : w[i].k = "D"
      BY <3>4
    <3> QED
      BY <1>1, <3>1, <3>2, <3>4, <3>5, RepliedWire
  <2> QED
    BY <2>1, <2>2
<1>5. CASE Executes(r)
  <2>1. CASE Unsent
    BY <1>1, <2>1, UnsentWire
  <2>2. CASE ~Unsent
    <3>1. PICK n \in Nat, w \in Seq(Messages), m \in Messages :
              /\ Replied(r) /\ Pending(r) /\ m.k = "C" /\ Len(w) = n
              /\ r.key \in Scripts => n = 0
              /\ AreRows(w, Len(runs) + 1) /\ Answer(inbox', w, m)
      BY <1>5, <2>2, ExecutesFacts
    <3>2. m.k \in Expected
      BY <1>3, <3>1, ExpectedFacts DEF Pending, Exec
    <3>3. Len(w) = 0 \/ pc \in {"execute", "optimistic"}
      <4>1. r.key = key
        BY <3>1 DEF Replied, Current
      <4> QED
        BY <1>3, <3>1, <4>1 DEF Typed, Pending, Exec
    <3>4. \A i \in 1..Len(w) : w[i].k = "D"
      BY <3>1 DEF AreRows
    <3> QED
      BY <1>1, <3>1, <3>2, <3>3, <3>4, RepliedWire
  <2> QED
    BY <2>1, <2>2
<1>6. CASE Rejects(r)
  <2>1. CASE Unsent
    BY <1>1, <2>1, UnsentWire
  <2>2. CASE ~Unsent
    <3>1. PICK w \in Seq(Messages), m \in Messages :
              /\ Replied(r) /\ m.k = "E" /\ \A i \in 1..Len(w) : w[i].k = "D"
              /\ pc \notin {"execute", "optimistic"} => Len(w) = 0
              /\ Answer(inbox', w, m)
      BY <1>6, <2>2, RejectsFacts
    <3>2. m.k \in Expected
      BY <1>3, <3>1, ExpectedFacts
    <3> QED
      BY <1>1, <3>1, <3>2, RepliedWire
  <2> QED
    BY <2>1, <2>2
<1> QED
  BY <1>2, <1>4, <1>5, <1>6

LEMMA ServeTyped ==
    ASSUME Typed, Wire, TypesKnown, Serve PROVE Typed'
<1>1. Served
  BY ServeFacts
<1>2. PICK r : /\ requests' = Tail(requests)
               /\ Describes(r) \/ Executes(r) \/ Rejects(r)
  BY ServeFacts
<1>3. /\ requests # <<>> /\ prepared' \in Types \cup {Null}
      /\ runs' = runs \/ \E run \in Runs : runs' = Append(runs, run)
  <2>1. CASE Describes(r)
    BY <2>1, DescribesFacts
  <2>2. CASE Executes(r)
    BY <2>2, ExecutesFacts DEF Typed
  <2>3. CASE Rejects(r)
    BY <2>3, RejectsFacts DEF Typed
  <2> QED
    BY <1>2, <2>1, <2>2, <2>3
<1>4. inbox' = inbox \/ \E w, m : Answer(inbox', w, m)
  <2>1. CASE Describes(r)
    BY <2>1, DescribesFacts DEF Unsent
  <2>2. CASE Executes(r)
    BY <2>2, ExecutesFacts DEF Unsent
  <2>3. CASE Rejects(r)
    BY <2>3, RejectsFacts DEF Unsent
  <2> QED
    BY <1>2, <2>1, <2>2, <2>3
<1>5. inbox' \in Seq(Messages)
  BY <1>4 DEF Answer, Typed
<1>6. requests' \in Seq(Requests)
  BY <1>2, <1>3, TailFacts DEF Typed
<1>7. runs' \in Seq(Runs)
  BY <1>3, AppendFacts DEF Typed
<1> QED
  BY <1>1, <1>3, <1>5, <1>6, <1>7 DEF Typed, Served

LEMMA ServeKnown ==
    ASSUME Typed, Wire, TypesKnown, RowsKept, Serve PROVE TypesKnown'
<1>1. Served
  BY ServeFacts
<1>2. PICK r : Describes(r) \/ Executes(r) \/ Rejects(r)
  BY ServeFacts
<1>3. prepared' = prepared \/ prepared' \in Types
  <2>1. CASE Describes(r)
    BY <2>1, DescribesFacts
  <2>2. CASE Executes(r)
    BY <2>2, ExecutesFacts
  <2>3. CASE Rejects(r)
    BY <2>3, RejectsFacts
  <2> QED
    BY <1>2, <2>1, <2>2, <2>3
<1>4. /\ pc' \in {"describe", "execute", "optimistic"} => op'.type \in Types
      /\ pc' = "describe" => prepared' \in Types
  BY <1>1, <1>3 DEF TypesKnown, Served
<1>5. ASSUME pc = "parse", Live'
      PROVE  /\ In(inbox', "1") /\ prepared' \in Types
             \/ /\ In(inbox', "E") /\ ~In(inbox', "1") /\ op'.type = Null
  <2>1. ~Unsent
    BY <1>5 DEF Unsent, Live
  <2>2. ASSUME Replied(r) PROVE r.flow = "parse" /\ op'.type = Null
    <3>1. r.flow = "parse"
      BY <1>5, <2>2 DEF Replied, Current
    <3>2. op.type = Null
      BY <1>5, <2>2 DEF Replied, RowsKept, Fresh, Flows
    <3> QED
      BY <1>1, <3>1, <3>2 DEF Served
  <2>3. CASE Describes(r)
    <3>1. PICK m \in Messages : /\ Replied(r) /\ prepared' \in Types
                                /\ m.k = IF r.flow = "parse" THEN "1" ELSE "T"
                                /\ Answer(inbox', <<>>, m)
      BY <2>1, <2>3, DescribesFacts
    <3>2. m.k = "1"
      BY <2>2, <3>1
    <3>3. In(inbox', "1")
      BY <3>1, <3>2 DEF Answer, In
    <3> QED
      BY <3>1, <3>3
  <2>4. CASE Executes(r)
    BY <2>1, <2>2, <2>4, ExecutesFacts DEF Pending, Exec
  <2>5. CASE Rejects(r)
    <3>1. PICK w \in Seq(Messages), m \in Messages :
              /\ Replied(r) /\ m.k = "E" /\ \A i \in 1..Len(w) : w[i].k = "D"
              /\ pc \notin {"execute", "optimistic"} => Len(w) = 0
              /\ Answer(inbox', w, m)
      BY <2>1, <2>5, RejectsFacts
    <3>2. In(inbox', "E") /\ ~In(inbox', "1")
      BY <3>1, AnswerKinds
    <3> QED
      BY <2>2, <3>1, <3>2
  <2> QED
    BY <1>2, <2>3, <2>4, <2>5
<1>6. pc' = pc
  BY <1>1 DEF Served
<1>7. pc' = "parse" /\ Live' /\ op'.error = "none" =>
          op'.type \in Types \/ In(inbox', "1") \/ In(inbox', "E")
  BY <1>5, <1>6
<1>8. pc' = "parse" /\ Live' /\ (op'.type # Null \/ In(inbox', "1")) => prepared' \in Types
  BY <1>5, <1>6
<1> QED
  BY <1>4, <1>7, <1>8 DEF TypesKnown

LEMMA ServeRows ==
    ASSUME Typed, Wire, TypesKnown, RowsKept, Serve PROVE RowsKept'
<1>1. Served
  BY ServeFacts
<1>2. PICK r : Describes(r) \/ Executes(r) \/ Rejects(r)
  BY ServeFacts
<1>3. /\ pc' = pc /\ op' = op /\ key' = key /\ call' = call /\ outcome' = outcome
  BY <1>1 DEF Served
<1>4. pc' \in {"parse", "describe"} => op'.rows = <<>>
  BY <1>3 DEF RowsKept
<1>5. inbox' # <<>>
  <2>1. CASE Describes(r)
    BY <2>1, DescribesFacts DEF Unsent, Answer
  <2>2. CASE Executes(r)
    BY <2>2, ExecutesFacts DEF Unsent, Answer
  <2>3. CASE Rejects(r)
    BY <2>3, RejectsFacts DEF Unsent, Answer
  <2> QED
    BY <1>2, <2>1, <2>2, <2>3
<1>6. Fresh'
  BY <1>5 DEF Fresh
<1>7. OwnRows'
  <2>1. CASE Unsent
    <3>1. outcome'.how # "ok"
      BY <1>3, <2>1 DEF Unsent, Wire
    <3> QED
      BY <3>1 DEF OwnRows
  <2>2. CASE ~Unsent
    <3>1. Replied(r)
      BY <1>2, <2>2, DescribesFacts, ExecutesFacts, RejectsFacts
    <3>2. pc' # "idle"
      BY <1>3, <3>1 DEF Replied, Flows
    <3> QED
      BY <3>2 DEF OwnRows
  <2> QED
    BY <2>1, <2>2
<1>8. ASSUME pc' \in Exec, Live', op'.error = "none"
      PROVE  \/ \E i \in DOMAIN runs' : Collected(i)'
             \/ In(inbox', "E")
             \/ /\ pc' # "script" /\ op'.rows = <<>> /\ ~In(inbox', "D")
                /\ In(inbox', "T") \/ op'.reExec
  <2>1. ~Unsent
    BY <1>8 DEF Unsent, Live
  <2>2. ASSUME Replied(r)
        PROVE  /\ r.flow = pc /\ r.key = key /\ r.call = call
               /\ op.rows = <<>> /\ ~op.reExec
    BY <2>2 DEF Replied, Current, RowsKept, Fresh
  <2>3. CASE Describes(r)
    <3>1. PICK m \in Messages : /\ Replied(r) /\ r.flow \in {"parse", "describe", "optimistic"}
                                /\ m.k = IF r.flow = "parse" THEN "1" ELSE "T"
                                /\ Answer(inbox', <<>>, m)
      BY <2>1, <2>3, DescribesFacts
    <3>2. m.k = "T" /\ pc' # "script"
      BY <1>3, <1>8, <2>2, <3>1 DEF Exec
    <3>3. PICK w : w = <<>>
      OBVIOUS
    <3>4. w \in Seq(Messages) /\ Len(w) = 0 /\ Answer(inbox', w, m)
      BY <3>1, <3>3
    <3>a. \A i \in 1..Len(w) : w[i].k = "D"
      BY <3>4
    <3>b. /\ In(inbox', m.k)
          /\ \A k : In(inbox', k) => k \in {m.k, "L", "X", "Z"} \/ (k = "D" /\ Len(w) # 0)
      BY <3>4, <3>a, AnswerKinds
    <3>5. In(inbox', "T") /\ ~In(inbox', "D")
      BY <3>2, <3>4, <3>b
    <3> QED
      BY <1>3, <2>2, <3>1, <3>2, <3>5
  <2>4. CASE Executes(r)
    <3>1. PICK n \in Nat, run \in Runs :
              /\ run.call = r.call /\ run.rows = n
              /\ runs' = Append(runs, run)
              /\ (r.key \in Single => n <= 1) /\ (r.key \in Scripts => n = 0)
              /\ Replied(r)
              /\ \E w \in Seq(Messages), m \in Messages :
                    /\ m.k = "C" /\ Len(w) = n
                    /\ AreRows(w, Len(runs) + 1)
                    /\ Answer(inbox', w, m)
      BY <2>1, <2>4, ExecutesFacts
    <3>2. PICK w \in Seq(Messages), m \in Messages :
              /\ m.k = "C" /\ Len(w) = n
              /\ AreRows(w, Len(runs) + 1)
              /\ Answer(inbox', w, m)
      BY <3>1
    <3>3. PICK i : i = Len(runs) + 1
      OBVIOUS
    <3>4. i \in DOMAIN runs' /\ runs'[i] = run
      <4>1. runs \in Seq(Runs) /\ Len(runs) \in Nat
        BY SeqFacts DEF Typed
      <4> QED
        BY <3>1, <3>3, <4>1, AppendFacts
    <3>5. \A j \in 1..n : w[j].k = "D" /\ w[j].row = <<i, j>>
      BY <3>2, <3>3 DEF AreRows
    <3>6. ~In(inbox', "E") /\ ~In(inbox', "T")
      BY <3>2, <3>5, AnswerKinds
    <3>7. ASSUME NEW p \in DOMAIN inbox'
          PROVE  /\ inbox'[p].k = "D" <=> p <= n
                 /\ p <= n => inbox'[p].row = <<i, p>>
      <4>1. p \in Nat /\ p >= 1
        BY <3>2, SeqFacts DEF Answer
      <4>2. CASE p <= n
        <5>1. p \in 1..n
          BY <4>1, <4>2
        <5>2. inbox'[p] = w[p]
          BY <3>2, <5>1 DEF Answer
        <5> QED
          BY <3>5, <4>2, <5>1, <5>2
      <4>3. CASE ~(p <= n)
        <5>1. p \notin 1..n
          BY <4>3
        <5>2. inbox'[p].k \in {"C", "L", "X", "Z"}
          BY <3>2, <5>1 DEF Answer
        <5> QED
          BY <4>3, <5>2
      <4> QED
        BY <4>2, <4>3
    <3>8. runs'[i].rows = n /\ runs'[i].call = call' /\ ~op'.reExec /\ op'.rows = <<>>
      BY <1>3, <2>2, <3>1, <3>4
    <3>9. (key' \in Single => n <= 1) /\ (key' \in Scripts => n = 0)
      BY <1>3, <2>2, <3>1
    <3>10. Collected(i)'
      <4>1. Len(op'.rows) = 0
        BY <3>8
      <4>2. PICK j \in Nat : j = Len(op'.rows) /\ j = 0
        BY <4>1
      <4>3. j <= n /\ n - j = n /\ \A p \in 1..j : op'.rows[p] = <<i, p>>
        BY <3>1, <4>2
      <4>4. ASSUME NEW p \in DOMAIN inbox'
            PROVE  /\ inbox'[p].k = "D" <=> p <= n - j
                   /\ p <= n - j => inbox'[p].row = <<i, j + p>>
        <5>1. p \in Nat
          BY <3>2, SeqFacts DEF Answer
        <5>2. j + p = p /\ n - j = n
          BY <4>2, <4>3, <5>1
        <5> QED
          BY <3>7, <5>2
      <4> QED
        BY <3>6, <3>8, <3>9, <4>2, <4>3, <4>4 DEF Collected
    <3> QED
      BY <3>4, <3>10
  <2>5. CASE Rejects(r)
    <3>1. PICK w, m : m.k = "E" /\ Answer(inbox', w, m)
      BY <2>1, <2>5, RejectsFacts
    <3> QED
      BY <3>1 DEF Answer, In
  <2> QED
    BY <1>2, <2>3, <2>4, <2>5
<1>9. Rows'
  BY <1>8 DEF Rows
<1> QED
  BY <1>4, <1>6, <1>7, <1>9 DEF RowsKept

\* A request that is handled, and maybe executed.
LEMMA ExecutedServe ==
    ASSUME Typed, Executed, requests # <<>>, requests' = Tail(requests),
           UNCHANGED <<call, key>>, NEW r, r = requests[1],
           \/ runs' = runs
           \/ /\ Pending(r)
              /\ \E run \in Runs : /\ run.call = r.call /\ run.key = r.key
                                   /\ runs' = Append(runs, run)
    PROVE  Executed' /\ (Tried' => Tried)
<1>1. /\ 1 \in DOMAIN requests /\ DOMAIN requests = 1..Len(requests) /\ Len(requests) \in Nat
      /\ \A n \in DOMAIN requests : requests[n] \in Requests
  BY SeqFacts DEF Typed
<1>2. \A n \in DOMAIN requests' :
          /\ n \in Nat /\ n >= 1
          /\ n + 1 \in DOMAIN requests /\ requests'[n] = requests[n + 1]
  <2>1. /\ DOMAIN requests' = 1..(Len(requests) - 1)
        /\ \A n \in DOMAIN requests' : n + 1 \in DOMAIN requests /\ requests'[n] = requests[n + 1]
    BY TailFacts DEF Typed
  <2> QED
    BY <1>1, <2>1
<1>3. \A i \in DOMAIN runs' :
          \/ i \in DOMAIN runs /\ runs'[i] = runs[i]
          \/ /\ Pending(r) /\ i = Len(runs) + 1
             /\ runs'[i].call = r.call /\ runs'[i].key = r.key
  <2>1. CASE runs' = runs
    BY <2>1
  <2>2. CASE Pending(r) /\ \E run \in Runs : /\ run.call = r.call /\ run.key = r.key
                                             /\ runs' = Append(runs, run)
    <3>1. PICK run \in Runs : run.call = r.call /\ run.key = r.key /\ runs' = Append(runs, run)
      BY <2>2
    <3>2. /\ runs'[Len(runs) + 1] = run
          /\ \A n \in DOMAIN runs : runs'[n] = runs[n]
          /\ \A n \in DOMAIN runs' : n \in DOMAIN runs \/ n = Len(runs) + 1
      BY <3>1, AppendFacts DEF Typed
    <3> QED
      BY <2>2, <3>1, <3>2
  <2> QED
    BY <2>1, <2>2
<1>4. ModifiesOnce'
  <2>1. ASSUME NEW i \in DOMAIN runs', NEW j \in DOMAIN runs', runs'[i].key \in Modifying,
               runs'[i].call = runs'[j].call
        PROVE  i = j
    <3>1. CASE i \in DOMAIN runs /\ runs'[i] = runs[i] /\ j \in DOMAIN runs /\ runs'[j] = runs[j]
      BY <2>1, <3>1 DEF Executed, ModifiesOnce
    <3>2. CASE /\ i \in DOMAIN runs /\ runs'[i] = runs[i]
               /\ Pending(r) /\ runs'[j].call = r.call
      BY <1>1, <2>1, <3>2 DEF Executed
    <3>3. CASE /\ j \in DOMAIN runs /\ runs'[j] = runs[j]
               /\ Pending(r) /\ runs'[i].call = r.call /\ runs'[i].key = r.key
      BY <1>1, <2>1, <3>3 DEF Executed
    <3>4. CASE i = Len(runs) + 1 /\ j = Len(runs) + 1
      BY <3>4
    <3> QED
      BY <1>3, <3>1, <3>2, <3>3, <3>4
  <2> QED
    BY <2>1 DEF ModifiesOnce
<1>5. ASSUME NEW i \in DOMAIN runs', NEW n \in DOMAIN requests',
             Pending(requests'[n]), runs'[i].call = requests'[n].call
      PROVE  runs'[i].key \notin Modifying /\ requests'[n].key \notin Modifying
  <2>1. PICK p \in DOMAIN requests : p # 1 /\ requests'[n] = requests[p]
    BY <1>2
  <2>2. CASE i \in DOMAIN runs /\ runs'[i] = runs[i]
    BY <1>5, <2>1, <2>2 DEF Executed
  <2>3. CASE Pending(r) /\ runs'[i].call = r.call /\ runs'[i].key = r.key
    <3>1. requests[1].key \in Modifying => 1 = p
      BY <1>1, <1>5, <2>1, <2>3 DEF Executed
    <3>2. requests[p].key \in Modifying => p = 1
      BY <1>1, <1>5, <2>1, <2>3 DEF Executed
    <3> QED
      BY <2>1, <2>3, <3>1, <3>2
  <2> QED
    BY <1>3, <2>2, <2>3
<1>6. ASSUME NEW m \in DOMAIN requests', NEW n \in DOMAIN requests',
             Pending(requests'[m]), Pending(requests'[n]),
             requests'[m].call = requests'[n].call, requests'[m].key \in Modifying
      PROVE  m = n
  <2>1. m + 1 = n + 1
    BY <1>2, <1>6 DEF Executed
  <2> QED
    BY <1>2, <2>1
<1>7. ASSUME NEW n \in DOMAIN requests'
      PROVE  /\ requests'[n].call <= call'
             /\ requests'[n].call = call' => requests'[n].key = key'
  BY <1>2 DEF Executed
<1>8. ASSUME NEW i \in DOMAIN runs'
      PROVE  /\ runs'[i].call <= call'
             /\ runs'[i].call = call' => runs'[i].key = key'
  BY <1>1, <1>3 DEF Executed
<1>9. Executed'
  BY <1>4, <1>5, <1>6, <1>7, <1>8 DEF Executed
<1>10. ASSUME Tried' PROVE Tried
  <2>1. CASE \E i \in DOMAIN runs' : runs'[i].call = call'
    <3>1. PICK i \in DOMAIN runs' : runs'[i].call = call
      BY <2>1
    <3> QED
      BY <1>1, <1>3, <3>1 DEF Tried
  <2>2. CASE \E n \in DOMAIN requests' : Pending(requests'[n]) /\ requests'[n].call = call'
    <3>1. PICK n \in DOMAIN requests' : Pending(requests'[n]) /\ requests'[n].call = call
      BY <2>2
    <3> QED
      BY <1>2, <3>1 DEF Tried
  <2> QED
    BY <1>10, <2>1, <2>2 DEF Tried
<1> QED
  BY <1>9, <1>10

\* A query that is not read-only and is answered with types or an error has
\* not been tried any more.
LEMMA UndoneFacts ==
    ASSUME Typed, Executed, NEW r, Replied(r), runs' = runs, Pending(r),
           key \in Modifying, UNCHANGED <<call, key>>
    PROVE  ~Tried'
<1>1. /\ requests = <<r>> /\ requests' = <<>> /\ r.call = call /\ r.key = key
  BY DEF Replied, Current
<1>2. 1 \in DOMAIN requests /\ requests[1] = r
  BY <1>1
<1>3. \A i \in DOMAIN runs : runs[i].call # call
  BY <1>1, <1>2 DEF Executed
<1> QED
  BY <1>1, <1>3 DEF Tried

LEMMA ServeOnce ==
    ASSUME Typed, Wire, TypesKnown, RowsKept, OnceKept, Serve PROVE OnceKept'
<1>1. Served
  BY ServeFacts
<1>2. PICK r : /\ requests' = Tail(requests)
               /\ Describes(r) \/ Executes(r) \/ Rejects(r)
  BY ServeFacts
<1>3. /\ pc' = pc /\ op' = op /\ key' = key /\ call' = call
  BY <1>1 DEF Served
<1>4. /\ r \in Requests /\ requests # <<>> /\ r = requests[1]
      /\ \/ runs' = runs
         \/ /\ Pending(r)
            /\ \E run \in Runs : /\ run.call = r.call /\ run.key = r.key
                                 /\ runs' = Append(runs, run)
  <2>1. CASE Describes(r)
    BY <2>1, DescribesFacts
  <2>2. CASE Executes(r)
    <3>1. /\ r \in Requests /\ requests # <<>> /\ r = requests[1] /\ Pending(r)
          /\ \E n \in Nat, run \in Runs :
                 /\ run.call = r.call /\ run.key = r.key /\ run.rows = n
                 /\ runs' = Append(runs, run)
      BY <2>2, ExecutesFacts
    <3> QED
      BY <3>1
  <2>3. CASE Rejects(r)
    BY <2>3, RejectsFacts
  <2> QED
    BY <1>2, <2>1, <2>2, <2>3
<1>5. Executed' /\ (Tried' => Tried)
  BY <1>2, <1>3, <1>4, ExecutedServe DEF OnceKept
<1>6. ASSUME Replied(r) PROVE r.flow = pc /\ pc \in Flows /\ ~op.reExec /\ op.error = "none"
  BY <1>6 DEF Replied, Current, RowsKept, Fresh
<1>7. ASSUME key' \in Modifying, Tried', Live', pc' \in Exec
      PROVE  ~In(inbox', "T") /\ ~In(inbox', "E")
  <2>1. ~Unsent
    BY <1>7 DEF Unsent, Live
  <2>2. Replied(r)
    BY <1>2, <2>1, DescribesFacts, ExecutesFacts, RejectsFacts
  <2>3. Pending(r)
    BY <1>3, <1>6, <1>7, <2>2 DEF Pending
  <2>4. runs' # runs
    BY <1>3, <1>7, <2>2, <2>3, UndoneFacts DEF OnceKept
  <2>5. Executes(r)
    BY <1>2, <2>4, DescribesFacts, RejectsFacts
  <2>6. PICK w \in Seq(Messages), m \in Messages :
            m.k = "C" /\ AreRows(w, Len(runs) + 1) /\ Answer(inbox', w, m)
    BY <2>1, <2>5, ExecutesFacts
  <2>7. \A i \in 1..Len(w) : w[i].k = "D"
    BY <2>6 DEF AreRows
  <2>8. \A k : In(inbox', k) => k \in {m.k, "L", "X", "Z"} \/ (k = "D" /\ Len(w) # 0)
    BY <2>6, <2>7, AnswerKinds
  <2> QED
    BY <2>6, <2>8
<1>8. TriedOnce'
  <2>1. ASSUME key' \in Modifying, Tried'
        PROVE  \/ pc' = "idle"
               \/ pc' = "caught" /\ op'.error # "conflict"
               \/ pc' \in Exec /\ ~op'.reExec /\ op'.error # "conflict"
    BY <1>3, <1>5, <2>1 DEF OnceKept, TriedOnce
  <2> QED
    BY <1>7, <2>1 DEF TriedOnce
<1>9. ASSUME key' \in Modifying, Live', NEW n \in DOMAIN inbox', inbox'[n].k \in {"1", "T"}
      PROVE  inbox'[n].caps # "readOnly"
  <2>1. ~Unsent
    BY <1>9 DEF Unsent, Live
  <2>2. In(inbox', "1") \/ In(inbox', "T")
    BY <1>9 DEF In
  <2>3. CASE Describes(r)
    <3>1. PICK m \in Messages : /\ m.k = IF r.flow = "parse" THEN "1" ELSE "T"
                                /\ m.caps = CapsSent(key)
                                /\ Answer(inbox', <<>>, m)
      BY <2>1, <2>3, DescribesFacts
    <3>2. PICK w : w = <<>>
      OBVIOUS
    <3>3. w \in Seq(Messages) /\ Len(w) = 0 /\ Answer(inbox', w, m)
      BY <3>1, <3>2
    <3>4. n = Len(w) + 1 /\ inbox'[n] = m
      BY <1>9, <3>3 DEF Answer
    <3>5. CapsSent(key) # "readOnly"
      BY <1>3, <1>9 DEF CapsSent
    <3> QED
      BY <3>1, <3>4, <3>5
  <2>4. CASE Executes(r)
    <3>1. PICK w \in Seq(Messages), m \in Messages :
              m.k = "C" /\ AreRows(w, Len(runs) + 1) /\ Answer(inbox', w, m)
      BY <2>1, <2>4, ExecutesFacts
    <3>2. \A i \in 1..Len(w) : w[i].k = "D"
      BY <3>1 DEF AreRows
    <3>3. \A k : In(inbox', k) => k \in {m.k, "L", "X", "Z"} \/ (k = "D" /\ Len(w) # 0)
      BY <3>1, <3>2, AnswerKinds
    <3> QED
      BY <2>2, <3>1, <3>3
  <2>5. CASE Rejects(r)
    <3>1. PICK w \in Seq(Messages), m \in Messages :
              /\ m.k = "E" /\ \A i \in 1..Len(w) : w[i].k = "D"
              /\ Answer(inbox', w, m)
      BY <2>1, <2>5, RejectsFacts
    <3>2. \A k : In(inbox', k) => k \in {m.k, "L", "X", "Z"} \/ (k = "D" /\ Len(w) # 0)
      BY <3>1, AnswerKinds
    <3> QED
      BY <2>2, <3>1, <3>2
  <2> QED
    BY <1>2, <2>3, <2>4, <2>5
<1>10. CapsKept'
  BY <1>3, <1>9 DEF CapsKept, OnceKept
<1> QED
  BY <1>5, <1>8, <1>10 DEF OnceKept

-----------------------------------------------------------------------------
(* The cache.                                                              *)

Values == [type : Types, caps : Caps]

LEMMA CacheNew ==
    ASSUME NEW d, d = NewLRU(CacheSize)
    PROVE  CacheOK(d) /\ Entries(d) = <<>>
<1>1. CacheSize \in Nat \ {0}
  BY FetchAssumption
<1>2. InOrder(d) /\ d.capacity = CacheSize /\ Entries(d) = <<>>
  BY <1>1, NewCache
<1> QED
  BY <1>2 DEF CacheOK

\* What the cache has of a query.
LEMMA CacheValue ==
    ASSUME NEW c, CacheOK(c), NEW k, HasEntry(c, k)
    PROVE  /\ k \in Keys /\ EntryOf(c, k).type \in Types /\ EntryOf(c, k).caps \in Caps
           /\ k \in Modifying => EntryOf(c, k).caps # "readOnly"
<1>1. PICK n \in DOMAIN Entries(c) : Entries(c)[n].key = k
  BY EntryIs DEF CacheOK
<1>2. PICK e : e = Entries(c)[n] /\ e = [key |-> k, value |-> EntryOf(c, k)]
  BY <1>1, EntryIs DEF CacheOK
<1>3. e \in Cached
  BY <1>2, SeqFacts DEF CacheOK
<1>4. e.key = k /\ e.value = EntryOf(c, k)
  BY <1>2
<1> QED
  BY <1>3, <1>4 DEF Cached

LEMMA OthersKept ==
    ASSUME NEW s \in Seq(Cached), NEW n \in DOMAIN s, NEW e \in Cached,
           NEW t, t = Before(e, s, n)
    PROVE  t \in Seq(Cached)
<1>1. n \in 1..Len(s)
  BY SeqFacts
<1>2. PICK w : w = Others(s, n)
  OBVIOUS
<1>3. w \in Seq(Cached)
  BY <1>1, <1>2, OthersFacts
<1>4. t = <<e>> \o w
  BY <1>2 DEF Before
<1> QED
  BY ONLY <1>3, <1>4, FirstFacts, e \in Cached

LEMMA CacheGet ==
    ASSUME NEW c, CacheOK(c), NEW k, NEW d, d = AfterGet(c, k)
    PROVE  /\ CacheOK(d)
           /\ \/ d = c
              \/ /\ k \in Keys
                 /\ \E n \in DOMAIN Entries(c) :
                       /\ Entries(c)[n].key = k
                       /\ Entries(d) = Before(Entries(c)[n], Entries(c), n)
<1>1. CASE ~HasEntry(c, k)
  BY <1>1 DEF AfterGet
<1>2. CASE HasEntry(c, k)
  <2>1. InOrder(c) /\ c.capacity = CacheSize /\ Entries(c) \in Seq(Cached)
    BY DEF CacheOK
  <2>2. /\ InOrder(d) /\ d.capacity = c.capacity
        /\ \E n \in DOMAIN Entries(c) :
              /\ Entries(c)[n].key = k
              /\ Entries(d) = Before(Entries(c)[n], Entries(c), n)
    BY <1>2, <2>1, GetSync
  <2>3. PICK n \in DOMAIN Entries(c) :
              /\ Entries(c)[n].key = k
              /\ Entries(d) = Before(Entries(c)[n], Entries(c), n)
    BY <2>2
  <2>4. Entries(c)[n] \in Cached
    BY <2>1, SeqFacts
  <2>5. Entries(d) \in Seq(Cached)
    BY <2>1, <2>3, <2>4, OthersKept
  <2>6. k \in Keys
    BY <1>2, CacheValue
  <2> QED
    BY <2>1, <2>2, <2>5, <2>6 DEF CacheOK
<1> QED
  BY <1>1, <1>2

LEMMA BeginningIn ==
    ASSUME NEW X, NEW s, NEW n \in Int, \A i \in 1..n : s[i] \in X, NEW t, t = SubSeq(s, 1, n)
    PROVE  t \in Seq(X)
BY SubSeqProperties

\* What an entry added leaves of the cache.
LEMMA BeginningKept ==
    ASSUME NEW s \in Seq(Cached), NEW e \in Cached, NEW all, all = <<e>> \o s,
           NEW t, t = Beginning(all, IF Len(all) < CacheSize THEN Len(all) ELSE CacheSize)
    PROVE  t \in Seq(Cached)
<1>1. all \in Seq(Cached)
  BY FirstFacts
<1>2. CacheSize \in Nat /\ Len(all) \in Nat
  BY <1>1, FetchAssumption, LenProperties
<1>3. PICK n \in 0..Len(all) : n = IF Len(all) < CacheSize THEN Len(all) ELSE CacheSize
  BY <1>2
<1>4. t = SubSeq(all, 1, n)
  BY <1>3 DEF Beginning
<1>5. \A i \in 1..n : all[i] \in Cached
  BY <1>1, <1>2, ElementOfSeq
<1>6. n \in Int
  BY <1>2
<1> QED
  BY ONLY <1>4, <1>5, <1>6, BeginningIn

LEMMA CacheSet ==
    ASSUME NEW c, CacheOK(c), NEW k \in Keys, NEW v \in Values,
           k \in Modifying => v.caps # "readOnly", NEW d, d = AfterSet(c, k, v)
    PROVE  /\ CacheOK(d)
           /\ LET all == <<[key |-> k, value |-> v]>> \o Entries(c)
              IN  \/ \E n \in DOMAIN Entries(c) :
                        /\ Entries(c)[n].key = k
                        /\ Entries(d) = Before([key |-> k, value |-> v], Entries(c), n)
                  \/ /\ ~ \E n \in DOMAIN Entries(c) : Entries(c)[n].key = k
                     /\ Entries(d) = Beginning(all, IF Len(all) < CacheSize
                                                    THEN Len(all) ELSE CacheSize)
<1>1. InOrder(c) /\ c.capacity = CacheSize /\ Entries(c) \in Seq(Cached)
  BY DEF CacheOK
<1>2. PICK e : e = [key |-> k, value |-> v]
  OBVIOUS
<1>3. e \in Cached
  BY <1>2 DEF Cached, Values
<1>4. CASE HasEntry(c, k)
  <2>1. /\ InOrder(d) /\ d.capacity = c.capacity
        /\ \E n \in DOMAIN Entries(c) :
              /\ Entries(c)[n].key = k
              /\ Entries(d) = Before([key |-> k, value |-> v], Entries(c), n)
    BY <1>1, <1>4, SetReplaces
  <2>2. PICK n \in DOMAIN Entries(c) :
              /\ Entries(c)[n].key = k
              /\ Entries(d) = Before([key |-> k, value |-> v], Entries(c), n)
    BY <2>1
  <2>3. Entries(d) = Before(e, Entries(c), n)
    BY <1>2, <2>2
  <2>4. Entries(d) \in Seq(Cached)
    BY <1>1, <1>3, <2>3, OthersKept
  <2> QED
    BY <1>1, <2>1, <2>4 DEF CacheOK
<1>5. CASE ~HasEntry(c, k)
  <2> DEFINE all == <<[key |-> k, value |-> v]>> \o Entries(c)
  <2>1. /\ InOrder(d) /\ d.capacity = c.capacity
        /\ Entries(d) = Beginning(all, IF Len(all) < c.capacity THEN Len(all) ELSE c.capacity)
    BY <1>1, <1>5, SetAdds
  <2>2. PICK w : w = all
    OBVIOUS
  <2>3. w = <<e>> \o Entries(c)
    BY <1>2, <2>2
  <2>4. Entries(d) = Beginning(w, IF Len(w) < CacheSize THEN Len(w) ELSE CacheSize)
    BY <1>1, <2>1, <2>2
  <2>5. Entries(d) \in Seq(Cached)
    BY <1>1, <1>3, <2>3, <2>4, BeginningKept
  <2>6. ~ \E n \in DOMAIN Entries(c) : Entries(c)[n].key = k
    BY <1>1, <1>5, EntryIs
  <2> QED
    BY <1>1, <2>1, <2>5, <2>6 DEF CacheOK
<1> QED
  BY <1>4, <1>5

\* What may happen to the cache: steps of Recency.
CacheStep == CacheKept' /\ (LastUsed!Next \/ UNCHANGED Entries(cache))

LEMMA GetStep ==
    ASSUME CacheKept, NEW k, cache' = AfterGet(cache, k)
    PROVE  CacheStep
<1>1. CacheOK(cache) /\ CacheKept' = CacheOK(cache')
  BY DEF CacheKept
<1>2. /\ CacheOK(cache')
      /\ \/ cache' = cache
         \/ /\ k \in Keys
            /\ \E n \in DOMAIN Entries(cache) :
                  /\ Entries(cache)[n].key = k
                  /\ Entries(cache') = Before(Entries(cache)[n], Entries(cache), n)
  BY <1>1, CacheGet
<1>3. CASE cache' = cache
  BY <1>1, <1>2, <1>3 DEF CacheStep
<1>4. CASE cache' # cache
  <2>1. PICK n \in DOMAIN Entries(cache) :
              /\ Entries(cache)[n].key = k
              /\ Entries(cache') = Before(Entries(cache)[n], Entries(cache), n)
    BY <1>2, <1>4
  <2>2. Entries(cache') = <<Entries(cache)[n]>> \o LastUsed!Without(n)
    BY <2>1 DEF Before, Others, LastUsed!Without
  <2>3. LastUsed!GetEntry(k)
    BY <2>1, <2>2 DEF LastUsed!GetEntry
  <2> QED
    BY <1>1, <1>2, <1>4, <2>3 DEF CacheStep, LastUsed!Next
<1> QED
  BY <1>3, <1>4

LEMMA SetStep ==
    ASSUME CacheKept, NEW k \in Keys, NEW v \in Values,
           k \in Modifying => v.caps # "readOnly", cache' = AfterSet(cache, k, v)
    PROVE  CacheStep
<1> DEFINE e == [key |-> k, value |-> v]
           all == <<e>> \o Entries(cache)
<1>1. CacheOK(cache) /\ CacheKept' = CacheOK(cache')
  BY DEF CacheKept
<1>2. /\ CacheOK(cache')
      /\ \/ \E n \in DOMAIN Entries(cache) :
               /\ Entries(cache)[n].key = k
               /\ Entries(cache') = Before(e, Entries(cache), n)
         \/ /\ ~ \E n \in DOMAIN Entries(cache) : Entries(cache)[n].key = k
            /\ Entries(cache') = Beginning(all, IF Len(all) < CacheSize
                                                THEN Len(all) ELSE CacheSize)
  BY <1>1, CacheSet
<1>3. LastUsed!SetEntry(k, v)
  <2>1. CASE \E n \in DOMAIN Entries(cache) :
                 /\ Entries(cache)[n].key = k
                 /\ Entries(cache') = Before(e, Entries(cache), n)
    <3>1. PICK n \in DOMAIN Entries(cache) :
                 /\ Entries(cache)[n].key = k
                 /\ Entries(cache') = Before(e, Entries(cache), n)
      BY <2>1
    <3>2. Entries(cache') = <<e>> \o LastUsed!Without(n)
      BY <3>1 DEF Before, Others, LastUsed!Without
    <3> QED
      BY <3>1, <3>2 DEF LastUsed!SetEntry
  <2>2. CASE /\ ~ \E n \in DOMAIN Entries(cache) : Entries(cache)[n].key = k
             /\ Entries(cache') = Beginning(all, IF Len(all) < CacheSize
                                                 THEN Len(all) ELSE CacheSize)
    <3>1. Entries(cache') = LastUsed!Kept(all)
      BY <2>2 DEF Beginning, LastUsed!Kept
    <3>2. ~LastUsed!HasKey(k)
      BY <2>2 DEF LastUsed!HasKey
    <3> QED
      BY <3>1, <3>2 DEF LastUsed!SetEntry
  <2> QED
    BY <1>2, <2>1, <2>2
<1>4. \E k1 \in Keys : \E value \in [type : Types, caps : Caps] : LastUsed!SetEntry(k1, value)
  BY <1>3 DEF Values
<1>5. LastUsed!Next
  BY <1>4 DEF LastUsed!Next
<1> QED
  BY <1>1, <1>2, <1>5 DEF CacheStep

LEMMA NewStep ==
    ASSUME cache' = NewLRU(CacheSize) PROVE CacheStep
<1>1. CacheOK(cache') /\ Entries(cache') = <<>>
  BY CacheNew
<1>2. LastUsed!Discard
  BY <1>1 DEF LastUsed!Discard
<1> QED
  BY <1>1, <1>2 DEF CacheStep, CacheKept, LastUsed!Next

LEMMA SameStep ==
    ASSUME CacheKept, cache' = cache PROVE CacheStep
<1>1. CacheKept' = CacheKept
  BY DEF CacheKept
<1> QED
  BY <1>1 DEF CacheStep

-----------------------------------------------------------------------------
(* What the steps of the client have in common.                            *)

\* There is nothing to read, or a message that the client does not know.
Ready ==
    \/ inbox' = <<>> /\ requests = <<>>
    \/ inbox' = inbox /\ inbox # <<>> /\ Head(inbox).k = "X"

\* What the client's steps leave alone.
Stays == UNCHANGED <<mode, conn, schema, prepared, runs, call, key>>

LEMMA ReadyFacts ==
    ASSUME Typed, Wire, Ready
    PROVE  /\ ~Live' /\ inbox' \in Seq(Messages) /\ Closed(inbox')
           /\ inbox' = <<>> => requests = <<>>
           /\ inbox' # <<>> => outcome.how # "ok"
<1>1. CASE inbox' = <<>> /\ requests = <<>>
  BY <1>1 DEF Live, Closed
<1>2. CASE inbox' = inbox /\ inbox # <<>> /\ Head(inbox).k = "X"
  BY <1>2 DEF Live, Wire, Typed
<1> QED
  BY <1>1, <1>2 DEF Ready

\* A call that has a connection is ready.
LEMMA StartReady ==
    ASSUME Typed, Wire, pc = "connection", inbox' = inbox
    PROVE  Ready
<1>1. pc \notin Flows
  BY DEF Flows
<1>2. inbox = <<>> => requests = <<>>
  BY <1>1 DEF Wire, Asked
<1>3. ~Live
  BY <1>1 DEF Wire, Answered
<1> QED
  BY <1>2, <1>3 DEF Ready, Live

LEMMA ReadingFacts ==
    ASSUME Typed, Wire, NEW k, Reading(k)
    PROVE  /\ pc \in Flows /\ pc # "idle" /\ conn = "open" /\ Live /\ requests = <<>>
           /\ inbox # <<>> /\ Head(inbox).k = k /\ Head(inbox) \in Messages
           /\ inbox' = Tail(inbox) /\ inbox' \in Seq(Messages) /\ k \in Expected
           /\ outcome = Running /\ key \in Keys
           /\ k = "Z" => inbox' = <<>> /\ \A j : In(inbox, j) => j = "Z"
           /\ k # "Z" => inbox' # <<>>
<1>1. /\ pc \in Flows /\ inbox # <<>> /\ Head(inbox).k = k /\ k \in Expected
      /\ inbox' = Tail(inbox)
  BY DEF Reading
<1>2. conn = "open" /\ Live /\ requests = <<>>
  BY <1>1, ExpectedFacts DEF Wire, Answered, Live
<1>3. /\ Len(inbox) \in Nat /\ DOMAIN inbox = 1..Len(inbox) /\ 1 \in DOMAIN inbox
      /\ Len(inbox) >= 1 /\ Head(inbox) = inbox[1] /\ inbox[1] \in Messages
  BY <1>1, SeqFacts DEF Typed
<1>4. inbox' \in Seq(Messages) /\ Len(inbox') = Len(inbox) - 1
  BY <1>1, TailFacts DEF Typed
<1>5. k = "Z" <=> Len(inbox) = 1
  BY <1>1, <1>3 DEF Wire, Closed
<1>6. inbox' = <<>> <=> Len(inbox) = 1
  BY <1>3, <1>4, SeqFacts
<1>7. ASSUME k = "Z", NEW j, In(inbox, j) PROVE j = "Z"
  <2>1. PICK n \in DOMAIN inbox : inbox[n].k = j
    BY <1>7 DEF In
  <2>a. Len(inbox) = 1
    BY <1>5, <1>7
  <2>b. DOMAIN inbox = 1..1
    BY <1>3, <2>a
  <2>2. n = 1
    BY <2>b
  <2> QED
    BY <1>1, <1>3, <1>7, <2>1, <2>2
<1>8. pc # "idle" /\ outcome = Running /\ key \in Keys
  BY <1>1 DEF Typed, Flows
<1> QED
  BY <1>1, <1>2, <1>3, <1>4, <1>5, <1>6, <1>7, <1>8

\* ReadyForCommand is the last message of an answer.
LEMMA EndReady ==
    ASSUME Typed, Wire, Reading("Z")
    PROVE  Ready /\ inbox' = <<>>
BY ReadingFacts DEF Ready

\* Outside of the flows nothing is known of types and rows.
LEMMA AsideKeeps ==
    ASSUME pc' \notin Flows, outcome'.how # "ok"
    PROVE  TypesKnown' /\ RowsKept'
BY DEF TypesKnown, RowsKept, Fresh, Rows, OwnRows, Flows, Exec

LEMMA QuietWire ==
    ASSUME Wire, pc \notin Flows, pc' \notin Flows, UNCHANGED <<conn, requests, inbox>>,
           outcome'.how # "ok"
    PROVE  Wire'
<1>1. /\ conn' # "open" => requests' = <<>> /\ inbox' = <<>>
      /\ Closed(inbox')
  BY DEF Wire
<1>2. Live' = Live
  BY DEF Live
<1>3. Answered'
  BY <1>2 DEF Wire, Answered
<1>4. Asked'
  BY DEF Wire, Asked
<1> QED
  BY <1>1, <1>3, <1>4 DEF Wire

LEMMA EmptiedWire ==
    ASSUME pc' \notin Flows, requests' = <<>>, inbox' = <<>>
    PROVE  Wire'
BY DEF Wire, Closed, Answered, Asked, Live

\* What is executed, when no request is made.
LEMMA SameExecuted ==
    ASSUME Executed, UNCHANGED <<runs, call, key>>, requests' = requests \/ requests' = <<>>
    PROVE  Executed' /\ (Tried' => Tried)
<1>1. CASE requests' = requests
  BY <1>1 DEF Executed, Tried, ModifiesOnce
<1>2. CASE requests' = <<>>
  <2>1. DOMAIN requests' = {}
    BY <1>2
  <2> QED
    BY <2>1 DEF Executed, Tried, ModifiesOnce
<1> QED
  BY <1>1, <1>2

\* A call fails: its error is caught.
LEMMA ThrowKeeps ==
    ASSUME CallInv, Ready, Stays, conn = "open", NEW e \in ErrorKinds, Throw(e),
           known' \subseteq Types \ Broken, pc # "idle",
           key \in Modifying /\ Tried => e # "conflict"
    PROVE  CallInv'
<1>1. /\ pc' = "caught" /\ op' = [op EXCEPT !.error = e]
      /\ requests' = requests /\ outcome' = outcome
  BY DEF Throw
<1>2. /\ op \in Ops /\ op' \in Ops /\ op'.error = e /\ op'.caps = op.caps
  <2>1. op \in Ops
    BY DEF CallInv, Typed
  <2> QED
    BY <1>1, <2>1 DEF Ops
<1>3. outcome = Running /\ key \in Keys /\ outcome'.how # "ok"
  BY <1>1 DEF CallInv, Typed, Running
<1>4. pc' \notin Flows
  BY <1>1 DEF Flows
<1>5. ~Live' /\ inbox' \in Seq(Messages) /\ Closed(inbox') /\ (inbox' = <<>> => requests = <<>>)
  BY ReadyFacts DEF CallInv
<1>6. Typed'
  BY <1>1, <1>2, <1>3, <1>4, <1>5 DEF CallInv, Typed, Stays, Places
<1>7. Wire'
  <2>1. conn' = "open"
    BY DEF Stays
  <2>2. Answered'
    BY <1>5 DEF Answered
  <2>3. Asked'
    BY <1>1, <1>4, <1>5 DEF Asked
  <2> QED
    BY <1>3, <1>4, <1>5, <2>1, <2>2, <2>3 DEF Wire
<1>8. TypesKnown' /\ RowsKept'
  BY <1>3, <1>4, AsideKeeps
<1>9. Executed' /\ (Tried' => Tried)
  BY <1>1, SameExecuted DEF CallInv, OnceKept, Stays
<1>10. TriedOnce'
  BY <1>1, <1>2, <1>9 DEF TriedOnce, Stays
<1>11. CapsKept'
  BY <1>2, <1>5 DEF CallInv, OnceKept, CapsKept, Stays
<1> QED
  BY <1>6, <1>7, <1>8, <1>9, <1>10, <1>11 DEF CallInv, OnceKept

\* A request is written, or not.
LEMMA SendFacts ==
    ASSUME Typed, Wire, Ready, NEW flow, NEW o \in Ops, Send(flow, o)
    PROVE  /\ pc' = flow /\ outcome' = outcome
           /\ op'.type = o.type /\ op'.caps = o.caps /\ op'.error = "none"
           /\ op'.reExec = FALSE /\ op'.rows = o.rows /\ op' \in Ops
           /\ \/ requests' = requests /\ inbox' # <<>>
              \/ requests' = Append(requests, [flow |-> flow, key |-> key,
                                               type |-> o.type, call |-> call])
<1>1. /\ pc' = flow /\ outcome' = outcome
      /\ op' = [o EXCEPT !.error = "none", !.reExec = FALSE]
      /\ requests' = IF mode.http /\ inbox' # <<>> THEN requests
                     ELSE Append(requests, [flow |-> flow, key |-> key,
                                            type |-> o.type, call |-> call])
  BY DEF Send
<1>2. /\ op'.type = o.type /\ op'.caps = o.caps /\ op'.error = "none"
      /\ op'.reExec = FALSE /\ op'.rows = o.rows /\ op' \in Ops
  BY <1>1 DEF Ops
<1>3. \/ requests' = requests /\ inbox' # <<>>
      \/ requests' = Append(requests, [flow |-> flow, key |-> key,
                                       type |-> o.type, call |-> call])
  BY <1>1
<1> QED
  BY <1>1, <1>2, <1>3

\* What is executed, when a request is made.
LEMMA SendExecuted ==
    ASSUME Typed, Executed, UNCHANGED <<runs, call, key>>,
           NEW new \in Requests, new.call = call, new.key = key,
           requests' = Append(requests, new),
           Pending(new) /\ key \in Modifying => ~Tried
    PROVE  Executed' /\ (Tried' => Tried \/ Pending(new))
<1>1. \A n \in DOMAIN requests' :
          \/ n \in DOMAIN requests /\ requests'[n] = requests[n]
          \/ n = Len(requests) + 1 /\ requests'[n] = new
  BY AppendFacts DEF Typed
<1>2. call \in Nat
  BY FetchAssumption DEF Typed
<1>3. ASSUME NEW i \in DOMAIN runs', NEW n \in DOMAIN requests',
             Pending(requests'[n]), runs'[i].call = requests'[n].call
      PROVE  runs'[i].key \notin Modifying /\ requests'[n].key \notin Modifying
  <2>1. CASE n \in DOMAIN requests /\ requests'[n] = requests[n]
    BY <1>3, <2>1 DEF Executed
  <2>2. CASE requests'[n] = new
    <3>1. runs[i].call = call /\ Tried
      BY <1>3, <2>2 DEF Tried
    <3>2. runs[i].key = key
      BY <1>3, <3>1 DEF Executed
    <3> QED
      BY <1>3, <2>2, <3>1, <3>2
  <2> QED
    BY <1>1, <2>1, <2>2
<1>4. ASSUME NEW m \in DOMAIN requests', NEW n \in DOMAIN requests',
             Pending(requests'[m]), Pending(requests'[n]),
             requests'[m].call = requests'[n].call, requests'[m].key \in Modifying
      PROVE  m = n
  <2>1. CASE /\ m \in DOMAIN requests /\ requests'[m] = requests[m]
             /\ n \in DOMAIN requests /\ requests'[n] = requests[n]
    BY <1>4, <2>1 DEF Executed
  <2>2. CASE m \in DOMAIN requests /\ requests'[m] = requests[m] /\ requests'[n] = new
    <3>1. requests[m].call = call /\ Tried
      BY <1>4, <2>2 DEF Tried
    <3>2. requests[m].key = key
      BY <2>2, <3>1 DEF Executed
    <3> QED
      BY <1>4, <2>2, <3>1, <3>2
  <2>3. CASE n \in DOMAIN requests /\ requests'[n] = requests[n] /\ requests'[m] = new
    <3>1. requests[n].call = call /\ Tried
      BY <1>4, <2>3 DEF Tried
    <3> QED
      BY <1>4, <2>3, <3>1
  <2>4. CASE m = Len(requests) + 1 /\ n = Len(requests) + 1
    BY <2>4
  <2> QED
    BY <1>1, <2>1, <2>2, <2>3, <2>4
<1>5. ASSUME NEW n \in DOMAIN requests'
      PROVE  /\ requests'[n].call <= call'
             /\ requests'[n].call = call' => requests'[n].key = key'
  BY <1>1, <1>2 DEF Executed
<1>6. Executed'
  BY <1>3, <1>4, <1>5 DEF Executed, ModifiesOnce
<1>7. ASSUME Tried' PROVE Tried \/ Pending(new)
  BY <1>1, <1>7 DEF Tried
<1> QED
  BY <1>6, <1>7

\* A flow begins.
LEMMA SendKeeps ==
    ASSUME CallInv, Ready, Stays, conn = "open", NEW flow \in Flows, NEW o \in Ops,
           Send(flow, o), known' \subseteq Types \ Broken, pc # "idle", o.rows = <<>>,
           flow \in {"describe", "execute", "optimistic"} => o.type \in Types,
           flow = "parse" => o.type = Null, flow = "describe" => prepared \in Types,
           flow = "script" <=> key \in Scripts,
           key \in Modifying => o.caps # "readOnly" /\ ~Tried
    PROVE  CallInv'
<1>1. Typed /\ Wire /\ TypesKnown /\ RowsKept /\ Executed
  BY DEF CallInv, OnceKept
<1>2. /\ pc' = flow /\ outcome' = outcome
      /\ op'.type = o.type /\ op'.caps = o.caps /\ op'.error = "none"
      /\ op'.reExec = FALSE /\ op'.rows = o.rows /\ op' \in Ops
      /\ \/ requests' = requests /\ inbox' # <<>>
         \/ requests' = Append(requests, [flow |-> flow, key |-> key,
                                          type |-> o.type, call |-> call])
  BY <1>1, SendFacts
<1>3. outcome = Running /\ key \in Keys /\ outcome'.how # "ok"
  BY <1>1, <1>2 DEF Typed, Running
<1>4. PICK new : new = [flow |-> flow, key |-> key, type |-> o.type, call |-> call]
  OBVIOUS
<1>5. /\ new \in Requests /\ new.flow = flow /\ new.call = call /\ new.key = key
  <2>1. call \in Nat /\ o.type \in Types \cup {Null}
    BY <1>1, FetchAssumption DEF Typed, Ops
  <2> QED
    BY <1>3, <1>4, <2>1 DEF Requests
<1>6. ~Live' /\ inbox' \in Seq(Messages) /\ Closed(inbox') /\ (inbox' = <<>> => requests = <<>>)
  BY <1>1, ReadyFacts
<1>7. requests' = requests \/ requests' = Append(requests, new)
  BY <1>2, <1>4
<1>8. requests' \in Seq(Requests)
  BY <1>1, <1>5, <1>7, AppendFacts DEF Typed
<1>9. Typed'
  <2>1. pc' \in Places /\ pc' # "caught"
    BY <1>2 DEF Places, Flows
  <2>2. pc' \in Flows => (pc' = "script" <=> key' \in Scripts)
    BY <1>2 DEF Stays
  <2> QED
    BY <1>1, <1>2, <1>3, <1>6, <1>8, <2>1, <2>2 DEF Typed, Stays
<1>10. Wire'
  <2>1. conn' = "open"
    BY DEF Stays
  <2>2. Answered'
    BY <1>6 DEF Answered
  <2>3. ASSUME inbox' = <<>> PROVE requests' = <<Current>>'
    <3>1. requests' = Append(<<>>, new)
      BY <1>2, <1>4, <1>6, <2>3
    <3>2. requests' = <<new>>
      BY <3>1
    <3>3. Current' = new
      BY <1>2, <1>4 DEF Current, Stays
    <3> QED
      BY <3>2, <3>3
  <2>4. Asked'
    BY <1>2, <2>3 DEF Asked
  <2> QED
    BY <1>3, <1>6, <2>1, <2>2, <2>4 DEF Wire
<1>11. TypesKnown'
  <2>1. prepared' = prepared
    BY DEF Stays
  <2> QED
    BY <1>2, <1>6, <2>1 DEF TypesKnown
<1>12. RowsKept'
  <2>1. Fresh'
    BY <1>2 DEF Fresh
  <2>2. Rows'
    BY <1>6 DEF Rows
  <2>3. OwnRows'
    BY <1>3 DEF OwnRows
  <2> QED
    BY <1>2, <2>1, <2>2, <2>3 DEF RowsKept
<1>13. Executed' /\ (key \in Modifying => (Tried' => Pending(new)))
  <2>1. CASE requests' = requests
    BY <1>1, <2>1, SameExecuted DEF Stays
  <2>2. CASE requests' = Append(requests, new)
    <3>1. UNCHANGED <<runs, call, key>>
      BY DEF Stays
    <3>2. Executed' /\ (Tried' => Tried \/ Pending(new))
      BY <1>1, <1>5, <2>2, <3>1, SendExecuted
    <3> QED
      BY <3>2
  <2> QED
    BY <1>7, <2>1, <2>2
<1>14. TriedOnce'
  <2>1. ASSUME key' \in Modifying, Tried'
        PROVE  pc' \in Exec /\ ~op'.reExec /\ op'.error # "conflict" /\ ~Live'
    <3>1. Pending(new)
      BY <1>13, <2>1 DEF Stays
    <3> QED
      BY <1>2, <1>5, <1>6, <3>1 DEF Pending
  <2> QED
    BY <2>1 DEF TriedOnce
<1>15. CapsKept'
  BY <1>2, <1>6 DEF CapsKept, Stays
<1> QED
  BY <1>9, <1>10, <1>11, <1>12, <1>13, <1>14, <1>15 DEF CallInv, OnceKept

\* A call ends with a result.
LEMMA ReturnKeeps ==
    ASSUME CallInv, inbox' = <<>>, requests = <<>>, Stays, conn = "open",
           known' \subseteq Types \ Broken,
           pc' = "idle", op' = NewOp, requests' = requests, outcome'.how = "ok",
           OwnRows'
    PROVE  CallInv'
<1>1. Typed /\ Wire /\ Executed
  BY DEF CallInv, OnceKept
<1>2. op' \in Ops /\ op'.caps = "unknown"
  BY DEF NewOp, Ops, Caps
<1>3. pc' \notin Flows /\ pc' \notin Exec /\ ~Live'
  BY DEF Flows, Exec, Live
<1>4. inbox' \in Seq(Messages)
  OBVIOUS
<1>5. Typed'
  BY <1>1, <1>2, <1>3, <1>4 DEF Typed, Stays, Places
<1>6. Wire'
  BY <1>3, EmptiedWire
<1>7. TypesKnown'
  BY <1>3 DEF TypesKnown
<1>8. RowsKept'
  BY <1>3 DEF RowsKept, Fresh, Rows
<1>9. Executed'
  BY <1>1, SameExecuted DEF Stays
<1>10. TriedOnce' /\ CapsKept'
  BY <1>2, <1>3 DEF TriedOnce, CapsKept
<1> QED
  BY <1>5, <1>6, <1>7, <1>8, <1>9, <1>10 DEF CallInv, OnceKept

-----------------------------------------------------------------------------
(* A call.                                                                 *)

\* Where a query that is not read-only has not been tried.
LEMMA Untried ==
    ASSUME CallInv, key \in Modifying,
           \/ pc \in {"connection", "parse", "describe", "sleep"}
           \/ pc \in Exec /\ (op.reExec \/ op.error = "conflict")
           \/ pc \in Exec /\ Live /\ (In(inbox, "T") \/ In(inbox, "E"))
    PROVE  ~Tried
BY DEF CallInv, OnceKept, TriedOnce, Exec

LEMMA KnownTyped ==
    ASSUME CallInv PROVE known \subseteq Types \ Broken
BY DEF CallInv, Typed

LEMMA InitFInv == ASSUME Init PROVE FInv
<1>1. Typed
  <2>1. /\ <<>> \in Seq(Requests) /\ <<>> \in Seq(Messages) /\ <<>> \in Seq(Runs)
        /\ <<>> \in Seq(Nat \X Nat)
    OBVIOUS
  <2>2. NewOp \in Ops
    BY <2>1 DEF NewOp, Ops, Caps
  <2>3. outcome.how = "running" /\ schema \in 0..MaxSchema /\ call \in 0..MaxCalls
    BY FetchAssumption DEF Init, Running
  <2> QED
    BY <2>1, <2>2, <2>3 DEF Init, Typed, Places, Flows
<1>2. pc \notin Flows /\ inbox = <<>> /\ requests = <<>> /\ runs = <<>> /\ op.caps = "unknown"
      /\ outcome.how # "ok" /\ pc = "idle"
  BY DEF Init, Flows, Running, NewOp
<1>3. ~Live /\ DOMAIN inbox = {} /\ DOMAIN requests = {} /\ DOMAIN runs = {}
  BY <1>2 DEF Live
<1>4. Wire
  BY <1>2, <1>3 DEF Wire, Closed, Answered, Asked
<1>5. TypesKnown
  BY <1>2 DEF TypesKnown, Flows
<1>6. RowsKept
  BY <1>2 DEF RowsKept, Fresh, Rows, OwnRows, Flows, Exec
<1>7. OnceKept
  BY <1>2, <1>3 DEF OnceKept, Executed, ModifiesOnce, TriedOnce, CapsKept
<1>8. CacheKept
  BY CacheNew DEF Init, CacheKept
<1> QED
  BY <1>1, <1>4, <1>5, <1>6, <1>7, <1>8 DEF FInv, CallInv

LEMMA BeginFInv ==
    ASSUME FInv, NEW k \in Keys, Begin(k)
    PROVE  CallInv' /\ CacheStep
<1>1. /\ pc = "idle" /\ call < MaxCalls /\ call' = call + 1 /\ key' = k
      /\ pc' = "connection" /\ op' = NewOp /\ outcome' = Running /\ runs' = <<>>
      /\ UNCHANGED <<mode, conn, cache, known, requests, inbox, schema, prepared>>
  BY DEF Begin
<1>2. Typed /\ Wire /\ Executed /\ CacheKept
  BY DEF FInv, CallInv, OnceKept
<1>3. NewOp \in Ops /\ op'.caps = "unknown" /\ outcome'.how # "ok"
  <2>1. <<>> \in Seq(Nat \X Nat)
    OBVIOUS
  <2> QED
    BY <1>1, <2>1 DEF NewOp, Ops, Caps, Running
<1>4. pc \notin Flows /\ pc' \notin Flows
  BY <1>1 DEF Flows
<1>5. call' \in 0..MaxCalls /\ runs' \in Seq(Runs) /\ DOMAIN runs' = {}
  <2>1. call \in 0..MaxCalls /\ MaxCalls \in Nat
    BY <1>2, FetchAssumption DEF Typed
  <2> QED
    BY <1>1, <2>1
<1>6. Typed'
  BY <1>1, <1>2, <1>3, <1>4, <1>5 DEF Typed, Places, Running
<1>7. Wire'
  BY <1>1, <1>2, <1>3, <1>4, QuietWire
<1>8. TypesKnown' /\ RowsKept'
  BY <1>3, <1>4, AsideKeeps
<1>9. \A n \in DOMAIN requests' : requests'[n] = requests[n] /\ requests[n].call < call'
  <2>1. ASSUME NEW n \in DOMAIN requests PROVE requests[n].call < call'
    <3>1. requests[n] \in Requests
      BY <1>2, SeqFacts DEF Typed
    <3>2. requests[n].call \in Nat /\ call \in Nat /\ requests[n].call <= call
      BY <1>2, <3>1, FetchAssumption DEF Requests, Typed, Executed
    <3> QED
      BY <1>1, <3>2
  <2> QED
    BY <1>1, <2>1
<1>10. \A n \in DOMAIN requests' : requests'[n].call <= call' /\ requests'[n].call # call'
  <2>1. ASSUME NEW n \in DOMAIN requests'
        PROVE  requests'[n].call <= call' /\ requests'[n].call # call'
    <3>1. requests'[n] \in Requests
      BY <1>6, SeqFacts DEF Typed
    <3>2. requests'[n].call \in Nat /\ call' \in Nat
      BY <1>6, <3>1 DEF Requests, Typed
    <3> QED
      BY <1>9, <3>2
  <2> QED
    BY <2>1
<1>11. Executed'
  BY <1>1, <1>2, <1>5, <1>10 DEF Executed, ModifiesOnce
<1>12. ~Tried'
  BY <1>5, <1>10 DEF Tried
<1>13. ~Live'
  BY <1>1, <1>2, <1>4 DEF Wire, Answered, Live
<1>14. TriedOnce' /\ CapsKept'
  BY <1>3, <1>12, <1>13 DEF TriedOnce, CapsKept
<1>15. CacheStep
  BY <1>1, <1>2, SameStep
<1> QED
  BY <1>6, <1>7, <1>8, <1>11, <1>14, <1>15 DEF CallInv, OnceKept

\* A step outside of the flows.
LEMMA QuietKeeps ==
    ASSUME CallInv, pc \notin Flows, pc' \in {"idle", "sleep", "connection"},
           UNCHANGED <<mode, conn, known, schema, prepared, runs, call, key, requests, inbox>>,
           op' = NewOp \/ op' = op, outcome'.how \in ErrorKinds \cup {"running"},
           pc' # "idle" => outcome' = Running /\ key \in Keys,
           key \in Modifying /\ Tried => pc' = "idle"
    PROVE  CallInv'
<1>1. Typed /\ Wire /\ Executed /\ CapsKept
  BY DEF CallInv, OnceKept
<1>2. /\ op' \in Ops
      /\ key \in Modifying => op'.caps # "readOnly"
  <2>1. NewOp \in Ops /\ NewOp.caps = "unknown"
    <3>1. <<>> \in Seq(Nat \X Nat)
      OBVIOUS
    <3> QED
      BY <3>1 DEF NewOp, Ops, Caps
  <2>2. op \in Ops
    BY <1>1 DEF Typed
  <2>3. key \in Modifying => op.caps # "readOnly"
    BY <1>1 DEF CapsKept
  <2> QED
    BY <2>1, <2>2, <2>3
<1>3. pc' \notin Flows /\ pc' # "caught" /\ pc' \in Places
  BY DEF Flows, Places
<1>4. outcome'.how # "ok" /\ outcome'.how \in ErrorKinds \cup {"running", "ok"}
  BY DEF ErrorKinds, Retryable
<1>5. Typed'
  BY <1>1, <1>2, <1>3, <1>4 DEF Typed
<1>6. Wire'
  BY <1>1, <1>3, <1>4, QuietWire
<1>7. TypesKnown' /\ RowsKept'
  BY <1>3, <1>4, AsideKeeps
<1>8. Executed' /\ (Tried' => Tried)
  BY <1>1, SameExecuted
<1>9. TriedOnce'
  BY <1>8 DEF TriedOnce
<1>10. ~Live'
  BY <1>1 DEF Wire, Answered, Live
<1>11. CapsKept'
  BY <1>2, <1>10 DEF CapsKept
<1> QED
  BY <1>5, <1>6, <1>7, <1>8, <1>9, <1>11 DEF CallInv, OnceKept

LEMMA ConnectFInv ==
    ASSUME FInv, Connect PROVE CallInv' /\ CacheStep
<1>1. /\ pc = "connection" /\ conn' = "open" /\ cache' = NewLRU(CacheSize)
      /\ requests' = <<>> /\ inbox' = <<>> /\ prepared' = Null
      /\ UNCHANGED <<mode, known, schema, runs, call, key, pc, op, outcome>>
  BY DEF Connect, caller
<1>2. Typed /\ Wire /\ Executed /\ CapsKept /\ CallInv
  BY DEF FInv, CallInv, OnceKept
<1>3. pc' \notin Flows /\ ~Live'
  BY <1>1 DEF Flows, Live
<1>4. requests' \in Seq(Requests) /\ inbox' \in Seq(Messages)
  BY <1>1
<1>5. Typed'
  BY <1>1, <1>2, <1>4 DEF Typed
<1>6. Wire'
  BY <1>1, <1>3, EmptiedWire
<1>7. outcome'.how # "ok"
  BY <1>1, <1>2 DEF Typed, Running
<1>8. TypesKnown' /\ RowsKept'
  BY <1>3, <1>7, AsideKeeps
<1>9. Executed' /\ (Tried' => Tried)
  BY <1>1, <1>2, SameExecuted
<1>10. TriedOnce'
  BY <1>1, <1>2, <1>9, Untried DEF TriedOnce
<1>11. CapsKept'
  BY <1>1, <1>2, <1>3 DEF CapsKept
<1>12. CacheStep
  BY <1>1, NewStep
<1> QED
  BY <1>5, <1>6, <1>8, <1>9, <1>10, <1>11, <1>12 DEF CallInv, OnceKept

LEMMA ConnectFailFInv ==
    ASSUME FInv, ConnectFail PROVE CallInv' /\ CacheStep
<1>1. /\ pc = "connection" /\ pc' = "idle" /\ op' = NewOp
      /\ outcome' = [how |-> "conn", rows |-> <<>>]
      /\ UNCHANGED <<mode, conn, cache, known, requests, inbox, schema, prepared, runs, call, key>>
  BY DEF ConnectFail, server, caller
<1>2. outcome'.how \in ErrorKinds \cup {"running"} /\ pc \notin Flows
  BY <1>1 DEF ErrorKinds, Retryable, Flows
<1>3. CallInv'
  BY <1>1, <1>2, QuietKeeps DEF FInv
<1> QED
  BY <1>1, <1>3, SameStep DEF FInv

LEMMA RetryFInv ==
    ASSUME FInv, Retry PROVE CallInv' /\ CacheStep
<1>1. /\ pc = "sleep" /\ pc' = "connection"
      /\ UNCHANGED <<mode, conn, cache, known, requests, inbox, schema, prepared, runs, call, key, op, outcome>>
  BY DEF Retry, server
<1>2. outcome' = Running /\ key \in Keys
  BY <1>1 DEF FInv, CallInv, Typed
<1>3. outcome'.how \in ErrorKinds \cup {"running"} /\ pc \notin Flows
  BY <1>1, <1>2 DEF Running, Flows
<1>4. ~(key \in Modifying /\ Tried)
  BY <1>1, Untried DEF FInv
<1>5. CallInv'
  BY <1>1, <1>2, <1>3, <1>4, QuietKeeps DEF FInv
<1> QED
  BY <1>1, <1>5, SameStep DEF FInv

LEMMA ScriptFailsFInv ==
    ASSUME FInv, ScriptFails PROVE CallInv' /\ CacheStep
<1>1. /\ pc = "caught" /\ pc' = "idle" /\ op' = NewOp
      /\ outcome' = [how |-> op.error, rows |-> <<>>]
      /\ UNCHANGED <<mode, conn, cache, known, requests, inbox, schema, prepared, runs, call, key>>
  BY DEF ScriptFails, server, caller
<1>2. outcome'.how \in ErrorKinds \cup {"running"} /\ pc \notin Flows
  BY <1>1 DEF FInv, CallInv, Typed, Flows
<1>3. CallInv'
  BY <1>1, <1>2, QuietKeeps DEF FInv
<1> QED
  BY <1>1, <1>3, SameStep DEF FInv

\* A query that is not read-only has no entry that says it is.
LEMMA CaughtFInv ==
    ASSUME FInv, Caught PROVE CallInv' /\ CacheStep
<1>1. /\ pc = "caught" /\ key \notin Scripts
      /\ cache' = IF op.error \in Retryable THEN AfterGet(cache, key) ELSE cache
      /\ \/ MayRetry(CachedCaps) /\ pc' = "sleep" /\ UNCHANGED <<op, outcome>>
         \/ pc' = "idle" /\ op' = NewOp /\ outcome' = [how |-> op.error, rows |-> <<>>]
      /\ UNCHANGED <<mode, conn, known, requests, inbox, schema, prepared, runs, call, key>>
  BY DEF Caught, server, caller
<1>2. Typed /\ pc \notin Flows
  BY <1>1 DEF FInv, CallInv, Flows
<1>3. CacheStep
  BY <1>1, GetStep, SameStep DEF FInv
<1>4. CASE pc' = "idle" /\ op' = NewOp /\ outcome' = [how |-> op.error, rows |-> <<>>]
  <2>1. outcome'.how \in ErrorKinds \cup {"running"}
    BY <1>1, <1>2, <1>4 DEF Typed
  <2>2. CallInv'
    BY <1>1, <1>2, <1>4, <2>1, QuietKeeps DEF FInv
  <2> QED
    BY <1>3, <2>2
<1>5. CASE MayRetry(CachedCaps) /\ pc' = "sleep" /\ UNCHANGED <<op, outcome>>
  <2>1. outcome' = Running /\ key \in Keys
    BY <1>1, <1>2, <1>5 DEF Typed
  <2>2. ASSUME key \in Modifying, Tried PROVE FALSE
    <3>1. op.error # "conflict"
      BY <1>1, <2>2 DEF FInv, CallInv, OnceKept, TriedOnce, Exec
    <3>2. CachedCaps = "readOnly"
      BY <1>5, <3>1 DEF MayRetry
    <3>3. HasEntry(cache, key) /\ EntryOf(cache, key).caps = "readOnly"
      BY <3>2 DEF CachedCaps
    <3> QED
      BY <2>2, <3>3, CacheValue DEF FInv, CacheKept
  <2>3. outcome'.how \in ErrorKinds \cup {"running"}
    BY <2>1 DEF Running
  <2>4. CallInv'
    BY <1>1, <1>2, <1>5, <2>1, <2>2, <2>3, QuietKeeps DEF FInv
  <2> QED
    BY <1>3, <2>4
<1> QED
  BY <1>1, <1>4, <1>5

-----------------------------------------------------------------------------
(* The flows begin and end.                                                *)

\* A query is sent to be executed, unless its arguments do not fit.
LEMMA SendQueryKeeps ==
    ASSUME CallInv, Ready, Stays, conn = "open", NEW flow \in {"execute", "optimistic"},
           NEW o \in Ops, SendQuery(flow, o), known' \subseteq Types \ Broken, pc # "idle",
           o.rows = <<>>, o.type \in Types, key \notin Scripts,
           key \in Modifying => o.caps # "readOnly" /\ ~Tried
    PROVE  CallInv'
<1>1. CASE <<key, o.type>> \in Unfit
  <2>1. Throw("fatal") /\ "fatal" \in ErrorKinds
    BY <1>1 DEF SendQuery, ErrorKinds
  <2> QED
    BY <2>1, ThrowKeeps
<1>2. CASE <<key, o.type>> \notin Unfit
  <2>1. Send(flow, o) /\ flow \in Flows
    BY <1>2 DEF SendQuery, Flows
  <2> QED
    BY <2>1, SendKeeps
<1> QED
  BY <1>1, <1>2

LEMMA StartFacts ==
    ASSUME FInv, pc = "connection", conn = "open", UNCHANGED inbox,
           UNCHANGED <<mode, conn, known, server, caller>>
    PROVE  /\ CallInv /\ Ready /\ Stays /\ known' \subseteq Types \ Broken
           /\ key \in Modifying => ~Tried
           /\ FreshOp \in Ops /\ FreshOp.rows = <<>> /\ FreshOp.caps = "unknown"
           /\ FreshOp.type = Null
<1>1. CallInv /\ Ready
  BY StartReady DEF FInv, CallInv
<1>2. Stays /\ known' \subseteq Types \ Broken
  BY <1>1, KnownTyped DEF Stays, server, caller
<1>3. key \in Modifying => ~Tried
  BY <1>1, Untried
<1>4. FreshOp \in Ops
  <2>1. <<>> \in Seq(Nat \X Nat)
    OBVIOUS
  <2> QED
    BY <2>1 DEF FreshOp, NewOp, Ops, Caps
<1>5. FreshOp.rows = <<>> /\ FreshOp.caps = "unknown" /\ FreshOp.type = Null
  BY DEF FreshOp, NewOp
<1> QED
  BY <1>1, <1>2, <1>3, <1>4, <1>5

LEMMA StartCachedFInv ==
    ASSUME FInv, StartCached PROVE CallInv' /\ CacheStep
<1> DEFINE type == EntryOf(cache, key).type
<1>1. /\ pc = "connection" /\ conn = "open" /\ UNCHANGED inbox /\ key \notin Scripts
      /\ HasEntry(cache, key) /\ cache' = AfterGet(cache, key)
      /\ UNCHANGED <<mode, conn, known, server, caller>>
      /\ \/ Throw("fatal")
         \/ SendQuery("optimistic", [FreshOp EXCEPT !.type = type])
  BY DEF StartCached
<1>2. /\ CallInv /\ Ready /\ Stays /\ known' \subseteq Types \ Broken
      /\ key \in Modifying => ~Tried
      /\ FreshOp \in Ops /\ FreshOp.rows = <<>> /\ FreshOp.caps = "unknown"
  BY <1>1, StartFacts
<1>3. type \in Types
  BY <1>1, CacheValue DEF FInv, CacheKept
<1> HIDE DEF type
<1>4. PICK o : o = [FreshOp EXCEPT !.type = type]
  OBVIOUS
<1>5. o \in Ops /\ o.rows = <<>> /\ o.caps = "unknown" /\ o.type = type
  BY <1>2, <1>3, <1>4 DEF Ops
<1>6. CASE Throw("fatal")
  <2>1. "fatal" \in ErrorKinds
    BY DEF ErrorKinds
  <2> QED
    BY <1>1, <1>2, <1>6, <2>1, ThrowKeeps, GetStep DEF FInv
<1>7. CASE SendQuery("optimistic", [FreshOp EXCEPT !.type = type])
  <2>1. SendQuery("optimistic", o)
    BY <1>4, <1>7
  <2>2. CallInv'
    BY <1>1, <1>2, <1>3, <1>5, <2>1, SendQueryKeeps
  <2> QED
    BY <1>1, <2>2, GetStep DEF FInv
<1> QED
  BY <1>1, <1>6, <1>7

LEMMA StartParseFInv ==
    ASSUME FInv, StartParse PROVE CallInv' /\ CacheStep
<1>1. /\ pc = "connection" /\ conn = "open" /\ UNCHANGED inbox /\ key \notin Scripts
      /\ UNCHANGED <<mode, conn, known, server, caller>> /\ cache' = cache
      /\ Send("parse", FreshOp)
  BY DEF StartParse
<1>2. /\ CallInv /\ Ready /\ Stays /\ known' \subseteq Types \ Broken
      /\ key \in Modifying => ~Tried
      /\ FreshOp \in Ops /\ FreshOp.rows = <<>> /\ FreshOp.caps = "unknown"
      /\ FreshOp.type = Null
  BY <1>1, StartFacts
<1>3. "parse" \in Flows
  BY DEF Flows
<1>4. CallInv'
  BY <1>1, <1>2, <1>3, SendKeeps
<1> QED
  BY <1>1, <1>4, SameStep DEF FInv

LEMMA StartScriptFInv ==
    ASSUME FInv, StartScript PROVE CallInv' /\ CacheStep
<1>1. /\ pc = "connection" /\ conn = "open" /\ UNCHANGED inbox /\ key \in Scripts
      /\ UNCHANGED <<mode, conn, known, server, caller>> /\ cache' = cache
      /\ Send("script", FreshOp)
  BY DEF StartScript
<1>2. /\ CallInv /\ Ready /\ Stays /\ known' \subseteq Types \ Broken
      /\ key \in Modifying => ~Tried
      /\ FreshOp \in Ops /\ FreshOp.rows = <<>> /\ FreshOp.caps = "unknown"
  BY <1>1, StartFacts
<1>3. "script" \in Flows
  BY DEF Flows
<1>4. CallInv'
  BY <1>1, <1>2, <1>3, SendKeeps
<1> QED
  BY <1>1, <1>4, SameStep DEF FInv

\* What ReadyForCommand leaves.
LEMMA LastMessageFacts ==
    ASSUME FInv, Reading("Z")
    PROVE  /\ CallInv /\ Ready /\ Stays /\ conn = "open" /\ pc # "idle" /\ pc \in Flows
           /\ inbox' = <<>> /\ requests = <<>> /\ Live /\ op \in Ops /\ key \in Keys
           /\ \A j : In(inbox, j) => j = "Z"
<1>1. Typed /\ Wire /\ CallInv /\ op \in Ops
  BY DEF FInv, CallInv, Typed
<1>2. Stays
  BY DEF Reading, Stays, server, caller
<1> QED
  BY <1>1, <1>2, ReadingFacts, EndReady

LEMMA FlowFailsFInv ==
    ASSUME FInv, FlowFails PROVE CallInv' /\ CacheStep
<1>1. Reading("Z") /\ op.error # "none" /\ Throw(op.error) /\ UNCHANGED <<cache, known>>
  BY DEF FlowFails
<1>2. /\ CallInv /\ Ready /\ Stays /\ conn = "open" /\ pc # "idle" /\ pc \in Flows
      /\ op \in Ops
  BY <1>1, LastMessageFacts
<1>3. op.error \in ErrorKinds
  BY <1>1, <1>2 DEF Ops
<1>4. known' \subseteq Types \ Broken
  BY <1>1, <1>2, KnownTyped
<1>5. key \in Modifying /\ Tried => op.error # "conflict"
  BY <1>2 DEF CallInv, OnceKept, TriedOnce, Flows
<1>6. CallInv'
  BY <1>1, <1>2, <1>3, <1>4, <1>5, ThrowKeeps
<1> QED
  BY <1>1, <1>6, SameStep DEF FInv

LEMMA ReadUnexpectedFInv ==
    ASSUME FInv, ReadUnexpected PROVE CallInv' /\ CacheStep
<1>1. /\ pc \in Flows /\ inbox # <<>> /\ Head(inbox).k \notin Expected /\ Throw("fatal")
      /\ UNCHANGED <<mode, conn, cache, known, inbox, schema, prepared, runs, call, key>>
  BY DEF ReadUnexpected, Stuck, server, caller
<1>2. Typed /\ Wire /\ CallInv
  BY DEF FInv, CallInv
<1>3. Head(inbox).k = "X"
  <2>1. 1 \in DOMAIN inbox /\ Head(inbox) = inbox[1]
    BY <1>1, <1>2, SeqFacts DEF Typed
  <2> QED
    BY <1>1, <1>2, <2>1 DEF Wire, Answered, Live
<1>4. Ready /\ Stays /\ conn = "open" /\ pc # "idle" /\ known' \subseteq Types \ Broken
  BY <1>1, <1>2, <1>3, KnownTyped DEF Ready, Stays, Wire, Flows
<1>5. "fatal" \in ErrorKinds
  BY DEF ErrorKinds
<1>6. CallInv'
  BY <1>1, <1>2, <1>4, <1>5, ThrowKeeps
<1> QED
  BY <1>1, <1>6, SameStep DEF FInv

\* The types of a query are cached, and it is sent.
LEMMA ParsedKeeps ==
    ASSUME FInv, Reading("Z"), pc \in {"parse", "describe"}, op.type \in Types,
           known' \subseteq Types \ Broken, Parsed(op.type, op.caps)
    PROVE  CallInv' /\ CacheStep
<1>1. /\ CallInv /\ Ready /\ Stays /\ conn = "open" /\ pc # "idle" /\ pc \in Flows
      /\ op \in Ops /\ key \in Keys
  BY LastMessageFacts
<1>2. /\ op.rows = <<>> /\ key \notin Scripts
      /\ key \in Modifying => op.caps # "readOnly" /\ ~Tried
  BY <1>1, Untried DEF CallInv, Typed, RowsKept, OnceKept, CapsKept
<1>3. CASE Throw("fatal") /\ UNCHANGED cache
  <2>1. "fatal" \in ErrorKinds
    BY DEF ErrorKinds
  <2>2. CallInv'
    BY <1>1, <1>3, <2>1, ThrowKeeps
  <2> QED
    BY <1>3, <2>2, SameStep DEF FInv
<1>4. CASE /\ cache' = AfterSet(cache, key, [type |-> op.type, caps |-> op.caps])
           /\ SendQuery(ExecuteFlow, [op EXCEPT !.type = op.type])
  <2>1. PICK o : o = [op EXCEPT !.type = op.type]
    OBVIOUS
  <2>2. o \in Ops /\ o.rows = op.rows /\ o.caps = op.caps /\ o.type = op.type
    BY <1>1, <2>1 DEF Ops
  <2>3. PICK flow \in {"execute", "optimistic"} : flow = ExecuteFlow
    BY DEF ExecuteFlow
  <2>4. SendQuery(flow, o)
    BY <1>4, <2>1, <2>3
  <2>5. CallInv'
    BY <1>1, <1>2, <2>2, <2>4, SendQueryKeeps
  <2>6. PICK v : v = [type |-> op.type, caps |-> op.caps]
    OBVIOUS
  <2>7. v \in Values /\ v.caps = op.caps
    BY <1>1, <2>6 DEF Values, Ops
  <2>8. cache' = AfterSet(cache, key, v)
    BY <1>4, <2>6
  <2>9. CacheStep
    BY <1>1, <1>2, <2>7, <2>8, SetStep DEF FInv
  <2> QED
    BY <2>5, <2>9
<1> QED
  BY <1>3, <1>4 DEF Parsed

LEMMA ParseEndsFInv ==
    ASSUME FInv, ParseEnds PROVE CallInv' /\ CacheStep
<1>1. Reading("Z") /\ pc = "parse" /\ op.error = "none"
  BY DEF ParseEnds
<1>2. /\ CallInv /\ Ready /\ Stays /\ conn = "open" /\ pc # "idle" /\ pc \in Flows
      /\ Live /\ op \in Ops /\ \A j : In(inbox, j) => j = "Z"
  BY <1>1, LastMessageFacts
<1>3. /\ op.type \in Types /\ prepared \in Types
  <2>1. ~In(inbox, "1") /\ ~In(inbox, "E")
    BY <1>2
  <2>2. op.type \in Types
    BY <1>1, <1>2, <2>1 DEF CallInv, TypesKnown
  <2>3. op.type # Null
    BY <2>2, FetchAssumption
  <2> QED
    BY <1>1, <1>2, <2>2, <2>3 DEF CallInv, TypesKnown
<1>4. known \subseteq Types \ Broken
  BY <1>2, KnownTyped
<1>5. CASE Parsed(op.type, op.caps) /\ UNCHANGED known
  BY <1>1, <1>3, <1>4, <1>5, ParsedKeeps
<1>6. CASE op.type \notin Broken /\ known' = known \cup {op.type} /\ Parsed(op.type, op.caps)
  BY <1>1, <1>3, <1>4, <1>6, ParsedKeeps
<1>7. CASE Send("describe", op) /\ UNCHANGED <<cache, known>>
  <2>1. "describe" \in Flows
    BY DEF Flows
  <2>2. /\ op.rows = <<>> /\ key \notin Scripts
        /\ key \in Modifying => op.caps # "readOnly" /\ ~Tried
    BY <1>1, <1>2, Untried DEF CallInv, Typed, RowsKept, OnceKept, CapsKept
  <2>3. CallInv'
    BY <1>2, <1>3, <1>4, <1>7, <2>1, <2>2, SendKeeps
  <2> QED
    BY <1>7, <2>3, SameStep DEF FInv
<1>8. CASE Throw("fatal") /\ UNCHANGED <<cache, known>>
  <2>1. "fatal" \in ErrorKinds
    BY DEF ErrorKinds
  <2>2. CallInv'
    BY <1>2, <1>4, <1>8, <2>1, ThrowKeeps
  <2> QED
    BY <1>8, <2>2, SameStep DEF FInv
<1> QED
  BY <1>5, <1>6, <1>7, <1>8 DEF ParseEnds

LEMMA DescribeEndsFInv ==
    ASSUME FInv, DescribeEnds PROVE CallInv' /\ CacheStep
<1>1. Reading("Z") /\ pc = "describe" /\ Parsed(op.type, op.caps) /\ UNCHANGED known
  BY DEF DescribeEnds
<1>2. op.type \in Types /\ known' \subseteq Types \ Broken
  BY <1>1, KnownTyped DEF FInv, CallInv, TypesKnown
<1> QED
  BY <1>1, <1>2, ParsedKeeps

\* A flow that ends has collected all the rows of an execution, or is to be
\* executed again.
LEMMA AllCollected ==
    ASSUME CallInv, pc \in Exec, Live, op.error = "none", \A j : In(inbox, j) => j = "Z"
    PROVE  \/ /\ ~op.reExec
              /\ \E i \in DOMAIN runs :
                    /\ runs[i].call = call
                    /\ op.rows = [n \in 1..runs[i].rows |-> <<i, n>>]
                    /\ runs[i].rows \in Nat
                    /\ (key \in Single => runs[i].rows <= 1)
                    /\ (key \in Scripts => runs[i].rows = 0)
           \/ op.reExec /\ op.rows = <<>> /\ pc # "script"
<1>1. \A j \in {"D", "E", "T"} : ~In(inbox, j)
  BY Zenon
<1>2. \/ \E i \in DOMAIN runs : Collected(i)
      \/ op.reExec /\ op.rows = <<>> /\ pc # "script"
  BY <1>1 DEF CallInv, RowsKept, Rows
<1>3. ASSUME NEW i \in DOMAIN runs, Collected(i)
      PROVE  /\ ~op.reExec
             /\ runs[i].call = call
             /\ op.rows = [n \in 1..runs[i].rows |-> <<i, n>>]
             /\ runs[i].rows \in Nat
             /\ (key \in Single => runs[i].rows <= 1)
             /\ (key \in Scripts => runs[i].rows = 0)
  <2>1. runs[i] \in Runs
    BY SeqFacts DEF CallInv, Typed
  <2>2. PICK N \in Nat : N = runs[i].rows
    BY <2>1 DEF Runs
  <2>3. op.rows \in Seq(Nat \X Nat)
    BY DEF CallInv, Typed, Ops
  <2>4. PICK j \in Nat : j = Len(op.rows) /\ DOMAIN op.rows = 1..j
    BY <2>3, SeqFacts
  <2>5. /\ runs[i].call = call /\ ~op.reExec /\ j <= N
        /\ (key \in Single => N <= 1) /\ (key \in Scripts => N = 0)
        /\ \A n \in 1..j : op.rows[n] = <<i, n>>
        /\ \A n \in DOMAIN inbox : inbox[n].k = "D" <=> n <= N - j
    BY <1>3, <2>2, <2>4 DEF Collected
  <2>6. 1 \in DOMAIN inbox
    BY SeqFacts DEF CallInv, Typed, Live
  <2>7. inbox[1].k # "D"
    BY <1>1, <2>6 DEF In
  <2>8. ~(1 <= N - j)
    BY <2>5, <2>6, <2>7
  <2>9. j = N
    BY <2>5, <2>8
  <2>10. PICK all : all = [n \in 1..j |-> <<i, n>>]
    OBVIOUS
  <2>11. all \in Seq(Nat \X Nat) /\ Len(all) = j
    <3>1. i \in Nat
      BY SeqFacts DEF CallInv, Typed
    <3>2. all \in [1..j -> Nat \X Nat]
      BY <2>10, <3>1
    <3> QED
      BY <3>2, IsASeq, LenProperties
  <2>a. \A n \in 1..j : op.rows[n] = all[n]
    BY <2>5, <2>10
  <2>b. op.rows = all
    BY <2>3, <2>4, <2>11, <2>a, SeqEqual
  <2>12. op.rows = [n \in 1..runs[i].rows |-> <<i, n>>]
    BY <2>2, <2>9, <2>10, <2>b
  <2> QED
    BY <2>2, <2>5, <2>12
<1> QED
  BY <1>2, <1>3

LEMMA ExecuteEndsFInv ==
    ASSUME FInv, ExecuteEnds PROVE CallInv' /\ CacheStep
<1>1. /\ Reading("Z") /\ pc \in {"execute", "optimistic"} /\ op.error = "none"
      /\ UNCHANGED <<cache, known>>
  BY DEF ExecuteEnds
<1>2. /\ CallInv /\ Ready /\ Stays /\ conn = "open" /\ pc # "idle" /\ pc \in Flows
      /\ inbox' = <<>> /\ requests = <<>> /\ Live /\ op \in Ops /\ key \in Keys
      /\ \A j : In(inbox, j) => j = "Z"
  BY <1>1, LastMessageFacts
<1>3. known' \subseteq Types \ Broken
  BY <1>1, <1>2, KnownTyped
<1>4. pc \in Exec
  BY <1>1 DEF Exec
<1>5. CASE Throw("fatal")
  <2>1. "fatal" \in ErrorKinds
    BY DEF ErrorKinds
  <2>2. CallInv'
    BY <1>2, <1>3, <1>5, <2>1, ThrowKeeps
  <2> QED
    BY <1>1, <2>2, SameStep DEF FInv
<1>6. CASE ~op.reExec /\ ~Throw("fatal")
  <2>1. PICK i \in DOMAIN runs : /\ runs[i].call = call
                                 /\ op.rows = [n \in 1..runs[i].rows |-> <<i, n>>]
                                 /\ runs[i].rows \in Nat
                                 /\ (key \in Single => runs[i].rows <= 1)
    BY <1>1, <1>2, <1>4, <1>6, AllCollected
  <2>2. /\ pc' = "idle" /\ op' = NewOp /\ requests' = requests
        /\ outcome' = [how |-> "ok",
                       rows |-> IF key \in Single /\ op.rows # <<>> THEN <<Head(op.rows)>> ELSE op.rows]
    BY <1>6 DEF ExecuteEnds, Return
  <2>3. ASSUME key \in Single, op.rows # <<>> PROVE <<Head(op.rows)>> = op.rows
    <3>1. op.rows \in Seq(Nat \X Nat)
      BY <1>2 DEF Ops
    <3>2. /\ Len(op.rows) \in Nat /\ DOMAIN op.rows = 1..Len(op.rows) /\ Len(op.rows) >= 1
          /\ Head(op.rows) = op.rows[1] /\ 1 \in DOMAIN op.rows
      BY <2>3, <3>1, SeqFacts
    <3>3. DOMAIN op.rows = 1..runs[i].rows /\ runs[i].rows <= 1
      BY <2>1, <2>3
    <3>4. 1 \in 1..runs[i].rows
      BY <3>2, <3>3
    <3>5. runs[i].rows = 1
      BY <2>1, <3>3, <3>4
    <3>a. Len(op.rows) \in DOMAIN op.rows
      BY <3>2
    <3>b. Len(op.rows) \in 1..1
      BY <3>3, <3>5, <3>a
    <3>6. Len(op.rows) = 1
      BY <3>b
    <3>7. op.rows = <<op.rows[1]>>
      BY <3>1, <3>6
    <3> QED
      BY <3>2, <3>7
  <2>4. outcome'.rows = op.rows /\ outcome'.how = "ok"
    BY <2>2, <2>3
  <2>5. OwnRows'
    <3>1. runs' = runs /\ call' = call
      BY <1>2 DEF Stays
    <3> QED
      BY <2>1, <2>4, <3>1 DEF OwnRows
  <2>6. CallInv'
    BY <1>2, <1>3, <2>2, <2>4, <2>5, ReturnKeeps
  <2> QED
    BY <1>1, <2>6, SameStep DEF FInv
<1>7. CASE op.reExec /\ ~Throw("fatal")
  <2>1. SendQuery(ExecuteFlow, op)
    BY <1>7 DEF ExecuteEnds, Updated
  <2>2. op.rows = <<>>
    BY <1>1, <1>2, <1>4, <1>7, AllCollected
  <2>3. /\ op.type \in Types /\ key \notin Scripts
        /\ key \in Modifying => op.caps # "readOnly" /\ ~Tried
    BY <1>1, <1>2, <1>4, <1>7, Untried DEF CallInv, Typed, TypesKnown, OnceKept, CapsKept
  <2>4. PICK flow \in {"execute", "optimistic"} : flow = ExecuteFlow
    BY DEF ExecuteFlow
  <2>5. SendQuery(flow, op)
    BY <2>1, <2>4
  <2>6. CallInv'
    BY <1>2, <1>3, <2>2, <2>3, <2>5, SendQueryKeeps
  <2> QED
    BY <1>1, <2>6, SameStep DEF FInv
<1> QED
  BY <1>5, <1>6, <1>7

LEMMA ScriptEndsFInv ==
    ASSUME FInv, ScriptEnds PROVE CallInv' /\ CacheStep
<1>1. /\ Reading("Z") /\ pc = "script" /\ op.error = "none"
      /\ pc' = "idle" /\ op' = NewOp /\ outcome' = [how |-> "ok", rows |-> <<>>]
      /\ UNCHANGED <<cache, known, requests>>
  BY DEF ScriptEnds
<1>2. /\ CallInv /\ Ready /\ Stays /\ conn = "open" /\ pc # "idle" /\ pc \in Flows
      /\ inbox' = <<>> /\ requests = <<>> /\ Live /\ op \in Ops /\ key \in Keys
      /\ \A j : In(inbox, j) => j = "Z"
  BY <1>1, LastMessageFacts
<1>3. known' \subseteq Types \ Broken
  BY <1>1, <1>2, KnownTyped
<1>4. pc \in Exec /\ key \in Scripts
  BY <1>1, <1>2 DEF Exec, CallInv, Typed
<1>5. PICK i \in DOMAIN runs : runs[i].call = call /\ runs[i].rows = 0
  BY <1>1, <1>2, <1>4, AllCollected
<1>6. OwnRows'
  <2>1. runs' = runs /\ call' = call
    BY <1>2 DEF Stays
  <2>2. outcome'.rows = <<>>
    BY <1>1
  <2>3. [n \in 1..runs[i].rows |-> <<i, n>>] = <<>>
    BY <1>5
  <2> QED
    BY <1>5, <2>1, <2>2, <2>3 DEF OwnRows
<1>7. CallInv'
  BY <1>1, <1>2, <1>3, <1>6, ReturnKeeps
<1> QED
  BY <1>1, <1>7, SameStep DEF FInv

-----------------------------------------------------------------------------
(* The loops that read messages.                                           *)

LEMMA ReadWire ==
    ASSUME Typed, Wire, NEW k, Reading(k), k # "Z", UNCHANGED <<requests, pc, outcome>>
    PROVE  Wire'
<1>1. /\ pc \in Flows /\ conn = "open" /\ Live /\ requests = <<>> /\ inbox # <<>>
      /\ inbox' = Tail(inbox) /\ inbox' # <<>> /\ outcome = Running
  BY ReadingFacts
<1>2. /\ Len(inbox) \in Nat /\ Len(inbox') = Len(inbox) - 1 /\ DOMAIN inbox = 1..Len(inbox)
      /\ DOMAIN inbox' = 1..(Len(inbox) - 1)
      /\ \A n \in DOMAIN inbox' : n + 1 \in DOMAIN inbox /\ inbox'[n] = inbox[n + 1]
  BY <1>1, SeqFacts, TailFacts DEF Typed
<1>3. ASSUME NEW n \in DOMAIN inbox' PROVE inbox'[n].k = "Z" <=> n = Len(inbox')
  <2>1. n + 1 \in DOMAIN inbox /\ inbox'[n] = inbox[n + 1]
    BY <1>2
  <2>2. inbox[n + 1].k = "Z" <=> n + 1 = Len(inbox)
    BY <2>1 DEF Wire, Closed
  <2>3. n + 1 = Len(inbox) <=> n = Len(inbox')
    BY <1>2
  <2> QED
    BY <2>1, <2>2, <2>3
<1>4. Closed(inbox')
  BY <1>3 DEF Closed
<1>5. conn' = "open"
  BY <1>1 DEF Reading
<1>6. Expected' = Expected
  BY DEF Expected
<1>7. Answered'
  BY <1>1, <1>2, <1>6 DEF Wire, Answered
<1>8. Asked'
  BY <1>1 DEF Asked
<1>9. outcome'.how # "ok"
  BY <1>1 DEF Running
<1> QED
  BY <1>4, <1>5, <1>7, <1>8, <1>9 DEF Wire

\* What reading a message keeps, whatever it does to the locals.
LEMMA ReadKeeps ==
    ASSUME CallInv, NEW k, Reading(k), k # "Z", UNCHANGED <<requests, pc, outcome>>,
           op' \in Ops, known' \subseteq Types \ Broken,
           pc \in {"describe", "execute", "optimistic"} => op'.type \in Types,
           pc = "parse" /\ op'.error = "none" =>
               op'.type \in Types \/ (op'.type = op.type /\ op.error = "none" /\ k \notin {"1", "E"}),
           pc = "parse" /\ op'.type # Null => op.type # Null \/ k = "1",
           pc \in {"parse", "describe"} => op'.rows = <<>>,
           Rows',
           k \notin {"T", "E"} => /\ op.reExec \/ ~op'.reExec
                                  /\ op.error = "conflict" \/ op'.error # "conflict",
           key \in Modifying => op'.caps # "readOnly"
    PROVE  CallInv'
<1>1. /\ pc \in Flows /\ pc # "idle" /\ conn = "open" /\ Live /\ requests = <<>>
      /\ inbox # <<>> /\ Head(inbox).k = k /\ Head(inbox) \in Messages
      /\ inbox' = Tail(inbox) /\ inbox' \in Seq(Messages) /\ k \in Expected
      /\ outcome = Running /\ key \in Keys /\ inbox' # <<>>
  BY ReadingFacts DEF CallInv
<1>2. /\ Typed /\ Wire /\ TypesKnown /\ Executed /\ TriedOnce /\ CapsKept
      /\ inbox \in Seq(Messages)
  BY DEF CallInv, OnceKept, Typed
<1>3. UNCHANGED <<mode, conn, schema, prepared, runs, call, key>>
  BY DEF Reading, server, caller
<1>4. Typed'
  <2>1. pc' # "caught" /\ pc' \in Places
    BY <1>1 DEF Flows, Places
  <2>2. pc' = "script" <=> key' \in Scripts
    BY <1>1, <1>2, <1>3 DEF Typed
  <2> QED
    BY <1>1, <1>2, <1>3, <2>1, <2>2 DEF Typed
<1>5. Wire'
  BY <1>2, ReadWire
<1>6. \A j : /\ In(inbox', j) => In(inbox, j)
             /\ In(inbox, j) /\ k # j => In(inbox', j)
             /\ k = j => In(inbox, j)
  BY <1>1, <1>2, InTail
<1>7. TypesKnown'
  <2>1. pc' = "parse" /\ op'.error = "none" =>
            op'.type \in Types \/ In(inbox', "1") \/ In(inbox', "E")
    BY <1>1, <1>2, <1>6 DEF TypesKnown
  <2>2. pc' = "parse" /\ (op'.type # Null \/ In(inbox', "1")) => prepared' \in Types
    BY <1>1, <1>2, <1>3, <1>6 DEF TypesKnown
  <2>3. pc' = "describe" => prepared' \in Types
    BY <1>2, <1>3 DEF TypesKnown
  <2> QED
    BY <2>1, <2>2, <2>3 DEF TypesKnown
<1>8. RowsKept'
  <2>1. Fresh'
    BY <1>1 DEF Fresh
  <2>2. OwnRows'
    BY <1>1 DEF OwnRows
  <2> QED
    BY <2>1, <2>2 DEF RowsKept
<1>9. Executed' /\ (Tried' => Tried)
  BY <1>2, <1>3, SameExecuted
<1>10. ASSUME key \in Modifying, Tried'
       PROVE  /\ pc' \in Exec /\ ~op'.reExec /\ op'.error # "conflict"
              /\ ~In(inbox', "T") /\ ~In(inbox', "E")
  <2>1. /\ pc \in Exec /\ ~op.reExec /\ op.error # "conflict"
        /\ ~In(inbox, "T") /\ ~In(inbox, "E")
    BY <1>1, <1>2, <1>9, <1>10 DEF TriedOnce, Flows
  <2>2. k \notin {"T", "E"}
    BY <1>6, <2>1
  <2> QED
    BY <1>6, <2>1, <2>2
<1>11. TriedOnce'
  BY <1>3, <1>10 DEF TriedOnce
<1>12. CapsKept'
  <2>1. \A n \in DOMAIN inbox' : n + 1 \in DOMAIN inbox /\ inbox'[n] = inbox[n + 1]
    BY <1>1, <1>2, TailFacts
  <2>2. key \in Modifying =>
            \A n \in DOMAIN inbox : inbox[n].k \in {"1", "T"} => inbox[n].caps # "readOnly"
    BY <1>1, <1>2 DEF CapsKept
  <2> QED
    BY <1>3, <2>1, <2>2 DEF CapsKept
<1> QED
  BY <1>4, <1>5, <1>7, <1>8, <1>9, <1>11, <1>12 DEF CallInv, OnceKept

\* A message that is not a row, of an execution whose rows have been read.
LEMMA CollectedOther ==
    ASSUME CallInv, NEW i \in DOMAIN runs, Collected(i), inbox # <<>>,
           Head(inbox).k \notin {"D", "E", "T"}, inbox' = Tail(inbox),
           UNCHANGED <<runs, call, key>>,
           op'.rows = op.rows, op'.reExec = op.reExec
    PROVE  Collected(i)'
<1>1. inbox \in Seq(Messages) /\ runs \in Seq(Runs) /\ op.rows \in Seq(Nat \X Nat)
  BY DEF CallInv, Typed, Ops
<1>2. runs[i] \in Runs
  BY <1>1, SeqFacts
<1>3. PICK N \in Nat : N = runs[i].rows
  BY <1>2 DEF Runs
<1>4. PICK j \in Nat : j = Len(op.rows)
  BY <1>1, SeqFacts
<1>5. /\ runs[i].call = call /\ ~op.reExec /\ j <= N
      /\ (key \in Single => N <= 1) /\ (key \in Scripts => N = 0)
      /\ \A n \in 1..j : op.rows[n] = <<i, n>>
      /\ \A n \in DOMAIN inbox : /\ inbox[n].k = "D" <=> n <= N - j
                                 /\ n <= N - j => inbox[n].row = <<i, j + n>>
      /\ ~In(inbox, "E") /\ ~In(inbox, "T")
  BY <1>3, <1>4 DEF Collected
<1>6. ~(1 <= N - j)
  BY <1>1, <1>5, SeqFacts
<1>7. ASSUME NEW n \in DOMAIN inbox'
      PROVE  /\ inbox'[n].k = "D" <=> n <= N - j
             /\ n <= N - j => inbox'[n].row = <<i, j + n>>
  <2>1. n \in Nat /\ n >= 1 /\ n + 1 \in DOMAIN inbox /\ inbox'[n] = inbox[n + 1]
    <3>1. Len(inbox) \in Nat
      BY <1>1, SeqFacts
    <3> QED
      BY <1>1, <3>1, TailFacts
  <2>2. ~(n <= N - j) /\ ~(n + 1 <= N - j)
    BY <1>6, <2>1
  <2>3. inbox[n + 1].k # "D"
    BY <1>5, <2>1, <2>2
  <2> QED
    BY <2>1, <2>2, <2>3
<1>8. ~In(inbox', "E") /\ ~In(inbox', "T")
  BY <1>1, <1>5, InTail
<1> QED
  BY <1>3, <1>4, <1>5, <1>7, <1>8 DEF Collected

\* A row.
LEMMA CollectedRow ==
    ASSUME CallInv, NEW i \in DOMAIN runs, Collected(i), inbox # <<>>,
           Head(inbox).k = "D", inbox' = Tail(inbox), UNCHANGED <<runs, call, key>>,
           op'.rows = Append(op.rows, Head(inbox).row), op'.reExec = op.reExec
    PROVE  Collected(i)'
<1>1. inbox \in Seq(Messages) /\ runs \in Seq(Runs) /\ op.rows \in Seq(Nat \X Nat)
  BY DEF CallInv, Typed, Ops
<1>2. runs[i] \in Runs
  BY <1>1, SeqFacts
<1>3. PICK N \in Nat : N = runs[i].rows
  BY <1>2 DEF Runs
<1>4. PICK j \in Nat : j = Len(op.rows) /\ DOMAIN op.rows = 1..j
  BY <1>1, SeqFacts
<1>5. /\ runs[i].call = call /\ ~op.reExec /\ j <= N
      /\ (key \in Single => N <= 1) /\ (key \in Scripts => N = 0)
      /\ \A n \in 1..j : op.rows[n] = <<i, n>>
      /\ \A n \in DOMAIN inbox : /\ inbox[n].k = "D" <=> n <= N - j
                                 /\ n <= N - j => inbox[n].row = <<i, j + n>>
      /\ ~In(inbox, "E") /\ ~In(inbox, "T")
  BY <1>3, <1>4 DEF Collected
<1>6. /\ 1 \in DOMAIN inbox /\ inbox[1] = Head(inbox) /\ inbox[1].k = "D"
      /\ Head(inbox) \in Messages
  BY <1>1, SeqFacts
<1>7. 1 <= N - j /\ Head(inbox).row = <<i, j + 1>>
  BY <1>5, <1>6
<1>8. Head(inbox).row \in Nat \X Nat
  BY <1>6, MessageFacts
<1>9. /\ Len(op'.rows) = j + 1 /\ op'.rows[j + 1] = Head(inbox).row
      /\ \A n \in 1..j : op'.rows[n] = op.rows[n]
  BY <1>1, <1>4, <1>8, AppendFacts
<1>10. \A n \in 1..(j + 1) : op'.rows[n] = <<i, n>>
  <2>1. PICK p \in Nat : p = j + 1
    OBVIOUS
  <2>2. op'.rows[p] = <<i, p>>
    BY <1>7, <1>9, <2>1
  <2>3. ASSUME NEW n \in 1..p PROVE op'.rows[n] = <<i, n>>
    <3>1. n = p \/ n \in 1..j
      BY <2>1
    <3>2. CASE n = p
      BY ONLY <2>2, <3>2
    <3>3. CASE n \in 1..j
      BY <1>5, <1>9, <3>3
    <3> QED
      BY <3>1, <3>2, <3>3
  <2> QED
    BY <2>1, <2>3
<1>11. ASSUME NEW n \in DOMAIN inbox'
       PROVE  /\ inbox'[n].k = "D" <=> n <= N - (j + 1)
              /\ n <= N - (j + 1) => inbox'[n].row = <<i, (j + 1) + n>>
  <2>1. n \in Nat /\ n + 1 \in DOMAIN inbox /\ inbox'[n] = inbox[n + 1]
    <3>1. Len(inbox) \in Nat
      BY <1>1, SeqFacts
    <3> QED
      BY <1>1, <3>1, TailFacts
  <2>2. n <= N - (j + 1) <=> n + 1 <= N - j
    BY <2>1
  <2>3. (j + 1) + n = j + (n + 1)
    BY <2>1
  <2>4. /\ inbox[n + 1].k = "D" <=> n + 1 <= N - j
        /\ n + 1 <= N - j => inbox[n + 1].row = <<i, j + (n + 1)>>
    BY <1>5, <2>1
  <2> QED
    BY <2>1, <2>2, <2>3, <2>4
<1>12. ~In(inbox', "E") /\ ~In(inbox', "T")
  BY <1>1, <1>5, InTail
<1>13. PICK m \in Nat : m = j + 1 /\ m = Len(op'.rows)
  BY <1>9
<1>14. m <= N
  BY <1>7, <1>13
<1>15. /\ \A n \in 1..m : op'.rows[n] = <<i, n>>
       /\ \A n \in DOMAIN inbox' : /\ inbox'[n].k = "D" <=> n <= N - m
                                   /\ n <= N - m => inbox'[n].row = <<i, m + n>>
  BY <1>10, <1>11, <1>13
<1> QED
  BY <1>3, <1>5, <1>12, <1>13, <1>14, <1>15 DEF Collected

LEMMA ReadPreparedFInv ==
    ASSUME FInv, ReadPrepared PROVE CallInv' /\ CacheStep
<1>1. /\ Reading("1")
      /\ op' = [op EXCEPT !.type = Head(inbox).type, !.caps = Head(inbox).caps]
      /\ UNCHANGED <<cache, known, requests, pc, outcome>>
  BY DEF ReadPrepared
<1>2. CallInv /\ Typed /\ Wire /\ op \in Ops
  BY DEF FInv, CallInv, Typed
<1>3. /\ pc \in Flows /\ "1" \in Expected /\ Head(inbox).k = "1" /\ Head(inbox) \in Messages
      /\ inbox # <<>> /\ Live
  BY <1>1, <1>2, ReadingFacts
<1>4. pc = "parse"
  BY <1>3, ExpectedFacts
<1>5. Head(inbox).type \in Types /\ Head(inbox).caps \in Caps
  BY <1>3, MessageFacts
<1>6. /\ op' \in Ops /\ op'.type = Head(inbox).type /\ op'.caps = Head(inbox).caps
      /\ op'.rows = op.rows /\ op'.reExec = op.reExec /\ op'.error = op.error
  BY <1>1, <1>2, <1>5 DEF Ops
<1>7. op'.rows = <<>>
  BY <1>2, <1>4, <1>6 DEF CallInv, RowsKept
<1>8. Rows'
  BY <1>1, <1>4 DEF Rows, Exec
<1>9. key \in Modifying => op'.caps # "readOnly"
  <2>1. 1 \in DOMAIN inbox /\ Head(inbox) = inbox[1]
    BY <1>2, <1>3, SeqFacts DEF Typed
  <2> QED
    BY <1>2, <1>3, <1>6, <2>1 DEF CallInv, OnceKept, CapsKept
<1>10. known' \subseteq Types \ Broken
  BY <1>1, <1>2, KnownTyped
<1>11. op.reExec \/ ~op'.reExec
  BY <1>6
<1>12. op.error = "conflict" \/ op'.error # "conflict"
  BY <1>6
<1>13. UNCHANGED <<requests, pc, outcome>>
  BY <1>1
<1>14. op'.type \in Types
  BY <1>5, <1>6
<1>15. CallInv'
  BY <1>1, <1>2, <1>4, <1>6, <1>7, <1>8, <1>9, <1>10, <1>11, <1>12, <1>13, <1>14, ReadKeeps
<1> QED
  BY <1>1, <1>15, SameStep DEF FInv

\* An error leaves nothing to collect.
LEMMA ReadErrorFInv ==
    ASSUME FInv, ReadError PROVE CallInv' /\ CacheStep
<1>1. /\ Reading("E") /\ op' = [op EXCEPT !.error = Head(inbox).error]
      /\ UNCHANGED <<cache, known, requests, pc, outcome>>
  BY DEF ReadError
<1>2. CallInv /\ Typed /\ Wire /\ op \in Ops
  BY DEF FInv, CallInv, Typed
<1>3. Head(inbox).error \in ErrorKinds
  BY <1>1, <1>2, ReadingFacts, MessageFacts
<1>4. /\ op' \in Ops /\ op'.type = op.type /\ op'.caps = op.caps /\ op'.rows = op.rows
      /\ op'.error = Head(inbox).error
  BY <1>1, <1>2, <1>3 DEF Ops
<1>5. op'.error # "none"
  BY <1>3, <1>4 DEF ErrorKinds, Retryable
<1>6. Rows'
  BY <1>5 DEF Rows
<1>7. known' \subseteq Types \ Broken
  BY <1>1, <1>2, KnownTyped
<1>8. /\ pc \in {"describe", "execute", "optimistic"} => op'.type \in Types
      /\ pc \in {"parse", "describe"} => op'.rows = <<>>
      /\ key \in Modifying => op'.caps # "readOnly"
  BY <1>2, <1>4 DEF CallInv, TypesKnown, RowsKept, OnceKept, CapsKept
<1>9. pc = "parse" /\ op'.type # Null => op.type # Null
  BY <1>4
<1>10. CallInv'
  BY <1>1, <1>2, <1>4, <1>5, <1>6, <1>7, <1>8, <1>9, ReadKeeps
<1> QED
  BY <1>1, <1>10, SameStep DEF FInv

LEMMA ReadOtherFInv ==
    ASSUME FInv, ReadOther PROVE CallInv' /\ CacheStep
<1>1. PICK k \in {"C", "S", "L"} : Reading(k) /\ UNCHANGED <<cache, known, requests, pc, op, outcome>>
  BY DEF ReadOther
<1>2. CallInv /\ Typed /\ Wire /\ op \in Ops /\ inbox \in Seq(Messages)
  BY DEF FInv, CallInv, Typed
<1>3. /\ pc \in Flows /\ Live /\ inbox # <<>> /\ Head(inbox).k = k /\ inbox' = Tail(inbox)
      /\ UNCHANGED <<runs, call, key>>
  BY <1>1, <1>2, ReadingFacts DEF Reading, server, caller
<1>4. \A j : /\ In(inbox', j) => In(inbox, j)
             /\ In(inbox, j) /\ k # j => In(inbox', j)
  BY <1>2, <1>3, InTail
<1>5. ASSUME pc' \in Exec, op'.error = "none"
      PROVE  \/ \E i \in DOMAIN runs' : Collected(i)'
             \/ In(inbox', "E")
             \/ /\ pc' # "script" /\ op'.rows = <<>> /\ ~In(inbox', "D")
                /\ In(inbox', "T") \/ op'.reExec
  <2>1. \/ \E i \in DOMAIN runs : Collected(i)
        \/ In(inbox, "E")
        \/ /\ pc # "script" /\ op.rows = <<>> /\ ~In(inbox, "D")
           /\ In(inbox, "T") \/ op.reExec
    BY <1>1, <1>2, <1>3, <1>5 DEF CallInv, RowsKept, Rows
  <2>2. CASE \E i \in DOMAIN runs : Collected(i)
    <3>1. PICK i \in DOMAIN runs : Collected(i)
      BY <2>2
    <3>2. Collected(i)'
      BY <1>1, <1>2, <1>3, <3>1, CollectedOther
    <3> QED
      BY <1>3, <3>1, <3>2
  <2>3. CASE ~ \E i \in DOMAIN runs : Collected(i)
    BY <1>1, <1>4, <2>1, <2>3
  <2> QED
    BY <2>2, <2>3
<1>6. Rows'
  BY <1>5 DEF Rows
<1>7. known' \subseteq Types \ Broken /\ op' = op
  BY <1>1, <1>2, KnownTyped
<1>8. /\ pc \in {"describe", "execute", "optimistic"} => op'.type \in Types
      /\ pc \in {"parse", "describe"} => op'.rows = <<>>
      /\ key \in Modifying => op'.caps # "readOnly"
  BY <1>2, <1>7 DEF CallInv, TypesKnown, RowsKept, OnceKept, CapsKept
<1>9. UNCHANGED <<requests, pc, outcome>>
  BY <1>1
<1>10. k # "Z" /\ k \notin {"1", "E", "T"}
  OBVIOUS
<1>11. CallInv'
  BY <1>1, <1>2, <1>6, <1>7, <1>8, <1>9, <1>10, ReadKeeps
<1> QED
  BY <1>1, <1>11, SameStep DEF FInv

LEMMA ReadRowFInv ==
    ASSUME FInv, ReadRow PROVE CallInv' /\ CacheStep
<1>1. /\ Reading("D") /\ UNCHANGED <<cache, known, requests, pc, outcome>>
      /\ \/ op.error # "none" /\ op' = op
         \/ op' = [op EXCEPT !.error = "fatal"]
         \/ op.error = "none" /\ op' = [op EXCEPT !.rows = Append(op.rows, Head(inbox).row)]
  BY DEF ReadRow
<1>2. CallInv /\ Typed /\ Wire /\ op \in Ops /\ inbox \in Seq(Messages)
  BY DEF FInv, CallInv, Typed
<1>3. /\ pc \in Flows /\ Live /\ inbox # <<>> /\ Head(inbox).k = "D" /\ inbox' = Tail(inbox)
      /\ Head(inbox) \in Messages /\ "D" \in Expected /\ UNCHANGED <<runs, call, key>>
  BY <1>1, <1>2, ReadingFacts DEF Reading, server, caller
<1>4. pc \in {"execute", "optimistic"}
  BY <1>3, ExpectedFacts
<1>5. \A j : /\ In(inbox', j) => In(inbox, j)
             /\ In(inbox, j) /\ "D" # j => In(inbox', j)
             /\ "D" = j => In(inbox, j)
  BY <1>2, <1>3, InTail
<1>6. Head(inbox).row \in Nat \X Nat
  BY <1>3, MessageFacts
<1>7. /\ op' \in Ops /\ op'.type = op.type /\ op'.caps = op.caps /\ op'.reExec = op.reExec
      /\ op'.error = op.error \/ op'.error = "fatal"
      /\ op'.error = "none" => /\ op.error = "none"
                               /\ op'.rows = Append(op.rows, Head(inbox).row)
  <2>1. CASE op.error # "none" /\ op' = op
    BY <1>2, <2>1
  <2>2. CASE op' = [op EXCEPT !.error = "fatal"]
    BY <1>2, <2>2 DEF Ops, ErrorKinds
  <2>3. CASE op.error = "none" /\ op' = [op EXCEPT !.rows = Append(op.rows, Head(inbox).row)]
    <3>1. PICK w : w = Append(op.rows, Head(inbox).row)
      OBVIOUS
    <3>2. op.rows \in Seq(Nat \X Nat)
      BY <1>2 DEF Ops
    <3>3. w \in Seq(Nat \X Nat)
      BY <1>6, <3>1, <3>2, AppendFacts
    <3>4. op' = [op EXCEPT !.rows = w]
      BY <2>3, <3>1
    <3>5. /\ op' \in Ops /\ op'.type = op.type /\ op'.caps = op.caps /\ op'.reExec = op.reExec
          /\ op'.error = op.error /\ op'.rows = w
      BY <1>2, <3>3, <3>4 DEF Ops
    <3> QED
      BY <2>3, <3>1, <3>5
  <2> QED
    BY <1>1, <2>1, <2>2, <2>3
<1>8. ASSUME pc' \in Exec, op'.error = "none"
      PROVE  (\E i \in DOMAIN runs' : Collected(i)') \/ In(inbox', "E")
  <2>1. (\E i \in DOMAIN runs : Collected(i)) \/ In(inbox, "E")
    <3>1. pc \in Exec /\ op.error = "none"
      BY <1>1, <1>7, <1>8
    <3>2. In(inbox, "D")
      BY <1>5
    <3> QED
      BY <1>2, <1>3, <3>1, <3>2 DEF CallInv, RowsKept, Rows
  <2>2. CASE \E i \in DOMAIN runs : Collected(i)
    <3>1. PICK i \in DOMAIN runs : Collected(i)
      BY <2>2
    <3>2. Collected(i)'
      BY <1>2, <1>3, <1>7, <1>8, <3>1, CollectedRow
    <3> QED
      BY <1>3, <3>1, <3>2
  <2>3. CASE In(inbox, "E")
    BY <1>5, <2>3
  <2> QED
    BY <2>1, <2>2, <2>3
<1>9. Rows'
  BY <1>8 DEF Rows
<1>10. known' \subseteq Types \ Broken
  BY <1>1, <1>2, KnownTyped
<1>11. op'.type \in Types /\ (key \in Modifying => op'.caps # "readOnly")
  BY <1>2, <1>4, <1>7 DEF CallInv, TypesKnown, OnceKept, CapsKept
<1>12. UNCHANGED <<requests, pc, outcome>>
  BY <1>1
<1>13. /\ pc # "parse" /\ pc \notin {"parse", "describe"}
       /\ op.reExec \/ ~op'.reExec
       /\ op.error = "conflict" \/ op'.error # "conflict"
  BY <1>4, <1>7
<1>14. CallInv'
  BY <1>1, <1>2, <1>7, <1>9, <1>10, <1>11, <1>12, <1>13, ReadKeeps
<1> QED
  BY <1>1, <1>14, SameStep DEF FInv

LEMMA ReadTypesFInv ==
    ASSUME FInv, ReadTypes PROVE CallInv' /\ CacheStep
<1> DEFINE type == Head(inbox).type
           caps == Head(inbox).caps
<1>1. /\ Reading("T") /\ UNCHANGED <<requests, pc, outcome>>
      /\ \/ op' = [op EXCEPT !.error = "fatal"] /\ UNCHANGED <<cache, known>>
         \/ /\ type \notin Broken \ known /\ known' = known \cup {type}
            /\ op' = [op EXCEPT !.type = type, !.caps = caps, !.reExec = pc = "optimistic"]
            /\ cache' = IF pc = "optimistic"
                        THEN AfterSet(cache, key, [type |-> type, caps |-> caps])
                        ELSE cache
  BY DEF ReadTypes
<1>2. CallInv /\ Typed /\ Wire /\ op \in Ops /\ inbox \in Seq(Messages)
  BY DEF FInv, CallInv, Typed
<1>3. /\ pc \in Flows /\ Live /\ inbox # <<>> /\ Head(inbox).k = "T" /\ inbox' = Tail(inbox)
      /\ Head(inbox) \in Messages /\ "T" \in Expected /\ key \in Keys
      /\ UNCHANGED <<runs, call, key>>
  BY <1>1, <1>2, ReadingFacts DEF Reading, server, caller
<1>4. pc \in {"describe", "optimistic"}
  BY <1>3, ExpectedFacts
<1>5. \A j : /\ In(inbox', j) => In(inbox, j)
             /\ In(inbox, j) /\ "T" # j => In(inbox', j)
             /\ "T" = j => In(inbox, j)
  BY <1>2, <1>3, InTail
<1>6. type \in Types /\ caps \in Caps
  BY <1>3, MessageFacts
<1>7. key \in Modifying => caps # "readOnly"
  <2>1. 1 \in DOMAIN inbox /\ Head(inbox) = inbox[1]
    BY <1>2, <1>3, SeqFacts
  <2> QED
    BY <1>2, <1>3, <2>1 DEF CallInv, OnceKept, CapsKept
<1>8. known \subseteq Types \ Broken
  BY <1>2, KnownTyped
<1> HIDE DEF type, caps
<1>9. CASE op' = [op EXCEPT !.error = "fatal"] /\ UNCHANGED <<cache, known>>
  <2>1. /\ op' \in Ops /\ op'.type = op.type /\ op'.caps = op.caps /\ op'.rows = op.rows
        /\ op'.error = "fatal"
    BY <1>2, <1>9 DEF Ops, ErrorKinds
  <2>2. Rows'
    BY <2>1 DEF Rows
  <2>3. /\ op'.type \in Types /\ pc # "parse"
        /\ pc \in {"parse", "describe"} => op'.rows = <<>>
        /\ key \in Modifying => op'.caps # "readOnly"
    BY <1>2, <1>4, <2>1 DEF CallInv, TypesKnown, RowsKept, OnceKept, CapsKept
  <2>4. CallInv'
    BY <1>1, <1>2, <1>8, <1>9, <2>1, <2>2, <2>3, ReadKeeps
  <2> QED
    BY <1>9, <2>4, SameStep DEF FInv
<1>10. CASE /\ type \notin Broken \ known /\ known' = known \cup {type}
            /\ op' = [op EXCEPT !.type = type, !.caps = caps, !.reExec = pc = "optimistic"]
            /\ cache' = IF pc = "optimistic"
                        THEN AfterSet(cache, key, [type |-> type, caps |-> caps])
                        ELSE cache
  <2>1. PICK again \in BOOLEAN : again = (pc = "optimistic")
    OBVIOUS
  <2>2. op' = [op EXCEPT !.type = type, !.caps = caps, !.reExec = again]
    BY <1>10, <2>1
  <2>3. /\ op' \in Ops /\ op'.type = type /\ op'.caps = caps /\ op'.rows = op.rows
        /\ op'.error = op.error /\ op'.reExec = again
    BY <1>2, <1>6, <2>2 DEF Ops
  <2>4. known' \subseteq Types \ Broken
    BY <1>6, <1>8, <1>10
  <2>5. ASSUME pc' \in Exec, op'.error = "none"
        PROVE  \/ In(inbox', "E")
               \/ pc' # "script" /\ op'.rows = <<>> /\ ~In(inbox', "D") /\ op'.reExec
    <3>1. pc = "optimistic" /\ op.error = "none"
      BY <1>1, <1>4, <2>3, <2>5 DEF Exec
    <3>2. In(inbox, "T")
      BY <1>5
    <3>3. In(inbox, "E") \/ (op.rows = <<>> /\ ~In(inbox, "D"))
      <4>1. ASSUME NEW i \in DOMAIN runs, Collected(i) PROVE FALSE
        BY <3>2, <4>1 DEF Collected
      <4> QED
        BY <1>2, <1>3, <3>1, <4>1 DEF CallInv, RowsKept, Rows, Exec
    <3>4. op'.reExec
      BY <2>1, <2>3, <3>1
    <3> QED
      BY <1>1, <1>5, <2>3, <3>1, <3>3, <3>4
  <2>6. Rows'
    BY <2>5 DEF Rows
  <2>7. /\ op'.type \in Types /\ pc # "parse"
        /\ pc \in {"parse", "describe"} => op'.rows = <<>>
        /\ key \in Modifying => op'.caps # "readOnly"
    BY <1>2, <1>4, <1>6, <1>7, <2>3 DEF CallInv, RowsKept
  <2>8. CallInv'
    BY <1>1, <1>2, <2>3, <2>4, <2>6, <2>7, ReadKeeps
  <2>9. CacheStep
    <3>1. CASE pc = "optimistic"
      <4>1. PICK v : v = [type |-> type, caps |-> caps]
        OBVIOUS
      <4>2. v \in Values /\ v.caps = caps
        BY <1>6, <4>1 DEF Values
      <4>3. cache' = AfterSet(cache, key, v)
        BY <1>10, <3>1, <4>1
      <4> QED
        BY <1>3, <1>7, <4>2, <4>3, SetStep DEF FInv
    <3>2. CASE pc # "optimistic"
      BY <1>10, <3>2, SameStep DEF FInv
    <3> QED
      BY <3>1, <3>2
  <2> QED
    BY <2>8, <2>9
<1> QED
  BY <1>1, <1>9, <1>10 DEF type, caps

-----------------------------------------------------------------------------
(* What happens to a connection, and the server.                           *)

\* The connection is emptied, and the flow that was waiting is told.
Emptied ==
    /\ requests' = <<>> /\ inbox' = <<>>
    /\ conn' \in {"none", "open", "lost"} /\ prepared' \in {prepared, Null}
    /\ UNCHANGED <<mode, known, schema, runs, call, key, outcome>>
    /\ \/ /\ pc \in Flows /\ pc' = "caught"
          /\ \E e \in ErrorKinds \ {"conflict"} : op' = [op EXCEPT !.error = e]
       \/ pc \in {"idle", "sleep"} /\ UNCHANGED <<pc, op>>

LEMMA EmptiedKeeps ==
    ASSUME CallInv, Emptied PROVE CallInv'
<1>1. Typed /\ Executed /\ TriedOnce /\ CapsKept /\ op \in Ops
  BY DEF CallInv, OnceKept, Typed
<1>2. /\ op' \in Ops /\ op'.caps = op.caps
      /\ pc' = "caught" => op'.error \in ErrorKinds \ {"conflict"}
  <2>1. CASE pc' = "caught" /\ \E e \in ErrorKinds \ {"conflict"} : op' = [op EXCEPT !.error = e]
    <3>1. PICK e \in ErrorKinds \ {"conflict"} : op' = [op EXCEPT !.error = e]
      BY <2>1
    <3> QED
      BY <1>1, <3>1 DEF Ops
  <2>2. CASE pc' # "caught" /\ op' = op
    BY <1>1, <2>2
  <2> QED
    BY <2>1, <2>2 DEF Emptied
<1>3. pc' \in {"idle", "sleep", "caught"} /\ pc' \notin Flows
  BY DEF Emptied, Flows
<1>4. /\ UNCHANGED <<mode, known, schema, runs, call, key, outcome>>
      /\ requests' = <<>> /\ inbox' = <<>> /\ conn' \in {"none", "open", "lost"}
      /\ prepared' \in {prepared, Null}
  BY DEF Emptied
<1>5. (pc' = "idle" <=> pc = "idle") /\ (pc' # "caught" => pc' = pc)
  BY DEF Emptied, Flows
<1>6. requests' \in Seq(Requests) /\ inbox' \in Seq(Messages) /\ ~Live'
  BY <1>4 DEF Live
<1>7. Typed'
  <2>1. pc' \in Places
    BY <1>3 DEF Places
  <2> QED
    BY <1>1, <1>2, <1>3, <1>4, <1>5, <1>6, <2>1 DEF Typed
<1>8. Wire'
  BY <1>3, <1>4, EmptiedWire
<1>9. TypesKnown'
  BY <1>3 DEF TypesKnown, Flows
<1>10. RowsKept'
  <2>1. OwnRows'
    BY <1>4, <1>5 DEF CallInv, RowsKept, OwnRows
  <2> QED
    BY <1>3, <2>1 DEF RowsKept, Fresh, Rows, Flows, Exec
<1>11. Executed' /\ (Tried' => Tried)
  BY <1>1, <1>4, SameExecuted
<1>12. TriedOnce'
  <2>1. ASSUME key \in Modifying, Tried PROVE pc' = "idle" \/ pc' = "caught"
    BY <1>1, <1>3, <1>5, <2>1 DEF TriedOnce, Exec
  <2> QED
    BY <1>2, <1>4, <1>11, <2>1 DEF TriedOnce
<1>13. CapsKept'
  BY <1>1, <1>2, <1>4, <1>6 DEF CapsKept
<1> QED
  BY <1>7, <1>8, <1>9, <1>10, <1>11, <1>12, <1>13 DEF CallInv, OnceKept

LEMMA ConnLostFInv ==
    ASSUME FInv, ConnLost PROVE CallInv' /\ CacheStep
<1>1. /\ pc \notin {"caught", "connection"} /\ conn' = "lost"
      /\ requests' = <<>> /\ inbox' = <<>> /\ prepared' = Null
      /\ UNCHANGED <<mode, cache, known, schema, runs, call, key, outcome>>
      /\ \/ pc \in Flows /\ pc' = "caught" /\ op' = [op EXCEPT !.error = "conn"]
         \/ pc \notin Flows /\ UNCHANGED <<pc, op>>
  BY DEF ConnLost, caller
<1>2. pc \notin Flows => pc \in {"idle", "sleep"}
  BY <1>1 DEF FInv, CallInv, Typed, Places
<1>3. "conn" \in ErrorKinds \ {"conflict"}
  BY DEF ErrorKinds, Retryable
<1>4. Emptied
  BY <1>1, <1>2, <1>3 DEF Emptied
<1> QED
  BY <1>1, <1>4, EmptiedKeeps, SameStep DEF FInv

LEMMA HttpFailsFInv ==
    ASSUME FInv, HttpFails PROVE CallInv' /\ CacheStep
<1>1. /\ pc \in Flows /\ pc' = "caught" /\ op' = [op EXCEPT !.error = "fatal"]
      /\ requests' = <<>> /\ inbox' = <<>>
      /\ UNCHANGED <<mode, conn, cache, known, schema, prepared, runs, call, key, outcome>>
  BY DEF HttpFails, server, caller
<1>2. conn' \in {"none", "open", "lost"}
  BY <1>1 DEF FInv, CallInv, Typed
<1>3. "fatal" \in ErrorKinds \ {"conflict"}
  BY DEF ErrorKinds, Retryable
<1>4. Emptied
  BY <1>1, <1>2, <1>3 DEF Emptied
<1> QED
  BY <1>1, <1>4, EmptiedKeeps, SameStep DEF FInv

LEMMA SameCall ==
    ASSUME CallInv, schema' \in 0..MaxSchema,
           UNCHANGED <<mode, conn, known, requests, inbox, prepared, runs, call, key, pc, op, outcome>>
    PROVE  CallInv'
<1>1. Typed'
  BY DEF CallInv, Typed
<1>2. Live' = Live /\ Expected' = Expected /\ Current' = Current
  BY DEF Live, Expected, Current
<1>3. Wire'
  BY <1>2 DEF CallInv, Wire, Answered, Asked
<1>4. TypesKnown'
  BY <1>2 DEF CallInv, TypesKnown
<1>5. RowsKept'
  <2>1. Fresh' /\ OwnRows'
    BY DEF CallInv, RowsKept, Fresh, OwnRows
  <2>2. \A i : Collected(i) => Collected(i)'
    BY DEF Collected
  <2>3. Rows'
    BY <1>2, <2>2 DEF CallInv, RowsKept, Rows
  <2> QED
    BY <2>1, <2>3 DEF CallInv, RowsKept
<1>6. OnceKept'
  <2>1. Executed' /\ Tried' = Tried
    BY DEF CallInv, OnceKept, Executed, ModifiesOnce, Tried
  <2> QED
    BY <1>2, <2>1 DEF CallInv, OnceKept, TriedOnce, CapsKept
<1> QED
  BY <1>1, <1>3, <1>4, <1>5, <1>6 DEF CallInv

LEMMA SchemaChangeFInv ==
    ASSUME FInv, SchemaChange PROVE CallInv' /\ CacheStep
<1>1. /\ schema < MaxSchema /\ schema' = schema + 1
      /\ UNCHANGED <<mode, conn, known, requests, inbox, prepared, runs, call, key, pc, op, outcome>>
      /\ cache' = cache
  BY DEF SchemaChange, caller
<1>2. schema' \in 0..MaxSchema
  BY <1>1, FetchAssumption DEF FInv, CallInv, Typed
<1> QED
  BY <1>1, <1>2, SameCall, SameStep DEF FInv

LEMMA ServeFInv ==
    ASSUME FInv, Serve PROVE CallInv' /\ CacheStep
<1>1. Typed /\ Wire /\ TypesKnown /\ RowsKept /\ OnceKept
  BY DEF FInv, CallInv
<1>2. cache' = cache
  BY <1>1, ServeFacts DEF Served
<1>3. Typed' /\ Wire' /\ TypesKnown' /\ RowsKept' /\ OnceKept'
  BY <1>1, ServeTyped, ServeWire, ServeKnown, ServeRows, ServeOnce
<1> QED
  BY <1>2, <1>3, SameStep DEF FInv, CallInv

-----------------------------------------------------------------------------
(* The invariant is inductive, and implies the properties.                 *)

LEMMA ClientFInv ==
    ASSUME FInv, Client PROVE CallInv' /\ CacheStep
<1>1. CASE Connect
  BY <1>1, ConnectFInv
<1>2. CASE ConnectFail
  BY <1>2, ConnectFailFInv
<1>3. CASE StartCached
  BY <1>3, StartCachedFInv
<1>4. CASE StartParse
  BY <1>4, StartParseFInv
<1>5. CASE StartScript
  BY <1>5, StartScriptFInv
<1>6. CASE Caught
  BY <1>6, CaughtFInv
<1>7. CASE Retry
  BY <1>7, RetryFInv
<1>8. CASE ScriptFails
  BY <1>8, ScriptFailsFInv
<1>9. CASE ReadPrepared
  BY <1>9, ReadPreparedFInv
<1>10. CASE ReadTypes
  BY <1>10, ReadTypesFInv
<1>11. CASE ReadRow
  BY <1>11, ReadRowFInv
<1>12. CASE ReadError
  BY <1>12, ReadErrorFInv
<1>13. CASE ReadOther
  BY <1>13, ReadOtherFInv
<1>14. CASE ReadUnexpected
  BY <1>14, ReadUnexpectedFInv
<1>15. CASE FlowFails
  BY <1>15, FlowFailsFInv
<1>16. CASE ParseEnds
  BY <1>16, ParseEndsFInv
<1>17. CASE DescribeEnds
  BY <1>17, DescribeEndsFInv
<1>18. CASE ExecuteEnds
  BY <1>18, ExecuteEndsFInv
<1>19. CASE ScriptEnds
  BY <1>19, ScriptEndsFInv
<1> QED
  BY <1>1, <1>2, <1>3, <1>4, <1>5, <1>6, <1>7, <1>8, <1>9, <1>10, <1>11, <1>12, <1>13,
     <1>14, <1>15, <1>16, <1>17, <1>18, <1>19 DEF Client

LEMMA StepFInv ==
    ASSUME FInv, [Next]_vars PROVE FInv' /\ [LastUsed!Next]_(Entries(cache))
<1>1. CallInv' /\ CacheStep
  <2>1. ASSUME NEW k \in Keys, Begin(k) PROVE CallInv' /\ CacheStep
    BY <2>1, BeginFInv
  <2>2. CASE Client
    BY <2>2, ClientFInv
  <2>3. CASE ConnLost
    BY <2>3, ConnLostFInv
  <2>4. CASE HttpFails
    BY <2>4, HttpFailsFInv
  <2>5. CASE Serve
    BY <2>5, ServeFInv
  <2>6. CASE SchemaChange
    BY <2>6, SchemaChangeFInv
  <2>7. CASE UNCHANGED vars
    <3>1. /\ UNCHANGED <<mode, conn, known, requests, inbox, prepared, runs, call, key, pc, op, outcome>>
          /\ cache' = cache /\ schema' = schema
      BY <2>7 DEF vars, server, caller
    <3>2. schema' \in 0..MaxSchema
      BY <3>1 DEF FInv, CallInv, Typed
    <3> QED
      BY <3>1, <3>2, SameCall, SameStep DEF FInv
  <2> QED
    BY <2>1, <2>2, <2>3, <2>4, <2>5, <2>6, <2>7 DEF Next
<1> QED
  BY <1>1 DEF FInv, CacheStep

LEMMA FInvTypes ==
    ASSUME FInv PROVE TypeOK
<1>1. /\ op.type \in Types \cup {Null} /\ op.caps \in Caps /\ op.reExec \in BOOLEAN
      /\ op.error \in ErrorKinds \cup {"none"}
  <2>1. op \in Ops
    BY DEF FInv, CallInv, Typed
  <2> QED
    BY <2>1 DEF Ops
<1>2. InSync(cache)
  BY InOrderInSync DEF FInv, CacheKept, CacheOK
<1> QED
  BY <1>1, <1>2 DEF FInv, CallInv, Typed, Places, TypeOK

LEMMA FInvNothingLeft ==
    ASSUME FInv PROVE NothingLeft
<1>1. ASSUME pc \in {"idle", "sleep"} PROVE ~Live /\ pc \notin Flows
  <2>1. pc \notin Flows
    BY <1>1 DEF Flows
  <2> QED
    BY <2>1 DEF FInv, CallInv, Wire, Answered
<1>2. inbox = <<>> /\ pc \notin Flows => requests = <<>>
  BY DEF FInv, CallInv, Wire, Asked
<1>3. inbox # <<>> /\ Head(inbox).k = "X" => outcome.how # "ok"
  BY DEF FInv, CallInv, Wire
<1> QED
  BY <1>1, <1>2, <1>3 DEF NothingLeft, Live

LEMMA FInvAlways ==
    Spec => []FInv /\ [][LastUsed!Next]_(Entries(cache))
<1>1. Init => FInv
  BY InitFInv
<1>2. FInv /\ [Next]_vars => FInv' /\ [LastUsed!Next]_(Entries(cache))
  BY StepFInv
<1> QED
  BY <1>1, <1>2, PTL DEF Spec

\* The locals of fetch() and of its flows (src/client.ts, src/baseConn.ts)
\* have their types, and the map and the list of the cache of query types
\* (src/primitives/lru.ts) agree, both ways along the list.
THEOREM TypeCorrect == Spec => []TypeOK
<1>1. FInv => TypeOK
  BY FInvTypes
<1> QED
  BY <1>1, FInvAlways, PTL

\* However its call is retried (retryingFetch() of src/client.ts) or executed
\* again (reExec in _optimisticExecuteFlow() of src/baseConn.ts), a query that
\* is not read-only is executed successfully once at most.
THEOREM ModifiedOnce == Spec => []ModifiesOnce
<1>1. FInv => ModifiesOnce
  BY DEF FInv, CallInv, OnceKept, Executed
<1> QED
  BY <1>1, FInvAlways, PTL

\* What fetch() of src/baseConn.ts returns are all the rows of one execution
\* of the query in this call, and of none that failed.
THEOREM RowsAreOwn == Spec => []OwnRows
<1>1. FInv => OwnRows
  BY DEF FInv, CallInv, RowsKept
<1> QED
  BY <1>1, FInvAlways, PTL

\* Whatever a call has ended with, an open connection is left with nothing to
\* read and nothing to answer, unless a message that _fallthrough() of
\* src/baseConn.ts does not know is left in its buffer.
THEOREM LeavesNothing == Spec => []NothingLeft
<1>1. FInv => NothingLeft
  BY FInvNothingLeft
<1> QED
  BY <1>1, FInvAlways, PTL

\* The cache of query types (src/primitives/lru.ts, with the list that is
\* linked in both directions) implements the abstract one: what it lists are
\* the entries that were used last, the latest first.
THEOREM CacheIsRecency == Spec => IsRecency
<1>1. Init => Entries(cache) = <<>>
  BY CacheNew DEF Init
<1>2. Init => LastUsed!Init
  BY <1>1 DEF LastUsed!Init
<1>3. Spec => [][LastUsed!Next]_(Entries(cache))
  BY FInvAlways, PTL
<1> QED
  BY <1>2, <1>3, PTL DEF Spec, IsRecency, LastUsed!Spec
=============================================================================
