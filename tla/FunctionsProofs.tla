-------------------------- MODULE FunctionsProofs --------------------------
(***************************************************************************)
(* The pure parts of the client: the codecs registry, the calendar and the *)
(* inference of cardinalities.                                             *)
(*                                                                         *)
(* The registry gives the codec that the server describes, for any sizes   *)
(* of its caches and any number of lookups.  The argument: the two caches  *)
(* hold what is described of a type, whatever is evicted (Holds); a turn   *)
(* of the loop that skips a descriptor ends where the descriptor ends, as  *)
(* one that reads it does; and an annotation finds the codec of its type,  *)
(* which is among those used last, where the cache has room for as many as *)
(* the list has descriptors (Used).                                        *)
(*                                                                         *)
(* The calendar and the codecs of dates, times and durations, for every    *)
(* year from 1 on, every time of a day and all integers.  The argument: a  *)
(* year is some cycles of 400, 100 and 4 years and some years (Cycles),    *)
(* which say whether it is a leap year and how many days are before it;    *)
(* the divisions of ord2ymd() find the same cycles, but on the last day of *)
(* a leap year, and its estimate of a month is that month or the next one. *)
(* The fields of a duration are its sign times natural numbers (Signed),   *)
(* and so are those that a text or a count is divided into, of which the   *)
(* sum is the same (ElapsedIs).                                            *)
(*                                                                         *)
(* The tables of cardinalities and what they are used for, for any numbers *)
(* of elements.  The argument: whether none, one or more than one element  *)
(* is admitted tells the cardinalities apart (OfFacts, ExactIsTight), and  *)
(* the tables say it of what they give as they say it of what is combined. *)
(***************************************************************************)
EXTENDS Calendar, Lookups, Cardinality, LRUProofs

-----------------------------------------------------------------------------
(* What a cache has, and how recently it was used.                         *)

\* The key is among the r that were used last.
Recent(c, key, r) == \E n \in DOMAIN Entries(c) : n <= r /\ Entries(c)[n].key = key

LEMMA ListFacts ==
    ASSUME NEW c, InOrder(c)
    PROVE  /\ c.capacity \in Nat \ {0}
           /\ Len(Entries(c)) \in Nat /\ Len(Entries(c)) <= c.capacity
           /\ DOMAIN Entries(c) = 1..Len(Entries(c))
           /\ \E X : Entries(c) \in Seq(X)
           /\ \A m, n \in DOMAIN Entries(c) : Entries(c)[m].key = Entries(c)[n].key => m = n
<1>1. PICK s : Sync(c, s) /\ Len(s) <= c.capacity
  BY DEF InOrder
<1>2. /\ Linked(c, s) /\ Mapped(c) /\ Len(s) \in Nat /\ c.capacity \in Nat \ {0}
      /\ \A n \in 1..Len(s) : s[n] \in DOMAIN c.node
  BY <1>1, LinkedFacts DEF Sync
<1>3. /\ \E X : Entries(c) \in Seq(X)
      /\ Len(Entries(c)) = Len(s) /\ DOMAIN Entries(c) = 1..Len(s)
      /\ \A n \in 1..Len(s) :
            Entries(c)[n] = [key |-> c.node[s[n]].key, value |-> c.node[s[n]].value]
  BY <1>1, EntriesFacts
<1>4. \A n \in 1..Len(s) : c.map[Entries(c)[n].key] = s[n]
  BY <1>2, <1>3 DEF Mapped
<1>5. \A m, n \in 1..Len(s) : s[m] = s[n] => m = n
  BY <1>2 DEF Linked, Once
<1>6. \A m, n \in 1..Len(s) : Entries(c)[m].key = Entries(c)[n].key => m = n
  BY <1>4, <1>5
<1> QED
  BY <1>1, <1>2, <1>3, <1>6

LEMMA BeforeFacts ==
    ASSUME NEW X, NEW s \in Seq(X), NEW p \in 1..Len(s), NEW e \in X, NEW w, w = Before(e, s, p)
    PROVE  /\ Len(w) = Len(s) /\ w[1] = e
           /\ \A i \in 2..Len(s) : w[i] = IF i <= p THEN s[i - 1] ELSE s[i]
<1>1. PICK o : o = Others(s, p)
  OBVIOUS
<1>2. /\ o \in Seq(X) /\ Len(o) = Len(s) - 1
      /\ \A i \in 1..(Len(s) - 1) : o[i] = IF i < p THEN s[i] ELSE s[i + 1]
  BY <1>1, OthersFacts
<1>3. w = <<e>> \o o
  BY <1>1 DEF Before
<1>4. Len(w) = Len(o) + 1 /\ w[1] = e /\ \A i \in 2..(Len(o) + 1) : w[i] = o[i - 1]
  BY <1>2, <1>3, FirstFacts
<1>5. Len(s) \in Nat /\ p \in Nat
  BY LenProperties
<1>6. ASSUME NEW i \in 2..Len(s) PROVE w[i] = IF i <= p THEN s[i - 1] ELSE s[i]
  <2>1. i - 1 \in 1..(Len(s) - 1) /\ (i - 1 < p <=> i <= p) /\ (i - 1) + 1 = i
        /\ i \in 2..(Len(o) + 1)
    BY <1>2, <1>5
  <2> QED
    BY <1>2, <1>4, <2>1
<1> QED
  BY <1>2, <1>4, <1>5, <1>6

\* An element e of the same key on top of the list, in the place of the n-th.
LEMMA OnTop ==
    ASSUME NEW c, InOrder(c), NEW d, InOrder(d), NEW n \in DOMAIN Entries(c), NEW key, NEW e,
           e.key = key, Entries(c)[n].key = key, Entries(d) = Before(e, Entries(c), n)
    PROVE  /\ HasEntry(d, key) /\ e = [key |-> key, value |-> EntryOf(d, key)] /\ Recent(d, key, 1)
           /\ \A k : k # key => (HasEntry(d, k) <=> HasEntry(c, k))
           /\ \A k : k # key /\ HasEntry(c, k) => EntryOf(d, k) = EntryOf(c, k)
           /\ \A k : \A r \in Nat : Recent(c, k, r) => Recent(d, k, r + 1)
           /\ n = 1 => \A k : \A r \in Nat : Recent(c, k, r) => Recent(d, k, r)
<1> DEFINE es == Entries(c)
           w  == Entries(d)
           L  == Len(es)
<1>1. L \in Nat /\ DOMAIN es = 1..L /\ Len(w) \in Nat /\ DOMAIN w = 1..Len(w)
  BY ListFacts
<1>2. PICK X : es \in Seq(X)
  BY ListFacts
<1>3. PICK Y : es \in Seq(Y) /\ e \in Y
  <2>1. PICK Y : Y = X \cup {e}
    OBVIOUS
  <2> QED
    BY <1>2, <2>1, SeqMonotonic
<1>4. /\ Len(w) = L /\ w[1] = e
      /\ \A i \in 2..L : w[i] = IF i <= n THEN es[i - 1] ELSE es[i]
  <2>1. n \in 1..L /\ w = Before(e, es, n)
    BY <1>1
  <2> HIDE DEF es, w
  <2> QED
    BY <1>3, <2>1, BeforeFacts
<1>5. n \in 1..L
  BY <1>1
<1> HIDE DEF es, w, L
<1>6. 1 \in DOMAIN w
  BY <1>1, <1>4, <1>5
<1>7. HasEntry(d, key) /\ e = [key |-> key, value |-> EntryOf(d, key)] /\ Recent(d, key, 1)
  <2>1. w[1].key = key
    BY <1>4
  <2> QED
    BY <1>4, <1>6, <2>1, EntryIs DEF w, Recent
<1>8. ASSUME NEW i \in 1..L, i # n
      PROVE  \E j \in 1..L : w[j] = es[i] /\ j <= i + 1 /\ (n = 1 => j <= i)
  <2>1. CASE i < n
    <3>1. i + 1 \in 2..L /\ i + 1 <= n /\ (i + 1) - 1 = i /\ n # 1 /\ i + 1 \in 1..L
      BY <1>1, <1>5, <2>1
    <3> QED
      BY <1>4, <3>1
  <2>2. CASE n < i
    <3>1. i \in 2..L /\ ~(i <= n)
      BY <1>1, <1>5, <2>2
    <3> QED
      BY <1>1, <1>4, <3>1
  <2> QED
    BY <1>1, <1>5, <1>8, <2>1, <2>2
<1>9. ASSUME NEW j \in 1..L
      PROVE  w[j] = e \/ \E i \in 1..L : w[j] = es[i]
  <2>1. CASE j = 1
    BY <1>4, <2>1
  <2>2. CASE j # 1
    <3>1. j \in 2..L /\ j - 1 \in 1..L
      BY <1>1, <2>2
    <3> QED
      BY <1>4, <3>1
  <2> QED
    BY <2>1, <2>2
<1>10. ASSUME NEW k, k # key, HasEntry(c, k)
       PROVE  HasEntry(d, k) /\ EntryOf(d, k) = EntryOf(c, k)
  <2>1. PICK i \in 1..L : es[i].key = k /\ es[i] = [key |-> k, value |-> EntryOf(c, k)]
    BY <1>1, <1>10, EntryIs DEF es
  <2>2. i # n
    BY <1>10, <2>1 DEF es
  <2>3. PICK j \in 1..L : w[j] = es[i]
    BY <1>8, <2>2
  <2>4. w[j].key = k /\ j \in DOMAIN w
    BY <1>1, <1>4, <2>1, <2>3
  <2>5. HasEntry(d, k) /\ w[j] = [key |-> k, value |-> EntryOf(d, k)]
    BY <2>4, EntryIs DEF w
  <2> QED
    BY <2>1, <2>3, <2>5
<1>11. ASSUME NEW k, k # key, HasEntry(d, k)
       PROVE  HasEntry(c, k)
  <2>1. PICK j \in 1..L : w[j].key = k
    BY <1>1, <1>4, <1>11, EntryIs DEF w
  <2>2. w[j] # e
    BY <1>11, <2>1
  <2>3. PICK i \in 1..L : w[j] = es[i]
    BY <1>9, <2>2
  <2> QED
    BY <1>1, <2>1, <2>3, EntryIs DEF es
<1>12. ASSUME NEW k, NEW r \in Nat, Recent(c, k, r)
       PROVE  Recent(d, k, r + 1) /\ (n = 1 => Recent(d, k, r))
  <2>1. PICK i \in 1..L : i <= r /\ es[i].key = k
    BY <1>1, <1>12 DEF Recent, es
  <2>2. CASE i = n
    <3>1. k = key /\ w[1].key = k /\ 1 <= r /\ 1 <= r + 1
      BY <1>1, <1>4, <2>1, <2>2 DEF es
    <3> QED
      BY <1>6, <3>1 DEF Recent, w
  <2>3. CASE i # n
    <3>1. PICK j \in 1..L : w[j] = es[i] /\ j <= i + 1 /\ (n = 1 => j <= i)
      BY <1>8, <2>3
    <3>2. j \in DOMAIN w /\ w[j].key = k /\ j <= r + 1 /\ (n = 1 => j <= r)
      BY <1>1, <1>4, <2>1, <3>1
    <3> QED
      BY <3>2 DEF Recent, w
  <2> QED
    BY <2>2, <2>3
<1> QED
  BY <1>7, <1>10, <1>11, <1>12

\* What get() leaves.
LEMMA GetFacts ==
    ASSUME NEW c, InOrder(c), NEW key, NEW d, d = AfterGet(c, key)
    PROVE  /\ InOrder(d) /\ d.capacity = c.capacity
           /\ \A k : HasEntry(d, k) <=> HasEntry(c, k)
           /\ \A k : HasEntry(c, k) => EntryOf(d, k) = EntryOf(c, k)
           /\ HasEntry(c, key) => Recent(d, key, 1)
           /\ \A k : \A r \in Nat : Recent(c, k, r) => Recent(d, k, r + 1)
           /\ ~HasEntry(c, key) => d = c
<1>1. CASE ~HasEntry(c, key)
  <2>1. d = c
    BY <1>1 DEF AfterGet
  <2>2. \A k : \A r \in Nat : Recent(c, k, r) => Recent(c, k, r + 1)
    <3>1. \A n \in 1..Len(Entries(c)), r \in Nat : n <= r => n <= r + 1
      BY ListFacts
    <3> QED
      BY <3>1, ListFacts DEF Recent
  <2> QED
    BY <1>1, <2>1, <2>2
<1>2. CASE HasEntry(c, key)
  <2>1. InOrder(d) /\ d.capacity = c.capacity
    BY <1>2, GetSync
  <2>2. PICK n \in DOMAIN Entries(c) :
            /\ Entries(c)[n].key = key
            /\ Entries(d) = Before(Entries(c)[n], Entries(c), n)
    BY <1>2, GetSync
  <2>3. PICK e : e = Entries(c)[n]
    OBVIOUS
  <2>4. e = [key |-> key, value |-> EntryOf(c, key)]
    BY <2>2, <2>3, EntryIs
  <2>a. e.key = key /\ Entries(c)[n].key = key /\ Entries(d) = Before(e, Entries(c), n)
    BY <2>2, <2>3
  <2>5. /\ HasEntry(d, key) /\ e = [key |-> key, value |-> EntryOf(d, key)] /\ Recent(d, key, 1)
        /\ \A k : k # key => (HasEntry(d, k) <=> HasEntry(c, k))
        /\ \A k : k # key /\ HasEntry(c, k) => EntryOf(d, k) = EntryOf(c, k)
        /\ \A k : \A r \in Nat : Recent(c, k, r) => Recent(d, k, r + 1)
    BY ONLY InOrder(c), n \in DOMAIN Entries(c), <2>1, <2>a, OnTop
  <2>6. EntryOf(d, key) = EntryOf(c, key)
    BY <2>4, <2>5
  <2> QED
    BY <1>2, <2>1, <2>5, <2>6
<1> QED
  BY <1>1, <1>2

\* What set() leaves.
LEMMA SetFacts ==
    ASSUME NEW c, InOrder(c), NEW key, NEW value, NEW d, d = AfterSet(c, key, value)
    PROVE  /\ InOrder(d) /\ d.capacity = c.capacity
           /\ HasEntry(d, key) /\ EntryOf(d, key) = value /\ Recent(d, key, 1)
           /\ \A k : k # key /\ HasEntry(d, k) => HasEntry(c, k) /\ EntryOf(d, k) = EntryOf(c, k)
           /\ \A k : \A r \in Nat : Recent(c, k, r) /\ r < c.capacity => Recent(d, k, r + 1)
           /\ Recent(c, key, 1) => \A k : \A r \in Nat : Recent(c, k, r) => Recent(d, k, r)
<1> DEFINE e == [key |-> key, value |-> value]
<1>0. e.key = key /\ e.value = value
  OBVIOUS
<1>1. CASE HasEntry(c, key)
  <2>1. /\ InOrder(d) /\ d.capacity = c.capacity
        /\ \E n \in DOMAIN Entries(c) :
              Entries(c)[n].key = key /\ Entries(d) = Before(e, Entries(c), n)
    BY <1>1, SetReplaces
  <2>2. PICK n \in DOMAIN Entries(c) :
            Entries(c)[n].key = key /\ Entries(d) = Before(e, Entries(c), n)
    BY <2>1
  <2> HIDE DEF e
  <2>3. /\ HasEntry(d, key) /\ e = [key |-> key, value |-> EntryOf(d, key)] /\ Recent(d, key, 1)
        /\ \A k : k # key => (HasEntry(d, k) <=> HasEntry(c, k))
        /\ \A k : k # key /\ HasEntry(c, k) => EntryOf(d, k) = EntryOf(c, k)
        /\ \A k : \A r \in Nat : Recent(c, k, r) => Recent(d, k, r + 1)
        /\ n = 1 => \A k : \A r \in Nat : Recent(c, k, r) => Recent(d, k, r)
    BY <1>0, <2>1, <2>2, OnTop
  <2>4. EntryOf(d, key) = value
    BY <1>0, <2>3
  <2>5. ASSUME Recent(c, key, 1) PROVE n = 1
    <3>1. PICK m \in DOMAIN Entries(c) : m <= 1 /\ Entries(c)[m].key = key
      BY <2>5 DEF Recent
    <3>2. m = n
      BY <2>2, <3>1, ListFacts
    <3>3. m \in 1..Len(Entries(c)) /\ Len(Entries(c)) \in Nat
      BY ListFacts
    <3> QED
      BY <3>1, <3>2, <3>3
  <2> QED
    BY <2>1, <2>3, <2>4, <2>5
<1>2. CASE ~HasEntry(c, key)
  <2> DEFINE es  == Entries(c)
             all == <<e>> \o es
             m   == IF Len(all) < c.capacity THEN Len(all) ELSE c.capacity
             w   == Entries(d)
  <2>1. InOrder(d) /\ d.capacity = c.capacity /\ w = Beginning(all, m)
    BY <1>2, SetAdds
  <2>2. PICK X : es \in Seq(X)
    BY ListFacts
  <2>3. PICK Y : es \in Seq(Y) /\ e \in Y
    <3>1. PICK Y : Y = X \cup {e}
      OBVIOUS
    <3> QED
      BY <2>2, <3>1, SeqMonotonic
  <2>4. /\ Len(es) \in Nat /\ c.capacity \in Nat \ {0} /\ DOMAIN es = 1..Len(es)
        /\ DOMAIN w = 1..Len(w)
    BY <2>1, ListFacts
  <2> HIDE DEF e, es, w
  <2>5. PICK l : l = all
    OBVIOUS
  <2>6. /\ l \in Seq(Y) /\ Len(l) = Len(es) + 1 /\ l[1] = e
        /\ \A i \in 2..(Len(es) + 1) : l[i] = es[i - 1]
    BY <2>3, <2>5, FirstFacts
  <2>7. m \in 1..Len(l) /\ m <= c.capacity /\ (m = Len(es) + 1 \/ m = c.capacity)
    BY <2>4, <2>5, <2>6
  <2>8. w = SubSeq(l, 1, m)
    BY <2>1, <2>5 DEF Beginning
  <2> HIDE DEF m, all
  <2>9. Len(w) = m /\ \A i \in 1..m : w[i] = l[i]
    BY <2>4, <2>6, <2>7, <2>8, SubSeqProperties
  <2>10. w[1] = e /\ 1 \in DOMAIN w
    BY <2>4, <2>6, <2>7, <2>9
  <2>11. HasEntry(d, key) /\ EntryOf(d, key) = value /\ Recent(d, key, 1)
    <3>1. w[1] = [key |-> key, value |-> EntryOf(d, key)] /\ HasEntry(d, key)
      BY <1>0, <2>1, <2>10, EntryIs DEF w
    <3> QED
      BY <1>0, <2>10, <3>1 DEF Recent, w
  <2>12. ASSUME NEW k, k # key, HasEntry(d, k)
         PROVE  HasEntry(c, k) /\ EntryOf(d, k) = EntryOf(c, k)
    <3>1. PICK j \in 1..m : w[j].key = k /\ w[j] = [key |-> k, value |-> EntryOf(d, k)]
      BY <2>1, <2>4, <2>9, <2>12, EntryIs DEF w
    <3>2. j # 1
      BY <1>0, <2>10, <2>12, <3>1
    <3>3. j \in 2..(Len(es) + 1) /\ j - 1 \in 1..Len(es)
      BY <2>4, <2>6, <2>7, <3>2
    <3>4. w[j] = es[j - 1]
      BY <2>6, <2>9, <3>3
    <3>5. HasEntry(c, k) /\ es[j - 1] = [key |-> k, value |-> EntryOf(c, k)]
      BY <2>4, <3>1, <3>3, <3>4, EntryIs DEF es
    <3> QED
      BY <3>1, <3>4, <3>5
  <2>13. ASSUME NEW k, NEW r \in Nat, Recent(c, k, r), r < c.capacity
         PROVE  Recent(d, k, r + 1)
    <3>1. PICK i \in 1..Len(es) : i <= r /\ es[i].key = k
      BY <2>4, <2>13 DEF Recent, es
    <3>2. i + 1 \in 2..(Len(es) + 1) /\ i + 1 \in 1..m /\ (i + 1) - 1 = i /\ i + 1 <= r + 1
      BY <2>4, <2>6, <2>7, <2>13, <3>1
    <3>3. w[i + 1] = es[i]
      BY <2>6, <2>9, <3>2
    <3> QED
      BY <2>4, <2>9, <3>1, <3>2, <3>3 DEF Recent, w
  <2>14. ~Recent(c, key, 1)
    BY <1>2, EntryIs DEF Recent
  <2> QED
    BY <2>1, <2>11, <2>12, <2>13, <2>14
<1> QED
  BY <1>1, <1>2

-----------------------------------------------------------------------------
(* Functions that are defined by recursion along a list.                   *)

\* What is described.
LEMMA DescribedIs ==
    ASSUME NEW list, Len(list) \in Nat, NEW custom, NEW F, F = Described(list, custom)
    PROVE  /\ F[0] = [cl |-> <<>>, ok |-> TRUE]
           /\ \A n \in 1..Len(list) : F[n] = Further(F[n - 1], list[n], custom)
<1> DEFINE first       == [cl |-> <<>>, ok |-> TRUE]
           Then1(x, n) == Further(x, list[n], custom)
           Is(f, n)    == f = [k \in 0..n |-> IF k = 0 THEN first ELSE Then1(f[k - 1], k)]
           S           == {n \in Nat : \E f : Is(f, n)}
<1>1. F = CHOOSE f : Is(f, Len(list))
  BY DEF Described
<1> HIDE DEF first, Then1
<1>2. 0 \in S
  <2> DEFINE g == [k \in 0..0 |-> first]
  <2>1. g = [k \in 0..0 |-> IF k = 0 THEN first ELSE Then1(g[k - 1], k)]
    OBVIOUS
  <2> QED
    BY <2>1
<1>3. ASSUME NEW n \in Nat, n \in S PROVE n + 1 \in S
  <2>1. PICK f : Is(f, n)
    BY <1>3
  <2>2. \A k \in 0..n : f[k] = IF k = 0 THEN first ELSE Then1(f[k - 1], k)
    BY <2>1
  <2> DEFINE g == [k \in 0..(n + 1) |-> IF k = n + 1 THEN Then1(f[n], n + 1) ELSE f[k]]
  <2>3. ASSUME NEW k \in 0..(n + 1)
        PROVE  g[k] = IF k = 0 THEN first ELSE Then1(g[k - 1], k)
    <3>1. CASE k = 0
      <4>1. 0 \in 0..n /\ 0 # n + 1
        OBVIOUS
      <4> QED
        BY <2>2, <3>1, <4>1
    <3>2. CASE k # 0
      <4>1. k - 1 \in 0..n /\ k - 1 \in 0..(n + 1) /\ k - 1 # n + 1 /\ k # 0
        BY <3>2
      <4>2. g[k - 1] = f[k - 1]
        BY <4>1
      <4>3. CASE k = n + 1
        <5>1. k - 1 = n
          BY <4>3
        <5> QED
          BY <3>2, <4>2, <4>3, <5>1
      <4>4. CASE k # n + 1
        <5>1. k \in 0..n
          BY <4>4
        <5>2. f[k] = Then1(f[k - 1], k)
          BY <2>2, <3>2, <5>1
        <5> QED
          BY <3>2, <4>2, <4>4, <5>2
      <4> QED
        BY <4>3, <4>4
    <3> QED
      BY <3>1, <3>2
  <2>4. Is(g, n + 1)
    BY <2>3
  <2>5. n + 1 \in Nat
    OBVIOUS
  <2> HIDE DEF Is, g
  <2> QED
    BY <2>4, <2>5
<1>4. Nat \subseteq S
  <2> HIDE DEF S
  <2> QED
    BY <1>2, <1>3, SetInduction
<1>5. Is(F, Len(list))
  <2>1. \E f : Is(f, Len(list))
    BY <1>4
  <2> HIDE DEF Is
  <2> QED
    BY <1>1, <2>1
<1>6. \A n \in 0..Len(list) : F[n] = IF n = 0 THEN first ELSE Then1(F[n - 1], n)
  BY <1>5
<1>7. 0 \in 0..Len(list) /\ \A n \in 1..Len(list) : n \in 0..Len(list) /\ n # 0
  OBVIOUS
<1> QED
  BY <1>6, <1>7 DEF first, Then1

\* Where descriptors end.
LEMMA OffsetsAre ==
    ASSUME NEW list, Len(list) \in Nat, NEW minor, NEW F, F = Offsets(list, minor)
    PROVE  /\ F[0] = 0
           /\ \A n \in 1..Len(list) : F[n] = F[n - 1] + 17 + Written(list[n], minor)
<1> DEFINE first       == 0
           Then1(x, n) == x + 17 + Written(list[n], minor)
           Is(f, n)    == f = [k \in 0..n |-> IF k = 0 THEN first ELSE Then1(f[k - 1], k)]
           S           == {n \in Nat : \E f : Is(f, n)}
<1>1. F = CHOOSE f : Is(f, Len(list))
  BY DEF Offsets
<1> HIDE DEF first, Then1
<1>2. 0 \in S
  <2> DEFINE g == [k \in 0..0 |-> first]
  <2>1. g = [k \in 0..0 |-> IF k = 0 THEN first ELSE Then1(g[k - 1], k)]
    OBVIOUS
  <2> QED
    BY <2>1
<1>3. ASSUME NEW n \in Nat, n \in S PROVE n + 1 \in S
  <2>1. PICK f : Is(f, n)
    BY <1>3
  <2>2. \A k \in 0..n : f[k] = IF k = 0 THEN first ELSE Then1(f[k - 1], k)
    BY <2>1
  <2> DEFINE g == [k \in 0..(n + 1) |-> IF k = n + 1 THEN Then1(f[n], n + 1) ELSE f[k]]
  <2>3. ASSUME NEW k \in 0..(n + 1)
        PROVE  g[k] = IF k = 0 THEN first ELSE Then1(g[k - 1], k)
    <3>1. CASE k = 0
      <4>1. 0 \in 0..n /\ 0 # n + 1
        OBVIOUS
      <4> QED
        BY <2>2, <3>1, <4>1
    <3>2. CASE k # 0
      <4>1. k - 1 \in 0..n /\ k - 1 \in 0..(n + 1) /\ k - 1 # n + 1 /\ k # 0
        BY <3>2
      <4>2. g[k - 1] = f[k - 1]
        BY <4>1
      <4>3. CASE k = n + 1
        <5>1. k - 1 = n
          BY <4>3
        <5> QED
          BY <3>2, <4>2, <4>3, <5>1
      <4>4. CASE k # n + 1
        <5>1. k \in 0..n
          BY <4>4
        <5>2. f[k] = Then1(f[k - 1], k)
          BY <2>2, <3>2, <5>1
        <5> QED
          BY <3>2, <4>2, <4>4, <5>2
      <4> QED
        BY <4>3, <4>4
    <3> QED
      BY <3>1, <3>2
  <2>4. Is(g, n + 1)
    BY <2>3
  <2>5. n + 1 \in Nat
    OBVIOUS
  <2> HIDE DEF Is, g
  <2> QED
    BY <2>4, <2>5
<1>4. Nat \subseteq S
  <2> HIDE DEF S
  <2> QED
    BY <1>2, <1>3, SetInduction
<1>5. Is(F, Len(list))
  <2>1. \E f : Is(f, Len(list))
    BY <1>4
  <2> HIDE DEF Is
  <2> QED
    BY <1>1, <2>1
<1>6. \A n \in 0..Len(list) : F[n] = IF n = 0 THEN first ELSE Then1(F[n - 1], n)
  BY <1>5
<1>7. 0 \in 0..Len(list) /\ \A n \in 1..Len(list) : n \in 0..Len(list) /\ n # 0
  OBVIOUS
<1> QED
  BY <1>6, <1>7 DEF first, Then1

\* The turns of buildCodec().
LEMMA TurnsAre ==
    ASSUME NEW list, Len(list) \in Nat, NEW minor, NEW reg, NEW F, F = Turns(reg, list, minor)
    PROVE  /\ F[0] = [off |-> 0, cl |-> <<>>, reg |-> reg, error |-> FALSE]
           /\ \A n \in 1..Len(list) : F[n] = Turn(F[n - 1], list, minor, n)
<1> DEFINE first       == [off |-> 0, cl |-> <<>>, reg |-> reg, error |-> FALSE]
           Then1(x, n) == Turn(x, list, minor, n)
           Is(f, n)    == f = [k \in 0..n |-> IF k = 0 THEN first ELSE Then1(f[k - 1], k)]
           S           == {n \in Nat : \E f : Is(f, n)}
<1>1. F = CHOOSE f : Is(f, Len(list))
  BY DEF Turns
<1> HIDE DEF first, Then1
<1>2. 0 \in S
  <2> DEFINE g == [k \in 0..0 |-> first]
  <2>1. g = [k \in 0..0 |-> IF k = 0 THEN first ELSE Then1(g[k - 1], k)]
    OBVIOUS
  <2> QED
    BY <2>1
<1>3. ASSUME NEW n \in Nat, n \in S PROVE n + 1 \in S
  <2>1. PICK f : Is(f, n)
    BY <1>3
  <2>2. \A k \in 0..n : f[k] = IF k = 0 THEN first ELSE Then1(f[k - 1], k)
    BY <2>1
  <2> DEFINE g == [k \in 0..(n + 1) |-> IF k = n + 1 THEN Then1(f[n], n + 1) ELSE f[k]]
  <2>3. ASSUME NEW k \in 0..(n + 1)
        PROVE  g[k] = IF k = 0 THEN first ELSE Then1(g[k - 1], k)
    <3>1. CASE k = 0
      <4>1. 0 \in 0..n /\ 0 # n + 1
        OBVIOUS
      <4> QED
        BY <2>2, <3>1, <4>1
    <3>2. CASE k # 0
      <4>1. k - 1 \in 0..n /\ k - 1 \in 0..(n + 1) /\ k - 1 # n + 1 /\ k # 0
        BY <3>2
      <4>2. g[k - 1] = f[k - 1]
        BY <4>1
      <4>3. CASE k = n + 1
        <5>1. k - 1 = n
          BY <4>3
        <5> QED
          BY <3>2, <4>2, <4>3, <5>1
      <4>4. CASE k # n + 1
        <5>1. k \in 0..n
          BY <4>4
        <5>2. f[k] = Then1(f[k - 1], k)
          BY <2>2, <3>2, <5>1
        <5> QED
          BY <3>2, <4>2, <4>4, <5>2
      <4> QED
        BY <4>3, <4>4
    <3> QED
      BY <3>1, <3>2
  <2>4. Is(g, n + 1)
    BY <2>3
  <2>5. n + 1 \in Nat
    OBVIOUS
  <2> HIDE DEF Is, g
  <2> QED
    BY <2>4, <2>5
<1>4. Nat \subseteq S
  <2> HIDE DEF S
  <2> QED
    BY <1>2, <1>3, SetInduction
<1>5. Is(F, Len(list))
  <2>1. \E f : Is(f, Len(list))
    BY <1>4
  <2> HIDE DEF Is
  <2> QED
    BY <1>1, <2>1
<1>6. \A n \in 0..Len(list) : F[n] = IF n = 0 THEN first ELSE Then1(F[n - 1], n)
  BY <1>5
<1>7. 0 \in 0..Len(list) /\ \A n \in 1..Len(list) : n \in 0..Len(list) /\ n # 0
  OBVIOUS
<1> QED
  BY <1>6, <1>7 DEF first, Then1

-----------------------------------------------------------------------------
(* What a list describes.                                                  *)

\* NoCodec is no codec.
NoCodecIsNone == \A tid, kind, subs : NewCodec(tid, kind, subs) # NoCodec

LEMMA ListsAre ==
    ASSUME NEW i \in DOMAIN TypeLists, NEW list, list = TypeLists[i]
    PROVE  /\ IsList(list) /\ Len(list) \in Nat /\ DOMAIN list = 1..Len(list)
           /\ \A n \in 1..Len(list) : list[n].t \in Kinds \cup Annotations
<1>1. IsList(list)
  BY TypesAssumption
<1>2. list \in Seq({list[n] : n \in DOMAIN list})
  BY <1>1 DEF IsList
<1>3. Len(list) \in Nat /\ DOMAIN list = 1..Len(list)
  BY <1>2, LenProperties
<1> QED
  BY <1>1, <1>3 DEF IsList

\* A codec has the type of its descriptor.
LEMMA BuiltTid ==
    ASSUME NoCodecIsNone, NEW d, d.t \in Kinds, d.tid = EmptyTuple <=> d.t = "tuple" /\ d.at = <<>>,
           NEW cl, NEW custom, NEW codec, codec = Built(d, cl, custom), codec # NoCodec
    PROVE  codec.tid = d.tid /\ ~(d.t = "array" /\ d.dims # 1)
BY DEF Built, Kinds, NewCodec, EmptyTupleCodec

\* Nothing is built of an annotation; the empty tuple is built of nothing.
LEMMA BuiltOfNone ==
    ASSUME NEW d, NEW cl, NEW custom
    PROVE  /\ d.t \in Annotations => Built(d, cl, custom) = NoCodec
           /\ d.t = "tuple" /\ d.at = <<>> => Built(d, cl, custom) = EmptyTupleCodec
BY DEF Built, Annotations

\* What is skipped is what would have been read, and what was written.
LEMMA SkippedIs ==
    ASSUME NEW d, d.t \in Kinds \cup Annotations, NEW minor
    PROVE  /\ Skipped(d, minor) = Written(d, minor)
           /\ d.t \notin Annotations => Consumed(d, minor) = Written(d, minor)
<1>1. CASE d.t \in Annotations
  BY <1>1 DEF Skipped, Written, Annotations
<1>2. CASE d.t \in Kinds
  <2>1. SkipHead(minor) = ElementHead(minor)
    BY DEF SkipHead, ElementHead
  <2>2. d.t \notin Annotations
    BY <1>2 DEF Kinds, Annotations
  <2>3. Written(d, minor) = Consumed(d, minor)
    BY <2>2 DEF Written
  <2>4. Skipped(d, minor) = Consumed(d, minor)
    BY <1>2, <2>1 DEF Skipped, Consumed, Kinds, Annotations
  <2> QED
    BY <2>2, <2>3, <2>4
<1> QED
  BY <1>1, <1>2

LEMMA FurtherFacts ==
    ASSUME NEW list, Len(list) \in Nat, NEW custom, NEW F, F = Described(list, custom),
           NEW n \in 1..Len(list)
    PROVE  /\ F[n].ok => F[n - 1].ok
           /\ list[n].t \in Annotations => F[n] = F[n - 1]
           /\ F[n - 1].ok /\ list[n].t \notin Annotations =>
                 /\ CodecAt(list, n, custom) = NoCodec => ~F[n].ok
                 /\ CodecAt(list, n, custom) # NoCodec =>
                       F[n].ok /\ F[n].cl = Append(F[n - 1].cl, CodecAt(list, n, custom))
<1>1. F[n] = Further(F[n - 1], list[n], custom)
  BY DescribedIs
<1>2. CodecAt(list, n, custom) = Built(list[n], F[n - 1].cl, custom)
  BY DEF CodecAt
<1> QED
  BY <1>1, <1>2 DEF Further

\* What could not be described stays so.
LEMMA StaysWrong ==
    ASSUME NEW list, Len(list) \in Nat, NEW custom, NEW n \in 0..Len(list),
           Whole(list, custom).ok
    PROVE  Described(list, custom)[n].ok
<1> DEFINE F == Described(list, custom)
           L == Len(list)
           S == {k \in Nat : k <= L => F[L - k].ok}
<1>1. 0 \in S
  <2>1. L - 0 = L /\ 0 \in Nat
    OBVIOUS
  <2> QED
    BY <2>1 DEF Whole
<1>2. ASSUME NEW k \in Nat, k \in S PROVE k + 1 \in S
  <2>1. CASE k + 1 <= L
    <3>1. k <= L /\ L - k \in 1..L /\ (L - k) - 1 = L - (k + 1)
      BY <2>1
    <3>2. F[L - k].ok => F[(L - k) - 1].ok
      BY <3>1, FurtherFacts
    <3> QED
      BY <1>2, <3>1, <3>2
  <2>2. CASE ~(k + 1 <= L)
    BY <2>2
  <2> QED
    BY <2>1, <2>2
<1>3. Nat \subseteq S
  <2> HIDE DEF S
  <2> QED
    BY <1>1, <1>2, SetInduction
<1>4. L - n \in Nat /\ L - n <= L /\ L - (L - n) = n
  OBVIOUS
<1> QED
  BY <1>3, <1>4

\* After the last descriptor nothing is described.
LEMMA LastIsWhole ==
    ASSUME NEW list, Len(list) \in Nat, DOMAIN list = 1..Len(list), NEW custom,
           NEW n \in 1..Len(list), IsLast(list, n)
    PROVE  Whole(list, custom) = Described(list, custom)[n]
<1> DEFINE F == Described(list, custom)
           L == Len(list)
           S == {k \in Nat : n + k <= L => F[n + k] = F[n]}
<1>1. 0 \in S
  <2>1. n + 0 = n
    OBVIOUS
  <2> QED
    BY <2>1
<1>2. ASSUME NEW k \in Nat, k \in S PROVE k + 1 \in S
  <2>1. CASE n + (k + 1) <= L
    <3>1. n + k <= L /\ n + (k + 1) \in 1..L /\ (n + (k + 1)) - 1 = n + k /\ n + (k + 1) > n
      BY <2>1
    <3>2. list[n + (k + 1)].t \in Annotations
      BY <3>1 DEF IsLast
    <3>3. F[n + (k + 1)] = F[(n + (k + 1)) - 1]
      BY <3>1, <3>2, FurtherFacts
    <3> QED
      BY <1>2, <3>1, <3>3
  <2>2. CASE ~(n + (k + 1) <= L)
    BY <2>2
  <2> QED
    BY <2>1, <2>2
<1>3. Nat \subseteq S
  <2> HIDE DEF S
  <2> QED
    BY <1>1, <1>2, SetInduction
<1>4. L - n \in Nat /\ n + (L - n) <= L /\ n + (L - n) = L
  OBVIOUS
<1> QED
  BY <1>3, <1>4 DEF Whole

\* The codecs are a sequence.
LEMMA CodecsOfSome ==
    ASSUME NEW list, Len(list) \in Nat, NEW custom, NEW n \in 0..Len(list)
    PROVE  \E X : Described(list, custom)[n].cl \in Seq(X)
<1> DEFINE F == Described(list, custom)
           L == Len(list)
           S == {k \in Nat : k <= L => \E X : F[k].cl \in Seq(X)}
<1>1. 0 \in S
  <2>1. F[0] = [cl |-> <<>>, ok |-> TRUE]
    BY DescribedIs
  <2>2. F[0].cl \in Seq({})
    BY <2>1
  <2> QED
    BY <2>2
<1>2. ASSUME NEW k \in Nat, k \in S PROVE k + 1 \in S
  <2>1. CASE k + 1 <= L
    <3>1. k + 1 \in 1..L /\ (k + 1) - 1 = k /\ k <= L
      BY <2>1
    <3>2. PICK X : F[k].cl \in Seq(X)
      BY <1>2, <3>1
    <3>3. F[k + 1] = Further(F[k], list[k + 1], custom)
      BY <3>1, DescribedIs
    <3>4. PICK codec : codec = Built(list[k + 1], F[k].cl, custom)
      OBVIOUS
    <3>5. PICK Y : Y = X \cup {codec}
      OBVIOUS
    <3>6. F[k].cl \in Seq(Y) /\ codec \in Y
      BY <3>2, <3>5, SeqMonotonic
    <3>7. PICK cl : cl = F[k].cl
      OBVIOUS
    <3>8. Append(cl, codec) \in Seq(Y)
      BY <3>6, <3>7, AppendProperties
    <3>9. F[k + 1].cl = cl \/ F[k + 1].cl = Append(cl, codec)
      BY <3>3, <3>4, <3>7 DEF Further
    <3>10. F[k + 1].cl \in Seq(Y)
      BY <3>6, <3>7, <3>8, <3>9
    <3>11. k + 1 \in Nat
      OBVIOUS
    <3> HIDE DEF F
    <3> QED
      BY <3>10, <3>11
  <2>2. CASE ~(k + 1 <= L)
    BY <2>2
  <2> QED
    BY <2>1, <2>2
<1>3. Nat \subseteq S
  <2> HIDE DEF S
  <2> QED
    BY <1>1, <1>2, SetInduction
<1> HIDE DEF F
<1>4. \E X : F[n].cl \in Seq(X)
  BY <1>3
<1> QED
  BY <1>4 DEF F

\* The codec of a list that can be built is the one of its last descriptor.
LEMMA WholeIs ==
    ASSUME NEW list, Len(list) \in Nat, DOMAIN list = 1..Len(list), NEW custom,
           NEW n \in 1..Len(list), IsLast(list, n), NEW w, w = Whole(list, custom), w.ok
    PROVE  /\ Described(list, custom)[n - 1].ok /\ CodecAt(list, n, custom) # NoCodec
           /\ w.cl # <<>> /\ LastOf(w.cl) = CodecAt(list, n, custom)
<1> DEFINE F == Described(list, custom)
<1>1. w = F[n] /\ F[n].ok
  BY LastIsWhole
<1>2. F[n - 1].ok /\ list[n].t \notin Annotations
  BY <1>1, FurtherFacts DEF IsLast
<1>3. /\ CodecAt(list, n, custom) # NoCodec
      /\ F[n].cl = Append(F[n - 1].cl, CodecAt(list, n, custom))
  <2>1. PICK f : f = Described(list, custom)
    OBVIOUS
  <2>2. f[n - 1].ok /\ list[n].t \notin Annotations =>
            /\ CodecAt(list, n, custom) = NoCodec => ~f[n].ok
            /\ CodecAt(list, n, custom) # NoCodec =>
                  f[n].ok /\ f[n].cl = Append(f[n - 1].cl, CodecAt(list, n, custom))
    BY ONLY Len(list) \in Nat, n \in 1..Len(list), <2>1, FurtherFacts
  <2> QED
    BY <1>1, <1>2, <2>1, <2>2
<1>4. PICK cl, codec : cl = F[n - 1].cl /\ codec = CodecAt(list, n, custom)
  OBVIOUS
<1>5. n - 1 \in 0..Len(list)
  OBVIOUS
<1>6. PICK X : cl \in Seq(X)
  BY <1>4, <1>5, CodecsOfSome
<1>7. PICK Y : Y = X \cup {codec}
  OBVIOUS
<1>8. cl \in Seq(Y) /\ codec \in Y
  BY <1>6, <1>7, SeqMonotonic
<1>9. w.cl = Append(cl, codec)
  BY <1>1, <1>3, <1>4
<1>10. /\ Len(Append(cl, codec)) = Len(cl) + 1
       /\ Append(cl, codec)[Len(cl) + 1] = codec
  BY <1>8, AppendProperties
<1>11. Len(cl) \in Nat
  BY <1>8, LenProperties
<1>12. Append(cl, codec) # <<>>
  BY <1>10, <1>11
<1> QED
  BY <1>2, <1>3, <1>4, <1>9, <1>10, <1>12 DEF LastOf

-----------------------------------------------------------------------------
(* The caches.                                                             *)

\* A cache that holds what is described.
Holds(c, custom) ==
    /\ InOrder(c)
    /\ \A k : HasEntry(c, k) =>
           /\ EntryOf(c, k) # NoCodec /\ EntryOf(c, k).tid = k
           /\ Means(k, EntryOf(c, k), custom)

LEMMA HoldsAfterGet ==
    ASSUME NEW c, NEW custom, Holds(c, custom), NEW key, NEW d, d = AfterGet(c, key)
    PROVE  Holds(d, custom) /\ d.capacity = c.capacity
<1>1. InOrder(c)
  BY DEF Holds
<1>2. /\ InOrder(d) /\ d.capacity = c.capacity
      /\ \A k : HasEntry(d, k) <=> HasEntry(c, k)
      /\ \A k : HasEntry(c, k) => EntryOf(d, k) = EntryOf(c, k)
  BY <1>1, GetFacts
<1> QED
  BY <1>2 DEF Holds

LEMMA HoldsAfterSet ==
    ASSUME NEW c, NEW custom, Holds(c, custom), NEW key, NEW codec, codec # NoCodec,
           codec.tid = key, Means(key, codec, custom), NEW d, d = AfterSet(c, key, codec)
    PROVE  Holds(d, custom) /\ d.capacity = c.capacity
<1>1. InOrder(c)
  BY DEF Holds
<1>2. /\ InOrder(d) /\ d.capacity = c.capacity /\ EntryOf(d, key) = codec
      /\ \A k : k # key /\ HasEntry(d, k) => HasEntry(c, k) /\ EntryOf(d, k) = EntryOf(c, k)
  BY <1>1, SetFacts
<1>3. ASSUME NEW k, HasEntry(d, k)
      PROVE  /\ EntryOf(d, k) # NoCodec /\ EntryOf(d, k).tid = k
             /\ Means(k, EntryOf(d, k), custom)
  <2>1. CASE k = key
    BY <1>2, <2>1
  <2>2. CASE k # key
    BY <1>2, <1>3, <2>2 DEF Holds
  <2> QED
    BY <2>1, <2>2
<1> QED
  BY <1>2, <1>3 DEF Holds

\* A look and a new entry are one use of the cache.
LEMMA OneUse ==
    ASSUME NEW c, InOrder(c), NEW key, NEW value, NEW b, b = AfterGet(c, key),
           NEW d, d = AfterSet(b, key, value)
    PROVE  /\ Recent(d, key, 1)
           /\ \A k : \A r \in Nat : Recent(c, k, r) /\ r < c.capacity => Recent(d, k, r + 1)
<1>1. /\ InOrder(b) /\ b.capacity = c.capacity /\ (HasEntry(c, key) => Recent(b, key, 1))
      /\ \A k : \A r \in Nat : Recent(c, k, r) => Recent(b, k, r + 1)
      /\ ~HasEntry(c, key) => b = c
  BY GetFacts
<1>2. /\ Recent(d, key, 1)
      /\ \A k : \A r \in Nat : Recent(b, k, r) /\ r < b.capacity => Recent(d, k, r + 1)
      /\ Recent(b, key, 1) => \A k : \A r \in Nat : Recent(b, k, r) => Recent(d, k, r)
  BY <1>1, SetFacts
<1>3. ASSUME NEW k, NEW r \in Nat, Recent(c, k, r), r < c.capacity PROVE Recent(d, k, r + 1)
  <2>1. CASE HasEntry(c, key)
    <3>1. Recent(b, k, r + 1) /\ r + 1 \in Nat
      BY <1>1, <1>3
    <3> QED
      BY <1>1, <1>2, <2>1, <3>1
  <2>2. CASE ~HasEntry(c, key)
    BY <1>1, <1>2, <1>3, <2>2
  <2> QED
    BY <2>1, <2>2
<1> QED
  BY <1>2, <1>3

\* A cached codec is the one that is described here, too.
LEMMA MeansHere ==
    ASSUME NEW custom \in Customs, NEW i \in DOMAIN TypeLists, NEW list, list = TypeLists[i],
           NEW n \in 1..Len(list), list[n].t \notin Annotations,
           Described(list, custom)[n - 1].ok, NEW codec, Means(list[n].tid, codec, custom)
    PROVE  codec = CodecAt(list, n, custom)
<1>1. PICK j \in DOMAIN TypeLists : \E m \in DOMAIN TypeLists[j] :
          Describes(TypeLists[j], m, list[n].tid, custom) /\ codec = CodecAt(TypeLists[j], m, custom)
  BY DEF Means
<1>2. PICK m \in DOMAIN TypeLists[j] :
          Describes(TypeLists[j], m, list[n].tid, custom) /\ codec = CodecAt(TypeLists[j], m, custom)
  BY <1>1
<1>3. OneMeaning(TypeLists[j], list, custom)
  BY TypesAssumption
<1>4. n \in DOMAIN list
  BY ListsAre
<1>5. Describes(list, n, list[n].tid, custom)
  BY DEF Describes
<1> QED
  BY <1>2, <1>3, <1>4, <1>5 DEF OneMeaning

-----------------------------------------------------------------------------
(* buildCodec().                                                           *)

IsRegistry(reg, custom) ==
    /\ reg = [codecs |-> reg.codecs, built |-> reg.built, custom |-> custom]
    /\ Holds(reg.codecs, custom) /\ Holds(reg.built, custom)

\* The types of the first n descriptors are the last that were used.
Used(c, list, n) ==
    Len(list) <= c.capacity =>
        \A m \in 1..n : list[m].t \notin Annotations => Recent(c, list[m].tid, n - m + 1)

\* Why a build may fail.
MayFail(list, custom, capacity) ==
    \/ ~Whole(list, custom).ok
    \/ capacity < Len(list) /\ \E n \in DOMAIN list : list[n].t \in Annotations

\* What is known after n turns.
AfterTurns(s, list, minor, custom, capacity, n) ==
    /\ s = [off |-> s.off, cl |-> s.cl, reg |-> s.reg, error |-> s.error]
    /\ IsRegistry(s.reg, custom) /\ s.reg.codecs.capacity = capacity
    /\ s.error => MayFail(list, custom, capacity)
    /\ ~s.error =>
           /\ s.error = FALSE
           /\ Described(list, custom)[n].ok /\ s.cl = Described(list, custom)[n].cl
           /\ s.off = Offsets(list, minor)[n]
           /\ Used(s.reg.codecs, list, n)

\* What _buildCodec() leaves of the caches.
LEMMA LookedIs ==
    ASSUME NEW reg, NEW custom, reg = [codecs |-> reg.codecs, built |-> reg.built, custom |-> custom],
           NEW tid
    PROVE  Looked(reg, tid)
           = [codecs |-> AfterGet(reg.codecs, tid),
              built |-> IF HasEntry(reg.codecs, tid) THEN reg.built ELSE AfterGet(reg.built, tid),
              custom |-> custom]
<1>1. AfterGetCodec(reg, tid)
      = [codecs |-> AfterGet(reg.codecs, tid), built |-> reg.built, custom |-> custom]
  BY DEF AfterGetCodec
<1>2. CASE HasEntry(reg.codecs, tid)
  BY <1>1, <1>2 DEF Looked
<1>3. CASE ~HasEntry(reg.codecs, tid)
  BY <1>1, <1>3 DEF Looked
<1> QED
  BY <1>2, <1>3

LEMMA RegisteredIs ==
    ASSUME NEW reg, NEW custom, reg = [codecs |-> reg.codecs, built |-> reg.built, custom |-> custom],
           NEW tid, NEW cached, NEW codec
    PROVE  Registered(reg, tid, cached, codec)
           = [codecs |-> AfterSet(reg.codecs, codec.tid, codec),
              built |-> IF cached # NoCodec THEN reg.built ELSE AfterSet(reg.built, tid, codec),
              custom |-> custom]
BY DEF Registered

\* What it leaves for the next descriptor.
LEMMA OneCodecIs ==
    ASSUME NEW s, NEW d, NEW minor, NEW r, r = OneCodec(s, d, minor),
           NEW cached, cached = Cached(s.reg, d.tid),
           NEW codec, codec = IF cached # NoCodec THEN cached ELSE Built(d, s.cl, s.reg.custom),
           NEW again, again = Looked(s.reg, d.tid),
           NEW bytes, bytes = IF cached # NoCodec THEN Skipped(d, minor) ELSE Consumed(d, minor)
    PROVE  \/ /\ codec = NoCodec \/ (d.t = "array" /\ d.dims # 1)
              /\ r = [off |-> s.off, cl |-> s.cl, reg |-> again, error |-> TRUE]
           \/ /\ codec # NoCodec /\ d.t \in Annotations
              /\ r = [off |-> s.off + 17 + bytes, cl |-> s.cl, reg |-> again, error |-> FALSE]
           \/ /\ codec # NoCodec /\ d.t \notin Annotations
              /\ r = [off |-> s.off + 17 + bytes, cl |-> Append(s.cl, codec),
                      reg |-> Registered(again, d.tid, cached, codec), error |-> FALSE]
BY DEF OneCodec

\* What is known of a type that is described here.
LEMMA CachedIs ==
    ASSUME NEW custom, NEW reg, IsRegistry(reg, custom), NEW tid, NEW cached,
           cached = Cached(reg, tid), cached # NoCodec
    PROVE  cached.tid = tid /\ Means(tid, cached, custom)
BY DEF Cached, IsRegistry, Holds

\* A look keeps the registry.
LEMMA LookedKeeps ==
    ASSUME NEW custom, NEW reg, IsRegistry(reg, custom), NEW tid, NEW again, again = Looked(reg, tid)
    PROVE  /\ IsRegistry(again, custom) /\ again.codecs.capacity = reg.codecs.capacity
           /\ again.codecs = AfterGet(reg.codecs, tid)
<1>1. reg = [codecs |-> reg.codecs, built |-> reg.built, custom |-> custom]
      /\ Holds(reg.codecs, custom) /\ Holds(reg.built, custom)
  BY DEF IsRegistry
<1>2. again = [codecs |-> AfterGet(reg.codecs, tid),
               built |-> IF HasEntry(reg.codecs, tid) THEN reg.built ELSE AfterGet(reg.built, tid),
               custom |-> custom]
  BY <1>1, LookedIs
<1>3. Holds(again.codecs, custom) /\ again.codecs.capacity = reg.codecs.capacity
  BY <1>1, <1>2, HoldsAfterGet
<1>4. Holds(again.built, custom)
  <2>1. CASE HasEntry(reg.codecs, tid)
    BY <1>1, <1>2, <2>1
  <2>2. CASE ~HasEntry(reg.codecs, tid)
    BY <1>1, <1>2, <2>2, HoldsAfterGet
  <2> QED
    BY <2>1, <2>2
<1> QED
  BY <1>2, <1>3, <1>4 DEF IsRegistry

\* So does the registration of a codec that is described.
LEMMA RegisteredKeeps ==
    ASSUME NEW custom, NEW reg, IsRegistry(reg, custom), NEW tid, NEW codec, codec # NoCodec,
           codec.tid = tid, Means(tid, codec, custom), NEW cached,
           NEW new, new = Registered(reg, tid, cached, codec)
    PROVE  /\ IsRegistry(new, custom) /\ new.codecs.capacity = reg.codecs.capacity
           /\ new.codecs = AfterSet(reg.codecs, tid, codec)
<1>1. reg = [codecs |-> reg.codecs, built |-> reg.built, custom |-> custom]
      /\ Holds(reg.codecs, custom) /\ Holds(reg.built, custom)
  BY DEF IsRegistry
<1>2. new = [codecs |-> AfterSet(reg.codecs, tid, codec),
             built |-> IF cached # NoCodec THEN reg.built ELSE AfterSet(reg.built, tid, codec),
             custom |-> custom]
  BY <1>1, RegisteredIs
<1>3. Holds(new.codecs, custom) /\ new.codecs.capacity = reg.codecs.capacity
  BY <1>1, <1>2, HoldsAfterSet
<1>4. Holds(new.built, custom)
  <2>1. CASE cached # NoCodec
    BY <1>1, <1>2, <2>1
  <2>2. CASE cached = NoCodec
    BY <1>1, <1>2, <2>2, HoldsAfterSet
  <2> QED
    BY <2>1, <2>2
<1> QED
  BY <1>2, <1>3, <1>4 DEF IsRegistry

\* An annotation finds its type, unless it was evicted meanwhile.
LEMMA AnnotationFinds ==
    ASSUME NEW custom, NEW i \in DOMAIN TypeLists, NEW list, list = TypeLists[i], NEW n \in 1..Len(list),
           list[n].t \in Annotations, NEW reg, IsRegistry(reg, custom),
           Used(reg.codecs, list, n - 1), Len(list) <= reg.codecs.capacity
    PROVE  Cached(reg, list[n].tid) # NoCodec
<1>1. IsList(list) /\ DOMAIN list = 1..Len(list) /\ Len(list) \in Nat
  BY ListsAre
<1>2. PICK m \in 1..(n - 1) : list[m].t \notin Annotations /\ list[m].tid = list[n].tid
  BY <1>1 DEF IsList
<1>3. Recent(reg.codecs, list[n].tid, (n - 1) - m + 1)
  BY <1>2 DEF Used
<1>4. InOrder(reg.codecs)
  BY DEF IsRegistry, Holds
<1>5. HasEntry(reg.codecs, list[n].tid)
  BY <1>3, <1>4, EntryIs DEF Recent
<1>6. EntryOf(reg.codecs, list[n].tid) # NoCodec
  BY <1>5 DEF IsRegistry, Holds
<1> QED
  BY <1>5, <1>6 DEF Cached

\* A turn for an annotation.
LEMMA AnnotationTurn ==
    ASSUME NoCodecIsNone, NEW custom \in Customs, NEW i \in DOMAIN TypeLists, NEW list, list = TypeLists[i],
           NEW minor, NEW capacity, NEW n \in 1..Len(list), list[n].t \in Annotations,
           NEW s, AfterTurns(s, list, minor, custom, capacity, n - 1), ~s.error,
           NEW r, r = OneCodec(s, list[n], minor)
    PROVE  AfterTurns(r, list, minor, custom, capacity, n)
<1>1. /\ IsList(list) /\ DOMAIN list = 1..Len(list) /\ Len(list) \in Nat
      /\ list[n].t \in Kinds \cup Annotations
  BY ListsAre
<1>2. /\ IsRegistry(s.reg, custom) /\ s.reg.codecs.capacity = capacity
      /\ Described(list, custom)[n - 1].ok /\ s.cl = Described(list, custom)[n - 1].cl
      /\ s.off = Offsets(list, minor)[n - 1] /\ Used(s.reg.codecs, list, n - 1)
  BY DEF AfterTurns
<1>3. PICK cached : cached = Cached(s.reg, list[n].tid)
  OBVIOUS
<1>4. PICK again : again = Looked(s.reg, list[n].tid)
  OBVIOUS
<1>5. /\ IsRegistry(again, custom) /\ again.codecs.capacity = capacity
      /\ again.codecs = AfterGet(s.reg.codecs, list[n].tid)
  BY <1>2, <1>4, LookedKeeps
<1>6. Built(list[n], s.cl, s.reg.custom) = NoCodec
  BY BuiltOfNone
<1>d. PICK d : d = list[n]
  OBVIOUS
<1>c. PICK codec : codec = IF cached # NoCodec THEN cached ELSE Built(d, s.cl, s.reg.custom)
  OBVIOUS
<1>b. PICK bytes : bytes = IF cached # NoCodec THEN Skipped(d, minor) ELSE Consumed(d, minor)
  OBVIOUS
<1>t. \/ /\ codec = NoCodec \/ (d.t = "array" /\ d.dims # 1)
         /\ r = [off |-> s.off, cl |-> s.cl, reg |-> again, error |-> TRUE]
      \/ /\ codec # NoCodec /\ d.t \in Annotations
         /\ r = [off |-> s.off + 17 + bytes, cl |-> s.cl, reg |-> again, error |-> FALSE]
      \/ /\ codec # NoCodec /\ d.t \notin Annotations
         /\ r = [off |-> s.off + 17 + bytes, cl |-> Append(s.cl, codec),
                 reg |-> Registered(again, d.tid, cached, codec), error |-> FALSE]
  <2>1. again = Looked(s.reg, d.tid) /\ cached = Cached(s.reg, d.tid) /\ r = OneCodec(s, d, minor)
    BY <1>3, <1>4, <1>d
  <2> QED
    BY ONLY <2>1, <1>c, <1>b, OneCodecIs
<1>7. CASE cached = NoCodec
  <2>1. codec = NoCodec
    BY <1>6, <1>7, <1>c, <1>d
  <2>a. r = [off |-> s.off, cl |-> s.cl, reg |-> again, error |-> TRUE]
    BY <1>t, <2>1
  <2>2. ~(Len(list) <= capacity)
    BY <1>2, <1>3, <1>7, AnnotationFinds
  <2>3. capacity \in Nat
    BY <1>2, ListFacts DEF IsRegistry, Holds
  <2>4. MayFail(list, custom, capacity)
    BY <1>1, <2>2, <2>3 DEF MayFail
  <2> QED
    BY <1>5, <2>a, <2>4 DEF AfterTurns
<1>8. CASE cached # NoCodec
  <2>1. codec # NoCodec /\ ~(d.t = "array") /\ d.t \in Annotations
    BY <1>8, <1>c, <1>d DEF Annotations
  <2>2. r = [off |-> s.off + 17 + bytes, cl |-> s.cl, reg |-> again, error |-> FALSE]
    BY <1>t, <2>1
  <2>3. r.off = Offsets(list, minor)[n]
    <3>1. Offsets(list, minor)[n] = Offsets(list, minor)[n - 1] + 17 + Written(list[n], minor)
      BY <1>1, OffsetsAre
    <3>2. bytes = Written(list[n], minor)
      BY <1>1, <1>8, <1>b, <1>d, SkippedIs
    <3> QED
      BY <1>2, <2>2, <3>1, <3>2
  <2>4. Described(list, custom)[n] = Described(list, custom)[n - 1]
    BY <1>1, FurtherFacts
  <2>5. Used(again.codecs, list, n)
    <3>1. InOrder(s.reg.codecs)
      BY <1>2 DEF IsRegistry, Holds
    <3>2. \A k : \A q \in Nat : Recent(s.reg.codecs, k, q) => Recent(again.codecs, k, q + 1)
      BY <1>5, <3>1, GetFacts
    <3>3. ASSUME NEW m \in 1..n, list[m].t \notin Annotations, Len(list) <= capacity
          PROVE  Recent(again.codecs, list[m].tid, n - m + 1)
      <4>1. m # n
        BY <3>3
      <4>2. m \in 1..(n - 1) /\ (n - 1) - m + 1 \in Nat /\ ((n - 1) - m + 1) + 1 = n - m + 1
        BY <1>1, <4>1
      <4>3. Recent(s.reg.codecs, list[m].tid, (n - 1) - m + 1)
        BY <1>2, <3>3, <4>2 DEF Used
      <4>4. Recent(again.codecs, list[m].tid, ((n - 1) - m + 1) + 1)
        BY <3>2, <4>2, <4>3
      <4> QED
        BY <4>2, <4>4
    <3> QED
      BY <1>5, <3>3 DEF Used
  <2> QED
    BY <1>2, <1>5, <2>2, <2>3, <2>4, <2>5 DEF AfterTurns
<1> QED
  BY <1>7, <1>8

\* A turn for a type.
LEMMA TypeTurn ==
    ASSUME NoCodecIsNone, NEW custom \in Customs, NEW i \in DOMAIN TypeLists, NEW list, list = TypeLists[i],
           NEW minor, NEW capacity, NEW n \in 1..Len(list), list[n].t \notin Annotations,
           NEW s, AfterTurns(s, list, minor, custom, capacity, n - 1), ~s.error,
           NEW r, r = OneCodec(s, list[n], minor)
    PROVE  AfterTurns(r, list, minor, custom, capacity, n)
<1>1. /\ IsList(list) /\ DOMAIN list = 1..Len(list) /\ Len(list) \in Nat
      /\ list[n].t \in Kinds
  BY ListsAre
<1>2. /\ IsRegistry(s.reg, custom) /\ s.reg.codecs.capacity = capacity
      /\ Described(list, custom)[n - 1].ok /\ s.cl = Described(list, custom)[n - 1].cl
      /\ s.off = Offsets(list, minor)[n - 1] /\ Used(s.reg.codecs, list, n - 1)
  BY DEF AfterTurns
<1>3. PICK cached : cached = Cached(s.reg, list[n].tid)
  OBVIOUS
<1>4. PICK again : again = Looked(s.reg, list[n].tid)
  OBVIOUS
<1>5. /\ IsRegistry(again, custom) /\ again.codecs.capacity = capacity
      /\ again.codecs = AfterGet(s.reg.codecs, list[n].tid)
  BY <1>2, <1>4, LookedKeeps
<1>d. PICK d : d = list[n]
  OBVIOUS
<1>c. PICK codec : codec = IF cached # NoCodec THEN cached ELSE Built(d, s.cl, s.reg.custom)
  OBVIOUS
<1>b. PICK bytes : bytes = IF cached # NoCodec THEN Skipped(d, minor) ELSE Consumed(d, minor)
  OBVIOUS
<1>6. codec = IF cached # NoCodec THEN cached ELSE Built(list[n], s.cl, s.reg.custom)
  BY <1>c, <1>d
<1>t. \/ /\ codec = NoCodec \/ (d.t = "array" /\ d.dims # 1)
         /\ r = [off |-> s.off, cl |-> s.cl, reg |-> again, error |-> TRUE]
      \/ /\ codec # NoCodec /\ d.t \in Annotations
         /\ r = [off |-> s.off + 17 + bytes, cl |-> s.cl, reg |-> again, error |-> FALSE]
      \/ /\ codec # NoCodec /\ d.t \notin Annotations
         /\ r = [off |-> s.off + 17 + bytes, cl |-> Append(s.cl, codec),
                 reg |-> Registered(again, d.tid, cached, codec), error |-> FALSE]
  <2>1. again = Looked(s.reg, d.tid) /\ cached = Cached(s.reg, d.tid) /\ r = OneCodec(s, d, minor)
    BY <1>3, <1>4, <1>d
  <2> QED
    BY ONLY <2>1, <1>c, <1>b, OneCodecIs
<1>7. codec = CodecAt(list, n, custom)
  <2>1. CASE cached = NoCodec
    <3>1. s.reg.custom = custom
      BY <1>2 DEF IsRegistry
    <3> QED
      BY <1>2, <1>6, <2>1, <3>1 DEF CodecAt
  <2>2. CASE cached # NoCodec
    <3>1. Means(list[n].tid, cached, custom)
      BY <1>2, <1>3, <2>2, CachedIs
    <3> QED
      BY <1>2, <1>6, <2>2, <3>1, MeansHere
  <2> QED
    BY <2>1, <2>2
<1>9. CASE codec = NoCodec
  <2>1. r = [off |-> s.off, cl |-> s.cl, reg |-> again, error |-> TRUE]
    BY <1>t, <1>9
  <2>2. ~Described(list, custom)[n].ok
    <3>1. PICK F : F = Described(list, custom)
      OBVIOUS
    <3>2. F[n - 1].ok /\ list[n].t \notin Annotations =>
              (CodecAt(list, n, custom) = NoCodec => ~F[n].ok)
      BY ONLY <1>1, <3>1, n \in 1..Len(list), FurtherFacts
    <3> QED
      BY <1>2, <1>7, <1>9, <3>1, <3>2
  <2>3. ~Whole(list, custom).ok
    <3>1. n \in 0..Len(list)
      OBVIOUS
    <3> QED
      BY <1>1, <2>2, <3>1, StaysWrong
  <2> QED
    BY <1>5, <2>1, <2>3 DEF AfterTurns, MayFail
<1>10. CASE codec # NoCodec
  <2>1. codec.tid = list[n].tid /\ ~(list[n].t = "array" /\ list[n].dims # 1)
    <3>1. list[n].tid = EmptyTuple <=> list[n].t = "tuple" /\ list[n].at = <<>>
      BY <1>1, TypesAssumption DEF EmptyTupleKnown
    <3>2. codec = Built(list[n], Described(list, custom)[n - 1].cl, custom)
      BY <1>7 DEF CodecAt
    <3> QED
      BY <1>1, <1>10, <3>1, <3>2, BuiltTid
  <2>2. PICK new : new = Registered(again, list[n].tid, cached, codec)
    OBVIOUS
  <2>3. r = [off |-> s.off + 17 + bytes, cl |-> Append(s.cl, codec), reg |-> new, error |-> FALSE]
    <3>1. ~(d.t = "array" /\ d.dims # 1) /\ d.t \notin Annotations
      BY <1>d, <2>1
    <3>2. r = [off |-> s.off + 17 + bytes, cl |-> Append(s.cl, codec),
               reg |-> Registered(again, d.tid, cached, codec), error |-> FALSE]
      BY <1>t, <1>10, <3>1
    <3> QED
      BY <1>d, <2>2, <3>2
  <2>4. Means(list[n].tid, codec, custom)
    <3>1. Describes(list, n, list[n].tid, custom)
      BY <1>2 DEF Describes
    <3> QED
      BY <1>1, <1>7, <3>1 DEF Means
  <2>5. /\ IsRegistry(new, custom) /\ new.codecs.capacity = capacity
        /\ new.codecs = AfterSet(again.codecs, list[n].tid, codec)
    BY <1>5, <1>10, <2>1, <2>2, <2>4, RegisteredKeeps
  <2>6. r.off = Offsets(list, minor)[n]
    <3>1. Offsets(list, minor)[n] = Offsets(list, minor)[n - 1] + 17 + Written(list[n], minor)
      BY <1>1, OffsetsAre
    <3>2. bytes = Written(list[n], minor)
      BY <1>1, <1>b, <1>d, SkippedIs
    <3> QED
      BY <1>2, <2>3, <3>1, <3>2
  <2>7. /\ Described(list, custom)[n].ok
        /\ Described(list, custom)[n].cl = Append(s.cl, codec)
    BY <1>1, <1>2, <1>7, <1>10, FurtherFacts
  <2>8. Used(new.codecs, list, n)
    <3>1. InOrder(s.reg.codecs)
      BY <1>2 DEF IsRegistry, Holds
    <3>2. /\ Recent(new.codecs, list[n].tid, 1)
          /\ \A k : \A q \in Nat :
                Recent(s.reg.codecs, k, q) /\ q < capacity => Recent(new.codecs, k, q + 1)
      BY <1>2, <1>5, <2>5, <3>1, OneUse
    <3>3. ASSUME NEW m \in 1..n, list[m].t \notin Annotations, Len(list) <= capacity
          PROVE  Recent(new.codecs, list[m].tid, n - m + 1)
      <4>1. CASE m = n
        <5>1. n - m + 1 = 1
          BY <4>1
        <5> QED
          BY <3>2, <4>1, <5>1
      <4>2. CASE m # n
        <5>1. capacity \in Nat
          BY <1>2, <3>1, ListFacts
        <5>2. /\ m \in 1..(n - 1) /\ (n - 1) - m + 1 \in Nat
              /\ ((n - 1) - m + 1) + 1 = n - m + 1 /\ (n - 1) - m + 1 < capacity
          BY <1>1, <3>3, <4>2, <5>1
        <5>3. Recent(s.reg.codecs, list[m].tid, (n - 1) - m + 1)
          BY <1>2, <3>3, <5>2 DEF Used
        <5>4. Recent(new.codecs, list[m].tid, ((n - 1) - m + 1) + 1)
          BY <3>2, <5>2, <5>3
        <5> QED
          BY <5>2, <5>4
      <4> QED
        BY <4>1, <4>2
    <3> QED
      BY <2>5, <3>3 DEF Used
  <2> QED
    BY <2>3, <2>5, <2>6, <2>7, <2>8 DEF AfterTurns
<1> QED
  BY <1>9, <1>10

LEMMA TurnKeeps ==
    ASSUME NoCodecIsNone, NEW custom \in Customs, NEW i \in DOMAIN TypeLists, NEW list, list = TypeLists[i],
           NEW minor, NEW capacity, NEW n \in 1..Len(list),
           NEW s, AfterTurns(s, list, minor, custom, capacity, n - 1),
           NEW r, r = Turn(s, list, minor, n)
    PROVE  AfterTurns(r, list, minor, custom, capacity, n)
<1>1. CASE s.error
  <2>1. r = s
    BY <1>1 DEF Turn
  <2> QED
    BY <1>1, <2>1 DEF AfterTurns
<1>2. CASE ~s.error
  <2>1. s.off = Offsets(list, minor)[n - 1]
    BY <1>2 DEF AfterTurns
  <2>2. r = OneCodec(s, list[n], minor)
    BY <1>2, <2>1 DEF Turn
  <2>3. CASE list[n].t \in Annotations
    BY <1>2, <2>2, <2>3, AnnotationTurn
  <2>4. CASE list[n].t \notin Annotations
    BY <1>2, <2>2, <2>4, TypeTurn
  <2> QED
    BY <2>3, <2>4
<1> QED
  BY <1>1, <1>2

\* After all the turns.
LEMMA TurnsKeep ==
    ASSUME NoCodecIsNone, NEW custom \in Customs, NEW i \in DOMAIN TypeLists, NEW list, list = TypeLists[i],
           NEW minor, NEW reg, IsRegistry(reg, custom), NEW capacity, capacity = reg.codecs.capacity,
           NEW s, s = Turns(reg, list, minor)[Len(list)]
    PROVE  AfterTurns(s, list, minor, custom, capacity, Len(list))
<1> DEFINE L == Len(list)
           S == {n \in Nat : n <= L =>
                    AfterTurns(Turns(reg, list, minor)[n], list, minor, custom, capacity, n)}
<1>1. L \in Nat
  BY ListsAre
<1>2. 0 \in S
  <2>1. PICK x : x = Turns(reg, list, minor)[0]
    OBVIOUS
  <2>2. x = [off |-> 0, cl |-> <<>>, reg |-> reg, error |-> FALSE]
    BY <1>1, <2>1, TurnsAre
  <2>3. Described(list, custom)[0] = [cl |-> <<>>, ok |-> TRUE]
    BY <1>1, DescribedIs
  <2>4. Offsets(list, minor)[0] = 0
    BY <1>1, OffsetsAre
  <2>5. Used(reg.codecs, list, 0)
    BY DEF Used
  <2>6. AfterTurns(x, list, minor, custom, capacity, 0)
    BY <2>2, <2>3, <2>4, <2>5 DEF AfterTurns
  <2> QED
    BY <2>1, <2>6
<1>3. ASSUME NEW n \in Nat, n \in S PROVE n + 1 \in S
  <2>1. CASE n + 1 <= L
    <3>1. n + 1 \in 1..L /\ (n + 1) - 1 = n /\ n <= L
      BY <1>1, <2>1
    <3>2. PICK m \in 1..Len(list) : m = n + 1 /\ m - 1 = n
      BY <3>1
    <3>3. PICK x : x = Turns(reg, list, minor)[m - 1]
      OBVIOUS
    <3>4. AfterTurns(x, list, minor, custom, capacity, m - 1)
      BY <1>3, <3>1, <3>2, <3>3
    <3>5. Turns(reg, list, minor)[m] = Turn(x, list, minor, m)
      <4>1. PICK F : F = Turns(reg, list, minor)
        OBVIOUS
      <4>2. F[m] = Turn(F[m - 1], list, minor, m)
        BY ONLY <1>1, <4>1, m \in 1..Len(list), TurnsAre
      <4> QED
        BY <3>3, <4>1, <4>2
    <3>6. AfterTurns(Turns(reg, list, minor)[m], list, minor, custom, capacity, m)
      BY <3>4, <3>5, TurnKeeps
    <3> QED
      BY <3>2, <3>6
  <2>2. CASE ~(n + 1 <= L)
    BY <2>2
  <2> QED
    BY <2>1, <2>2
<1>4. Nat \subseteq S
  <2> HIDE DEF S
  <2> QED
    BY <1>2, <1>3, SetInduction
<1> QED
  BY <1>1, <1>4

-----------------------------------------------------------------------------
(* Lookups.                                                                *)

\* What a lookup in the registry reg gives, and leaves.
IsFound(f, list, custom, capacity) ==
    /\ IsRegistry(f.registry, custom) /\ f.registry.codecs.capacity = capacity
    /\ f.error => MayFail(list, custom, capacity)
    /\ ~f.error => Whole(list, custom).ok /\ f.codec = LastOf(Whole(list, custom).cl)

LEMMA BuildFinds ==
    ASSUME NoCodecIsNone, NEW custom \in Customs, NEW i \in DOMAIN TypeLists, NEW list, list = TypeLists[i],
           NEW minor, NEW reg, IsRegistry(reg, custom), NEW f, f = BuildCodec(reg, list, minor)
    PROVE  IsFound(f, list, custom, reg.codecs.capacity)
<1>1. IsList(list) /\ Len(list) \in Nat /\ DOMAIN list = 1..Len(list)
  BY ListsAre
<1>2. PICK s : s = Turns(reg, list, minor)[Len(list)]
  OBVIOUS
<1>3. AfterTurns(s, list, minor, custom, reg.codecs.capacity, Len(list))
  BY <1>2, TurnsKeep
<1>4. ~s.error => /\ Whole(list, custom).ok /\ s.cl = Whole(list, custom).cl
                  /\ s.cl # <<>>
  <2>1. SUFFICES ASSUME ~s.error
                 PROVE  /\ Whole(list, custom).ok /\ s.cl = Whole(list, custom).cl
                        /\ s.cl # <<>>
    OBVIOUS
  <2>2. Whole(list, custom).ok /\ s.cl = Whole(list, custom).cl
    BY <1>3, <2>1 DEF AfterTurns, Whole
  <2>3. PICK n \in 1..Len(list) : IsLast(list, n)
    BY <1>1 DEF IsList
  <2>4. Whole(list, custom).cl # <<>>
    BY <1>1, <2>2, <2>3, WholeIs
  <2> QED
    BY <2>2, <2>4
<1>5. /\ f.registry = s.reg
      /\ s.error => f.error
      /\ ~s.error /\ s.cl # <<>> => ~f.error /\ f.codec = s.cl[Len(s.cl)]
  BY <1>2 DEF BuildCodec
<1>6. IsRegistry(s.reg, custom) /\ s.reg.codecs.capacity = reg.codecs.capacity
      /\ (s.error => MayFail(list, custom, reg.codecs.capacity))
  BY <1>3 DEF AfterTurns
<1>7. CASE s.error
  BY <1>5, <1>6, <1>7 DEF IsFound
<1>8. CASE ~s.error
  BY <1>4, <1>5, <1>6, <1>8 DEF IsFound, LastOf
<1> QED
  BY <1>7, <1>8

LEMMA LookupFinds ==
    ASSUME NoCodecIsNone, NEW custom \in Customs, NEW i \in DOMAIN TypeLists, NEW list, list = TypeLists[i],
           NEW minor, NEW reg, IsRegistry(reg, custom),
           NEW f, f = Lookup(reg, TypeOf(list), list, minor)
    PROVE  IsFound(f, list, custom, reg.codecs.capacity)
<1>1. IsList(list) /\ Len(list) \in Nat /\ DOMAIN list = 1..Len(list)
  BY ListsAre
<1>2. PICK n : n = CHOOSE m \in DOMAIN list : IsLast(list, m)
  OBVIOUS
<1>3. n \in 1..Len(list) /\ IsLast(list, n) /\ TypeOf(list) = list[n].tid
  <2>1. \E m \in DOMAIN list : IsLast(list, m)
    BY <1>1 DEF IsList
  <2>2. n \in DOMAIN list /\ IsLast(list, n)
    BY <1>2, <2>1, Zenon
  <2> QED
    BY <1>1, <1>2, <2>2 DEF TypeOf
<1>4. list[n].t \notin Annotations /\ TypeOf(list) # NullType
  <2>1. list[n].t \notin Annotations
    BY <1>3 DEF IsLast
  <2> QED
    BY <1>1, <1>3, <2>1, TypesAssumption DEF NullUndescribed
<1>5. CASE GetCodec(reg, TypeOf(list)) = NoCodec
  BY <1>5, BuildFinds DEF Lookup
<1>6. CASE GetCodec(reg, TypeOf(list)) # NoCodec
  <2>1. PICK codec : codec = GetCodec(reg, TypeOf(list))
    OBVIOUS
  <2>2. /\ f.registry = AfterGetCodec(reg, TypeOf(list)) /\ f.codec = codec
        /\ f.error = FALSE
    BY <1>6, <2>1 DEF Lookup
  <2>3. reg = [codecs |-> reg.codecs, built |-> reg.built, custom |-> custom]
        /\ Holds(reg.codecs, custom) /\ Holds(reg.built, custom)
    BY DEF IsRegistry
  <2>4. f.registry = [codecs |-> AfterGet(reg.codecs, TypeOf(list)),
                      built |-> reg.built, custom |-> custom]
    BY <2>2, <2>3 DEF AfterGetCodec
  <2>5. IsRegistry(f.registry, custom) /\ f.registry.codecs.capacity = reg.codecs.capacity
    <3>1. PICK c : c = AfterGet(reg.codecs, TypeOf(list))
      OBVIOUS
    <3>2. Holds(c, custom) /\ c.capacity = reg.codecs.capacity
      BY <2>3, <3>1, HoldsAfterGet
    <3> QED
      BY <2>3, <2>4, <3>1, <3>2 DEF IsRegistry
  <2>6. Whole(list, custom).ok
    <3>1. CASE HasEntry(reg.codecs, TypeOf(list))
      <4>1. codec = EntryOf(reg.codecs, TypeOf(list)) /\ codec # NoCodec
        BY <1>6, <2>1, <3>1 DEF GetCodec
      <4>2. Means(TypeOf(list), codec, custom)
        BY <2>3, <3>1, <4>1 DEF Holds
      <4>3. PICK j \in DOMAIN TypeLists : \E m \in DOMAIN TypeLists[j] :
                Describes(TypeLists[j], m, TypeOf(list), custom) /\ codec = CodecAt(TypeLists[j], m, custom)
        BY <4>2 DEF Means
      <4>4. PICK m \in DOMAIN TypeLists[j] :
                Describes(TypeLists[j], m, TypeOf(list), custom) /\ codec = CodecAt(TypeLists[j], m, custom)
        BY <4>3
      <4>5. TypeLists[j][m].tid = TypeOf(list)
        BY <4>4 DEF Describes
      <4>6. OneMeaning(list, TypeLists[j], custom)
        BY TypesAssumption
      <4> QED
        BY <4>1, <4>4, <4>5, <4>6 DEF OneMeaning
    <3>2. CASE ~HasEntry(reg.codecs, TypeOf(list))
      <4>1. TypeOf(list) = EmptyTuple
        BY <1>4, <1>6, <3>2 DEF GetCodec
      <4> QED
        BY <4>1, TypesAssumption DEF EmptyTupleKnown
    <3> QED
      BY <3>1, <3>2
  <2>7. /\ Described(list, custom)[n - 1].ok
        /\ LastOf(Whole(list, custom).cl) = CodecAt(list, n, custom)
    BY <1>1, <1>3, <2>6, WholeIs
  <2>8. codec = CodecAt(list, n, custom)
    <3>1. CASE HasEntry(reg.codecs, TypeOf(list))
      <4>1. codec = EntryOf(reg.codecs, TypeOf(list))
        BY <2>1, <3>1 DEF GetCodec
      <4>2. Means(list[n].tid, codec, custom)
        BY <1>3, <2>3, <3>1, <4>1 DEF Holds
      <4> QED
        BY <1>3, <1>4, <2>7, <4>2, MeansHere
    <3>2. CASE ~HasEntry(reg.codecs, TypeOf(list))
      <4>1. TypeOf(list) = EmptyTuple /\ codec = EmptyTupleCodec
        BY <1>4, <1>6, <2>1, <3>2 DEF GetCodec
      <4>2. list[n].t = "tuple" /\ list[n].at = <<>>
        BY <1>1, <1>3, <1>4, <4>1, TypesAssumption DEF EmptyTupleKnown
      <4> QED
        BY <4>1, <4>2, BuiltOfNone DEF CodecAt
    <3> QED
      BY <3>1, <3>2
  <2> QED
    BY <2>2, <2>5, <2>6, <2>7, <2>8 DEF IsFound
<1> QED
  BY <1>5, <1>6

-----------------------------------------------------------------------------
(* The registry, from one lookup to the next.                              *)

IsSound(s) ==
    /\ s = [registry |-> s.registry, codec |-> s.codec, error |-> s.error, list |-> s.list,
            minor |-> s.minor, custom |-> s.custom, lookups |-> s.lookups]
    /\ s.custom \in Customs /\ s.list \in DOMAIN TypeLists \cup {0}
    /\ IsRegistry(s.registry, s.custom)
    /\ s.list = 0 /\ s.lookups > 0 => ~s.error /\ s.codec = NullCodec
    /\ s.list # 0 => IsFound(s, TypeLists[s.list], s.custom, s.registry.codecs.capacity)

LEMMA OpenedSound ==
    ASSUME NEW capacity \in Nat \ {0}, NEW capacityBuilt \in Nat \ {0}, NEW minor,
           NEW custom \in Customs, NEW s, s = Opened(capacity, capacityBuilt, minor, custom)
    PROVE  IsSound(s)
<1>1. PICK c, b : c = NewLRU(capacity) /\ b = NewLRU(capacityBuilt)
  OBVIOUS
<1>2. /\ InOrder(c) /\ \A key : ~HasEntry(c, key)
      /\ InOrder(b) /\ \A key : ~HasEntry(b, key)
  BY <1>1, NewCache
<1>3. Holds(c, custom) /\ Holds(b, custom)
  BY <1>2 DEF Holds
<1>4. PICK reg : reg = [codecs |-> c, built |-> b, custom |-> custom]
  OBVIOUS
<1>5. SetCustomCodecs(NewRegistry(capacity, capacityBuilt), custom) = reg
  BY <1>1, <1>4 DEF SetCustomCodecs, NewRegistry
<1>6. IsRegistry(reg, custom)
  BY <1>3, <1>4 DEF IsRegistry
<1>7. s = [registry |-> reg, codec |-> NoCodec, error |-> FALSE, list |-> 0, minor |-> minor,
           custom |-> custom, lookups |-> 0]
  BY <1>5 DEF Opened
<1> QED
  BY <1>6, <1>7 DEF IsSound

LEMMA LookedUpSound ==
    ASSUME NoCodecIsNone, NEW s, IsSound(s), NEW i \in DOMAIN TypeLists, NEW r, r = LookedUp(s, i)
    PROVE  IsSound(r)
<1>1. PICK list : list = TypeLists[i]
  OBVIOUS
<1>2. PICK f : f = Lookup(s.registry, TypeOf(list), list, s.minor)
  OBVIOUS
<1>3. s.custom \in Customs /\ IsRegistry(s.registry, s.custom)
  BY DEF IsSound
<1>4. IsFound(f, list, s.custom, s.registry.codecs.capacity)
  BY <1>1, <1>2, <1>3, LookupFinds
<1>5. r = [registry |-> f.registry, codec |-> f.codec, error |-> f.error, list |-> i,
           minor |-> s.minor, custom |-> s.custom, lookups |-> s.lookups + 1]
  <2>1. s = [registry |-> s.registry, codec |-> s.codec, error |-> s.error, list |-> s.list,
             minor |-> s.minor, custom |-> s.custom, lookups |-> s.lookups]
    BY DEF IsSound
  <2> QED
    BY <1>1, <1>2, <2>1 DEF LookedUp
<1>6. i # 0
  BY TypesAssumption
<1> QED
  BY <1>1, <1>3, <1>4, <1>5, <1>6 DEF IsSound, IsFound

\* The null type is in no cache, and its codec is found.
LEMMA NullLookedUpSound ==
    ASSUME NoCodecIsNone, NEW s, IsSound(s), NEW r, r = NullLookedUp(s)
    PROVE  IsSound(r)
<1>1. /\ s.custom \in Customs
      /\ s.registry = [codecs |-> s.registry.codecs, built |-> s.registry.built, custom |-> s.custom]
      /\ Holds(s.registry.codecs, s.custom) /\ Holds(s.registry.built, s.custom)
  BY DEF IsSound, IsRegistry
<1>2. ~HasEntry(s.registry.codecs, NullType)
  <2>1. SUFFICES ASSUME HasEntry(s.registry.codecs, NullType) PROVE FALSE
    OBVIOUS
  <2>2. PICK codec : Means(NullType, codec, s.custom)
    BY <1>1, <2>1 DEF Holds
  <2>3. PICK i \in DOMAIN TypeLists : \E n \in DOMAIN TypeLists[i] :
            TypeLists[i][n].t \notin Annotations /\ TypeLists[i][n].tid = NullType
    BY <2>2 DEF Means, Describes
  <2> QED
    BY <2>3, TypesAssumption DEF NullUndescribed
<1>3. PICK c : c = AfterGet(s.registry.codecs, NullType)
  OBVIOUS
<1>4. Holds(c, s.custom)
  BY <1>1, <1>3, HoldsAfterGet
<1>5. PICK reg : reg = [codecs |-> c, built |-> s.registry.built, custom |-> s.custom]
  OBVIOUS
<1>6. IsRegistry(reg, s.custom)
  BY <1>1, <1>4, <1>5 DEF IsRegistry
<1>7. PICK f : f = Lookup(s.registry, NullType, <<>>, s.minor)
  OBVIOUS
<1>8. /\ f.registry = reg /\ f.codec = NullCodec /\ f.error = FALSE
  <2>1. GetCodec(s.registry, NullType) = NullCodec
    BY <1>2, TypesAssumption DEF GetCodec
  <2>2. NullCodec # NoCodec
    BY DEF NullCodec, NoCodecIsNone
  <2>3. AfterGetCodec(s.registry, NullType) = reg
    BY <1>1, <1>3, <1>5 DEF AfterGetCodec
  <2> QED
    BY <1>7, <2>1, <2>2, <2>3 DEF Lookup
<1>9. r = [registry |-> reg, codec |-> NullCodec, error |-> FALSE, list |-> 0,
           minor |-> s.minor, custom |-> s.custom, lookups |-> s.lookups + 1]
  <2>1. s = [registry |-> s.registry, codec |-> s.codec, error |-> s.error, list |-> s.list,
             minor |-> s.minor, custom |-> s.custom, lookups |-> s.lookups]
    BY DEF IsSound
  <2> QED
    BY <1>7, <1>8, <2>1 DEF NullLookedUp
<1> QED
  BY <1>1, <1>6, <1>9 DEF IsSound

\* A cache that holds what is described is in order.
LEMMA HoldsSound ==
    ASSUME NEW c, NEW custom, Holds(c, custom)
    PROVE  CacheSound(c, custom)
<1>1. PICK s : Sync(c, s) /\ Len(s) <= c.capacity
  BY DEF Holds, InOrder
<1>2. InSync(c)
  BY InOrderInSync DEF Holds
<1>3. ASSUME NEW n \in DOMAIN c.node
      PROVE  c.node[n].value.tid = c.node[n].key /\ Means(c.node[n].key, c.node[n].value, custom)
  <2>1. c.node[n].key \in DOMAIN c.map /\ c.map[c.node[n].key] = n
    BY <1>1 DEF Sync, Mapped
  <2>2. HasEntry(c, c.node[n].key) /\ EntryOf(c, c.node[n].key) = c.node[n].value
    BY <2>1 DEF HasEntry, EntryOf
  <2> QED
    BY <2>2 DEF Holds
<1> QED
  BY <1>2, <1>3 DEF CacheSound

LEMMA SoundIs ==
    ASSUME NEW s, IsSound(s)
    PROVE  LookupSound(s)
<1>1. CacheSound(s.registry.codecs, s.custom) /\ CacheSound(s.registry.built, s.custom)
  BY HoldsSound DEF IsSound, IsRegistry
<1> QED
  BY <1>1 DEF IsSound, LookupSound, IsFound, MayFail

\* A registry of any capacities is opened, for any version of the protocol and
\* any custom codecs; then types are looked up.
RegistryNext ==
    \/ \E capacity, capacityBuilt \in Nat \ {0}, minor \in Nat, custom \in Customs :
          Open(capacity, capacityBuilt, minor, custom)
    \/ \E i \in DOMAIN TypeLists : LookUp(i)
    \/ LookUpNull

RegistrySpec == case = NoCase /\ [][RegistryNext]_case

RegistryInv ==
    case = NoCase \/ (case = [of |-> "registry", input |-> case.input] /\ IsSound(case.input))

\* Whatever types are looked up, in any order and in caches of any capacities, a
\* lookup gives the codec that is described, and fails only when there is none or
\* when an annotation comes after its type was evicted; the null type has its own
\* (codecs/registry.ts).
THEOREM LookupsAreSound == ASSUME NoCodecIsNone PROVE RegistrySpec => []RegistrySound
<1>1. case = NoCase => RegistryInv
  BY DEF RegistryInv
<1>2. RegistryInv /\ [RegistryNext]_case => RegistryInv'
  <2> SUFFICES ASSUME RegistryInv, [RegistryNext]_case PROVE RegistryInv'
    OBVIOUS
  <2>1. CASE UNCHANGED case
    BY <2>1 DEF RegistryInv
  <2>2. ASSUME NEW capacity \in Nat \ {0}, NEW capacityBuilt \in Nat \ {0}, NEW minor \in Nat,
               NEW custom \in Customs, Open(capacity, capacityBuilt, minor, custom)
        PROVE  RegistryInv'
    <3>1. PICK s : s = Opened(capacity, capacityBuilt, minor, custom)
      OBVIOUS
    <3>2. case' = [of |-> "registry", input |-> s]
      BY <2>2, <3>1 DEF Open, Given
    <3>3. IsSound(s)
      BY <3>1, OpenedSound
    <3> QED
      BY <3>2, <3>3 DEF RegistryInv
  <2>3. ASSUME NEW i \in DOMAIN TypeLists, LookUp(i) PROVE RegistryInv'
    <3>1. case # NoCase
      BY <2>3 DEF LookUp, NoCase
    <3>2. IsSound(case.input)
      BY <3>1 DEF RegistryInv
    <3>3. PICK s : s = LookedUp(case.input, i)
      OBVIOUS
    <3>4. case' = [of |-> "registry", input |-> s]
      BY <2>3, <3>3 DEF LookUp, Given
    <3>5. IsSound(s)
      BY <3>2, <3>3, LookedUpSound
    <3> QED
      BY <3>4, <3>5 DEF RegistryInv
  <2>4. CASE LookUpNull
    <3>1. case # NoCase
      BY <2>4 DEF LookUpNull, NoCase
    <3>2. IsSound(case.input)
      BY <3>1 DEF RegistryInv
    <3>3. PICK s : s = NullLookedUp(case.input)
      OBVIOUS
    <3>4. case' = [of |-> "registry", input |-> s]
      BY <2>4, <3>3 DEF LookUpNull, Given
    <3>5. IsSound(s)
      BY <3>2, <3>3, NullLookedUpSound
    <3> QED
      BY <3>4, <3>5 DEF RegistryInv
  <2> QED
    BY <2>1, <2>2, <2>3, <2>4 DEF RegistryNext
<1>3. RegistryInv => RegistrySound
  BY SoundIs DEF RegistryInv, RegistrySound, NoCase
<1> QED
  BY <1>1, <1>2, <1>3, PTL DEF RegistrySpec

-----------------------------------------------------------------------------
(* The calendar.                                                            *)

\* The dates that a client can make and EdgeDB has: those from the year 1 on.
Dates ==
    {d \in [year : Nat \ {0}, month : 1..12, day : Nat \ {0}] :
        d.year <= HighestYear /\ d.day <= DaysInMonth(d.year, d.month)}

-----------------------------------------------------------------------------
(* Months.                                                                 *)

DaysBefore == <<0, 31, 59, 90, 120, 151, 181, 212, 243, 273, 304, 334>>

\* The table that the module builds once.
LEMMA MonthStarts == MonthStart = [m \in 1..12 |-> DaysBefore[m]]
<1> DEFINE F(f) == [m \in 1..12 |-> IF m = 1 THEN 0 ELSE f[m - 1] + MonthDays[m - 1]]
           B == [m \in 1..12 |-> DaysBefore[m]]
<1>1. B = F(B)
  <2>1. ASSUME NEW m \in 1..12
        PROVE  DaysBefore[m] = IF m = 1 THEN 0 ELSE B[m - 1] + MonthDays[m - 1]
    <3>1. \/ m = 1 \/ m = 2 \/ m = 3 \/ m = 4 \/ m = 5 \/ m = 6
          \/ m = 7 \/ m = 8 \/ m = 9 \/ m = 10 \/ m = 11 \/ m = 12
      OBVIOUS
    <3> QED
      BY <3>1 DEF DaysBefore, MonthDays
  <2> QED
    BY <2>1
<1>2. MonthStart = CHOOSE f : f = F(f)
  BY DEF MonthStart
<1>3. MonthStart = F(MonthStart)
  BY <1>1, <1>2
<1> HIDE DEF F
<1>4. ASSUME NEW m \in 1..12
      PROVE  MonthStart[m] = IF m = 1 THEN 0 ELSE MonthStart[m - 1] + MonthDays[m - 1]
  BY <1>3 DEF F
<1>5. /\ MonthStart[1] = 0 /\ MonthStart[2] = 31 /\ MonthStart[3] = 59
      /\ MonthStart[4] = 90 /\ MonthStart[5] = 120 /\ MonthStart[6] = 151
  BY <1>4 DEF MonthDays
<1>6. /\ MonthStart[7] = 181 /\ MonthStart[8] = 212 /\ MonthStart[9] = 243
      /\ MonthStart[10] = 273 /\ MonthStart[11] = 304 /\ MonthStart[12] = 334
  BY <1>4, <1>5 DEF MonthDays
<1>7. MonthStart = [m \in 1..12 |-> MonthStart[m]]
  BY <1>3 DEF F
<1>8. ASSUME NEW m \in 1..12 PROVE MonthStart[m] = DaysBefore[m]
  <2>1. \/ m = 1 \/ m = 2 \/ m = 3 \/ m = 4 \/ m = 5 \/ m = 6
        \/ m = 7 \/ m = 8 \/ m = 9 \/ m = 10 \/ m = 11 \/ m = 12
    OBVIOUS
  <2> QED
    BY <1>5, <1>6, <2>1 DEF DaysBefore
<1> QED
  BY <1>7, <1>8

\* Which month it is, and its days before and within, in a year that is a leap
\* year or not.
MonthIs(m, leap, before, size) ==
    LET more == IF leap THEN 1 ELSE 0
    IN  \/ m = 1 /\ before = 0 /\ size = 31
        \/ m = 2 /\ before = 31 /\ size = 28 + more
        \/ m = 3 /\ before = 59 + more /\ size = 31
        \/ m = 4 /\ before = 90 + more /\ size = 30
        \/ m = 5 /\ before = 120 + more /\ size = 31
        \/ m = 6 /\ before = 151 + more /\ size = 30
        \/ m = 7 /\ before = 181 + more /\ size = 31
        \/ m = 8 /\ before = 212 + more /\ size = 31
        \/ m = 9 /\ before = 243 + more /\ size = 30
        \/ m = 10 /\ before = 273 + more /\ size = 31
        \/ m = 11 /\ before = 304 + more /\ size = 30
        \/ m = 12 /\ before = 334 + more /\ size = 31

LEMMA MonthFacts ==
    ASSUME NEW m \in 1..12, NEW leap \in BOOLEAN
    PROVE  /\ MonthIs(m, leap, MonthStart[m] + IF m > 2 /\ leap THEN 1 ELSE 0,
                      IF m = 2 /\ leap THEN 29 ELSE MonthDays[m])
           /\ MonthStart[m] \in Nat
<1>1. \/ m = 1 \/ m = 2 \/ m = 3 \/ m = 4 \/ m = 5 \/ m = 6
      \/ m = 7 \/ m = 8 \/ m = 9 \/ m = 10 \/ m = 11 \/ m = 12
  OBVIOUS
<1> QED
  BY <1>1, MonthStarts DEF MonthIs, DaysBefore, MonthDays

LEMMA MonthOfYear ==
    ASSUME NEW year \in Int, NEW m \in 1..12
    PROVE  /\ MonthIs(m, IsLeapYear(year), DaysBeforeMonth(year, m), DaysInMonth(year, m))
           /\ DaysBeforeMonth(year, m) \in Nat /\ DaysInMonth(year, m) \in 1..31
<1> DEFINE leap == IsLeapYear(year)
<1>1. leap \in BOOLEAN
  BY DEF IsLeapYear
<1>2. /\ DaysBeforeMonth(year, m) = MonthStart[m] + IF m > 2 /\ leap THEN 1 ELSE 0
      /\ DaysInMonth(year, m) = IF m = 2 /\ leap THEN 29 ELSE MonthDays[m]
  BY DEF DaysBeforeMonth, DaysInMonth
<1> HIDE DEF leap
<1>3. MonthIs(m, leap, DaysBeforeMonth(year, m), DaysInMonth(year, m))
  BY <1>1, <1>2, MonthFacts
<1>4. DaysBeforeMonth(year, m) \in Nat /\ DaysInMonth(year, m) \in 1..31
  BY <1>1, <1>3 DEF MonthIs
<1> QED
  BY <1>3, <1>4 DEF leap

-----------------------------------------------------------------------------
(* Years.                                                                  *)

LEMMA LeapFacts == ASSUME NEW year PROVE IsLeapYear(year) \in BOOLEAN
BY DEF IsLeapYear

LEMMA TruncFacts ==
    ASSUME NEW n \in Nat, NEW b \in {4, 100, 400}
    PROVE  Trunc(n, b) = n \div b
BY DEF Trunc, Sign, Abs

\* The days before a year, y years after the year 1.
LEMMA YearDays ==
    ASSUME NEW year \in Int, NEW y \in Nat, year - 1 = y
    PROVE  DaysBeforeYear(year) = y * 365 + (y \div 4) - (y \div 100) + (y \div 400)
<1>1. DaysBeforeYear(year) = y * 365 + Trunc(y, 4) - Trunc(y, 100) + Trunc(y, 400)
  BY DEF DaysBeforeYear
<1>2. /\ Trunc(y, 4) = y \div 4
      /\ Trunc(y, 100) = y \div 100
      /\ Trunc(y, 400) = y \div 400
  BY TruncFacts
<1> QED
  BY <1>1, <1>2

LEMMA CycleDays ==
    DaysBeforeYear(401) = 146097 /\ DaysBeforeYear(101) = 36524 /\ DaysBeforeYear(5) = 1461
<1>1. /\ 401 - 1 = 400 /\ 400 * 365 + (400 \div 4) - (400 \div 100) + (400 \div 400) = 146097
      /\ 101 - 1 = 100 /\ 100 * 365 + (100 \div 4) - (100 \div 100) + (100 \div 400) = 36524
      /\ 5 - 1 = 4 /\ 4 * 365 + (4 \div 4) - (4 \div 100) + (4 \div 400) = 1461
  OBVIOUS
<1>2. ASSUME NEW y \in Nat, NEW year \in Int, year - 1 = y, y \in {4, 100, 400}
      PROVE  DaysBeforeYear(year) = y * 365 + (y \div 4) - (y \div 100) + (y \div 400)
  BY <1>2, YearDays
<1> QED
  BY <1>1, <1>2

\* The year is a cycles of 400, b of 100, c of 4 years and d years after the
\* year 1.
Cycles(year, a, b, c, d) ==
    /\ a \in Nat /\ b \in 0..3 /\ c \in 0..24 /\ d \in 0..3
    /\ year = 400 * a + 100 * b + 4 * c + d + 1

LEMMA HasCycles ==
    ASSUME NEW year \in Nat \ {0}
    PROVE  \E a, b, c, d : Cycles(year, a, b, c, d)
<1> DEFINE y == year - 1
           a == y \div 400
           r == y - 400 * a
           b == r \div 100
           t == r - 100 * b
           c == t \div 4
           d == t - 4 * c
<1>1. y \in Nat
  OBVIOUS
<1>2. a \in Nat /\ r \in 0..399
  BY <1>1
<1>3. b \in 0..3 /\ t \in 0..99
  BY <1>2
<1>4. c \in 0..24 /\ d \in 0..3
  BY <1>3
<1>5. year = 400 * a + 100 * b + 4 * c + d + 1
  BY <1>2, <1>3, <1>4
<1>6. Cycles(year, a, b, c, d)
  BY <1>2, <1>3, <1>4, <1>5 DEF Cycles
<1> HIDE DEF a, b, c, d
<1> QED
  BY <1>6

\* The days before such a year, and whether it is a leap year.
LEMMA YearFacts ==
    ASSUME NEW year, NEW a, NEW b, NEW c, NEW d, Cycles(year, a, b, c, d)
    PROVE  /\ DaysBeforeYear(year) = 146097 * a + 36524 * b + 1461 * c + 365 * d
           /\ IsLeapYear(year) <=> d = 3 /\ (c # 24 \/ b = 3)
<1>1. /\ a \in Nat /\ b \in 0..3 /\ c \in 0..24 /\ d \in 0..3
      /\ year = 400 * a + 100 * b + 4 * c + d + 1
  BY DEF Cycles
<1> DEFINE y == year - 1
<1>2. y \in Nat /\ y = 400 * a + 100 * b + 4 * c + d
  BY <1>1
<1>3. y \div 4 = 100 * a + 25 * b + c /\ y \div 100 = 4 * a + b /\ y \div 400 = a
  BY <1>1, <1>2
<1>4. DaysBeforeYear(year) = y * 365 + (y \div 4) - (y \div 100) + (y \div 400)
  BY <1>1, <1>2, YearDays
<1>5. year % 4 = 0 <=> d = 3
  BY <1>1
<1>6. year % 100 = 0 <=> d = 3 /\ c = 24
  BY <1>1
<1>7. year % 400 = 0 <=> d = 3 /\ c = 24 /\ b = 3
  BY <1>1
<1> QED
  BY <1>1, <1>2, <1>3, <1>4, <1>5, <1>6, <1>7 DEF IsLeapYear

-----------------------------------------------------------------------------
(* Ordinals.                                                               *)

\* The n-th day of a year, from 0 on, is in month m.
InMonth(n, leap, m, before) ==
    /\ m \in 1..12 /\ leap \in BOOLEAN
    /\ \E size : MonthIs(m, leap, before, size) /\ n - before + 1 \in 1..size /\ n \in Nat

\* The estimate of ord2ymd() is the month of the n-th day, or the next one,
\* which begins later.
LEMMA Estimate ==
    ASSUME NEW n, NEW leap, NEW m, NEW before, InMonth(n, leap, m, before)
    PROVE  MonthOf(n, leap) = [month |-> m, before |-> before]
<1>0. PICK size : MonthIs(m, leap, before, size) /\ n - before + 1 \in 1..size /\ n \in Nat
  BY DEF InMonth
<1> m \in 1..12 /\ leap \in BOOLEAN
  BY DEF InMonth
<1> DEFINE guess == (n + 50) \div 32
           start(k) == MonthStart[k] + IF k > 2 /\ leap THEN 1 ELSE 0
           month == IF start(guess) > n THEN guess - 1 ELSE guess
           length(k) == IF k = 2 /\ leap THEN 29 ELSE MonthDays[k]
<1>1. ASSUME NEW k \in 1..12
      PROVE  MonthIs(k, leap, start(k), length(k))
  BY MonthFacts
<1>2. MonthOf(n, leap) = [month |-> month, before |-> start(month)]
  BY ONLY DEF MonthOf
<1> HIDE DEF start, length
<1>3. n \in Nat /\ n <= 365 /\ before \in Nat /\ size \in Nat /\ n - before + 1 \in 1..size
  BY <1>0 DEF MonthIs
<1>4. start(m) = before
  BY <1>0, <1>1 DEF MonthIs
<1>5. guess \in {m, m + 1} /\ guess \in 1..12
  BY <1>0, <1>3 DEF MonthIs
<1>6. guess = m => start(guess) <= n
  BY <1>3, <1>4
<1>7. guess = m + 1 => start(guess) > n
  <2> SUFFICES ASSUME guess = m + 1 PROVE start(guess) > n
    OBVIOUS
  <2>1. MonthIs(guess, leap, start(guess), length(guess))
    BY <1>1, <1>5
  <2>2. start(guess) = before + size
    BY <1>0, <2>1 DEF MonthIs
  <2> QED
    BY <1>3, <2>2
<1>8. month = m
  <2> HIDE DEF guess
  <2>1. start(guess) \in Nat
    BY <1>1, <1>5 DEF MonthIs
  <2> QED
    BY <1>3, <1>5, <1>6, <1>7, <2>1
<1> QED
  BY <1>2, <1>4, <1>8

\* The quotients and remainders of ord2ymd().
Quotients(o, n400, r400, n100, r100, n4, r4, n1, r1) ==
    /\ n400 = o \div 146097 /\ r400 = o % 146097
    /\ n100 = r400 \div 36524 /\ r100 = r400 % 36524
    /\ n4 = r100 \div 1461 /\ r4 = r100 % 1461
    /\ n1 = r4 \div 365 /\ r1 = r4 % 365

\* The n-th day, from 0 on, of a year that is so many cycles after the first.
IsDay(o, a, b, c, d, n) ==
    /\ a \in Nat /\ b \in 0..3 /\ c \in 0..24 /\ d \in 0..3 /\ n \in 0..365
    /\ n = 365 => d = 3 /\ (c # 24 \/ b = 3)
    /\ o = 146097 * a + 36524 * b + 1461 * c + 365 * d + n

\* The quotients are the cycles of its year, unless it is the last day of a
\* leap year.
Found(a, b, c, d, n, n400, n100, n4, n1, r1) ==
    /\ n400 = a /\ n100 \in Nat /\ n4 \in Nat /\ n1 \in Nat
    /\ n < 365 => n100 = b /\ n4 = c /\ n1 = d /\ r1 = n
    /\ n = 365 => /\ n1 = 4 \/ n100 = 4
                  /\ 400 * n400 + 1 + 100 * n100 + 4 * n4 + n1
                         = 400 * a + 100 * b + 4 * c + d + 2

LEMMA Divisions ==
    ASSUME NEW a, NEW b, NEW c, NEW d, NEW n, NEW o, IsDay(o, a, b, c, d, n),
           NEW n400, NEW r400, NEW n100, NEW r100, NEW n4, NEW r4, NEW n1, NEW r1,
           Quotients(o, n400, r400, n100, r100, n4, r4, n1, r1)
    PROVE  Found(a, b, c, d, n, n400, n100, n4, n1, r1)
<1> USE DEF IsDay, Found
<1>0. /\ n400 = o \div 146097 /\ r400 = o % 146097
      /\ n100 = r400 \div 36524 /\ r100 = r400 % 36524
      /\ n4 = r100 \div 1461 /\ r4 = r100 % 1461
      /\ n1 = r4 \div 365 /\ r1 = r4 % 365
  BY DEF Quotients
<1> DEFINE s == 36524 * b + 1461 * c + 365 * d + n
<1>1. s \in Nat /\ s < 146097 /\ o = 146097 * a + s
  OBVIOUS
<1>2. n400 = a /\ r400 = s
  BY <1>0, <1>1
<1>3. CASE n < 365
  <2>1. n100 = b /\ r100 = 1461 * c + 365 * d + n
    BY <1>0, <1>2, <1>3
  <2>2. n4 = c /\ r4 = 365 * d + n
    BY <1>0, <1>3, <2>1
  <2>3. n1 = d /\ r1 = n
    BY <1>0, <1>3, <2>2
  <2> QED
    BY <1>2, <1>3, <2>1, <2>2, <2>3
<1>4. CASE n = 365 /\ c = 24
  <2>1. b = 3 /\ d = 3
    BY <1>4
  <2>2. r400 = 146096
    BY <1>2, <1>4, <2>1
  <2>3. n100 = 4 /\ r100 = 0
    BY <1>0, <2>2
  <2>4. n4 = 0 /\ r4 = 0
    BY <1>0, <2>3
  <2>5. n1 = 0
    BY <1>0, <2>4
  <2> QED
    BY <1>2, <1>4, <2>1, <2>3, <2>4, <2>5
<1>5. CASE n = 365 /\ c # 24
  <2>1. d = 3 /\ c <= 23
    BY <1>5
  <2>2. n100 = b /\ r100 = 1461 * c + 1460
    BY <1>0, <1>2, <1>5, <2>1
  <2>3. n4 = c /\ r4 = 1460
    BY <1>0, <2>1, <2>2
  <2>4. n1 = 4
    BY <1>0, <2>3
  <2> QED
    BY <1>2, <1>5, <2>1, <2>2, <2>3, <2>4
<1> QED
  BY <1>3, <1>4, <1>5

\* ord2ymd() with names for its parts.
LEMMA OrdParts ==
    ASSUME NEW ord, NEW o, ord - 1 = o,
           NEW n400, NEW r400, NEW n100, NEW r100, NEW n4, NEW r4, NEW n1, NEW n,
           Quotients(o, n400, r400, n100, r100, n4, r4, n1, n),
           NEW year, year = n400 * 400 + 1 + n100 * 100 + n4 * 4 + n1
    PROVE  Ord2Ymd(ord) =
               IF n1 = 4 \/ n100 = 4 THEN <<year - 1, 12, 31>>
               ELSE LET in == MonthOf(n, n1 = 3 /\ (n4 # 24 \/ n100 = 3))
                    IN  <<year, in.month, n - in.before + 1>>
BY CycleDays DEF Ord2Ymd, Quotients

\* ord2ymd() is the inverse of ymd2ord().
LEMMA DateFound ==
    ASSUME NEW year \in Nat \ {0}, NEW month \in 1..12, NEW day \in 1..DaysInMonth(year, month)
    PROVE  /\ Ymd2Ord(year, month, day) \in Nat
           /\ Ord2Ymd(Ymd2Ord(year, month, day)) = <<year, month, day>>
<1>1. PICK a, b, c, d : Cycles(year, a, b, c, d)
  BY HasCycles
<1>2. /\ a \in Nat /\ b \in 0..3 /\ c \in 0..24 /\ d \in 0..3
      /\ year = 400 * a + 100 * b + 4 * c + d + 1
  BY <1>1 DEF Cycles
<1>3. PICK leap \in BOOLEAN : leap = IsLeapYear(year)
  BY LeapFacts
<1>4. /\ DaysBeforeYear(year) = 146097 * a + 36524 * b + 1461 * c + 365 * d
      /\ leap <=> d = 3 /\ (c # 24 \/ b = 3)
  BY <1>1, <1>3, YearFacts
<1> DEFINE before == MonthStart[month] + IF month > 2 /\ leap THEN 1 ELSE 0
           size   == IF month = 2 /\ leap THEN 29 ELSE MonthDays[month]
<1>5. /\ MonthIs(month, leap, before, size) /\ MonthStart[month] \in Nat
      /\ DaysBeforeMonth(year, month) = before /\ DaysInMonth(year, month) = size
  BY <1>3, MonthFacts DEF DaysBeforeMonth, DaysInMonth
<1>6. PICK n : n = before + day - 1
  OBVIOUS
<1> HIDE DEF before, size
<1>7. before \in Nat /\ size \in Nat /\ day \in 1..size
  BY <1>5 DEF MonthIs
<1>8. n \in 0..365 /\ (n = 365 => leap /\ month = 12 /\ day = 31)
  BY <1>5, <1>6, <1>7 DEF MonthIs
<1>9. PICK ord : ord = Ymd2Ord(year, month, day)
  OBVIOUS
<1>10. PICK o : o = 146097 * a + 36524 * b + 1461 * c + 365 * d + n
  OBVIOUS
<1>11. ord \in Nat /\ ord - 1 = o
  <2>1. ord = DaysBeforeYear(year) + before + day
    BY <1>5, <1>9 DEF Ymd2Ord
  <2> QED
    BY <1>2, <1>4, <1>6, <1>7, <1>10, <2>1
<1>12. IsDay(o, a, b, c, d, n)
  BY <1>2, <1>4, <1>8, <1>10 DEF IsDay
<1>13. PICK n400, r400, n100, r100, n4, r4, n1, r1 :
            Quotients(o, n400, r400, n100, r100, n4, r4, n1, r1)
  BY DEF Quotients
<1>14. Found(a, b, c, d, n, n400, n100, n4, n1, r1)
  BY ONLY <1>12, <1>13, Divisions
<1>15. PICK y : y = n400 * 400 + 1 + n100 * 100 + n4 * 4 + n1
  OBVIOUS
<1>16. Ord2Ymd(ord) =
           IF n1 = 4 \/ n100 = 4 THEN <<y - 1, 12, 31>>
           ELSE LET in == MonthOf(r1, n1 = 3 /\ (n4 # 24 \/ n100 = 3))
                IN  <<y, in.month, r1 - in.before + 1>>
  BY ONLY <1>11, <1>13, <1>15, OrdParts
<1>17. CASE n = 365
  <2>1. y - 1 = year /\ (n1 = 4 \/ n100 = 4)
    BY <1>2, <1>14, <1>15, <1>17 DEF Found
  <2> QED
    BY <1>8, <1>9, <1>11, <1>16, <1>17, <2>1
<1>18. CASE n < 365
  <2>1. n1 \in 0..3 /\ n100 \in 0..3 /\ y = year /\ r1 = n
    BY <1>2, <1>8, <1>14, <1>15, <1>18 DEF Found
  <2>2. (n1 = 3 /\ (n4 # 24 \/ n100 = 3)) = leap
    BY <1>4, <1>14, <1>18 DEF Found
  <2>3. MonthOf(n, leap) = [month |-> month, before |-> before]
    <3>1. n - before + 1 \in 1..size
      BY <1>6, <1>7
    <3>2. InMonth(n, leap, month, before)
      BY <1>5, <1>8, <3>1 DEF InMonth
    <3> QED
      BY ONLY <3>2, Estimate, Zenon
  <2>4. Ord2Ymd(ord) = <<year, month, n - before + 1>>
    BY <1>16, <2>1, <2>2, <2>3
  <2>5. n - before + 1 = day
    BY <1>6, <1>7
  <2> QED
    BY <1>9, <1>11, <2>4, <2>5
<1> QED
  BY <1>8, <1>17, <1>18

-----------------------------------------------------------------------------
(* Dates.                                                                  *)

LEMMA DateFacts ==
    ASSUME NEW date \in Dates
    PROVE  /\ date = [year |-> date.year, month |-> date.month, day |-> date.day]
           /\ date.year \in Nat \ {0} /\ date.year <= HighestYear
           /\ date.month \in 1..12 /\ date.day \in 1..DaysInMonth(date.year, date.month)
<1>1. date \in [year : Nat \ {0}, month : 1..12, day : Nat \ {0}]
  BY DEF Dates
<1>2. date.year <= HighestYear /\ date.day <= DaysInMonth(date.year, date.month)
  BY DEF Dates
<1>3. /\ date = [year |-> date.year, month |-> date.month, day |-> date.day]
      /\ date.year \in Nat \ {0} /\ date.month \in 1..12 /\ date.day \in Nat \ {0}
  BY <1>1
<1>4. DaysInMonth(date.year, date.month) \in 1..31
  BY <1>3, MonthOfYear
<1>5. date.day \in 1..DaysInMonth(date.year, date.month)
  BY <1>2, <1>3, <1>4
<1> QED
  BY <1>2, <1>3, <1>5

\* Date.UTC() takes the years 1 to 99 for 1901 to 1999, which have the same
\* leap years.
LEMMA SameMonths ==
    ASSUME NEW year \in Nat \ {0}, year <= 99, NEW month \in 1..12
    PROVE  DaysInMonth(1900 + year, month) = DaysInMonth(year, month)
<1>1. /\ (1900 + year) % 4 = 0 <=> year % 4 = 0
      /\ (1900 + year) % 100 # 0 /\ year % 100 # 0
  OBVIOUS
<1>2. IsLeapYear(1900 + year) <=> IsLeapYear(year)
  BY <1>1 DEF IsLeapYear
<1> QED
  BY <1>2 DEF DaysInMonth

LEMMA MadeDate ==
    ASSUME NEW date \in Dates
    PROVE  LocalDate(date.year, date.month, date.day) = date
<1>1. PICK y, m, d : y = date.year /\ m = date.month /\ d = date.day
  OBVIOUS
<1>2. /\ date = [year |-> y, month |-> m, day |-> d]
      /\ y \in Nat \ {0} /\ y <= HighestYear /\ m \in 1..12 /\ d \in 1..DaysInMonth(y, m)
  BY <1>1, DateFacts
<1>3. ~(y < LowestYear) /\ ~(y > HighestYear)
  BY ONLY <1>2 DEF LowestYear, HighestYear
<1>4. PICK over : over = d - DaysInMonth(1900 + y, m)
  OBVIOUS
<1>5. y <= 99 => ~(over > 0)
  <2> SUFFICES ASSUME y <= 99 PROVE ~(over > 0)
    OBVIOUS
  <2>1. y \in Nat \ {0} /\ y \in Int /\ m \in 1..12 /\ d \in 1..DaysInMonth(y, m)
    BY ONLY <1>2
  <2>2. DaysInMonth(1900 + y, m) = DaysInMonth(y, m)
    BY <2>1, SameMonths
  <2>3. DaysInMonth(y, m) \in 1..31
    BY ONLY <2>1, MonthOfYear, Zenon
  <2> QED
    BY ONLY <1>4, <2>1, <2>2, <2>3
<1>6. LocalDate(y, m, d) =
        IF y < LowestYear \/ y > HighestYear \/ m \notin 1..12 \/ d \notin 1..DaysInMonth(y, m)
        THEN NoDate
        ELSE IF y >= 0 /\ y <= 99 /\ over > 0
        THEN [year |-> y, month |-> m + 1, day |-> over]
        ELSE [year |-> y, month |-> m, day |-> d]
  <2> DEFINE made(more) == IF y < LowestYear \/ y > HighestYear \/ m \notin 1..12
                                \/ d \notin 1..DaysInMonth(y, m)
                           THEN NoDate
                           ELSE IF y >= 0 /\ y <= 99 /\ more > 0
                           THEN [year |-> y, month |-> m + 1, day |-> more]
                           ELSE [year |-> y, month |-> m, day |-> d]
  <2>1. LocalDate(y, m, d) = made(d - DaysInMonth(1900 + y, m))
    BY ONLY Zenon DEF LocalDate
  <2> HIDE DEF made
  <2>2. LocalDate(y, m, d) = made(over)
    BY ONLY <1>4, <2>1
  <2> QED
    BY ONLY <2>2, Zenon DEF made
<1>7. LocalDate(y, m, d) = [year |-> y, month |-> m, day |-> d]
  BY ONLY <1>2, <1>3, <1>5, <1>6, Zenon
<1> QED
  BY <1>1, <1>2, <1>7

LEMMA ShiftFacts == DateShift \in Nat
<1>1. DaysInMonth(2000, 1) = 31
  BY DEF DaysInMonth, MonthDays
<1> QED
  BY <1>1, DateFound DEF DateShift

\* decode() of LocalDateCodec is the inverse of encode().
LEMMA DateSurvives ==
    ASSUME NEW date \in Dates
    PROVE  DecodeLocalDate(EncodeLocalDate(date)) = date /\ EncodeLocalDate(date) \in Int
<1> DEFINE ord == Ymd2Ord(date.year, date.month, date.day)
<1>1. ord \in Nat /\ Ord2Ymd(ord) = <<date.year, date.month, date.day>>
  BY DateFacts, DateFound
<1> HIDE DEF ord
<1>2. EncodeLocalDate(date) = ord - DateShift
  BY DEF EncodeLocalDate, ord
<1>3. (ord - DateShift) + DateShift = ord
  BY <1>1, ShiftFacts
<1>4. DecodeLocalDate(ord - DateShift) = LocalDate(date.year, date.month, date.day)
  BY <1>1, <1>3 DEF DecodeLocalDate
<1> QED
  BY <1>1, <1>2, <1>4, ShiftFacts, MadeDate

YearLength(year) == IF IsLeapYear(year) THEN 366 ELSE 365

\* The next year begins when the days of this one are over.
LEMMA NextYear ==
    ASSUME NEW year \in Nat \ {0}
    PROVE  DaysBeforeYear(year + 1) = DaysBeforeYear(year) + YearLength(year)
<1>1. PICK a, b, c, d : Cycles(year, a, b, c, d)
  BY HasCycles
<1>2. /\ a \in Nat /\ b \in 0..3 /\ c \in 0..24 /\ d \in 0..3
      /\ year = 400 * a + 100 * b + 4 * c + d + 1
  BY <1>1 DEF Cycles
<1>3. /\ DaysBeforeYear(year) = 146097 * a + 36524 * b + 1461 * c + 365 * d
      /\ IsLeapYear(year) <=> d = 3 /\ (c # 24 \/ b = 3)
  BY <1>1, YearFacts
<1>4. CASE d < 3
  <2>1. Cycles(year + 1, a, b, c, d + 1)
    BY <1>2, <1>4 DEF Cycles
  <2>2. DaysBeforeYear(year + 1) = 146097 * a + 36524 * b + 1461 * c + 365 * (d + 1)
    BY <2>1, YearFacts
  <2> QED
    BY <1>2, <1>3, <1>4, <2>2 DEF YearLength
<1>5. CASE d = 3 /\ c < 24
  <2>1. Cycles(year + 1, a, b, c + 1, 0)
    BY <1>2, <1>5 DEF Cycles
  <2>2. DaysBeforeYear(year + 1) = 146097 * a + 36524 * b + 1461 * (c + 1) + 365 * 0
    BY <2>1, YearFacts
  <2> QED
    BY <1>2, <1>3, <1>5, <2>2 DEF YearLength
<1>6. CASE d = 3 /\ c = 24 /\ b < 3
  <2>1. Cycles(year + 1, a, b + 1, 0, 0)
    BY <1>2, <1>6 DEF Cycles
  <2>2. DaysBeforeYear(year + 1) = 146097 * a + 36524 * (b + 1) + 1461 * 0 + 365 * 0
    BY <2>1, YearFacts
  <2> QED
    BY <1>2, <1>3, <1>6, <2>2 DEF YearLength
<1>7. CASE d = 3 /\ c = 24 /\ b = 3
  <2>1. Cycles(year + 1, a + 1, 0, 0, 0)
    BY <1>2, <1>7 DEF Cycles
  <2>2. DaysBeforeYear(year + 1) = 146097 * (a + 1) + 36524 * 0 + 1461 * 0 + 365 * 0
    BY <2>1, YearFacts
  <2> QED
    BY <1>2, <1>3, <1>7, <2>2 DEF YearLength
<1>8. \/ d < 3
      \/ d = 3 /\ c < 24
      \/ d = 3 /\ c = 24 /\ b < 3
      \/ d = 3 /\ c = 24 /\ b = 3
  BY <1>2
<1> QED
  BY <1>4, <1>5, <1>6, <1>7, <1>8

\* The next month begins when the days of this one are over, and the last month
\* ends with the year.
LEMMA NextMonth ==
    ASSUME NEW year \in Nat \ {0}, NEW month \in 1..12
    PROVE  /\ DaysBeforeYear(year) \in Nat
           /\ DaysBeforeMonth(year, month) \in Nat /\ DaysInMonth(year, month) \in 1..31
           /\ DaysBeforeMonth(year, 1) = 0
           /\ month < 12 => DaysBeforeMonth(year, month + 1)
                            = DaysBeforeMonth(year, month) + DaysInMonth(year, month)
           /\ DaysBeforeMonth(year, month) + DaysInMonth(year, month) <= YearLength(year)
           /\ month = 12 => DaysBeforeMonth(year, month) + DaysInMonth(year, month)
                            = YearLength(year)
<1>1. PICK leap \in BOOLEAN : leap = IsLeapYear(year)
  BY LeapFacts
<1>2. ASSUME NEW m \in 1..12
      PROVE  /\ MonthIs(m, leap, DaysBeforeMonth(year, m), DaysInMonth(year, m))
             /\ DaysBeforeMonth(year, m) \in Nat /\ DaysInMonth(year, m) \in 1..31
  <2>1. year \in Int
    OBVIOUS
  <2> QED
    BY <1>1, <2>1, MonthOfYear, Zenon
<1>3. DaysBeforeMonth(year, 1) = 0
  BY <1>2 DEF MonthIs
<1>4. DaysBeforeYear(year) \in Nat
  <2>1. PICK a, b, c, d : Cycles(year, a, b, c, d)
    BY HasCycles
  <2>2. a \in Nat /\ b \in 0..3 /\ c \in 0..24 /\ d \in 0..3
    BY <2>1 DEF Cycles
  <2>3. DaysBeforeYear(year) = 146097 * a + 36524 * b + 1461 * c + 365 * d
    BY <2>1, YearFacts
  <2> QED
    BY ONLY <2>2, <2>3
<1>5. month < 12 => DaysBeforeMonth(year, month + 1)
                    = DaysBeforeMonth(year, month) + DaysInMonth(year, month)
  <2> SUFFICES ASSUME month < 12
               PROVE  DaysBeforeMonth(year, month + 1)
                      = DaysBeforeMonth(year, month) + DaysInMonth(year, month)
    OBVIOUS
  <2>1. PICK before, size, after, next :
            /\ before = DaysBeforeMonth(year, month) /\ size = DaysInMonth(year, month)
            /\ after = DaysBeforeMonth(year, month + 1) /\ next = DaysInMonth(year, month + 1)
    OBVIOUS
  <2>2. month + 1 \in 1..12
    BY ONLY month \in 1..12, month < 12
  <2>3. MonthIs(month, leap, before, size) /\ MonthIs(month + 1, leap, after, next)
    BY <1>2, <2>1, <2>2, Zenon
  <2>4. after = before + size
    BY ONLY <1>1, <2>3, month \in 1..12, month < 12 DEF MonthIs
  <2> QED
    BY <2>1, <2>4
<1>6. /\ DaysBeforeMonth(year, month) + DaysInMonth(year, month) <= YearLength(year)
      /\ month = 12 => DaysBeforeMonth(year, month) + DaysInMonth(year, month) = YearLength(year)
  <2>1. PICK before, size :
            before = DaysBeforeMonth(year, month) /\ size = DaysInMonth(year, month)
    OBVIOUS
  <2>2. MonthIs(month, leap, before, size)
    BY <1>2, <2>1
  <2>3. /\ before + size <= IF leap THEN 366 ELSE 365
        /\ month = 12 => before + size = IF leap THEN 366 ELSE 365
    BY ONLY <1>1, <2>2, month \in 1..12 DEF MonthIs
  <2> QED
    BY <1>1, <2>1, <2>3 DEF YearLength
<1> QED
  BY <1>2, <1>3, <1>4, <1>5, <1>6

\* Dates that follow each other have days that do.
LEMMA NextDate ==
    ASSUME NEW date \in Dates
    PROVE  EncodeLocalDate(NextDay(date)) = EncodeLocalDate(date) + 1
<1>1. PICK y, m, d : y = date.year /\ m = date.month /\ d = date.day
  OBVIOUS
<1>2. /\ date = [year |-> y, month |-> m, day |-> d]
      /\ y \in Nat \ {0} /\ m \in 1..12 /\ d \in 1..DaysInMonth(y, m)
  BY <1>1, DateFacts
<1>3. PICK start, before, size :
          start = DaysBeforeYear(y) /\ before = DaysBeforeMonth(y, m) /\ size = DaysInMonth(y, m)
  OBVIOUS
<1>4. start \in Nat /\ before \in Nat /\ size \in 1..31 /\ d \in 1..size /\ DateShift \in Nat
  <2>1. start \in Nat /\ before \in Nat /\ size \in 1..31
    BY <1>2, <1>3, NextMonth, Zenon
  <2> QED
    BY <1>2, <1>3, <2>1, ShiftFacts
<1>5. ASSUME NEW year, NEW month, NEW day
      PROVE  EncodeLocalDate([year |-> year, month |-> month, day |-> day])
             = (DaysBeforeYear(year) + DaysBeforeMonth(year, month) + day) - DateShift
  <2> DEFINE r == [year |-> year, month |-> month, day |-> day]
  <2>1. r.year = year /\ r.month = month /\ r.day = day
    OBVIOUS
  <2> HIDE DEF r
  <2>2. EncodeLocalDate(r) = Ymd2Ord(year, month, day) - DateShift
    BY <2>1 DEF EncodeLocalDate
  <2>3. Ymd2Ord(year, month, day) = DaysBeforeYear(year) + DaysBeforeMonth(year, month) + day
    BY DEF Ymd2Ord
  <2> QED
    BY <2>2, <2>3 DEF r
<1>6. EncodeLocalDate(date) = (start + before + d) - DateShift
  BY <1>2, <1>3, <1>5, Zenon
<1>7. CASE d < size
  <2>1. NextDay(date) = [year |-> y, month |-> m, day |-> d + 1]
    BY <1>1, <1>2, <1>3, <1>7 DEF NextDay
  <2>2. EncodeLocalDate(NextDay(date)) = (start + before + (d + 1)) - DateShift
    BY <1>3, <1>5, <2>1
  <2> QED
    BY <1>4, <1>6, <2>2
<1>8. CASE d = size /\ m < 12
  <2>1. NextDay(date) = [year |-> y, month |-> m + 1, day |-> 1]
    <3>1. ~(date.day < DaysInMonth(date.year, date.month)) /\ date.month < 12
      BY <1>1, <1>3, <1>4, <1>8
    <3>2. NextDay(date) = [date EXCEPT !.month = @ + 1, !.day = 1]
      BY <3>1, Zenon DEF NextDay
    <3> QED
      BY ONLY <1>2, <3>2
  <2>2. DaysBeforeMonth(y, m + 1) = before + size
    BY <1>2, <1>3, <1>8, NextMonth
  <2>3. EncodeLocalDate(NextDay(date)) = (start + (before + size) + 1) - DateShift
    BY <1>3, <1>5, <2>1, <2>2
  <2> QED
    BY <1>4, <1>6, <1>8, <2>3
<1>9. CASE d = size /\ m = 12
  <2>1. NextDay(date) = [year |-> y + 1, month |-> 1, day |-> 1]
    <3>1. ~(date.day < DaysInMonth(date.year, date.month)) /\ ~(date.month < 12)
      BY <1>1, <1>3, <1>4, <1>9
    <3>2. NextDay(date) = [year |-> date.year + 1, month |-> 1, day |-> 1]
      BY <3>1, Zenon DEF NextDay
    <3> QED
      BY ONLY <1>1, <3>2
  <2>2. DaysBeforeYear(y + 1) = start + (before + size)
    <3>1. before + size = YearLength(y)
      BY <1>2, <1>3, <1>9, NextMonth
    <3> QED
      BY <1>2, <1>3, <3>1, NextYear
  <2>3. DaysBeforeMonth(y + 1, 1) = 0
    BY <1>2, NextMonth
  <2>4. EncodeLocalDate(NextDay(date)) = ((start + (before + size)) + 0 + 1) - DateShift
    BY <1>5, <2>1, <2>2, <2>3
  <2> QED
    BY <1>4, <1>6, <1>9, <2>4
<1> QED
  BY <1>2, <1>4, <1>7, <1>8, <1>9

\* Every date from the year 1 on survives LocalDateCodec, is encoded as one
\* less than the date after it, and its day of the year, ymd2ord() without the
\* years before, is one of that year.
THEOREM DatesSurvive == ASSUME NEW date \in Dates PROVE DaySound(date)
<1>1. /\ date.year \in Nat \ {0} /\ date.month \in 1..12
      /\ date.day \in 1..DaysInMonth(date.year, date.month)
  BY DateFacts
<1>2. DayOfYear(date) \in 1..DaysInYear(date)
  <2>1. PICK before, size, all :
            /\ before = DaysBeforeMonth(date.year, date.month)
            /\ size = DaysInMonth(date.year, date.month)
            /\ all = DaysInYear(date)
    OBVIOUS
  <2>2. all = YearLength(date.year) /\ all \in Nat
    BY <2>1 DEF DaysInYear, YearLength
  <2>3. before \in Nat /\ size \in 1..31 /\ before + size <= YearLength(date.year)
    BY <1>1, <2>1, NextMonth, Zenon
  <2>4. before + date.day \in 1..all
    BY ONLY <1>1, <2>1, <2>2, <2>3
  <2> QED
    BY <2>1, <2>4 DEF DayOfYear
<1>3. DaysBeforeYear(date.year) + DayOfYear(date) = Ymd2Ord(date.year, date.month, date.day)
  <2>1. /\ DaysBeforeYear(date.year) \in Nat /\ DaysBeforeMonth(date.year, date.month) \in Nat
        /\ date.day \in Int
    BY <1>1, NextMonth
  <2> QED
    BY <2>1 DEF DayOfYear, Ymd2Ord
<1> QED
  BY <1>2, <1>3, DateSurvives, NextDate DEF DaySound

-----------------------------------------------------------------------------
(* Times.                                                                  *)

LEMMA UpToFacts == ASSUME NEW n \in Nat, NEW k \in UpTo(n) PROVE k \in Nat /\ k <= n
BY DEF UpTo

\* What new LocalTime() takes, but for the nanoseconds, which are not sent.
ClockTimes ==
    [hour : UpTo(23), minute : UpTo(59), second : UpTo(59), ms : UpTo(999), us : UpTo(999), ns : {0}]

\* The seconds of a time and the microseconds that are left.
IsClock(h, mi, s, ms, us, sec, part) ==
    /\ h \in Nat /\ h <= 23 /\ mi \in Nat /\ mi <= 59 /\ s \in Nat /\ s <= 59
    /\ ms \in Nat /\ ms <= 999 /\ us \in Nat /\ us <= 999
    /\ sec = h * 3600 + mi * 60 + s /\ part = ms * 1000 + us

LEMMA Clock ==
    ASSUME NEW h, NEW mi, NEW s, NEW ms, NEW us, NEW sec, NEW part,
           IsClock(h, mi, s, ms, us, sec, part)
    PROVE  /\ sec \in Nat /\ sec < 86400 /\ part \in Nat /\ part < Million
           /\ sec \div 3600 = h /\ (sec \div 60) \div 60 = h
           /\ (sec \div 60) % 60 = mi /\ sec % 60 = s
           /\ part \div 1000 = ms /\ part % 1000 = us
<1>1. sec \in Nat /\ sec < 86400 /\ part \in Nat /\ part < Million
  BY DEF IsClock, Million
<1>2. sec \div 60 = 60 * h + mi /\ sec % 60 = s /\ sec \div 3600 = h
  BY DEF IsClock
<1>3. (60 * h + mi) \div 60 = h /\ (60 * h + mi) % 60 = mi
  BY DEF IsClock
<1>4. part \div 1000 = ms /\ part % 1000 = us
  BY DEF IsClock
<1> QED
  BY <1>1, <1>2, <1>3, <1>4

\* The fields of a time, and its count of microseconds.
LEMMA TimeFacts ==
    ASSUME NEW time \in ClockTimes
    PROVE  \E sec, part :
              /\ IsClock(time.hour, time.minute, time.second, time.ms, time.us, sec, part)
              /\ TimeMicros(time) = [sec |-> sec, us |-> part]
              /\ LocalTime(time.hour, time.minute, time.second, time.ms, time.us, 0) = time
<1>1. PICK h, mi, s, ms, us : /\ h = time.hour /\ mi = time.minute /\ s = time.second
                              /\ ms = time.ms /\ us = time.us
  OBVIOUS
<1>2. /\ h \in UpTo(23) /\ mi \in UpTo(59) /\ s \in UpTo(59)
      /\ ms \in UpTo(999) /\ us \in UpTo(999)
      /\ time = [hour |-> h, minute |-> mi, second |-> s, ms |-> ms, us |-> us, ns |-> 0]
  BY <1>1 DEF ClockTimes
<1>3. PICK sec, part : sec = h * 3600 + mi * 60 + s /\ part = ms * 1000 + us
  OBVIOUS
<1>4. IsClock(h, mi, s, ms, us, sec, part)
  <2>1. h \in Nat /\ h <= 23 /\ mi \in Nat /\ mi <= 59 /\ s \in Nat /\ s <= 59
    BY <1>2, UpToFacts
  <2>2. ms \in Nat /\ ms <= 999 /\ us \in Nat /\ us <= 999
    BY <1>2, UpToFacts
  <2> QED
    BY <1>3, <2>1, <2>2 DEF IsClock
<1>5. sec + part \div Million = sec /\ part % Million = part
  <2>1. sec \in Nat /\ part \in Nat /\ part < Million
    BY <1>4, Clock
  <2> QED
    BY ONLY <2>1 DEF Million
<1>6. TimeMicros(time) = [sec |-> sec, us |-> part]
  <2>1. TimeMicros(time) = Micros(sec, part)
    BY <1>1, <1>3 DEF TimeMicros
  <2>2. Micros(sec, part) = [sec |-> sec + part \div Million, us |-> part % Million]
    BY DEF Micros
  <2> QED
    BY <1>5, <2>1, <2>2
<1>7. LocalTime(h, mi, s, ms, us, 0) = time
  <2>1. 0 \in UpTo(999)
    BY DEF UpTo
  <2> QED
    BY <1>2, <2>1 DEF LocalTime
<1> QED
  BY <1>1, <1>4, <1>6, <1>7

\* The days from 2000 on are no negative numbers.
LEMMA FromTheEpoch ==
    ASSUME NEW day \in Dates, day.year >= 2000
    PROVE  EncodeLocalDate(day) >= 0
<1>1. day.year \in Nat \ {0} /\ day.month \in 1..12 /\ day.day \in Nat \ {0}
  BY DEF Dates
<1>2. PICK before, n : before = DaysBeforeYear(day.year)
                      /\ n = DaysBeforeMonth(day.year, day.month) /\ n \in Nat
  BY <1>1, NextMonth
<1>3. PICK y : y = day.year - 1 /\ y \in Nat /\ y >= 1999
  BY <1>1
<1>4. before = y * 365 + (y \div 4) - (y \div 100) + (y \div 400)
  BY <1>1, <1>2, <1>3, YearDays
<1>5. before \in Int /\ before >= 1999 * 365 + 499 - 19 + 4
  BY ONLY <1>3, <1>4
<1>6. DaysBeforeYear(2000) = 1999 * 365 + 499 - 19 + 4
  <2>1. 2000 - 1 = 1999 /\ 1999 \div 4 = 499 /\ 1999 \div 100 = 19 /\ 1999 \div 400 = 4
    OBVIOUS
  <2>2. DaysBeforeYear(2000) = 1999 * 365 + (1999 \div 4) - (1999 \div 100) + (1999 \div 400)
    BY <2>1, YearDays
  <2> QED
    BY ONLY <2>1, <2>2
<1>7. DateShift = DaysBeforeYear(2000) + 0 + 1
  <2>1. 2000 \in Nat \ {0} /\ 1 \in 1..12
    OBVIOUS
  <2>2. DaysBeforeMonth(2000, 1) = 0
    BY <2>1, NextMonth
  <2> QED
    BY <2>2 DEF DateShift, Ymd2Ord
<1>8. EncodeLocalDate(day) = (before + n + day.day) - DateShift
  BY <1>2 DEF EncodeLocalDate, Ymd2Ord
<1>9. PICK d \in Nat \ {0} : d = day.day
  BY <1>1
<1>10. EncodeLocalDate(day) = (before + n + d) - (DaysBeforeYear(2000) + 0 + 1)
  BY <1>7, <1>8, <1>9
<1> QED
  BY ONLY <1>2, <1>5, <1>6, <1>9, <1>10

\* Every time of a day survives LocalTimeCodec, on every date LocalDateTimeCodec,
\* but before 2000 only a time of milliseconds, and as the milliseconds of a Date
\* DateTimeCodec.  NoDate, what throws, is none of the values.
THEOREM TimesSurvive ==
    ASSUME NEW day \in Dates, NEW time \in ClockTimes, NoDate \notin ClockTimes, NoDate \notin Dates
    PROVE  TimeSound(day, time)
<1>1. PICK h, mi, s, ms, us : /\ h = time.hour /\ mi = time.minute /\ s = time.second
                              /\ ms = time.ms /\ us = time.us
  OBVIOUS
<1>2. PICK sec, part : /\ IsClock(h, mi, s, ms, us, sec, part)
                       /\ TimeMicros(time) = [sec |-> sec, us |-> part]
                       /\ LocalTime(h, mi, s, ms, us, 0) = time
  BY <1>1, TimeFacts
<1>3. /\ ms \in Nat /\ ms <= 999 /\ us \in Nat
  BY <1>2 DEF IsClock
<1>4. /\ sec \in Nat /\ sec < 86400 /\ part \in Nat
      /\ sec \div 3600 = h /\ (sec \div 60) \div 60 = h
      /\ (sec \div 60) % 60 = mi /\ sec % 60 = s
      /\ part \div 1000 = ms /\ part % 1000 = us
  BY <1>2, Clock
<1>5. TimeMicros(time) = [sec |-> sec, us |-> part] /\ LocalTime(h, mi, s, ms, us, 0) = time
  BY <1>2
<1>6. DecodeLocalTime(EncodeLocalTime(time)) = time
  <2> DEFINE c == [sec |-> sec, us |-> part]
  <2>1. EncodeLocalTime(time) = c /\ c.sec = sec /\ c.us = part
    BY <1>5 DEF EncodeLocalTime
  <2> HIDE DEF c
  <2>2. DecodeLocalTime(c) = LocalTime((c.sec \div 60) \div 60, (c.sec \div 60) % 60, c.sec % 60,
                                       c.us \div 1000, c.us % 1000, 0)
    BY DEF DecodeLocalTime
  <2>3. DecodeLocalTime(c) = LocalTime(h, mi, s, ms, us, 0)
    BY <1>4, <2>1, <2>2
  <2> QED
    BY <1>5, <2>1, <2>3
<1>7. ASSUME day.year >= 2000 \/ time.us = 0
      PROVE  LET dt == LocalDateTime(day, time)
             IN  DecodeLocalDateTime(EncodeLocalDateTime(dt)) = dt
  <2>4. LocalDateTime(day, time) = [date |-> day, time |-> time]
    BY DEF LocalDateTime
  <2>5. PICK n : n = EncodeLocalDate(day) /\ n \in Int /\ DecodeLocalDate(n) = day
    BY DateSurvives
  <2>6. day.year >= 2000 => n >= 0
    BY <2>5, FromTheEpoch
  <2>7. ~(n < 0 /\ part % 1000 # 0)
    BY <1>1, <1>4, <1>7, <2>5, <2>6
  <2> DEFINE dt == [date |-> day, time |-> time]
             c  == [day |-> n, sec |-> sec, us |-> part]
  <2>8. EncodeLocalDateTime(dt) = c /\ c.day = n /\ c.sec = sec /\ c.us = part
    BY <1>5, <2>5 DEF EncodeLocalDateTime
  <2> HIDE DEF c
  <2>9. DecodeLocalDateTime(c) = LocalDateTime(DecodeLocalDate(n), LocalTime(h, mi, s, ms, us, 0))
    <3>1. us - 0 = us
      BY <1>3
    <3>2. DecodeLocalDateTime(c)
          = LocalDateTime(DecodeLocalDate(n),
                          LocalTime(sec \div 3600, (sec \div 60) % 60, sec % 60, part \div 1000,
                                    (part % 1000) - 0, 0))
      BY <2>7, <2>8 DEF DecodeLocalDateTime
    <3> QED
      BY <1>4, <3>1, <3>2
  <2> QED
    BY <1>5, <2>4, <2>5, <2>8, <2>9
<1>8. LET date == [day |-> EncodeLocalDate(day), sec |-> TimeMicros(time).sec, ms |-> time.ms]
      IN  DecodeDateTime(EncodeDateTime(date)) = date
  <2> PICK n \in Int : n = EncodeLocalDate(day)
    BY DateSurvives
  <2>1. [day |-> EncodeLocalDate(day), sec |-> TimeMicros(time).sec, ms |-> time.ms]
        = [day |-> n, sec |-> sec, ms |-> ms]
    BY <1>1, <1>5
  <2>2. EncodeDateTime([day |-> n, sec |-> sec, ms |-> ms])
        = [day |-> n, sec |-> sec, us |-> ms * 1000]
    BY DEF EncodeDateTime
  <2>3. /\ (ms * 1000) % 1000 = 0 /\ (ms * 1000) \div 1000 + 0 = ms
        /\ ms \div 1000 = 0 /\ ms % 1000 = ms
        /\ sec + 0 = sec /\ sec \div 86400 = 0 /\ sec % 86400 = sec /\ n + 0 = n
    BY <1>3, <1>4
  <2> DEFINE c == [day |-> n, sec |-> sec, us |-> ms * 1000]
  <2>4. c.day = n /\ c.sec = sec /\ c.us = ms * 1000
    OBVIOUS
  <2> HIDE DEF c
  <2>5. DecodeDateTime(c) = [day |-> n, sec |-> sec, ms |-> ms]
    BY <2>3, <2>4 DEF DecodeDateTime
  <2> QED
    BY <2>1, <2>2, <2>5 DEF c
<1> QED
  BY <1>1, <1>6, <1>7, <1>8 DEF TimeSound

-----------------------------------------------------------------------------
(* Durations.                                                              *)

\* The fields of a duration that new Duration() is asked for: integers.
Numbers == [FieldNames -> Int]

\* v has the absolute value a, and it has the sign.
Signed(sign, v, a) == a \in Nat /\ ((sign = 1 /\ v = a) \/ (sign = -1 /\ v = -a))

LEMMA NamesAre ==
    /\ FieldNames = {"years", "months", "weeks", "days", "hours", "minutes", "seconds", "ms", "us", "ns"}
    /\ {RelativeFields[i] : i \in DOMAIN RelativeFields}
       = {"years", "months", "weeks", "days", "hours", "minutes", "seconds", "ms", "us"}
BY DEF FieldNames, RelativeFields, DurationFields, DateFields, TimeFields

LEMMA ValuesAre ==
    ASSUME NEW d
    PROVE  /\ ValuesOf(d, DurationFields) = {d.years, d.months, d.weeks, d.days, d.hours,
                                             d.minutes, d.seconds, d.ms, d.us, d.ns}
           /\ ValuesOf(d, DateFields) = {d.years, d.months, d.weeks, d.days}
           /\ ValuesOf(d, DateFields \o <<"hours", "minutes">>)
              = {d.years, d.months, d.weeks, d.days, d.hours, d.minutes}
BY DEF RelativeFields, DurationFields, DateFields, TimeFields, ValuesOf

LEMMA SignedFacts ==
    ASSUME NEW sign, NEW v, NEW a, Signed(sign, v, a)
    PROVE  /\ sign \in {-1, 1} /\ a \in Nat /\ v \in Int
           /\ Abs(v) = a /\ sign * a = v
           /\ v = 0 <=> a = 0
BY DEF Signed, Abs

InNanoseconds(sec, us, ns) == sec * 1000000000 + us * 1000 + ns

\* Seconds, microseconds and nanoseconds of one sum carry to the same.
LEMMA Carried ==
    ASSUME NEW sec \in Int, NEW us \in Int, NEW ns \in Int, NEW n,
           n = InNanoseconds(sec, us, ns)
    PROVE  /\ Micros(sec, us + ns \div 1000) = [sec |-> n \div 1000000000, us |-> (n % 1000000000) \div 1000]
           /\ ns % 1000 = n % 1000
<1>1. PICK q, r : q = us + ns \div 1000 /\ r = ns % 1000
  OBVIOUS
<1>2. q \in Int /\ r \in Nat /\ r < 1000 /\ n = sec * 1000000000 + q * 1000 + r
  BY <1>1 DEF InNanoseconds
<1>3. PICK a, b : a = q \div 1000000 /\ b = q % 1000000
  OBVIOUS
<1>4. a \in Int /\ b \in Nat /\ b < 1000000 /\ q = 1000000 * a + b
  BY <1>2, <1>3
<1>5. n = (sec + a) * 1000000000 + (b * 1000 + r)
  BY <1>2, <1>4
<1>6. n \in Int /\ n \div 1000000000 = sec + a /\ n % 1000000000 = b * 1000 + r
  BY ONLY <1>2, <1>4, <1>5
<1>7. (b * 1000 + r) \div 1000 = b /\ n % 1000 = r
  BY ONLY <1>2, <1>4, <1>5
<1>8. Micros(sec, q) = [sec |-> sec + a, us |-> b]
  BY ONLY <1>3, SMT DEF Micros, Million
<1> QED
  BY ONLY <1>1, <1>6, <1>7, <1>8, SMT

\* A time is told by the number of its nanoseconds.
IsTold(n, sec, ms, us, ns) ==
    /\ sec \in Int /\ ms \in Int /\ us \in Int /\ ns \in Int
    /\ n = sec * 1000000000 + ms * 1000000 + us * 1000 + ns

LEMMA ElapsedIs ==
    ASSUME NEW sec, NEW ms, NEW us, NEW ns, NEW n, IsTold(n, sec, ms, us, ns)
    PROVE  Elapsed(sec, ms, us, ns)
           = [count |-> [sec |-> n \div 1000000000, us |-> (n % 1000000000) \div 1000], ns |-> n % 1000]
<1>1. PICK a, b : a = ms \div 1000 /\ b = ms % 1000
  OBVIOUS
<1>2. a \in Int /\ b \in Int /\ ms = 1000 * a + b
  <2>1. ms \in Int
    BY DEF IsTold
  <2> QED
    BY ONLY <1>1, <2>1, SMT
<1>3. PICK s, u : s = sec + a /\ u = b * 1000 + us
  OBVIOUS
<1>4. s \in Int /\ u \in Int /\ n = InNanoseconds(s, u, ns)
  BY <1>2, <1>3, SMT DEF InNanoseconds, IsTold
<1>5. /\ Micros(s, u + ns \div 1000) = [sec |-> n \div 1000000000, us |-> (n % 1000000000) \div 1000]
      /\ ns % 1000 = n % 1000
  BY <1>4, Carried DEF IsTold
<1> QED
  BY <1>1, <1>3, <1>5 DEF Elapsed

\* new Duration() takes what has one sign, and keeps it.
LEMMA OfOneSign ==
    ASSUME NEW d, NEW sign,
           \A v \in ValuesOf(d, DurationFields) : \E a : Signed(sign, v, a)
    PROVE  Duration(d) = d
<1>1. \A v \in ValuesOf(d, DurationFields) :
          v \in Int /\ (sign = 1 => v >= 0) /\ (sign = -1 => v <= 0) /\ sign \in {-1, 1}
  BY DEF Signed
<1>2. ~\E v, w \in ValuesOf(d, DurationFields) : v < 0 /\ w > 0
  BY <1>1
<1> QED
  BY <1>2 DEF Duration, OneSign

LEMMA OfMixedSigns ==
    ASSUME NEW d \in Numbers, Mixed(d, FieldNames)
    PROVE  Duration(d) = NoDate
<1>1. PICK f \in FieldNames, g \in FieldNames : d[f] < 0 /\ d[g] > 0
  BY DEF Mixed
<1>2. d[f] \in ValuesOf(d, DurationFields) /\ d[g] \in ValuesOf(d, DurationFields)
  BY DEF ValuesOf, FieldNames
<1> QED
  BY <1>1, <1>2 DEF Duration, OneSign

\* The sign of a duration is the one of every field.
LEMMA HasSign ==
    ASSUME NEW d \in Numbers, ~Mixed(d, FieldNames)
    PROVE  \E sign \in {-1, 1} :
              /\ \A f \in FieldNames : Signed(sign, d[f], Abs(d[f]))
              /\ SignOf(d) = -1 <=> sign = -1
<1> DEFINE V == ValuesOf(d, DurationFields)
<1>1. V = {d[f] : f \in FieldNames}
  BY DEF ValuesOf, FieldNames
<1>2. V \subseteq Int /\ \A v, w \in V : ~(v < 0 /\ w > 0)
  BY <1>1 DEF Numbers, Mixed
<1>3. SignOf(d) = IF \E v \in V : v # 0 THEN Sign(CHOOSE v \in V : v # 0) ELSE 0
  BY DEF SignOf
<1>4. \A f \in FieldNames : d[f] \in V
  BY <1>1
<1> HIDE DEF V
<1>5. CASE \E v \in V : v # 0
  <2>1. PICK v \in V : v # 0 /\ SignOf(d) = Sign(v)
    BY <1>3, <1>5
  <2>2. CASE v < 0
    <3>1. SignOf(d) = -1
      BY <1>2, <2>1, <2>2 DEF Sign
    <3>2. \A w \in V : w \in Int /\ ~(w > 0)
      BY <1>2, <2>2
    <3>3. \A w \in V : Signed(-1, w, Abs(w))
      BY <3>2 DEF Signed, Abs
    <3> QED
      BY <1>4, <3>1, <3>3
  <2>3. CASE ~(v < 0)
    <3>1. v > 0 /\ SignOf(d) = 1
      BY <1>2, <2>1, <2>3 DEF Sign
    <3>2. \A w \in V : w \in Int /\ ~(w < 0)
      BY <1>2, <3>1
    <3>3. \A w \in V : Signed(1, w, Abs(w))
      BY <3>2 DEF Signed, Abs
    <3> QED
      BY <1>4, <3>1, <3>3
  <2> QED
    BY <2>2, <2>3
<1>6. CASE ~\E v \in V : v # 0
  <2>1. SignOf(d) = 0
    BY <1>3, <1>6
  <2>2. \A w \in V : Signed(1, w, Abs(w))
    BY <1>6 DEF Signed, Abs
  <2> QED
    BY <1>4, <2>1, <2>2
<1> QED
  BY <1>5, <1>6

\* The duration of sign, and of fields of these absolute values.
Made(sign, y, mo, w, da, h, mi, s, ms, us, ns) ==
    [years |-> sign * y, months |-> sign * mo, weeks |-> sign * w, days |-> sign * da,
     hours |-> sign * h, minutes |-> sign * mi, seconds |-> sign * s,
     ms |-> sign * ms, us |-> sign * us, ns |-> sign * ns]

IsMade(r, sign, y, mo, w, da, h, mi, s, ms, us, ns) ==
    /\ y \in Nat /\ mo \in Nat /\ w \in Nat /\ da \in Nat /\ h \in Nat
    /\ mi \in Nat /\ s \in Nat /\ ms \in Nat /\ us \in Nat /\ ns \in Nat
    /\ sign \in {-1, 1} /\ r = Made(sign, y, mo, w, da, h, mi, s, ms, us, ns)

LEMMA MadeFacts ==
    ASSUME NEW r, NEW sign, NEW y, NEW mo, NEW w, NEW da, NEW h, NEW mi, NEW s, NEW ms, NEW us, NEW ns,
           IsMade(r, sign, y, mo, w, da, h, mi, s, ms, us, ns)
    PROVE  Duration(r) = r /\ \A f \in FieldNames : \E a : Signed(sign, r[f], a)
<1>1. \A a \in Nat : Signed(sign, sign * a, a)
  BY DEF Signed, IsMade
<1>2. /\ r.years = sign * y /\ r.months = sign * mo /\ r.weeks = sign * w /\ r.days = sign * da
      /\ r.hours = sign * h /\ r.minutes = sign * mi /\ r.seconds = sign * s
      /\ r.ms = sign * ms /\ r.us = sign * us /\ r.ns = sign * ns
  BY DEF Made, IsMade
<1>3. /\ Signed(sign, r.years, y) /\ Signed(sign, r.months, mo) /\ Signed(sign, r.weeks, w)
      /\ Signed(sign, r.days, da) /\ Signed(sign, r.hours, h) /\ Signed(sign, r.minutes, mi)
      /\ Signed(sign, r.seconds, s) /\ Signed(sign, r.ms, ms) /\ Signed(sign, r.us, us)
      /\ Signed(sign, r.ns, ns)
  BY <1>1, <1>2 DEF IsMade
<1>4. \A v \in ValuesOf(r, DurationFields) : \E a : Signed(sign, v, a)
  BY ONLY <1>3, ValuesAre
<1>5. \A f \in FieldNames : \E a : Signed(sign, r[f], a)
  BY ONLY <1>3, NamesAre
<1> QED
  BY <1>4, <1>5, OfOneSign

-----------------------------------------------------------------------------
\* A part of a text that is not written counts as zero.
Count(part) == IF part = NoDate THEN 0 ELSE part

LEMMA CountFacts ==
    ASSUME NoDate \notin Int, NEW a \in Nat
    PROVE  /\ Count(NoDate) = 0 /\ Count(a) = a
           /\ Count(IF a = 0 THEN NoDate ELSE a) = a
BY DEF Count

\* The parts of the text of a duration.
LEMMA TextIs ==
    ASSUME NoDate \notin Int, NEW d \in Numbers, NEW t, t = DurationText(d),
           NEW n, n = Nanoseconds(d)
    PROVE  /\ t.negative <=> SignOf(d) = -1
           /\ n = Abs(d.ms) * 1000000 + Abs(d.us) * 1000 + Abs(d.ns) /\ n \in Nat
           /\ Count(t.years) = Abs(d.years) /\ Count(t.months) = Abs(d.months)
           /\ Count(t.weeks) = Abs(d.weeks) /\ Count(t.days) = Abs(d.days)
           /\ Count(t.hours) = Abs(d.hours) /\ Count(t.minutes) = Abs(d.minutes)
           /\ Count(t.seconds) = Abs(d.seconds) + n \div 1000000000
           /\ Count(t.fSeconds) = n % 1000000000
           /\ n = 0 => t.fSeconds = NoDate
           /\ t.fHours = NoDate /\ t.fMinutes = NoDate
<1>1. \A f \in FieldNames : d[f] \in Int /\ Abs(d[f]) \in Nat /\ (Abs(d[f]) = 0 <=> d[f] = 0)
  BY DEF Numbers, Abs
<1>2. n = Abs(d.ms) * 1000000 + Abs(d.us) * 1000 + Abs(d.ns)
  BY DEF Nanoseconds, Million
<1>3. Abs(d.ms) \in Nat /\ Abs(d.us) \in Nat /\ Abs(d.ns) \in Nat
  BY <1>1, NamesAre
<1>4. n \in Nat
  BY ONLY <1>2, <1>3, SMT
<1>5. PICK secs \in BOOLEAN :
         secs <=> (\A v \in ValuesOf(d, DateFields \o <<"hours", "minutes">>) : v = 0)
                  \/ d.seconds # 0 \/ n # 0
  OBVIOUS
<1>6. PICK total, k : total = Abs(d.seconds) + n \div Billion /\ k = n % Billion
  OBVIOUS
<1>7. total = Abs(d.seconds) + n \div 1000000000 /\ k = n % 1000000000
  BY ONLY <1>6, SMT DEF Billion
<1>8. /\ t.years = (IF d.years = 0 THEN NoDate ELSE Abs(d.years))
      /\ t.months = (IF d.months = 0 THEN NoDate ELSE Abs(d.months))
      /\ t.weeks = (IF d.weeks = 0 THEN NoDate ELSE Abs(d.weeks))
      /\ t.days = (IF d.days = 0 THEN NoDate ELSE Abs(d.days))
      /\ t.hours = (IF d.hours = 0 THEN NoDate ELSE Abs(d.hours))
      /\ t.minutes = (IF d.minutes = 0 THEN NoDate ELSE Abs(d.minutes))
      /\ t.fHours = NoDate /\ t.fMinutes = NoDate
  BY DEF DurationText
<1>9. t.negative <=> SignOf(d) = -1
  BY DEF DurationText
<1>10. t.seconds = IF secs THEN total ELSE NoDate
  BY <1>5, <1>6 DEF DurationText
<1>11. t.fSeconds = IF secs /\ k # 0 THEN k ELSE NoDate
  BY <1>5, <1>6 DEF DurationText
<1>12. /\ k \in Nat /\ total \in Nat
       /\ n = 0 => k = 0
       /\ n = 0 /\ d.seconds = 0 => total = 0
  <2>1. Abs(d.seconds) \in Nat /\ (d.seconds = 0 => Abs(d.seconds) = 0)
    BY <1>1, NamesAre
  <2>2. n \div 1000000000 \in Nat /\ n % 1000000000 \in Nat
        /\ (n = 0 => n \div 1000000000 = 0 /\ n % 1000000000 = 0)
    BY ONLY <1>4, SMT
  <2> QED
    BY ONLY <1>7, <2>1, <2>2, SMT
<1>13. ~secs => total = 0 /\ k = 0
  BY ONLY <1>5, <1>12
<1>14. Count(t.seconds) = total
  BY <1>10, <1>12, <1>13 DEF Count
<1>15. Count(t.fSeconds) = k
  BY <1>11, <1>12, <1>13 DEF Count
<1>16. \A f \in FieldNames : Count(IF d[f] = 0 THEN NoDate ELSE Abs(d[f])) = Abs(d[f])
  BY <1>1, CountFacts DEF Count
<1>17. /\ Count(t.years) = Abs(d.years) /\ Count(t.months) = Abs(d.months)
       /\ Count(t.weeks) = Abs(d.weeks) /\ Count(t.days) = Abs(d.days)
       /\ Count(t.hours) = Abs(d.hours) /\ Count(t.minutes) = Abs(d.minutes)
  BY <1>8, <1>16, NamesAre
<1> QED
  BY <1>2, <1>4, <1>7, <1>8, <1>9, <1>11, <1>12, <1>14, <1>15, <1>17

\* The text of a duration says what it adds up to.
LEMMA TextMeans ==
    ASSUME NoDate \notin Int, NEW d \in Numbers
    PROVE  Meant(DurationText(d)) = Amount(d)
<1>1. PICK t, n, k : t = DurationText(d) /\ n = Nanoseconds(d) /\ k = n % 1000000000
  OBVIOUS
<1>2. /\ n = Abs(d.ms) * 1000000 + Abs(d.us) * 1000 + Abs(d.ns) /\ n \in Nat
      /\ Count(t.years) = Abs(d.years) /\ Count(t.months) = Abs(d.months)
      /\ Count(t.weeks) = Abs(d.weeks) /\ Count(t.days) = Abs(d.days)
      /\ Count(t.hours) = Abs(d.hours) /\ Count(t.minutes) = Abs(d.minutes)
      /\ Count(t.seconds) = Abs(d.seconds) + n \div 1000000000
      /\ Count(t.fSeconds) = k
      /\ t.fHours = NoDate /\ t.fMinutes = NoDate
  BY <1>1, TextIs
<1>3. \A f \in FieldNames : Abs(d[f]) \in Nat
  BY DEF Numbers, Abs
<1>4. PICK h, mi, s, ms, us, ns :
         /\ h = Abs(d.hours) /\ mi = Abs(d.minutes) /\ s = Abs(d.seconds)
         /\ ms = Abs(d.ms) /\ us = Abs(d.us) /\ ns = Abs(d.ns)
  OBVIOUS
<1>5. h \in Nat /\ mi \in Nat /\ s \in Nat /\ ms \in Nat /\ us \in Nat /\ ns \in Nat
  BY <1>3, <1>4, NamesAre
<1>6. PICK sec, lo, a, b, c :
         /\ lo = h * 3600 + mi * 60 + s
         /\ sec = h * 3600 + mi * 60 + (s + n \div 1000000000)
         /\ a = k \div 1000000 /\ b = (k \div 1000) % 1000 /\ c = k % 1000
  OBVIOUS
<1>7. /\ sec \in Int /\ lo \in Int /\ a \in Int /\ b \in Int /\ c \in Int
      /\ sec * 1000000000 + a * 1000000 + b * 1000 + c = lo * 1000000000 + n
  <2>1. PICK q : q = n \div 1000000000
    OBVIOUS
  <2>2. q \in Nat /\ k \in Nat /\ n = q * 1000000000 + k
    BY ONLY <1>1, <1>2, <2>1, SMT
  <2>3. sec = lo + q /\ lo \in Nat
    BY ONLY <1>5, <1>6, <2>1, <2>2, SMT
  <2>4. /\ a \in Nat /\ b \in Nat /\ c \in Nat /\ a * 1000000 + b * 1000 + c = k
    <3>1. PICK m : m = k \div 1000
      OBVIOUS
    <3>2. m \in Nat /\ c \in Nat /\ k = m * 1000 + c
      BY ONLY <1>6, <2>2, <3>1, SMT
    <3>3. b \in Nat /\ b < 1000 /\ b = m % 1000
      BY ONLY <1>6, <3>1, <3>2, SMT
    <3>4. a = m \div 1000
      BY ONLY <1>6, <2>2, <3>1, SMT
    <3> QED
      BY ONLY <3>2, <3>3, <3>4, SMT
  <2> QED
    BY ONLY <2>2, <2>3, <2>4, SMT
<1>8. PICK m : m = lo * 1000000000 + n
  OBVIOUS
<1>9. Elapsed(sec, a, b, c)
      = [count |-> [sec |-> m \div 1000000000, us |-> (m % 1000000000) \div 1000], ns |-> m % 1000]
  <2>1. IsTold(m, sec, a, b, c)
    BY ONLY <1>7, <1>8, SMT DEF IsTold
  <2> QED
    BY ONLY <2>1, ElapsedIs
<1>10. Elapsed(lo, ms, us, ns)
       = [count |-> [sec |-> m \div 1000000000, us |-> (m % 1000000000) \div 1000], ns |-> m % 1000]
  <2>1. n = ms * 1000000 + us * 1000 + ns
    BY <1>2, <1>4
  <2>2. IsTold(m, lo, ms, us, ns)
    BY ONLY <1>5, <1>7, <1>8, <2>1, SMT DEF IsTold
  <2> QED
    BY ONLY <2>2, ElapsedIs
<1>11. Amount(d) = <<Abs(d.years), Abs(d.months), Abs(d.weeks), Abs(d.days), Elapsed(lo, ms, us, ns)>>
  <2>1. ns - 0 = ns
    BY <1>5
  <2> QED
    BY <1>4, <1>6, <2>1 DEF Amount, AmountLess
<1>12. Meant(t) = <<Abs(d.years), Abs(d.months), Abs(d.weeks), Abs(d.days), Elapsed(sec, a, b, c)>>
  <2> DEFINE Unit == IF t.fHours # NoDate THEN 3600 ELSE IF t.fMinutes # NoDate THEN 60 ELSE 1
             Frac == Count(t.fHours) + Count(t.fMinutes) + Count(t.fSeconds)
             Says(u, f) ==
                 <<Count(t.years), Count(t.months), Count(t.weeks), Count(t.days),
                   Elapsed(Count(t.hours) * 3600 + Count(t.minutes) * 60 + Count(t.seconds),
                           u * (f \div Million), u * ((f \div 1000) % 1000), u * (f % 1000))>>
  <2>1. Meant(t) = Says(Unit, Frac)
    BY Zenon DEF Meant, Count
  <2>2. Unit = 1 /\ Frac = k
    <3>1. Count(NoDate) = 0 /\ k \in Nat
      BY <1>1, <1>2 DEF Count
    <3> QED
      BY <1>2, <3>1
  <2>3. 1 * (k \div Million) = a /\ 1 * ((k \div 1000) % 1000) = b /\ 1 * (k % 1000) = c
    BY <1>6, <1>7, SMT DEF Million
  <2>4. Says(1, k) = <<Abs(d.years), Abs(d.months), Abs(d.weeks), Abs(d.days), Elapsed(sec, a, b, c)>>
    BY <1>2, <1>4, <1>6, <2>3
  <2> HIDE DEF Says, Unit, Frac
  <2> QED
    BY <2>1, <2>2, <2>4
<1> QED
  BY <1>1, <1>9, <1>10, <1>11, <1>12

\* What Duration.from() makes of a text that has no fraction: its doubles are whole.
LEMMA FromIs ==
    ASSUME NEW t, NEW sign \in {-1, 1}, t.negative <=> sign = -1, Timed(t),
           t.fHours = NoDate, t.fMinutes = NoDate, t.fSeconds = NoDate
    PROVE  DurationFrom(t) =
              Duration(Made(sign, Count(t.years), Count(t.months), Count(t.weeks), Count(t.days),
                            Count(t.hours), Count(t.minutes), Count(t.seconds), 0, 0, 0))
<1>1. sign = IF t.negative THEN -1 ELSE 1
  OBVIOUS
<1>2. /\ \A n : Floor(Integral(n)) = n /\ Fraction(Integral(n)) = Zero
      /\ Fraction(Zero) = Zero /\ Floor(Zero) = 0 /\ Integral(0) = Zero
      /\ Product(Zero, 60) = Zero /\ Product(Zero, 1000) = Zero
  BY DEF Floor, Integral, Fraction, Zero, Product
<1>3. PICK minutes, seconds, ms, us, ns :
          /\ minutes = (IF t.fHours # NoDate THEN Product(Number(t.fHours), 60) ELSE Integral(Count(t.minutes)))
          /\ seconds = (IF t.fMinutes # NoDate THEN Product(Number(t.fMinutes), 60)
                        ELSE IF t.seconds # NoDate THEN Integral(t.seconds)
                        ELSE Product(Fraction(minutes), 60))
          /\ ms = Product(IF t.fSeconds # NoDate THEN Number(t.fSeconds) ELSE Fraction(seconds), 1000)
          /\ us = Product(Fraction(ms), 1000) /\ ns = Product(Fraction(us), 1000)
  OBVIOUS
<1>4. minutes = Integral(Count(t.minutes)) /\ seconds = Integral(Count(t.seconds))
  BY <1>2, <1>3 DEF Count
<1>5. ms = Zero /\ us = Zero /\ ns = Zero
  BY <1>2, <1>3, <1>4
<1>6. Fractional(t)
  BY DEF Fractional
<1>7. DurationFrom(t) =
          Duration(Made(sign, Count(t.years), Count(t.months), Count(t.weeks), Count(t.days),
                        Count(t.hours), Floor(minutes), Floor(seconds), Floor(ms), Floor(us), Floor(ns)))
  <2> DEFINE Minutes == IF t.fHours # NoDate THEN Product(Number(t.fHours), 60) ELSE Integral(Count(t.minutes))
             Seconds(m) == IF t.fMinutes # NoDate THEN Product(Number(t.fMinutes), 60)
                           ELSE IF t.seconds # NoDate THEN Integral(t.seconds)
                           ELSE Product(Fraction(m), 60)
             Millis(s) == Product(IF t.fSeconds # NoDate THEN Number(t.fSeconds) ELSE Fraction(s), 1000)
             Result(sg, m, s, l, u, n) ==
                 IF ~Timed(t) \/ ~Fractional(t) THEN NoDate
                 ELSE Duration(Made(sg, Count(t.years), Count(t.months), Count(t.weeks), Count(t.days),
                                    Count(t.hours), Floor(m), Floor(s), Floor(l), Floor(u), Floor(n)))
             Ms == Millis(Seconds(Minutes))
             Us == Product(Fraction(Ms), 1000)
  <2>1. DurationFrom(t) = Result(IF t.negative THEN -1 ELSE 1, Minutes, Seconds(Minutes), Ms, Us,
                                 Product(Fraction(Us), 1000))
    BY Zenon DEF DurationFrom, Count, Made
  <2>2. Minutes = minutes /\ Seconds(minutes) = seconds /\ Millis(seconds) = ms
    BY <1>3
  <2> HIDE DEF Result, Minutes, Seconds, Millis
  <2>3. DurationFrom(t) = Result(sign, minutes, seconds, ms, us, ns)
    BY <1>1, <1>3, <2>1, <2>2
  <2> QED
    BY <1>6, <2>3 DEF Result
<1> QED
  BY <1>2, <1>4, <1>5, <1>7

\* A duration of whole seconds is read back from its text.
LEMMA WholeIsRead ==
    ASSUME NoDate \notin Int, NEW d \in Numbers, NEW sign \in {-1, 1},
           \A f \in FieldNames : Signed(sign, d[f], Abs(d[f])), SignOf(d) = -1 <=> sign = -1,
           NEW t, t = DurationText(d), Timed(t), d.ms = 0, d.us = 0, d.ns = 0
    PROVE  DurationFrom(t) = d
<1>1. \A f \in FieldNames : Abs(d[f]) \in Nat /\ d[f] \in Int /\ sign * Abs(d[f]) = d[f]
  BY SignedFacts
<1>2. /\ Abs(d.years) \in Nat /\ Abs(d.months) \in Nat /\ Abs(d.weeks) \in Nat /\ Abs(d.days) \in Nat
      /\ Abs(d.hours) \in Nat /\ Abs(d.minutes) \in Nat /\ Abs(d.seconds) \in Nat
      /\ sign * Abs(d.years) = d.years /\ sign * Abs(d.months) = d.months
      /\ sign * Abs(d.weeks) = d.weeks /\ sign * Abs(d.days) = d.days
      /\ sign * Abs(d.hours) = d.hours /\ sign * Abs(d.minutes) = d.minutes
      /\ sign * Abs(d.seconds) = d.seconds
  BY ONLY <1>1, NamesAre
<1>3. PICK n : n = Nanoseconds(d)
  OBVIOUS
<1>4. /\ n = Abs(d.ms) * 1000000 + Abs(d.us) * 1000 + Abs(d.ns) /\ n \in Nat
      /\ Count(t.years) = Abs(d.years) /\ Count(t.months) = Abs(d.months)
      /\ Count(t.weeks) = Abs(d.weeks) /\ Count(t.days) = Abs(d.days)
      /\ Count(t.hours) = Abs(d.hours) /\ Count(t.minutes) = Abs(d.minutes)
      /\ Count(t.seconds) = Abs(d.seconds) + n \div 1000000000
      /\ t.fHours = NoDate /\ t.fMinutes = NoDate
      /\ n = 0 => t.fSeconds = NoDate
      /\ t.negative <=> SignOf(d) = -1
  BY <1>3, TextIs
<1>5. n = 0
  <2>1. Abs(d.ms) = 0 /\ Abs(d.us) = 0 /\ Abs(d.ns) = 0
    BY DEF Abs
  <2> QED
    BY <1>4, <2>1
<1>6. Count(t.seconds) = Abs(d.seconds)
  BY ONLY <1>2, <1>4, <1>5, SMT
<1>7. PICK made : made = Made(sign, Abs(d.years), Abs(d.months), Abs(d.weeks), Abs(d.days),
                              Abs(d.hours), Abs(d.minutes), Abs(d.seconds), 0, 0, 0)
  OBVIOUS
<1>8. DurationFrom(t) = Duration(made)
  BY <1>4, <1>5, <1>6, <1>7, FromIs
<1>9. Duration(made) = made
  <2>1. IsMade(made, sign, Abs(d.years), Abs(d.months), Abs(d.weeks), Abs(d.days), Abs(d.hours),
               Abs(d.minutes), Abs(d.seconds), 0, 0, 0)
    BY <1>2, <1>7 DEF IsMade
  <2> QED
    BY ONLY <2>1, MadeFacts
<1>10. made = d
  <2>1. /\ made.years = d.years /\ made.months = d.months /\ made.weeks = d.weeks
        /\ made.days = d.days /\ made.hours = d.hours /\ made.minutes = d.minutes
        /\ made.seconds = d.seconds /\ made.ms = d.ms /\ made.us = d.us /\ made.ns = d.ns
    <3>1. sign * 0 = 0
      OBVIOUS
    <3> QED
      BY <1>2, <1>7, <3>1 DEF Made
  <2>2. \A f \in FieldNames : made[f] = d[f]
    BY ONLY <2>1, NamesAre
  <2>3. made = [f \in FieldNames |-> made[f]]
    BY ONLY <1>7, NamesAre DEF Made
  <2>4. d = [f \in FieldNames |-> d[f]]
    BY DEF Numbers
  <2> QED
    BY ONLY <2>2, <2>3, <2>4
<1> QED
  BY <1>8, <1>9, <1>10

-----------------------------------------------------------------------------
\* A count of microseconds; it has a sign, or is zero.
IsCount(c) == c = [sec |-> c.sec, us |-> c.us] /\ c.sec \in Int /\ c.us \in Nat /\ c.us < 1000000
HasCountSign(sign, c) == \/ sign = 1 /\ c.sec >= 0
                         \/ sign = -1 /\ (c.sec < 0 \/ (c.sec = 0 /\ c.us = 0))

\* The fields of a time are numbers of one sign.
IsTime(part, sign, h, mi, s, ms, us) ==
    /\ h \in Nat /\ mi \in Nat /\ s \in Nat /\ ms \in Nat /\ us \in Nat /\ sign \in {-1, 1}
    /\ part.hours = sign * h /\ part.minutes = sign * mi /\ part.seconds = sign * s
    /\ part.ms = sign * ms /\ part.us = sign * us

LEMMA MicrosAre ==
    ASSUME NEW part, NEW sign, NEW h, NEW mi, NEW s, NEW ms, NEW us,
           IsTime(part, sign, h, mi, s, ms, us),
           NEW c, c = DurationMicros(part)
    PROVE  /\ IsCount(c) /\ HasCountSign(sign, c)
           /\ c.sec * 1000000 + c.us = sign * (3600000000 * h + 60000000 * mi + 1000000 * s + 1000 * ms + us)
<1>1. PICK sec, micro : /\ sec = part.hours * 3600 + part.minutes * 60 + part.seconds
                        /\ micro = part.ms * 1000 + part.us
  OBVIOUS
<1>2. c = [sec |-> sec + micro \div 1000000, us |-> micro % 1000000]
  BY <1>1, SMT DEF DurationMicros, Micros, Million
<1>3. PICK q, r : q = micro \div 1000000 /\ r = micro % 1000000
  OBVIOUS
<1>4. c = [sec |-> sec + q, us |-> r] /\ c.sec = sec + q /\ c.us = r
  BY ONLY <1>2, <1>3
<1>5. h \in Nat /\ mi \in Nat /\ s \in Nat /\ ms \in Nat /\ us \in Nat /\ (sign = 1 \/ sign = -1)
  BY DEF IsTime
<1>6. CASE sign = 1
  <2>1. sec = h * 3600 + mi * 60 + s /\ micro = ms * 1000 + us
    BY ONLY <1>1, <1>5, <1>6, IsTime(part, sign, h, mi, s, ms, us), SMT DEF IsTime
  <2>2. micro \in Nat /\ sec \in Nat
    BY ONLY <1>5, <2>1, SMT
  <2>3. q \in Nat /\ r \in Nat /\ r < 1000000 /\ micro = 1000000 * q + r
    BY ONLY <1>3, <2>2, SMT
  <2>4. IsCount(c) /\ HasCountSign(1, c)
    BY ONLY <1>4, <2>2, <2>3, SMT DEF IsCount, HasCountSign
  <2>5. (sec + q) * 1000000 + r
        = 3600000000 * h + 60000000 * mi + 1000000 * s + 1000 * ms + us
    BY ONLY <1>5, <2>1, <2>2, <2>3, SMT
  <2>6. 1 * (3600000000 * h + 60000000 * mi + 1000000 * s + 1000 * ms + us)
        = 3600000000 * h + 60000000 * mi + 1000000 * s + 1000 * ms + us
    BY ONLY <1>5, SMT
  <2> QED
    BY ONLY <1>4, <1>6, <2>4, <2>5, <2>6, SMT
<1>7. CASE sign = -1
  <2>1. sec = -(h * 3600 + mi * 60 + s) /\ micro = -(ms * 1000 + us)
    BY ONLY <1>1, <1>5, <1>7, IsTime(part, sign, h, mi, s, ms, us), SMT DEF IsTime
  <2>2. micro \in Int /\ sec \in Int /\ micro <= 0 /\ sec <= 0
    BY ONLY <1>5, <2>1, SMT
  <2>3. q \in Int /\ r \in Nat /\ r < 1000000 /\ micro = 1000000 * q + r
    BY ONLY <1>3, <2>2, SMT
  <2>4. IsCount(c) /\ HasCountSign(-1, c)
    <3>1. sec + q < 0 \/ (sec + q = 0 /\ r = 0)
      BY ONLY <2>2, <2>3, SMT
    <3> QED
      BY ONLY <1>4, <2>2, <2>3, <3>1, SMT DEF IsCount, HasCountSign
  <2>5. (sec + q) * 1000000 + r
        = -(3600000000 * h + 60000000 * mi + 1000000 * s + 1000 * ms + us)
    BY ONLY <1>5, <2>1, <2>2, <2>3, SMT
  <2>6. (-1) * (3600000000 * h + 60000000 * mi + 1000000 * s + 1000 * ms + us)
        = -(3600000000 * h + 60000000 * mi + 1000000 * s + 1000 * ms + us)
    BY ONLY <1>5, SMT
  <2> QED
    BY ONLY <1>4, <1>7, <2>4, <2>5, <2>6, SMT
<1> QED
  BY <1>5, <1>6, <1>7

\* A count of microseconds is made of its seconds and the rest.
LEMMA OneCount ==
    ASSUME NEW c, NEW e, IsCount(c), IsCount(e), c.sec * 1000000 + c.us = e.sec * 1000000 + e.us
    PROVE  c = e
<1>1. c.sec = e.sec /\ c.us = e.us
  BY DEF IsCount
<1> QED
  BY <1>1 DEF IsCount

\* The fields of a count add up to it, and have its sign.
LEMMA TimeOfIs ==
    ASSUME NEW c, NEW sign, IsCount(c), HasCountSign(sign, c)
    PROVE  \E h, mi, s, ms, us :
              /\ IsTime(TimeOf(c), sign, h, mi, s, ms, us) /\ mi <= 59 /\ s <= 59
              /\ DOMAIN TimeOf(c) = {"hours", "minutes", "seconds", "ms", "us"}
              /\ DurationMicros(TimeOf(c)) = c
<1>1. PICK m : m = Magnitude(c)
  OBVIOUS
<1>2. PICK sg : sg = IF c.sec < 0 THEN -1 ELSE 1
  OBVIOUS
<1>3. /\ c.sec \in Int /\ c.us \in Nat /\ c.us < 1000000
      /\ c = [sec |-> c.sec, us |-> c.us] /\ sign \in {-1, 1}
  BY DEF IsCount, HasCountSign
<1>4. /\ m.sec \in Nat /\ m.us \in Nat /\ m.us < 1000000
      /\ sg = 1 => m.sec = c.sec /\ m.us = c.us
      /\ sg = -1 => m.sec * 1000000 + m.us = -(c.sec * 1000000 + c.us)
  <2>1. CASE ~(c.sec < 0)
    <3>1. m = c
      BY <1>1, <2>1 DEF Magnitude, Negative
    <3> QED
      BY ONLY <1>2, <1>3, <2>1, <3>1, SMT
  <2>2. CASE c.sec < 0 /\ c.us = 0
    <3>1. m.sec = -c.sec /\ m.us = 0
      BY <1>1, <2>2 DEF Magnitude, Negative
    <3> QED
      BY ONLY <1>2, <1>3, <2>2, <3>1, SMT
  <2>3. CASE c.sec < 0 /\ c.us # 0
    <3>1. m.sec = (-c.sec) - 1 /\ m.us = 1000000 - c.us
      BY <1>1, <2>3 DEF Magnitude, Negative, Million
    <3> QED
      BY ONLY <1>2, <1>3, <2>3, <3>1, SMT
  <2> QED
    BY <2>1, <2>2, <2>3
<1>5. PICK h, mi, s, ms, us :
          /\ h = m.sec \div 3600 /\ mi = (m.sec \div 60) % 60 /\ s = m.sec % 60
          /\ ms = m.us \div 1000 /\ us = m.us % 1000
  OBVIOUS
<1>6. /\ h \in Nat /\ mi \in Nat /\ s \in Nat /\ ms \in Nat /\ us \in Nat
      /\ mi <= 59 /\ s <= 59
      /\ 3600000000 * h + 60000000 * mi + 1000000 * s + 1000 * ms + us = m.sec * 1000000 + m.us
  <2>1. PICK x, y : x = m.sec /\ y = m.us
    OBVIOUS
  <2>2. PICK z : z = x \div 60
    OBVIOUS
  <2>3. x \in Nat /\ y \in Nat
    BY ONLY <1>4, <2>1
  <2>4. z \in Nat /\ x = 60 * z + s /\ s \in Nat /\ s <= 59 /\ h = x \div 3600
    BY ONLY <1>5, <2>1, <2>2, <2>3, SMT
  <2>5. h \in Nat /\ mi \in Nat /\ mi <= 59 /\ z = 60 * h + mi
    <3>1. mi = z % 60
      BY ONLY <1>5, <2>1, <2>2
    <3> QED
      BY ONLY <2>3, <2>4, <3>1, SMT
  <2>6. ms \in Nat /\ us \in Nat /\ y = 1000 * ms + us
    BY ONLY <1>5, <2>1, <2>3, SMT
  <2> QED
    BY ONLY <2>1, <2>3, <2>4, <2>5, <2>6, SMT
<1>7. PICK part : part = TimeOf(c)
  OBVIOUS
<1>8. part = [hours |-> sg * h, minutes |-> sg * mi, seconds |-> sg * s, ms |-> sg * ms, us |-> sg * us]
  BY ONLY <1>1, <1>2, <1>5, <1>7 DEF TimeOf, Negative
<1>9. /\ part.hours = sg * h /\ part.minutes = sg * mi /\ part.seconds = sg * s
      /\ part.ms = sg * ms /\ part.us = sg * us
      /\ DOMAIN part = {"hours", "minutes", "seconds", "ms", "us"}
  BY ONLY <1>8
<1>10. IsTime(part, sg, h, mi, s, ms, us)
  BY ONLY <1>2, <1>6, <1>9 DEF IsTime
<1>11. DurationMicros(part) = c
  <2>1. PICK e : e = DurationMicros(part)
    OBVIOUS
  <2>2. IsCount(e) /\ e.sec * 1000000 + e.us
                      = sg * (3600000000 * h + 60000000 * mi + 1000000 * s + 1000 * ms + us)
    BY ONLY <1>10, <2>1, MicrosAre
  <2>3. PICK x : x = m.sec * 1000000 + m.us /\ x \in Nat
    BY ONLY <1>4, SMT
  <2>4. e.sec * 1000000 + e.us = sg * x
    BY ONLY <1>6, <2>2, <2>3
  <2>5. e.sec * 1000000 + e.us = c.sec * 1000000 + c.us
    <3>1. CASE sg = 1
      BY ONLY <1>3, <1>4, <2>3, <2>4, <3>1, SMT
    <3>2. CASE sg = -1
      BY ONLY <1>3, <1>4, <2>3, <2>4, <3>2, SMT
    <3> QED
      BY <1>2, <3>1, <3>2
  <2> QED
    BY <2>1, <2>2, <2>5, OneCount
<1>12. IsTime(part, sign, h, mi, s, ms, us)
  <2>1. CASE sg = sign
    BY <1>10, <2>1
  <2>2. CASE sg # sign
    <3>1. sign = -1 /\ sg = 1 /\ c.sec = 0 /\ c.us = 0
      BY <1>2, <1>3, <2>2 DEF HasCountSign
    <3>2. m.sec = 0 /\ m.us = 0
      BY <1>4, <3>1
    <3>3. h = 0 /\ mi = 0 /\ s = 0 /\ ms = 0 /\ us = 0
      BY ONLY <1>5, <3>2
    <3> QED
      BY ONLY <1>6, <1>9, <3>1, <3>3 DEF IsTime
  <2> QED
    BY <2>1, <2>2
<1> QED
  BY <1>6, <1>7, <1>9, <1>11, <1>12

-----------------------------------------------------------------------------
\* A duration of time alone survives DurationCodec; another is none of the server.
LEMMA DurationSurvives ==
    ASSUME NoDate \notin Numbers, NEW d \in Numbers, NEW sign \in {-1, 1},
           \A f \in FieldNames : Signed(sign, d[f], Abs(d[f]))
    PROVE  IF \E f \in {"years", "months", "weeks", "days"} : d[f] # 0 THEN EncodeDuration(d) = NoDate
           ELSE LET decoded == DecodeDuration(EncodeDuration(d))
                IN  decoded # NoDate /\ DurationMicros(decoded) = DurationMicros(d)
<1>1. ValuesOf(d, DateFields) # {0} <=> \E f \in {"years", "months", "weeks", "days"} : d[f] # 0
  BY ValuesAre
<1>2. PICK c : c = DurationMicros(d)
  OBVIOUS
<1>3. IsTime(d, sign, Abs(d.hours), Abs(d.minutes), Abs(d.seconds), Abs(d.ms), Abs(d.us))
  <2>1. \A f \in FieldNames : Abs(d[f]) \in Nat /\ sign * Abs(d[f]) = d[f]
    BY SignedFacts
  <2> QED
    BY <2>1, NamesAre DEF IsTime
<1>4. IsCount(c) /\ HasCountSign(sign, c)
  BY ONLY <1>2, <1>3, MicrosAre
<1>5. PICK part : part = TimeOf(c)
  OBVIOUS
<1>6. PICK h, mi, s, ms, us :
          /\ IsTime(part, sign, h, mi, s, ms, us)
          /\ DOMAIN part = {"hours", "minutes", "seconds", "ms", "us"} /\ DurationMicros(part) = c
  BY <1>4, <1>5, TimeOfIs
<1>7. PICK r : r = [f \in FieldNames |-> IF f \in DOMAIN part THEN part[f] ELSE 0]
  OBVIOUS
<1>8. /\ r.years = 0 /\ r.months = 0 /\ r.weeks = 0 /\ r.days = 0 /\ r.ns = 0
      /\ r.hours = part.hours /\ r.minutes = part.minutes /\ r.seconds = part.seconds
      /\ r.ms = part.ms /\ r.us = part.us
  BY ONLY <1>6, <1>7, NamesAre
<1>9. \A v \in {0, part.hours, part.minutes, part.seconds, part.ms, part.us} : \E a : Signed(sign, v, a)
  <2>1. \A a \in Nat : Signed(sign, sign * a, a)
    BY DEF Signed
  <2>2. Signed(sign, 0, 0)
    <3>1. sign * 0 = 0
      OBVIOUS
    <3> QED
      BY <2>1, <3>1
  <2>3. /\ h \in Nat /\ mi \in Nat /\ s \in Nat /\ ms \in Nat /\ us \in Nat
        /\ part.hours = sign * h /\ part.minutes = sign * mi /\ part.seconds = sign * s
        /\ part.ms = sign * ms /\ part.us = sign * us
    BY <1>6 DEF IsTime
  <2> QED
    BY ONLY <2>1, <2>2, <2>3
<1>10. \A v \in ValuesOf(r, DurationFields) : \E a : Signed(sign, v, a)
  BY ONLY <1>8, <1>9, ValuesAre
<1>11. Duration(r) = r
  BY ONLY <1>10, OfOneSign
<1>12. r \in Numbers
  <2>1. \A v \in {0, part.hours, part.minutes, part.seconds, part.ms, part.us} : v \in Int
    BY <1>9 DEF Signed
  <2>2. \A f \in FieldNames : r[f] \in Int
    BY ONLY <1>8, <2>1, NamesAre
  <2> QED
    BY ONLY <1>7, <2>2 DEF Numbers
<1>13. DurationMicros(r) = DurationMicros(part)
  BY ONLY <1>8 DEF DurationMicros
<1>14. ASSUME ~\E f \in {"years", "months", "weeks", "days"} : d[f] # 0
       PROVE  DecodeDuration(EncodeDuration(d)) = r
  <2>1. EncodeDuration(d) = [micros |-> c, days |-> 0, months |-> 0]
    BY <1>1, <1>2, <1>14 DEF EncodeDuration
  <2>2. PICK e : e = EncodeDuration(d) /\ e.micros = c /\ e.days = 0 /\ e.months = 0
    BY <2>1
  <2>3. DecodeDuration(e) = Duration(r)
    BY ONLY <1>5, <1>7, <2>2 DEF DecodeDuration, FieldNames
  <2> QED
    BY <1>11, <2>2, <2>3
<1> QED
  <2>1. ASSUME \E f \in {"years", "months", "weeks", "days"} : d[f] # 0 PROVE EncodeDuration(d) = NoDate
    BY <1>1, <2>1 DEF EncodeDuration
  <2> QED
    BY <1>2, <1>6, <1>12, <1>13, <1>14, <2>1

\* A number of days or months is one of weeks or years and the rest, of its sign.
LEMMA Divided ==
    ASSUME NEW sign, NEW v, NEW a, Signed(sign, v, a), NEW b \in {7, 12}
    PROVE  /\ Signed(sign, Trunc(v, b), a \div b) /\ Signed(sign, Rem(v, b), a % b)
           /\ Rem(v, b) + b * Trunc(v, b) = v
<1>1. PICK q, r : q = a \div b /\ r = a % b
  OBVIOUS
<1>2. a \in Nat /\ v \in Int /\ Abs(v) = a
  BY SignedFacts
<1>3. q \in Nat /\ r \in Nat /\ a = b * q + r
  <2>1. CASE b = 7
    BY ONLY <1>1, <1>2, <2>1, SMT
  <2>2. CASE b = 12
    BY ONLY <1>1, <1>2, <2>2, SMT
  <2> QED
    BY <2>1, <2>2
<1>4. Trunc(v, b) = Sign(v) * q
  BY <1>1, <1>2 DEF Trunc
<1>5. Signed(sign, Trunc(v, b), q)
  <2>1. CASE v = 0
    <3>1. a = 0 /\ q = 0
      BY <1>1, <1>2, <2>1 DEF Signed
    <3>2. Trunc(v, b) = 0
      BY <1>4, <2>1, <3>1 DEF Sign
    <3> QED
      BY <2>1, <3>1, <3>2 DEF Signed
  <2>2. CASE v # 0 /\ sign = 1
    <3>1. Sign(v) = 1
      BY <2>2 DEF Signed, Sign
    <3>2. Trunc(v, b) = q
      BY <1>3, <1>4, <3>1
    <3> QED
      BY <1>3, <2>2, <3>2 DEF Signed
  <2>3. CASE v # 0 /\ sign = -1
    <3>1. Sign(v) = -1
      BY <2>3 DEF Signed, Sign
    <3>2. Trunc(v, b) = -q
      BY <1>3, <1>4, <3>1
    <3> QED
      BY <1>3, <2>3, <3>2 DEF Signed
  <2> QED
    BY <2>1, <2>2, <2>3 DEF Signed
<1>6. PICK w : w = Trunc(v, b) /\ Rem(v, b) = v - b * w
  BY DEF Rem
<1>7. (sign = 1 /\ v = a /\ w = q) \/ (sign = -1 /\ v = -a /\ w = -q)
  BY <1>5, <1>6 DEF Signed
<1>8. Signed(sign, v - b * w, r) /\ (v - b * w) + b * w = v
  <2>1. CASE b = 7
    BY ONLY <1>2, <1>3, <1>7, <2>1, SMT DEF Signed
  <2>2. CASE b = 12
    BY ONLY <1>2, <1>3, <1>7, <2>2, SMT DEF Signed
  <2> QED
    BY <2>1, <2>2
<1> QED
  BY <1>1, <1>5, <1>6, <1>8

\* After RelativeDurationCodec a duration has the sign and the amount it had, and
\* is one that the codec keeps.
LEMMA RelativeSurvives ==
    ASSUME NEW d \in Numbers, NEW sign \in {-1, 1},
           \A f \in FieldNames : Signed(sign, d[f], Abs(d[f])),
           NEW back, back = DecodeRelative(EncodeRelative(d))
    PROVE  /\ EncodeRelative(back) = EncodeRelative(d)
           /\ ~Mixed(back, FieldNames \ {"ns"})
           /\ back.minutes \in -59..59 /\ back.seconds \in -59..59
<1>1. PICK c : c = DurationMicros(d)
  OBVIOUS
<1>2. \A f \in FieldNames : Abs(d[f]) \in Nat /\ sign * Abs(d[f]) = d[f]
  BY SignedFacts
<1>3. IsTime(d, sign, Abs(d.hours), Abs(d.minutes), Abs(d.seconds), Abs(d.ms), Abs(d.us))
  BY <1>2, NamesAre DEF IsTime
<1>4. IsCount(c) /\ HasCountSign(sign, c)
  BY ONLY <1>1, <1>3, MicrosAre
<1>5. PICK part : part = TimeOf(c)
  OBVIOUS
<1>6. PICK h, mi, s, ms, us :
          /\ IsTime(part, sign, h, mi, s, ms, us) /\ mi <= 59 /\ s <= 59
          /\ DOMAIN part = {"hours", "minutes", "seconds", "ms", "us"} /\ DurationMicros(part) = c
  BY <1>4, <1>5, TimeOfIs
<1>7. PICK da, mo : da = d.days + 7 * d.weeks /\ mo = d.months + 12 * d.years
  OBVIOUS
<1>8. PICK a, b : Signed(sign, da, a) /\ Signed(sign, mo, b)
  <2>1. PICK a, b : a = Abs(d.days) + 7 * Abs(d.weeks) /\ b = Abs(d.months) + 12 * Abs(d.years)
    OBVIOUS
  <2>2. /\ Signed(sign, d.days, Abs(d.days)) /\ Signed(sign, d.weeks, Abs(d.weeks))
        /\ Signed(sign, d.months, Abs(d.months)) /\ Signed(sign, d.years, Abs(d.years))
    BY NamesAre
  <2>3. Signed(sign, da, a) /\ Signed(sign, mo, b)
    BY ONLY <1>7, <2>1, <2>2, SMT DEF Signed
  <2> QED
    BY <2>3
<1>9. PICK wk, dy, yr, mn : wk = Trunc(da, 7) /\ dy = Rem(da, 7) /\ yr = Trunc(mo, 12) /\ mn = Rem(mo, 12)
  OBVIOUS
<1>10. /\ \E x : Signed(sign, wk, x)
       /\ \E x : Signed(sign, dy, x)
       /\ \E x : Signed(sign, yr, x)
       /\ \E x : Signed(sign, mn, x)
       /\ dy + 7 * wk = da /\ mn + 12 * yr = mo
  <2>1. 7 \in {7, 12} /\ 12 \in {7, 12}
    OBVIOUS
  <2>2. Signed(sign, wk, a \div 7) /\ Signed(sign, dy, a % 7) /\ dy + 7 * wk = da
    BY ONLY <1>8, <1>9, <2>1, Divided
  <2>3. Signed(sign, yr, b \div 12) /\ Signed(sign, mn, b % 12) /\ mn + 12 * yr = mo
    BY ONLY <1>8, <1>9, <2>1, Divided
  <2> QED
    BY <2>2, <2>3
<1>11. PICK date : date = [years |-> yr, months |-> mn, weeks |-> wk, days |-> dy]
  OBVIOUS
<1>12. back = Joined(date, part)
  <2>1. EncodeRelative(d) = [micros |-> c, days |-> da, months |-> mo]
    BY <1>1, <1>7 DEF EncodeRelative
  <2>2. PICK e : e = EncodeRelative(d) /\ e.micros = c /\ e.days = da /\ e.months = mo
    BY <2>1
  <2> QED
    BY <1>5, <1>9, <1>11, <2>2 DEF DecodeRelative
<1>13. DOMAIN date = {"years", "months", "weeks", "days"}
       /\ date.years = yr /\ date.months = mn /\ date.weeks = wk /\ date.days = dy
  BY <1>11
<1>14. /\ back.years = yr /\ back.months = mn /\ back.weeks = wk /\ back.days = dy
       /\ back.hours = part.hours /\ back.minutes = part.minutes /\ back.seconds = part.seconds
       /\ back.ms = part.ms /\ back.us = part.us
  BY ONLY <1>12, <1>13, NamesAre DEF Joined
<1>15. EncodeRelative(back) = EncodeRelative(d)
  <2>1. DurationMicros(back) = DurationMicros(part)
    BY ONLY <1>14 DEF DurationMicros
  <2>2. DurationMicros(back) = DurationMicros(d)
    BY ONLY <1>1, <1>6, <2>1
  <2>3. back.days + 7 * back.weeks = d.days + 7 * d.weeks
        /\ back.months + 12 * back.years = d.months + 12 * d.years
    BY ONLY <1>7, <1>10, <1>14
  <2> QED
    BY ONLY <2>2, <2>3 DEF EncodeRelative
<1>16. /\ part.hours = sign * h /\ part.minutes = sign * mi /\ part.seconds = sign * s
       /\ part.ms = sign * ms /\ part.us = sign * us
       /\ h \in Nat /\ mi \in Nat /\ s \in Nat /\ ms \in Nat /\ us \in Nat
  BY <1>6 DEF IsTime
<1>17. \A f \in FieldNames \ {"ns"} : \E x : Signed(sign, back[f], x)
  <2>1. \A x \in Nat : Signed(sign, sign * x, x)
    BY DEF Signed
  <2>2. /\ \E x : Signed(sign, part.hours, x)
        /\ \E x : Signed(sign, part.minutes, x)
        /\ \E x : Signed(sign, part.seconds, x)
        /\ \E x : Signed(sign, part.ms, x)
        /\ \E x : Signed(sign, part.us, x)
    BY ONLY <1>16, <2>1
  <2> QED
    BY ONLY <1>10, <1>14, <2>2, NamesAre
<1>18. ~Mixed(back, FieldNames \ {"ns"})
  <2>1. \A f \in FieldNames \ {"ns"} :
            back[f] \in Int /\ (sign = 1 => back[f] >= 0) /\ (sign = -1 => back[f] <= 0)
    BY <1>17 DEF Signed
  <2> QED
    BY <2>1 DEF Mixed
<1>19. back.minutes \in -59..59 /\ back.seconds \in -59..59
  <2>1. CASE sign = 1
    BY <1>6, <1>14, <1>16, <2>1
  <2>2. CASE sign = -1
    BY <1>6, <1>14, <1>16, <2>2
  <2> QED
    BY <2>1, <2>2
<1> QED
  BY <1>15, <1>18, <1>19

\* A duration of integer fields: with mixed signs it cannot be made; otherwise its
\* text says exactly what it adds up to, whatever its fields, one of whole seconds
\* is read back from it, and the codecs of durations keep it.  What the doubles
\* make of a fraction of a second that is read is not in this.  NoDate, what
\* throws, is none of the values.
THEOREM DurationsSurvive ==
    ASSUME NoDate \notin Int, NoDate \notin Numbers, NEW d \in Numbers
    PROVE  DurationSound(d)
<1>1. CASE Mixed(d, FieldNames)
  BY <1>1, OfMixedSigns DEF DurationSound
<1>2. CASE ~Mixed(d, FieldNames)
  <2>1. PICK sign \in {-1, 1} : /\ \A f \in FieldNames : Signed(sign, d[f], Abs(d[f]))
                                /\ SignOf(d) = -1 <=> sign = -1
    BY <1>2, HasSign
  <2>2. Duration(d) = d
    <3>1. ValuesOf(d, DurationFields) = {d[f] : f \in FieldNames}
      BY DEF ValuesOf, FieldNames
    <3>2. \A v \in ValuesOf(d, DurationFields) : \E a : Signed(sign, v, a)
      BY <2>1, <3>1
    <3> QED
      BY <3>2, OfOneSign
  <2>3. PICK t : t = DurationText(d)
    OBVIOUS
  <2>4. Meant(t) = Amount(d) /\ (t.negative <=> SignOf(d) = -1)
    <3>1. t.negative <=> SignOf(d) = -1
      BY <2>3 DEF DurationText
    <3> QED
      BY <2>3, <3>1, TextMeans
  <2>5. Timed(t) /\ d.ms = 0 /\ d.us = 0 /\ d.ns = 0 => DurationFrom(t) = d
    BY <2>1, <2>3, WholeIsRead
  <2>6. PICK decoded : decoded = DecodeDuration(EncodeDuration(d))
    OBVIOUS
  <2>7. IF \E f \in {"years", "months", "weeks", "days"} : d[f] # 0 THEN EncodeDuration(d) = NoDate
        ELSE decoded # NoDate /\ DurationMicros(decoded) = DurationMicros(d)
    BY <2>1, <2>6, DurationSurvives
  <2>8. PICK back : back = DecodeRelative(EncodeRelative(d))
    OBVIOUS
  <2>9. /\ EncodeRelative(back) = EncodeRelative(d) /\ ~Mixed(back, FieldNames \ {"ns"})
        /\ back.minutes \in -59..59 /\ back.seconds \in -59..59
    BY <2>1, <2>8, RelativeSurvives
  <2> QED
    BY <1>2, <2>2, <2>3, <2>4, <2>5, <2>6, <2>7, <2>8, <2>9 DEF DurationSound
<1> QED
  BY <1>1, <1>2

-----------------------------------------------------------------------------
(* The calendar.                                                           *)

\* Any date, any time of a day on any date, any duration.
CalendarNext ==
    /\ case = NoCase
    /\ \/ \E day \in Dates : Given("day", day)
       \/ \E day \in Dates, time \in ClockTimes : Given("time", [day |-> day, time |-> time])
       \/ \E d \in Numbers : Given("duration", d)

CalendarSpec == case = NoCase /\ [][CalendarNext]_case

\* Every date from the year 1 on, every time of a day and every duration of integers
\* means the same after its codecs, and the text of the duration says what it is
\* (datatypes/datetime.ts, codecs/datetime.ts).
THEOREM CalendarIsSound ==
    ASSUME NoDate \notin Int, NoDate \notin Numbers, NoDate \notin Dates, NoDate \notin ClockTimes
    PROVE  CalendarSpec => []CalendarSound
<1>1. case = NoCase => CalendarSound
  BY DEF NoCase, CalendarSound
<1>2. CalendarSound /\ [CalendarNext]_case => CalendarSound'
  <2> SUFFICES ASSUME CalendarSound, [CalendarNext]_case PROVE CalendarSound'
    OBVIOUS
  <2>1. CASE UNCHANGED case
    BY <2>1 DEF CalendarSound
  <2>2. ASSUME NEW day \in Dates, Given("day", day) PROVE CalendarSound'
    <3>1. case' = [of |-> "day", input |-> day]
      BY <2>2 DEF Given
    <3> QED
      BY <3>1, DatesSurvive DEF CalendarSound
  <2>3. ASSUME NEW day \in Dates, NEW time \in ClockTimes, Given("time", [day |-> day, time |-> time])
        PROVE  CalendarSound'
    <3>1. case' = [of |-> "time", input |-> [day |-> day, time |-> time]]
      BY <2>3 DEF Given
    <3> QED
      BY <3>1, TimesSurvive DEF CalendarSound
  <2>4. ASSUME NEW d \in Numbers, Given("duration", d) PROVE CalendarSound'
    <3>1. case' = [of |-> "duration", input |-> d]
      BY <2>4 DEF Given
    <3> QED
      BY <3>1, DurationsSurvive DEF CalendarSound
  <2> QED
    BY <2>1, <2>2, <2>3, <2>4 DEF CalendarNext
<1> QED
  BY <1>1, <1>2, PTL DEF CalendarSpec

-----------------------------------------------------------------------------
(* Cardinalities.  What is told apart is whether none, one, or more than   *)
(* one element is admitted.                                                *)

HasNone == {"Empty", "AtMostOne", "Many"}
HasOne  == {"One", "AtMostOne", "AtLeastOne", "Many"}
HasMore == {"AtLeastOne", "Many"}

LEMMA AdmitsFacts ==
    ASSUME NEW card \in Cardinalities, NEW n \in Nat
    PROVE  /\ n = 0 => (Admits(card, n) <=> card \in HasNone)
           /\ n = 1 => (Admits(card, n) <=> card \in HasOne)
           /\ n >= 2 => (Admits(card, n) <=> card \in HasMore)
<1>1. CASE card = "Empty"
  BY <1>1 DEF Admits, HasNone, HasOne, HasMore
<1>2. CASE card = "One"
  BY <1>2 DEF Admits, HasNone, HasOne, HasMore
<1>3. CASE card = "AtMostOne"
  BY <1>3 DEF Admits, HasNone, HasOne, HasMore
<1>4. CASE card = "AtLeastOne"
  BY <1>4 DEF Admits, HasNone, HasOne, HasMore
<1>5. CASE card = "Many"
  BY <1>5 DEF Admits, HasNone, HasOne, HasMore
<1> QED
  BY <1>1, <1>2, <1>3, <1>4, <1>5 DEF Cardinalities

LEMMA OfFacts ==
    ASSUME NEW card \in Cardinalities
    PROVE  /\ Of(card) \subseteq Nat
           /\ 0 \in Of(card) <=> card \in HasNone
           /\ 1 \in Of(card) <=> card \in HasOne
           /\ 2 \in Of(card) <=> card \in HasMore
           /\ \A n \in Of(card) : n >= 2 => card \in HasMore
           /\ \A n \in Amounts : n \in Of(card) <=> Admits(card, n)
<1>1. 0 \in Amounts /\ 1 \in Amounts /\ 2 \in Amounts /\ Amounts \subseteq Nat
  BY AmountsAssumption
<1>2. \A n \in Amounts : n \in Of(card) <=> Admits(card, n)
  BY DEF Of
<1>3. Of(card) \subseteq Nat
  BY <1>1 DEF Of
<1>4. 2 >= 2 /\ 2 \in Nat /\ 0 \in Nat /\ 1 \in Nat
  OBVIOUS
<1>5. 0 \in Of(card) <=> card \in HasNone
  BY <1>1, <1>2, <1>4, AdmitsFacts
<1>6. 1 \in Of(card) <=> card \in HasOne
  BY <1>1, <1>2, <1>4, AdmitsFacts
<1>7. 2 \in Of(card) <=> card \in HasMore
  BY <1>1, <1>2, <1>4, AdmitsFacts
<1>8. ASSUME NEW n \in Of(card), n >= 2 PROVE card \in HasMore
  BY <1>3, <1>8, AdmitsFacts DEF Of
<1> QED
  BY <1>2, <1>3, <1>5, <1>6, <1>7, <1>8

LEMMA ExactIsTight ==
    ASSUME NEW card \in Cardinalities, NEW results, results \subseteq Nat,
           0 \in results <=> card \in HasNone,
           1 \in results => card \in HasOne,
           card \in HasOne \ HasMore => 1 \in results,
           (\E n \in results : n >= 2) <=> card \in HasMore
    PROVE  Tight(card, results)
<1>1. ASSUME NEW n \in results PROVE Admits(card, n)
  BY AdmitsFacts
<1>2. ASSUME NEW c \in Cardinalities, \A n \in results : Admits(c, n), NEW k \in Of(card)
      PROVE  k \in Of(c)
  <2>1. card \in HasNone => c \in HasNone
    BY <1>2, AdmitsFacts
  <2>2. card \in HasMore => c \in HasMore
    BY <1>2, AdmitsFacts
  <2>3. card \in HasOne \ HasMore => c \in HasOne
    BY <1>2, AdmitsFacts
  <2>4. c \in HasMore => c \in HasOne
    BY DEF HasMore, HasOne
  <2>5. k \in Amounts /\ k \in Nat /\ Admits(card, k)
    BY AmountsAssumption DEF Of
  <2>6. CASE k = 0
    BY <2>1, <2>5, <2>6, AdmitsFacts DEF Of
  <2>7. CASE k = 1
    BY <2>2, <2>3, <2>4, <2>5, <2>7, AdmitsFacts DEF Of
  <2>8. CASE k >= 2
    BY <2>2, <2>5, <2>8, AdmitsFacts DEF Of
  <2> QED
    BY <2>5, <2>6, <2>7, <2>8
<1> QED
  BY <1>1, <1>2 DEF Tight, Narrower

-----------------------------------------------------------------------------
(* The tables.                                                             *)

LEMMA MultiplyTable ==
    ASSUME NEW a \in Cardinalities, NEW b \in Cardinalities, NEW c, c = Multiply(a, b)
    PROVE  /\ c \in Cardinalities /\ c = MultiplyType(a, b)
           /\ c \in HasNone <=> a \in HasNone \/ b \in HasNone
           /\ a \in HasOne /\ b \in HasOne => c \in HasOne
           /\ c \in HasOne \ HasMore => a \in HasOne /\ b \in HasOne
           /\ c \in HasMore <=> (a \in HasMore /\ b \in HasOne) \/ (a \in HasOne /\ b \in HasMore)
<1>1. CASE a = "Empty"
  BY <1>1 DEF Cardinalities, HasNone, HasOne, HasMore, Multiply, MultiplyType
<1>2. CASE a = "One"
  BY <1>2 DEF Cardinalities, HasNone, HasOne, HasMore, Multiply, MultiplyType
<1>3. CASE a = "AtMostOne"
  BY <1>3 DEF Cardinalities, HasNone, HasOne, HasMore, Multiply, MultiplyType
<1>4. CASE a = "AtLeastOne"
  BY <1>4 DEF Cardinalities, HasNone, HasOne, HasMore, Multiply, MultiplyType
<1>5. CASE a = "Many"
  BY <1>5 DEF Cardinalities, HasNone, HasOne, HasMore, Multiply, MultiplyType
<1> QED
  BY <1>1, <1>2, <1>3, <1>4, <1>5 DEF Cardinalities

LEMMA MergeTable ==
    ASSUME NEW a \in Cardinalities, NEW b \in Cardinalities, NEW c, c = Merge(a, b)
    PROVE  /\ c \in Cardinalities /\ c = MergeType(a, b)
           /\ c \in HasNone <=> a \in HasNone /\ b \in HasNone
           /\ (a \in HasOne /\ b \in HasNone) \/ (a \in HasNone /\ b \in HasOne) => c \in HasOne
           /\ c \in HasOne \ HasMore => (a \in HasOne /\ b \in HasNone) \/ (a \in HasNone /\ b \in HasOne)
           /\ c \in HasMore <=> a \in HasMore \/ b \in HasMore \/ (a \in HasOne /\ b \in HasOne)
<1>1. CASE a = "Empty"
  BY <1>1 DEF Cardinalities, HasNone, HasOne, HasMore, Merge, MergeType
<1>2. CASE a = "One"
  BY <1>2 DEF Cardinalities, HasNone, HasOne, HasMore, Merge, MergeType
<1>3. CASE a = "AtMostOne"
  BY <1>3 DEF Cardinalities, HasNone, HasOne, HasMore, Merge, MergeType
<1>4. CASE a = "AtLeastOne"
  BY <1>4 DEF Cardinalities, HasNone, HasOne, HasMore, Merge, MergeType
<1>5. CASE a = "Many"
  BY <1>5 DEF Cardinalities, HasNone, HasOne, HasMore, Merge, MergeType
<1> QED
  BY <1>1, <1>2, <1>3, <1>4, <1>5 DEF Cardinalities

LEMMA OrTable ==
    ASSUME NEW a \in Cardinalities, NEW b \in Cardinalities, NEW c, c = Or(a, b)
    PROVE  /\ c \in Cardinalities /\ c = OrType(a, b)
           /\ c \in HasNone <=> a \in HasNone \/ b \in HasNone
           /\ a \in HasOne \/ b \in HasOne => c \in HasOne
           /\ c \in HasOne \ HasMore => a \in HasOne \/ b \in HasOne
           /\ c \in HasMore <=> a \in HasMore \/ b \in HasMore
<1>1. CASE a = "Empty"
  BY <1>1 DEF Cardinalities, HasNone, HasOne, HasMore, Or, OrType
<1>2. CASE a = "One"
  BY <1>2 DEF Cardinalities, HasNone, HasOne, HasMore, Or, OrType
<1>3. CASE a = "AtMostOne"
  BY <1>3 DEF Cardinalities, HasNone, HasOne, HasMore, Or, OrType
<1>4. CASE a = "AtLeastOne"
  BY <1>4 DEF Cardinalities, HasNone, HasOne, HasMore, Or, OrType
<1>5. CASE a = "Many"
  BY <1>5 DEF Cardinalities, HasNone, HasOne, HasMore, Or, OrType
<1> QED
  BY <1>1, <1>2, <1>3, <1>4, <1>5 DEF Cardinalities

LEMMA CombinedIsSound ==
    ASSUME NEW a \in Cardinalities, NEW b \in Cardinalities PROVE CombinedSound(a, b)
<1>1. /\ Of(a) \subseteq Nat /\ Of(b) \subseteq Nat
      /\ 0 \in Of(a) <=> a \in HasNone
      /\ 0 \in Of(b) <=> b \in HasNone
      /\ 1 \in Of(a) <=> a \in HasOne
      /\ 1 \in Of(b) <=> b \in HasOne
      /\ 2 \in Of(a) <=> a \in HasMore
      /\ 2 \in Of(b) <=> b \in HasMore
      /\ \A n \in Of(a) : n >= 2 => a \in HasMore
      /\ \A n \in Of(b) : n >= 2 => b \in HasMore
  BY OfFacts
<1>2. /\ a \in HasNone \/ a \in HasOne
      /\ b \in HasNone \/ b \in HasOne
      /\ HasMore \subseteq HasOne
  BY DEF Cardinalities, HasNone, HasOne, HasMore
<1>3. Tight(Multiply(a, b), {m * n : m \in Of(a), n \in Of(b)})
  <2> DEFINE R == {m * n : m \in Of(a), n \in Of(b)}
  <2>1. \A m, n \in Nat : /\ m * n \in Nat /\ m * 0 = 0 /\ 0 * n = 0 /\ m * 1 = m /\ 1 * n = n
                          /\ m * n = 0 => m = 0 \/ n = 0
                          /\ m * n = 1 => m = 1 /\ n = 1
                          /\ m * n >= 2 => m >= 1 /\ n >= 1 /\ (m >= 2 \/ n >= 2)
    OBVIOUS
  <2>2. R \subseteq Nat
    BY <1>1, <2>1
  <2>3. 0 \in R <=> a \in HasNone \/ b \in HasNone
    <3>1. ASSUME 0 \in R PROVE a \in HasNone \/ b \in HasNone
      <4>1. PICK m \in Of(a), n \in Of(b) : m * n = 0
        BY <3>1
      <4> QED
        BY <4>1, <1>1, <2>1
    <3>2. ASSUME NEW n \in Of(b), 0 \in Of(a) PROVE 0 \in R
      BY <3>2, <2>1, <1>1
    <3>3. ASSUME NEW m \in Of(a), 0 \in Of(b) PROVE 0 \in R
      BY <3>3, <2>1, <1>1
    <3> QED
      BY <1>1, <1>2, <3>1, <3>2, <3>3
  <2>4. 1 \in R <=> a \in HasOne /\ b \in HasOne
    <3>1. ASSUME 1 \in R PROVE a \in HasOne /\ b \in HasOne
      <4>1. PICK m \in Of(a), n \in Of(b) : m * n = 1
        BY <3>1
      <4> QED
        BY <4>1, <1>1, <2>1
    <3>2. ASSUME 1 \in Of(a), 1 \in Of(b) PROVE 1 \in R
      <4>1. 1 * 1 = 1
        OBVIOUS
      <4> QED
        BY <3>2, <4>1
    <3> QED
      BY <1>1, <3>1, <3>2
  <2>5. (\E n \in R : n >= 2) <=> (a \in HasMore /\ b \in HasOne) \/ (a \in HasOne /\ b \in HasMore)
    <3>1. ASSUME NEW r \in R, r >= 2
          PROVE  (a \in HasMore /\ b \in HasOne) \/ (a \in HasOne /\ b \in HasMore)
      <4>1. PICK m \in Of(a), n \in Of(b) : m * n = r
        BY <3>1
      <4>2. m \in Nat /\ n \in Nat /\ m >= 1 /\ n >= 1 /\ (m >= 2 \/ n >= 2)
        BY <4>1, <3>1, <1>1, <2>1
      <4>3. (m = 1 \/ m >= 2) /\ (n = 1 \/ n >= 2)
        BY <4>2
      <4> QED
        BY <4>2, <4>3, <1>1, <1>2
    <3>2. ASSUME 2 \in Of(a), 1 \in Of(b) PROVE 2 \in R
      <4>1. 2 * 1 = 2
        OBVIOUS
      <4> QED
        BY <3>2, <4>1
    <3>3. ASSUME 1 \in Of(a), 2 \in Of(b) PROVE 2 \in R
      <4>1. 1 * 2 = 2
        OBVIOUS
      <4> QED
        BY <3>3, <4>1
    <3>4. 2 >= 2
      OBVIOUS
    <3> QED
      BY <1>1, <3>1, <3>2, <3>3, <3>4
  <2> HIDE DEF R
  <2>6. Tight(Multiply(a, b), R)
    <3>1. PICK c : c = Multiply(a, b)
      OBVIOUS
    <3>2. /\ c \in Cardinalities
          /\ 0 \in R <=> c \in HasNone
          /\ 1 \in R => c \in HasOne
          /\ c \in HasOne \ HasMore => 1 \in R
          /\ (\E n \in R : n >= 2) <=> c \in HasMore
      BY <3>1, <2>2, <2>3, <2>4, <2>5, MultiplyTable
    <3>3. Tight(c, R)
      BY <3>2, <2>2, ExactIsTight
    <3> QED
      BY <3>1, <3>3
  <2> QED
    BY <2>6 DEF R
<1>4. Tight(Merge(a, b), {m + n : m \in Of(a), n \in Of(b)})
  <2> DEFINE R == {m + n : m \in Of(a), n \in Of(b)}
  <2>2. R \subseteq Nat
    BY <1>1
  <2>3. 0 \in R <=> a \in HasNone /\ b \in HasNone
    <3>1. ASSUME 0 \in R PROVE a \in HasNone /\ b \in HasNone
      <4>1. PICK m \in Of(a), n \in Of(b) : m + n = 0
        BY <3>1
      <4> QED
        BY <4>1, <1>1
    <3>2. ASSUME 0 \in Of(a), 0 \in Of(b) PROVE 0 \in R
      <4>1. 0 + 0 = 0
        OBVIOUS
      <4> QED
        BY <3>2, <4>1
    <3> QED
      BY <1>1, <3>1, <3>2
  <2>4. 1 \in R <=> (a \in HasOne /\ b \in HasNone) \/ (a \in HasNone /\ b \in HasOne)
    <3>1. ASSUME 1 \in R PROVE (a \in HasOne /\ b \in HasNone) \/ (a \in HasNone /\ b \in HasOne)
      <4>1. PICK m \in Of(a), n \in Of(b) : m + n = 1
        BY <3>1
      <4>2. (m = 1 /\ n = 0) \/ (m = 0 /\ n = 1)
        BY <4>1, <1>1
      <4> QED
        BY <4>1, <4>2, <1>1
    <3>2. ASSUME 1 \in Of(a), 0 \in Of(b) PROVE 1 \in R
      <4>1. 1 + 0 = 1
        OBVIOUS
      <4> QED
        BY <3>2, <4>1
    <3>3. ASSUME 0 \in Of(a), 1 \in Of(b) PROVE 1 \in R
      <4>1. 0 + 1 = 1
        OBVIOUS
      <4> QED
        BY <3>3, <4>1
    <3> QED
      BY <1>1, <3>1, <3>2, <3>3
  <2>5. (\E n \in R : n >= 2) <=> a \in HasMore \/ b \in HasMore \/ (a \in HasOne /\ b \in HasOne)
    <3>1. ASSUME NEW r \in R, r >= 2
          PROVE  a \in HasMore \/ b \in HasMore \/ (a \in HasOne /\ b \in HasOne)
      <4>1. PICK m \in Of(a), n \in Of(b) : m + n = r
        BY <3>1
      <4>2. m >= 2 \/ n >= 2 \/ (m = 1 /\ n = 1)
        BY <4>1, <3>1, <1>1
      <4> QED
        BY <4>1, <4>2, <1>1
    <3>2. ASSUME NEW m \in Of(a), NEW n \in Of(b), m = 2 \/ n = 2 \/ (m = 1 /\ n = 1)
          PROVE  \E r \in R : r >= 2
      <4>1. m + n \in R
        OBVIOUS
      <4>2. m + n >= 2
        BY <3>2, <1>1
      <4> QED
        BY <4>1, <4>2
    <3>3. (\E m \in Of(a) : TRUE) /\ (\E n \in Of(b) : TRUE)
      BY <1>1, <1>2
    <3> HIDE DEF R
    <3>4. ASSUME 2 \in Of(a) PROVE \E r \in R : r >= 2
      BY <3>2, <3>3, <3>4
    <3>5. ASSUME 2 \in Of(b) PROVE \E r \in R : r >= 2
      BY <3>2, <3>3, <3>5
    <3>6. ASSUME 1 \in Of(a), 1 \in Of(b) PROVE \E r \in R : r >= 2
      BY <3>2, <3>6
    <3> QED
      BY <1>1, <3>1, <3>4, <3>5, <3>6
  <2> HIDE DEF R
  <2>6. Tight(Merge(a, b), R)
    <3>1. PICK c : c = Merge(a, b)
      OBVIOUS
    <3>2. /\ c \in Cardinalities
          /\ 0 \in R <=> c \in HasNone
          /\ 1 \in R => c \in HasOne
          /\ c \in HasOne \ HasMore => 1 \in R
          /\ (\E n \in R : n >= 2) <=> c \in HasMore
      BY <3>1, <2>2, <2>3, <2>4, <2>5, MergeTable
    <3>3. Tight(c, R)
      BY <3>2, <2>2, ExactIsTight
    <3> QED
      BY <3>1, <3>3
  <2> QED
    BY <2>6 DEF R
<1>5. Tight(Or(a, b), Of(a) \cup Of(b))
  <2> DEFINE R == Of(a) \cup Of(b)
  <2>1. R \subseteq Nat
    BY <1>1
  <2>2. 2 >= 2
    OBVIOUS
  <2>3. (\E n \in R : n >= 2) <=> a \in HasMore \/ b \in HasMore
    BY <1>1, <2>2
  <2>4. /\ 0 \in R <=> a \in HasNone \/ b \in HasNone
        /\ 1 \in R <=> a \in HasOne \/ b \in HasOne
    BY <1>1
  <2> HIDE DEF R
  <2>5. Tight(Or(a, b), R)
    <3>1. PICK c : c = Or(a, b)
      OBVIOUS
    <3>2. /\ c \in Cardinalities
          /\ 0 \in R <=> c \in HasNone
          /\ 1 \in R => c \in HasOne
          /\ c \in HasOne \ HasMore => 1 \in R
          /\ (\E n \in R : n >= 2) <=> c \in HasMore
      BY <3>1, <2>1, <2>3, <2>4, OrTable
    <3>3. Tight(c, R)
      BY <3>2, <2>1, ExactIsTight
    <3> QED
      BY <3>1, <3>3
  <2> QED
    BY <2>5 DEF R
<1> QED
  BY <1>3, <1>4, <1>5 DEF CombinedSound

LEMMA LowerBoundTable ==
    ASSUME NEW a \in Cardinalities,
           NEW one, one = OverrideLowerBound(a, "One"), NEW zero, zero = OverrideLowerBound(a, "Zero")
    PROVE  /\ one \in Cardinalities /\ one = LowerBoundType(a, "One")
           /\ one \notin HasNone /\ one \in HasOne
           /\ one \in HasOne \ HasMore => a \in HasNone \/ a \in HasOne
           /\ one \in HasMore <=> a \in HasMore
           /\ zero \in Cardinalities /\ zero = LowerBoundType(a, "Zero")
           /\ zero \in HasNone
           /\ zero \in HasOne <=> a \in HasOne
           /\ zero \in HasMore <=> a \in HasMore
<1>1. CASE a = "Empty"
  BY <1>1 DEF Cardinalities, HasNone, HasOne, HasMore, OverrideLowerBound, LowerBoundType
<1>2. CASE a = "One"
  BY <1>2 DEF Cardinalities, HasNone, HasOne, HasMore, OverrideLowerBound, LowerBoundType
<1>3. CASE a = "AtMostOne"
  BY <1>3 DEF Cardinalities, HasNone, HasOne, HasMore, OverrideLowerBound, LowerBoundType
<1>4. CASE a = "AtLeastOne"
  BY <1>4 DEF Cardinalities, HasNone, HasOne, HasMore, OverrideLowerBound, LowerBoundType
<1>5. CASE a = "Many"
  BY <1>5 DEF Cardinalities, HasNone, HasOne, HasMore, OverrideLowerBound, LowerBoundType
<1> QED
  BY <1>1, <1>2, <1>3, <1>4, <1>5 DEF Cardinalities

LEMMA UpperBoundTable ==
    ASSUME NEW a \in Cardinalities,
           NEW one, one = OverrideUpperBound(a, "One"), NEW many, many = OverrideUpperBound(a, "Many")
    PROVE  /\ one \in Cardinalities /\ one = UpperBoundType(a, "One")
           /\ a \in HasNone => one \in HasNone
           /\ one \in HasOne
           /\ many \in Cardinalities /\ many = UpperBoundType(a, "Many")
           /\ many \in HasNone <=> a \in HasNone
           /\ many \in HasMore /\ many \in HasOne
<1>1. CASE a = "Empty"
  BY <1>1 DEF Cardinalities, HasNone, HasOne, HasMore, OverrideUpperBound, UpperBoundType
<1>2. CASE a = "One"
  BY <1>2 DEF Cardinalities, HasNone, HasOne, HasMore, OverrideUpperBound, UpperBoundType
<1>3. CASE a = "AtMostOne"
  BY <1>3 DEF Cardinalities, HasNone, HasOne, HasMore, OverrideUpperBound, UpperBoundType
<1>4. CASE a = "AtLeastOne"
  BY <1>4 DEF Cardinalities, HasNone, HasOne, HasMore, OverrideUpperBound, UpperBoundType
<1>5. CASE a = "Many"
  BY <1>5 DEF Cardinalities, HasNone, HasOne, HasMore, OverrideUpperBound, UpperBoundType
<1> QED
  BY <1>1, <1>2, <1>3, <1>4, <1>5 DEF Cardinalities

LEMMA BoundsAreSound == ASSUME NEW a \in Cardinalities PROVE BoundsSound(a)
<1>1. /\ Of(a) \subseteq Nat
      /\ 0 \in Of(a) <=> a \in HasNone
      /\ 1 \in Of(a) <=> a \in HasOne
      /\ 2 \in Of(a) <=> a \in HasMore
      /\ \A n \in Of(a) : n >= 2 => a \in HasMore
  BY OfFacts
<1>2. /\ a \in HasNone \/ a \in HasOne
      /\ HasMore \subseteq HasOne
  BY DEF Cardinalities, HasNone, HasOne, HasMore
<1>3. PICK lower, zero, upper, many :
         /\ lower = OverrideLowerBound(a, "One") /\ zero = OverrideLowerBound(a, "Zero")
         /\ upper = OverrideUpperBound(a, "One") /\ many = OverrideUpperBound(a, "Many")
  OBVIOUS
<1>4. Tight(lower, {IF n = 0 THEN 1 ELSE n : n \in Of(a)})
  <2> DEFINE R == {IF n = 0 THEN 1 ELSE n : n \in Of(a)}
  <2>1. R \subseteq Nat /\ 0 \notin R
    BY <1>1
  <2>2. 1 \in R <=> a \in HasNone \/ a \in HasOne
    BY <1>1
  <2>3. (\E n \in R : n >= 2) <=> a \in HasMore
    <3>1. ASSUME NEW n \in Of(a), (IF n = 0 THEN 1 ELSE n) >= 2 PROVE a \in HasMore
      BY <1>1, <3>1
    <3>2. ASSUME 2 \in Of(a) PROVE 2 \in R
      BY <3>2
    <3>3. 2 >= 2
      OBVIOUS
    <3> QED
      BY <1>1, <3>1, <3>2, <3>3
  <2> HIDE DEF R
  <2>4. /\ lower \in Cardinalities
        /\ 0 \in R <=> lower \in HasNone
        /\ 1 \in R => lower \in HasOne
        /\ lower \in HasOne \ HasMore => 1 \in R
        /\ (\E n \in R : n >= 2) <=> lower \in HasMore
    BY <1>2, <1>3, <2>1, <2>2, <2>3, LowerBoundTable
  <2>5. Tight(lower, R)
    BY <2>1, <2>4, ExactIsTight
  <2> QED
    BY <2>5 DEF R
<1>5. Tight(zero, UNION {0..n : n \in Of(a)})
  <2> DEFINE R == UNION {0..n : n \in Of(a)}
  <2>1. \A k : k \in R <=> k \in Nat /\ \E n \in Of(a) : k <= n
    BY <1>1
  <2> HIDE DEF R
  <2>2. R \subseteq Nat
    BY <2>1
  <2>3. 0 \in R
    BY <1>1, <1>2, <2>1
  <2>4. 1 \in R <=> a \in HasOne
    <3>1. ASSUME 1 \in R PROVE a \in HasOne
      <4>1. PICK n \in Of(a) : 1 <= n
        BY <3>1, <2>1
      <4>2. n = 1 \/ n >= 2
        BY <4>1, <1>1
      <4> QED
        BY <4>1, <4>2, <1>1, <1>2
    <3> QED
      BY <3>1, <1>1, <2>1
  <2>5. (\E n \in R : n >= 2) <=> a \in HasMore
    <3>1. ASSUME NEW k \in R, k >= 2 PROVE a \in HasMore
      <4>1. k \in Nat /\ \E n \in Of(a) : k <= n
        BY <2>1
      <4>2. PICK n \in Of(a) : k <= n
        BY <4>1
      <4>3. n \in Nat /\ n >= 2
        BY <4>1, <4>2, <3>1, <1>1
      <4> QED
        BY <4>3, <1>1
    <3>2. ASSUME 2 \in Of(a) PROVE 2 \in R
      BY <3>2, <2>1
    <3>3. 2 >= 2
      OBVIOUS
    <3> QED
      BY <1>1, <3>1, <3>2, <3>3
  <2>6. /\ zero \in Cardinalities
        /\ 0 \in R <=> zero \in HasNone
        /\ 1 \in R => zero \in HasOne
        /\ zero \in HasOne \ HasMore => 1 \in R
        /\ (\E n \in R : n >= 2) <=> zero \in HasMore
    BY <1>3, <2>3, <2>4, <2>5, LowerBoundTable
  <2>7. Tight(zero, R)
    BY <2>2, <2>6, ExactIsTight
  <2> QED
    BY <2>7 DEF R
<1>6. ASSUME NEW n \in Of(a) PROVE Admits(upper, IF n > 1 THEN 1 ELSE n)
  <2>1. upper \in Cardinalities /\ (a \in HasNone => upper \in HasNone) /\ upper \in HasOne
    BY <1>3, UpperBoundTable
  <2>2. CASE n = 0
    BY <1>1, <2>1, <2>2, AdmitsFacts
  <2>3. CASE n # 0
    <3>1. (IF n > 1 THEN 1 ELSE n) = 1
      BY <1>1, <2>3
    <3> QED
      BY <3>1, <2>1, AdmitsFacts
  <2> QED
    BY <2>2, <2>3
<1>7. Tight(many, {k \in Amounts : \E n \in Of(a) : n <= k})
  <2> DEFINE R == {k \in Amounts : \E n \in Of(a) : n <= k}
  <2>1. /\ R \subseteq Nat
        /\ \A k \in Amounts : (\E n \in Of(a) : n <= k) => k \in R
        /\ \A k \in R : \E n \in Of(a) : n <= k
        /\ 0 \in Amounts /\ 1 \in Amounts /\ 2 \in Amounts
    BY AmountsAssumption
  <2> HIDE DEF R
  <2>2. 0 \in R <=> a \in HasNone
    <3>1. ASSUME 0 \in R PROVE a \in HasNone
      <4>1. PICK n \in Of(a) : n <= 0
        BY <3>1, <2>1
      <4>2. n = 0
        BY <4>1, <1>1
      <4> QED
        BY <4>1, <4>2, <1>1
    <3> QED
      BY <3>1, <1>1, <2>1
  <2>3. 0 <= 1 /\ 1 <= 1 /\ 0 <= 2 /\ 1 <= 2 /\ 2 >= 2
    OBVIOUS
  <2>4. 1 \in R /\ 2 \in R
    BY <1>1, <1>2, <2>1, <2>3
  <2>5. /\ many \in Cardinalities
        /\ 0 \in R <=> many \in HasNone
        /\ many \in HasOne /\ many \in HasMore
    BY <1>3, <2>2, UpperBoundTable
  <2>6. Tight(many, R)
    BY <2>1, <2>3, <2>4, <2>5, ExactIsTight
  <2> QED
    BY <2>6 DEF R
<1> QED
  BY <1>3, <1>4, <1>5, <1>6, <1>7 DEF BoundsSound

LEMMA NarrowerIs ==
    ASSUME NEW c \in Cardinalities, NEW d \in Cardinalities
    PROVE  Narrower(c, d) <=> /\ c \in HasNone => d \in HasNone
                              /\ c \in HasOne => d \in HasOne
                              /\ c \in HasMore => d \in HasMore
<1>1. /\ 0 \in Of(c) <=> c \in HasNone
      /\ 0 \in Of(d) <=> d \in HasNone
      /\ 1 \in Of(c) <=> c \in HasOne
      /\ 1 \in Of(d) <=> d \in HasOne
      /\ 2 \in Of(c) <=> c \in HasMore
      /\ 2 \in Of(d) <=> d \in HasMore
  BY OfFacts
<1>2. ASSUME c \in HasNone => d \in HasNone, c \in HasOne => d \in HasOne,
             c \in HasMore => d \in HasMore, NEW n \in Of(c)
      PROVE  n \in Of(d)
  <2>1. n \in Amounts /\ n \in Nat /\ Admits(c, n)
    BY AmountsAssumption DEF Of
  <2>2. n = 0 \/ n = 1 \/ n >= 2
    BY <2>1
  <2>3. Admits(d, n)
    BY <1>2, <2>1, <2>2, AdmitsFacts
  <2> QED
    BY <2>1, <2>3 DEF Of
<1> QED
  BY <1>1, <1>2 DEF Narrower

LEMMA TypesDoAgree ==
    ASSUME NEW a \in Cardinalities, NEW b \in Cardinalities PROVE TypesAgree(a, b)
<1>1. Multiply(a, b) = MultiplyType(a, b) /\ Merge(a, b) = MergeType(a, b) /\ Or(a, b) = OrType(a, b)
  BY MultiplyTable, MergeTable, OrTable
<1>2. /\ OverrideLowerBound(a, "One") = LowerBoundType(a, "One")
      /\ OverrideLowerBound(a, "Zero") = LowerBoundType(a, "Zero")
      /\ OverrideUpperBound(a, "One") = UpperBoundType(a, "One")
      /\ OverrideUpperBound(a, "Many") = UpperBoundType(a, "Many")
  BY LowerBoundTable, UpperBoundTable
<1> QED
  BY <1>1, <1>2 DEF TypesAgree

LEMMA AssignableIsSound ==
    ASSUME NEW a \in Cardinalities, NEW b \in Cardinalities PROVE AssignableSound(a, b)
<1>1. /\ a # "AtLeastOne" /\ b \in Assignable(a) =>
            /\ b \in HasNone => a \in HasNone
            /\ b \in HasOne => a \in HasOne
            /\ b \in HasMore => a \in HasMore
      /\ (b \in HasNone => a \in HasNone) /\ (b \in HasOne => a \in HasOne) /\ (b \in HasMore => a \in HasMore)
            => b \in Assignable(a)
  <2>1. CASE a = "Empty"
    BY   <2>1 DEF Cardinalities, HasNone, HasOne, HasMore, Assignable
  <2>2. CASE a = "One"
    BY   <2>2 DEF Cardinalities, HasNone, HasOne, HasMore, Assignable
  <2>3. CASE a = "AtMostOne"
    BY   <2>3 DEF Cardinalities, HasNone, HasOne, HasMore, Assignable
  <2>4. CASE a = "AtLeastOne"
    BY   <2>4 DEF Cardinalities, HasNone, HasOne, HasMore, Assignable
  <2>5. CASE a = "Many"
    BY   <2>5 DEF Cardinalities, HasNone, HasOne, HasMore, Assignable
  <2> QED
    BY   <2>1,   <2>2,   <2>3,   <2>4,   <2>5 DEF Cardinalities
<1> QED
  BY <1>1, NarrowerIs DEF AssignableSound

LEMMA ParametersAreSound == ASSUME NEW a \in Cardinalities PROVE ParametersSound(a)
<1> SUFFICES ASSUME NEW mode \in {"one", "optional", "setof"}, NEW preserves \in BOOLEAN, NEW n \in Of(a)
             PROVE  Admits(ParamCardinality([mode |-> mode], a, preserves), Calls(mode, n, preserves))
  BY DEF ParametersSound
<1> DEFINE param == [mode |-> mode]
<1>1. n \in Nat /\ Admits(a, n) /\ param.mode = mode /\ (n = 0 \/ n = 1 \/ n >= 2)
  BY OfFacts, AmountsAssumption DEF Of
<1>2. PICK lower, upper : lower = OverrideLowerBound(a, "One") /\ upper = OverrideUpperBound(a, "One")
  OBVIOUS
<1>3. /\ lower \in Cardinalities /\ lower \in HasOne
      /\ lower \in HasMore <=> a \in HasMore
  BY <1>2, LowerBoundTable
<1>4. /\ upper \in Cardinalities /\ upper \in HasOne
      /\ a \in HasNone => upper \in HasNone
  BY <1>2, UpperBoundTable
<1> HIDE DEF param
<1>5. CASE mode = "one"
  <2>1. ParamCardinality(param, a, preserves) = a
    BY <1>1, <1>5 DEF ParamCardinality
  <2>2. Calls(mode, n, preserves) = n
    BY <1>5 DEF Calls
  <2> QED
    BY <1>1, <2>1, <2>2 DEF param
<1>6. CASE mode = "optional"
  <2>1. ParamCardinality(param, a, preserves) = lower
    BY <1>1, <1>2, <1>6 DEF ParamCardinality
  <2>2. Calls(mode, n, preserves) = IF n = 0 THEN 1 ELSE n
    BY <1>6 DEF Calls
  <2>3. Admits(lower, IF n = 0 THEN 1 ELSE n)
    BY <1>1, <1>3, AdmitsFacts
  <2> QED
    BY <2>1, <2>2, <2>3 DEF param
<1>7. CASE mode = "setof" /\ preserves
  <2>1. ParamCardinality(param, a, preserves) = upper
    BY <1>1, <1>2, <1>7 DEF ParamCardinality
  <2>2. Calls(mode, n, preserves) = IF n = 0 THEN 0 ELSE 1
    BY <1>7 DEF Calls
  <2>3. Admits(upper, IF n = 0 THEN 0 ELSE 1)
    BY <1>1, <1>4, AdmitsFacts
  <2> QED
    BY <2>1, <2>2, <2>3 DEF param
<1>8. CASE mode = "setof" /\ ~preserves
  <2>1. ParamCardinality(param, a, preserves) = "One"
    BY <1>1, <1>8 DEF ParamCardinality
  <2>2. Calls(mode, n, preserves) = 1
    BY <1>8 DEF Calls
  <2> QED
    BY <2>1, <2>2 DEF param, Admits
<1> QED
  BY <1>5, <1>6, <1>7, <1>8

LEMMA TablesAreSound ==
    ASSUME NEW a \in Cardinalities, NEW b \in Cardinalities PROVE TablesSound(a, b)
BY CombinedIsSound, BoundsAreSound, TypesDoAgree, AssignableIsSound, ParametersAreSound DEF TablesSound

-----------------------------------------------------------------------------
(* Modifiers.                                                              *)

\* What is given as modifiers.
IsModifiers(mods) ==
    /\ mods.filter # NoFilter =>
           mods.filter.eq \in BOOLEAN /\ mods.filter.exclusive \in BOOLEAN /\ mods.filter.card \in Cardinalities
    /\ mods.limit \in {"none", "zero", "some"} /\ mods.offset \in {"none", "zero", "some"}

\* The filter is an equality of an exclusive pointer of the objects.
Identifies(filter, base) == filter # NoFilter /\ filter.eq /\ filter.exclusive /\ filter.of = base

LEMMA FilterTable ==
    ASSUME NEW card \in Cardinalities, NEW base, NEW filter, NEW filtered,
           filter # NoFilter =>
               filter.eq \in BOOLEAN /\ filter.exclusive \in BOOLEAN /\ filter.card \in Cardinalities,
           filtered = FilterCardinality(card, base, filter)
    PROVE  /\ filtered \in Cardinalities
           /\ ~Identifies(filter, base) => filtered = card
           /\ Identifies(filter, base) =>
                 /\ filtered = card \/ filtered = "Empty" \/ filtered = "AtMostOne"
                 /\ card \in HasNone => filtered \in HasNone
                 /\ card \in HasOne /\ filter.card \in HasOne => filtered \in HasOne
                 /\ filter.card \in HasMore => filtered = card
                 /\ filter.card \in Cardinalities
<1>1. CASE ~Identifies(filter, base)
  BY <1>1 DEF Identifies, FilterCardinality
<1>2. CASE Identifies(filter, base)
  <2>1. filtered = MatchCardinality(card, filter.card) /\ filter.card \in Cardinalities
    BY <1>2 DEF Identifies, FilterCardinality
  <2>2. CASE filter.card \in {"One", "AtMostOne"}
    <3>1. filtered = "AtMostOne"
      BY <2>1, <2>2 DEF MatchCardinality
    <3> QED
      BY <1>2, <2>2, <3>1 DEF Cardinalities, HasNone, HasOne, HasMore
  <2>3. CASE filter.card = "Empty"
    <3>1. filtered = "Empty"
      BY <2>1, <2>3 DEF MatchCardinality
    <3> QED
      BY <1>2, <2>3, <3>1 DEF Cardinalities, HasNone, HasOne, HasMore
  <2>4. CASE filter.card \in {"Many", "AtLeastOne"}
    <3>1. filtered = card
      BY <2>1, <2>4 DEF MatchCardinality
    <3> QED
      BY <1>2, <2>4, <3>1 DEF Cardinalities, HasNone, HasOne, HasMore
  <2> QED
    BY <2>1, <2>2, <2>3, <2>4 DEF Cardinalities
<1> QED
  BY <1>1, <1>2

\* What the functions and the types give for modifiers.
LEMMA ModifiedIs ==
    ASSUME NEW card \in Cardinalities, NEW base, NEW mods, IsModifiers(mods),
           NEW filtered \in Cardinalities, filtered = FilterCardinality(card, base, mods.filter),
           NEW lower, lower = OverrideLowerBound(filtered, "Zero")
    PROVE  /\ Modified(card, base, mods) = IF "some" \in {mods.limit, mods.offset} THEN lower ELSE filtered
           /\ ModifiedType(card, base, mods) = IF mods.limit # "none" \/ mods.offset # "none" THEN lower ELSE filtered
<1>1. /\ lower \in Cardinalities /\ lower = LowerBoundType(filtered, "Zero")
  BY LowerBoundTable
<1>2. OverrideLowerBound(lower, "Zero") = lower
  BY DEF Cardinalities, OverrideLowerBound
<1>3. CASE mods.limit = "some" /\ mods.offset = "some"
  BY <1>1, <1>2, <1>3 DEF Modified, ModifiedType
<1>4. CASE mods.limit # "some" /\ mods.offset = "some"
  BY <1>1, <1>4 DEF Modified, ModifiedType
<1>5. CASE mods.limit = "some" /\ mods.offset # "some"
  BY <1>1, <1>5 DEF Modified, ModifiedType
<1>6. CASE mods.limit # "some" /\ mods.offset # "some"
  BY <1>1, <1>6 DEF Modified, ModifiedType
<1> QED
  BY <1>3, <1>4, <1>5, <1>6

LEMMA ModifiersAreSound ==
    ASSUME NEW card \in Cardinalities, NEW base, NEW mods, IsModifiers(mods)
    PROVE  ModifiersSound(card, base, mods)
<1> SUFFICES ASSUME mods.filter = NoFilter \/ Admits(card, 0)
             PROVE  /\ \A n \in Of(card), p, r \in Amounts :
                          /\ Passes(mods.filter, base, n, p)
                          /\ r <= p /\ (r = p \/ "some" \in {mods.limit, mods.offset})
                          => Admits(Modified(card, base, mods), r)
                    /\ Narrower(Modified(card, base, mods), ModifiedType(card, base, mods))
  BY DEF ModifiersSound
<1>1. PICK filter, filtered, lower : /\ filter = mods.filter
                                    /\ filtered = FilterCardinality(card, base, filter)
                                    /\ lower = OverrideLowerBound(filtered, "Zero")
  OBVIOUS
<1>2. /\ filtered \in Cardinalities
      /\ ~Identifies(filter, base) => filtered = card
      /\ Identifies(filter, base) =>
            /\ filtered = card \/ filtered = "Empty" \/ filtered = "AtMostOne"
            /\ card \in HasNone => filtered \in HasNone
            /\ card \in HasOne /\ filter.card \in HasOne => filtered \in HasOne
            /\ filter.card \in HasMore => filtered = card
            /\ filter.card \in Cardinalities
  BY <1>1, FilterTable DEF IsModifiers
<1>3. /\ lower \in Cardinalities /\ lower \in HasNone
      /\ lower \in HasOne <=> filtered \in HasOne
      /\ lower \in HasMore <=> filtered \in HasMore
  BY <1>1, <1>2, LowerBoundTable
<1>4. /\ Modified(card, base, mods) = IF "some" \in {mods.limit, mods.offset} THEN lower ELSE filtered
      /\ ModifiedType(card, base, mods) = IF mods.limit # "none" \/ mods.offset # "none" THEN lower ELSE filtered
  BY <1>1, <1>2, ModifiedIs
<1>5. Narrower(Modified(card, base, mods), ModifiedType(card, base, mods))
  <2>1. Narrower(filtered, lower) /\ Narrower(filtered, filtered) /\ Narrower(lower, lower)
    BY <1>2, <1>3, NarrowerIs
  <2>2. "some" \in {mods.limit, mods.offset} => mods.limit # "none" \/ mods.offset # "none"
    OBVIOUS
  <2> QED
    BY <1>4, <2>1, <2>2
<1>6. \A n \in Amounts : n \in Nat /\ (n = 0 \/ n = 1 \/ n >= 2)
  BY AmountsAssumption
<1>7. ASSUME NEW n \in Of(card), NEW p \in Amounts, Passes(filter, base, n, p)
      PROVE  Admits(filtered, p)
  <2>1. n \in Nat /\ p \in Nat /\ n \in Amounts /\ Admits(card, n) /\ (filter = NoFilter => p = n)
    BY <1>6, <1>7 DEF Of, Passes
  <2>2. filter # NoFilter => card \in HasNone
    BY <1>1, AdmitsFacts
  <2>3. p <= n
    BY <1>7, <2>1 DEF Passes
  <2>4. HasMore \subseteq HasOne
    BY DEF HasMore, HasOne
  <2>5. CASE ~Identifies(filter, base)
    <3>1. CASE filter = NoFilter
      BY <1>2, <2>1, <2>5, <3>1
    <3>2. CASE filter # NoFilter /\ p = 0
      BY <1>2, <2>1, <2>2, <2>5, <3>2, AdmitsFacts
    <3>3. CASE filter # NoFilter /\ p # 0
      <4>1. (n = 1 \/ n >= 2) /\ (p = 1 \/ p >= 2) /\ (p >= 2 => n >= 2)
        BY <2>1, <2>3, <3>3
      <4>2. (card \in HasOne) /\ (p >= 2 => card \in HasMore)
        BY <2>1, <2>4, <4>1, AdmitsFacts
      <4> QED
        BY <1>2, <2>1, <2>5, <4>1, <4>2, AdmitsFacts
    <3> QED
      BY <3>1, <3>2, <3>3
  <2>6. CASE Identifies(filter, base)
    <3>1. PICK k \in Of(filter.card) : p <= k
      BY <1>7, <2>6 DEF Passes, Identifies
    <3>2. k \in Nat /\ Admits(filter.card, k) /\ filter.card \in Cardinalities
      BY <1>2, <1>6, <2>6 DEF Of
    <3>3. CASE p = 0
      BY <1>2, <2>2, <2>6, <3>3, AdmitsFacts DEF Identifies
    <3>4. CASE p = 1
      <4>1. (n = 1 \/ n >= 2) /\ (k = 1 \/ k >= 2)
        BY <2>1, <2>3, <3>1, <3>2, <3>4
      <4>2. card \in HasOne /\ filter.card \in HasOne
        BY <2>1, <2>4, <3>2, <4>1, AdmitsFacts
      <4> QED
        BY <1>2, <2>6, <3>4, <4>2, AdmitsFacts
    <3>5. CASE p >= 2
      <4>1. n >= 2 /\ k >= 2
        BY <2>1, <2>3, <3>1, <3>2, <3>5
      <4>2. card \in HasMore /\ filter.card \in HasMore
        BY <2>1, <3>2, <4>1, AdmitsFacts
      <4> QED
        BY <1>2, <2>1, <2>6, <3>5, <4>2, AdmitsFacts
    <3> QED
      BY <1>6, <2>1, <3>3, <3>4, <3>5
  <2> QED
    BY <2>5, <2>6
<1>8. ASSUME NEW n \in Of(card), NEW p \in Amounts, NEW r \in Amounts,
             Passes(filter, base, n, p), r <= p, r = p \/ "some" \in {mods.limit, mods.offset}
      PROVE  Admits(Modified(card, base, mods), r)
  <2>1. Admits(filtered, p)
    BY <1>7, <1>8
  <2>2. r \in Nat /\ p \in Nat
    BY <1>6
  <2>3. CASE "some" \notin {mods.limit, mods.offset}
    BY <1>4, <1>8, <2>1, <2>3
  <2>4. CASE "some" \in {mods.limit, mods.offset}
    <3>1. HasMore \subseteq HasOne
      BY DEF HasMore, HasOne
    <3>2. CASE r = 0
      BY <1>3, <1>4, <2>4, <3>2, AdmitsFacts
    <3>3. CASE r = 1
      <4>1. p = 1 \/ p >= 2
        BY <1>8, <2>2, <3>3
      <4>2. lower \in HasOne
        BY <1>2, <1>3, <2>1, <2>2, <3>1, <4>1, AdmitsFacts
      <4> QED
        BY <1>3, <1>4, <2>4, <3>3, <4>2, AdmitsFacts
    <3>4. CASE r >= 2
      <4>1. p >= 2
        BY <1>8, <2>2, <3>4
      <4>2. lower \in HasMore
        BY <1>2, <1>3, <2>1, <2>2, <4>1, AdmitsFacts
      <4> QED
        BY <1>3, <1>4, <2>2, <2>4, <3>4, <4>2, AdmitsFacts
    <3> QED
      BY <1>6, <2>2, <3>2, <3>3, <3>4
  <2> QED
    BY <2>3, <2>4
<1> QED
  BY <1>1, <1>5, <1>8

\* A case of the inference, whatever the cardinalities, the type and the modifiers.
InferenceNext ==
    \/ \E a, b \in Cardinalities : Given("tables", <<a, b>>)
    \/ \E card \in Cardinalities : \E base, mods :
          IsModifiers(mods) /\ Given("modifiers", <<card, base, mods>>)

InferenceSpec == case = NoCase /\ [][InferenceNext]_case

\* For any numbers of elements a product, a set, a choice, a bound, a parameter and
\* a query with modifiers have as many as the inferred cardinality admits, and the
\* compiler shows what goes into the query (reflection/util/cardinalityUtil.ts,
\* syntax/funcops.ts, select.ts).
THEOREM InferenceIsSound == InferenceSpec => []InferenceSound
<1>1. case = NoCase => InferenceSound
  BY DEF NoCase, InferenceSound
<1>2. InferenceSound /\ [InferenceNext]_case => InferenceSound'
  <2> SUFFICES ASSUME InferenceSound, [InferenceNext]_case PROVE InferenceSound'
    OBVIOUS
  <2>1. CASE UNCHANGED case
    BY <2>1 DEF InferenceSound
  <2>2. ASSUME NEW a \in Cardinalities, NEW b \in Cardinalities, Given("tables", <<a, b>>)
        PROVE  InferenceSound'
    <3>1. case' = [of |-> "tables", input |-> <<a, b>>]
      BY <2>2 DEF Given
    <3> QED
      BY <3>1, TablesAreSound DEF InferenceSound
  <2>3. ASSUME NEW card \in Cardinalities, NEW base, NEW mods, IsModifiers(mods),
               Given("modifiers", <<card, base, mods>>)
        PROVE  InferenceSound'
    <3>1. case' = [of |-> "modifiers", input |-> <<card, base, mods>>]
      BY <2>3 DEF Given
    <3> QED
      BY <2>3, <3>1, ModifiersAreSound DEF InferenceSound
  <2> QED
    BY <2>1, <2>2, <2>3 DEF InferenceNext
<1> QED
  BY <1>1, <1>2, PTL DEF InferenceSpec
=============================================================================
