----------------------------- MODULE LRUProofs -----------------------------
(***************************************************************************)
(* The operations of LRU, for any capacity, keys and values.               *)
(*                                                                         *)
(* The argument: the nodes of a cache that is in order are those of one    *)
(* sequence, without repetition, whose neighbours the links name           *)
(* (Linked), and the map is the inverse of the nodes' keys (Mapped).  Each *)
(* operation keeps that for a sequence that it determines, and entries()   *)
(* walks along it.                                                         *)
(***************************************************************************)
EXTENDS LRU, TLAPS, FiniteSetTheorems, SequenceTheorems,
        FunctionTheorems, WellFoundedInduction

-----------------------------------------------------------------------------
(* Induction over the naturals, for a set.                                 *)

LEMMA LeastNat ==
    ASSUME NEW T, T \subseteq Nat, T # {}
    PROVE  \E n \in T : \A m \in T : ~(m < n)
<1> DEFINE U == {0..n : n \in T}
           R == StrictSubsetOrdering(Nat)
           F == FiniteSubsetsOf(Nat)
<1>1. IsWellFoundedOn(R, F)
  BY FS_StrictSubsetOrderingWellFounded
<1>2. U \subseteq F /\ U # {}
  <2>1. ASSUME NEW n \in T PROVE 0..n \in F
    <3>1. IsFiniteSet(0..n)
      BY FS_Interval
    <3>2. 0..n \in SUBSET Nat
      OBVIOUS
    <3> QED
      BY <3>1, <3>2 DEF FiniteSubsetsOf
  <2> QED
    BY <2>1
<1>3. ASSUME NEW m \in T, NEW n \in T, m < n
      PROVE  <<0..m, 0..n>> \in R
  <2>1. m \in Nat /\ n \in Nat
    OBVIOUS
  <2>2. 0..m \subseteq 0..n /\ n \in 0..n /\ n \notin 0..m
    BY <1>3, <2>1
  <2>3. 0..m \in SUBSET Nat /\ 0..n \in SUBSET Nat /\ 0..m # 0..n
    BY <2>1, <2>2
  <2> QED
    BY <2>2, <2>3 DEF StrictSubsetOrdering
<1> HIDE DEF R, F
<1>4. PICK X \in U : \A Y \in U : ~(<<Y, X>> \in R)
  <2> HIDE DEF U
  <2> QED
    BY <1>1, <1>2, WFMin
<1>5. PICK n \in T : X = 0..n
  BY <1>4
<1> QED
  BY <1>3, <1>4, <1>5

LEMMA SetInduction ==
    ASSUME NEW S, 0 \in S, \A n \in Nat : n \in S => n + 1 \in S
    PROVE  Nat \subseteq S
<1> SUFFICES ASSUME Nat \ S # {} PROVE FALSE
  OBVIOUS
<1>1. PICK n \in Nat \ S : \A m \in Nat \ S : ~(m < n)
  BY LeastNat
<1>2. n # 0 /\ n - 1 \in Nat /\ (n - 1) + 1 = n /\ n - 1 < n
  BY <1>1
<1>3. n - 1 \in S
  BY <1>1, <1>2
<1> QED
  BY <1>1, <1>2, <1>3

-----------------------------------------------------------------------------
(* A cache that is in order.                                               *)

\* The fields of a cache and of its nodes.
Shape(c) ==
    /\ c = [capacity |-> c.capacity, map |-> c.map, node |-> c.node,
            head |-> c.head, tail |-> c.tail, len |-> c.len]
    /\ c.capacity \in Nat \ {0}
    /\ c.map = [k \in DOMAIN c.map |-> c.map[k]]
    /\ c.node = [i \in DOMAIN c.node |->
                    [key |-> c.node[i].key, value |-> c.node[i].value,
                     prev |-> c.node[i].prev, next |-> c.node[i].next]]

\* The nodes are the elements of the sequence s, each of them there once.
Nodes(c, s) ==
    /\ s \in Seq(Nat \ {0}) /\ c.len = Len(s)
    /\ DOMAIN c.node \subseteq 1..(c.capacity + 1)
    /\ \A i \in DOMAIN c.node : \E p \in 1..Len(s) : s[p] = i
Once(s) == \A p, q \in 1..Len(s) : s[p] = s[q] => p = q

\* The list is the sequence s.
Extremes(c, s) ==
    /\ c.head = IF Len(s) = 0 THEN 0 ELSE s[1]
    /\ c.tail = IF Len(s) = 0 THEN 0 ELSE s[Len(s)]
Links(c, s) ==
    \A p \in 1..Len(s) :
        /\ s[p] \in DOMAIN c.node
        /\ c.node[s[p]].prev = IF p = 1 THEN 0 ELSE s[p - 1]
        /\ c.node[s[p]].next = IF p = Len(s) THEN 0 ELSE s[p + 1]
Linked(c, s) == Nodes(c, s) /\ Once(s) /\ Extremes(c, s) /\ Links(c, s)

\* The map leads from a node's key to the node.
Mapped(c) ==
    /\ \A k \in DOMAIN c.map : c.map[k] \in DOMAIN c.node /\ c.node[c.map[k]].key = k
    /\ \A i \in DOMAIN c.node : c.node[i].key \in DOMAIN c.map /\ c.map[c.node[i].key] = i

Sync(c, s) == Shape(c) /\ Linked(c, s) /\ Mapped(c)

\* What the cache holds, in the order of the list.
Contents(c, s) ==
    [p \in 1..Len(s) |-> [key |-> c.node[s[p]].key, value |-> c.node[s[p]].value]]

\* The sequence with x as its p-th element, with its p-th element on top,
\* without its last element, and with x before it.
Changed(s, p, x) == [n \in 1..Len(s) |-> IF n = p THEN x ELSE s[n]]
Raised(s, p) ==
    [n \in 1..Len(s) |-> IF n = 1 THEN s[p] ELSE IF n <= p THEN s[n - 1] ELSE s[n]]
Shortened(s) == [n \in 1..(Len(s) - 1) |-> s[n]]
Preceded(x, s) == [n \in 1..(Len(s) + 1) |-> IF n = 1 THEN x ELSE s[n - 1]]

LEMMA LinkedFacts ==
    ASSUME NEW c, NEW s, Sync(c, s)
    PROVE  /\ s \in Seq(Nat \ {0}) /\ Len(s) \in Nat /\ c.capacity \in Nat \ {0}
           /\ Shape(c) /\ Linked(c, s) /\ c.len = Len(s)
           /\ \A p \in 1..Len(s) : s[p] \in Nat /\ s[p] # 0 /\ s[p] \in DOMAIN c.node
           /\ 0 \notin DOMAIN c.node
BY DEF Sync, Shape, Linked, Nodes, Links

\* The neighbours of the p-th node.
LEMMA Neighbours ==
    ASSUME NEW c, NEW s, Linked(c, s), NEW p \in 1..Len(s)
    PROVE  /\ s[p] \in DOMAIN c.node /\ s[p] # 0
           /\ \A q \in 1..Len(s) : q # p => s[q] # s[p]
           /\ p = 1 => c.node[s[p]].prev = 0 /\ c.head = s[p]
           /\ p # 1 => c.node[s[p]].prev = s[p - 1] /\ c.head # s[p]
           /\ p = Len(s) => c.node[s[p]].next = 0 /\ c.tail = s[p]
           /\ p # Len(s) => c.node[s[p]].next = s[p + 1] /\ c.tail # s[p]
<1>1. /\ Len(s) \in Nat /\ Len(s) # 0 /\ 1 \in 1..Len(s) /\ Len(s) \in 1..Len(s)
      /\ s[p] \in Nat \ {0}
  BY DEF Linked, Nodes, Once, Extremes, Links
<1>2. \A q \in 1..Len(s) : q # p => s[q] # s[p]
  BY DEF Linked, Nodes, Once, Extremes, Links
<1>3. c.head = s[1] /\ c.tail = s[Len(s)] /\ s[p] \in DOMAIN c.node
  BY <1>1 DEF Linked, Nodes, Once, Extremes, Links
<1>4. /\ c.node[s[p]].prev = IF p = 1 THEN 0 ELSE s[p - 1]
      /\ c.node[s[p]].next = IF p = Len(s) THEN 0 ELSE s[p + 1]
  BY DEF Linked, Nodes, Once, Extremes, Links
<1> QED
  BY <1>1, <1>2, <1>3, <1>4

-----------------------------------------------------------------------------
(* MoveToTop.                                                              *)

LEMMA MoveToTopFields ==
    ASSUME NEW c, Shape(c), NEW id \in DOMAIN c.node, c.node[id].prev # 0,
           NEW d, d = MoveToTop(c, id)
    PROVE  /\ Shape(d)
           /\ d.capacity = c.capacity /\ d.map = c.map /\ d.len = c.len
           /\ d.head = id
           /\ d.tail = IF c.tail = id THEN c.node[id].prev ELSE c.tail
           /\ DOMAIN d.node = DOMAIN c.node
           /\ \A i \in DOMAIN c.node :
                 /\ d.node[i].key = c.node[i].key
                 /\ d.node[i].value = c.node[i].value
                 /\ d.node[i].next = LinkWithout(c, id, i)
                 /\ d.node[i].prev = BackLinkWithout(c, id, i)
<1> DEFINE node == [i \in DOMAIN c.node |->
                          [c.node[i] EXCEPT !.next = LinkWithout(c, id, i),
                                            !.prev = BackLinkWithout(c, id, i)]]
           tail == IF c.tail = id THEN c.node[id].prev ELSE c.tail
<1>1. d = [c EXCEPT !.node = node, !.head = id, !.tail = tail]
  BY DEF MoveToTop
<1>2. ASSUME NEW i \in DOMAIN c.node
      PROVE  /\ node[i] = [key |-> node[i].key, value |-> node[i].value,
                           prev |-> node[i].prev, next |-> node[i].next]
             /\ node[i].key = c.node[i].key /\ node[i].value = c.node[i].value
             /\ node[i].next = LinkWithout(c, id, i)
             /\ node[i].prev = BackLinkWithout(c, id, i)
  <2>1. c.node[i] = [key |-> c.node[i].key, value |-> c.node[i].value,
                     prev |-> c.node[i].prev, next |-> c.node[i].next]
    BY DEF Shape
  <2>2. node[i] = [key |-> c.node[i].key, value |-> c.node[i].value,
                   prev |-> BackLinkWithout(c, id, i), next |-> LinkWithout(c, id, i)]
    BY <2>1
  <2> HIDE DEF node
  <2> QED
    BY <2>2
<1>3. DOMAIN node = DOMAIN c.node /\ node = [i \in DOMAIN node |-> node[i]]
  OBVIOUS
<1> HIDE DEF node, tail
<1>4. d = [capacity |-> c.capacity, map |-> c.map, node |-> node,
           head |-> id, tail |-> tail, len |-> c.len]
  BY <1>1 DEF Shape
<1>5. /\ d.capacity = c.capacity /\ d.map = c.map /\ d.len = c.len
      /\ d.head = id /\ d.tail = tail /\ d.node = node
  BY <1>4
<1>6. Shape(d)
  <2>1. ASSUME NEW i \in DOMAIN node
        PROVE  node[i] = [key |-> node[i].key, value |-> node[i].value,
                          prev |-> node[i].prev, next |-> node[i].next]
    BY <1>2, <1>3
  <2>2. node = [i \in DOMAIN node |->
                    [key |-> node[i].key, value |-> node[i].value,
                     prev |-> node[i].prev, next |-> node[i].next]]
    BY <1>3, <2>1
  <2> QED
    BY <1>4, <1>5, <2>2 DEF Shape
<1> QED
  BY <1>2, <1>3, <1>5, <1>6 DEF tail

LEMMA RaisedFacts ==
    ASSUME NEW X, NEW s \in Seq(X), NEW p \in 1..Len(s), NEW t, t = Raised(s, p)
    PROVE  /\ t \in Seq(X) /\ Len(t) = Len(s) /\ Len(s) \in Nat
           /\ t[1] = s[p]
           /\ \A n \in 2..p : t[n] = s[n - 1]
           /\ \A n \in (p + 1)..Len(s) : t[n] = s[n]
<1>1. Len(s) \in Nat /\ p \in Nat /\ p <= Len(s) /\ 1 <= p
  OBVIOUS
<1>2. \A n \in 1..Len(s) : s[n] \in X
  OBVIOUS
<1>3. t = [n \in 1..Len(s) |-> IF n = 1 THEN s[p] ELSE IF n <= p THEN s[n - 1] ELSE s[n]]
  BY DEF Raised
<1>4. ASSUME NEW n \in 1..Len(s)
      PROVE  (IF n = 1 THEN s[p] ELSE IF n <= p THEN s[n - 1] ELSE s[n]) \in X
  <2>1. n # 1 => n - 1 \in 1..Len(s)
    BY <1>1
  <2> QED
    BY <1>2, <2>1
<1>5. t \in [1..Len(s) -> X]
  BY <1>3, <1>4
<1>6. t \in Seq(X) /\ Len(t) = Len(s)
  BY <1>1, <1>5
<1> QED
  BY <1>1, <1>3, <1>6

\* Positions of the sequence and of what becomes of it correspond.
LEMMA RaisedPositions ==
    ASSUME NEW s, NEW t, NEW p \in 1..Len(s), Len(s) \in Nat,
           t[1] = s[p], \A n \in 2..p : t[n] = s[n - 1],
           \A n \in (p + 1)..Len(s) : t[n] = s[n]
    PROVE  /\ \A q \in 1..Len(s) : \E n \in 1..Len(s) : t[n] = s[q]
           /\ (\A m, n \in 1..Len(s) : s[m] = s[n] => m = n)
              => \A m, n \in 1..Len(s) : t[m] = t[n] => m = n
<1>1. ASSUME NEW q \in 1..Len(s) PROVE \E n \in 1..Len(s) : t[n] = s[q]
  <2>1. CASE q = p
    BY <2>1
  <2>2. CASE q < p
    <3>1. q + 1 \in 2..p /\ q + 1 \in 1..Len(s) /\ (q + 1) - 1 = q
      BY <2>2
    <3> QED
      BY <3>1
  <2>3. CASE q > p
    BY <2>3
  <2> QED
    BY <2>1, <2>2, <2>3
<1>2. ASSUME \A m, n \in 1..Len(s) : s[m] = s[n] => m = n,
             NEW m \in 1..Len(s), NEW n \in 1..Len(s), t[m] = t[n]
      PROVE  m = n
  <2>1. ASSUME NEW k \in 1..Len(s)
        PROVE  \/ k = 1 /\ t[k] = s[p]
               \/ k \in 2..p /\ k - 1 \in 1..Len(s) /\ t[k] = s[k - 1]
               \/ k \in (p + 1)..Len(s) /\ t[k] = s[k]
    OBVIOUS
  <2>2. PICK a \in 1..Len(s) :
             /\ t[m] = s[a]
             /\ \/ m = 1 /\ a = p
                \/ m \in 2..p /\ a = m - 1
                \/ m \in (p + 1)..Len(s) /\ a = m
    BY <2>1
  <2>3. PICK b \in 1..Len(s) :
             /\ t[n] = s[b]
             /\ \/ n = 1 /\ b = p
                \/ n \in 2..p /\ b = n - 1
                \/ n \in (p + 1)..Len(s) /\ b = n
    BY <2>1
  <2>4. a = b
    BY <1>2, <2>2, <2>3
  <2> QED
    BY <2>2, <2>3, <2>4
<1> QED
  BY <1>1, <1>2

LEMMA MoveToTopLinked ==
    ASSUME NEW c, NEW s, Sync(c, s), NEW p \in 1..Len(s), p # 1,
           NEW d, d = MoveToTop(c, s[p])
    PROVE  Linked(d, Raised(s, p))
<1> DEFINE id == s[p]
           t == Raised(s, p)
<1>1. /\ Shape(c) /\ Linked(c, s) /\ Len(s) \in Nat /\ 0 \notin DOMAIN c.node
      /\ s \in Seq(Nat \ {0}) /\ c.len = Len(s)
  BY LinkedFacts
<1>a. \A q \in 1..Len(s) : s[q] # 0 /\ s[q] \in DOMAIN c.node
  BY LinkedFacts
<1>b. \A a, b \in 1..Len(s) : a # b => s[a] # s[b]
  BY <1>1 DEF Linked, Once
<1>c. p \in Nat /\ p > 1 /\ p <= Len(s) /\ p - 1 \in 1..Len(s) /\ 1 \in 1..Len(s)
  BY <1>1
<1>2. /\ id \in DOMAIN c.node /\ id # 0
      /\ c.node[id].prev = s[p - 1] /\ s[p - 1] # 0 /\ s[p - 1] # id
      /\ c.head = s[1] /\ s[1] # id
  <2>1. id \in DOMAIN c.node /\ id # 0 /\ c.node[id].prev = s[p - 1]
    BY <1>1, Neighbours
  <2>2. c.head = s[1]
    BY <1>1, <1>c, Neighbours
  <2> QED
    BY <1>a, <1>b, <1>c, <2>1, <2>2
<1>3. c.node[id].next = IF p = Len(s) THEN 0 ELSE s[p + 1]
  BY <1>1, Neighbours
<1>4. ASSUME NEW q \in 1..Len(s), q # p + 1 PROVE s[q] # c.node[id].next
  <2>1. p # Len(s) => p + 1 \in 1..Len(s)
    BY <1>c
  <2>2. p # Len(s) => s[q] # s[p + 1]
    BY <1>b, <1>4, <2>1
  <2>3. s[q] # 0
    BY <1>a
  <2> QED
    BY <1>3, <2>2, <2>3
<1>5. /\ d.capacity = c.capacity /\ d.len = c.len /\ d.head = id
      /\ d.tail = IF c.tail = id THEN s[p - 1] ELSE c.tail
      /\ DOMAIN d.node = DOMAIN c.node
  BY <1>1, <1>2, MoveToTopFields
<1>6. \A i \in DOMAIN c.node : d.node[i].next = LinkWithout(c, id, i)
                               /\ d.node[i].prev = BackLinkWithout(c, id, i)
  BY <1>1, <1>2, MoveToTopFields
<1>7. t \in Seq(Nat \ {0}) /\ Len(t) = Len(s) /\ t[1] = id
  BY <1>1, RaisedFacts
<1>8. /\ \A n \in 2..p : t[n] = s[n - 1]
      /\ \A n \in (p + 1)..Len(s) : t[n] = s[n]
  BY <1>1, RaisedFacts
<1> HIDE DEF t
<1>9. \A q \in 1..Len(s) : \E n \in 1..Len(s) : t[n] = s[q]
  BY <1>1, <1>7, <1>8, RaisedPositions
<1>10. \A m, n \in 1..Len(s) : t[m] = t[n] => m = n
  <2>1. \A m, n \in 1..Len(s) : s[m] = s[n] => m = n
    BY <1>b
  <2> QED
    BY <1>1, <1>7, <1>8, <2>1, RaisedPositions
<1>11. \A i \in DOMAIN c.node : \E n \in 1..Len(s) : t[n] = i
  <2>1. ASSUME NEW i \in DOMAIN c.node PROVE \E n \in 1..Len(s) : t[n] = i
    <3>1. PICK q \in 1..Len(s) : s[q] = i
      BY <1>1 DEF Linked, Nodes
    <3> QED
      BY <1>9, <3>1
  <2> QED
    BY <2>1
<1>12. ASSUME NEW n \in 1..Len(s)
       PROVE  /\ t[n] \in DOMAIN c.node
              /\ d.node[t[n]].prev = IF n = 1 THEN 0 ELSE t[n - 1]
              /\ d.node[t[n]].next = IF n = Len(s) THEN 0 ELSE t[n + 1]
  <2>1. CASE n = 1
    <3>1. n # Len(s) /\ 2 \in 2..p /\ n + 1 = 2
      BY <1>c, <2>1
    <3>2. t[n + 1] = s[1] /\ t[n] = id
      BY <1>7, <1>8, <2>1, <3>1
    <3> QED
      BY <1>2, <1>6, <2>1, <3>1, <3>2 DEF LinkWithout, BackLinkWithout
  <2>2. CASE n > 1 /\ n <= p
    <3> DEFINE q == n - 1
    <3>1. /\ n \in 2..p /\ q \in 1..Len(s) /\ q # p /\ q # p + 1 /\ q + 1 = n /\ q # Len(s)
          /\ n # 1
      BY <1>1, <1>c, <2>2
    <3>2. t[n] = s[q]
      BY <1>8, <3>1
    <3>3. s[q] # id /\ s[q] # c.node[id].next /\ s[q] \in DOMAIN c.node
      BY <1>a, <1>b, <1>4, <3>1
    <3>4. d.node[t[n]].prev = t[n - 1]
      <4>1. CASE n = 2
        <5>1. s[q] = c.head /\ t[n - 1] = id
          BY <1>2, <1>7, <4>1
        <5> QED
          BY <1>6, <3>2, <3>3, <5>1 DEF BackLinkWithout
      <4>2. CASE n # 2
        <5>1. q \in 2..p /\ q # 1 /\ q \in 1..Len(s)
          BY <1>c, <2>2, <4>2
        <5>2. t[n - 1] = s[q - 1]
          BY <1>8, <5>1
        <5>3. c.node[s[q]].prev = s[q - 1] /\ c.head # s[q]
          BY <1>1, <5>1, Neighbours
        <5> QED
          BY <1>6, <3>2, <3>3, <5>2, <5>3 DEF BackLinkWithout
      <4> QED
        BY <4>1, <4>2
    <3>5. d.node[t[n]].next = IF n = Len(s) THEN 0 ELSE t[n + 1]
      <4>1. CASE n = p
        <5>1. s[q] = c.node[id].prev
          BY <1>2, <4>1
        <5>2. d.node[t[n]].next = c.node[id].next
          BY <1>6, <3>2, <3>3, <5>1 DEF LinkWithout
        <5>3. p # Len(s) => p + 1 \in (p + 1)..Len(s)
          BY <1>c
        <5>4. p # Len(s) => t[p + 1] = s[p + 1]
          BY <1>8, <5>3
        <5> QED
          BY <1>3, <4>1, <5>2, <5>4
      <4>2. CASE n # p
        <5>1. n \in Nat /\ n + 1 \in 2..p /\ (n + 1) - 1 = n /\ q # p - 1 /\ n # Len(s)
          BY <1>c, <2>2, <4>2
        <5>2. t[n + 1] = s[n]
          BY <1>8, <5>1
        <5>3. s[q] # s[p - 1]
          BY <1>b, <1>c, <3>1, <5>1
        <5>4. c.node[s[q]].next = s[q + 1] /\ s[q + 1] = s[n]
          BY <1>1, <3>1, Neighbours
        <5> QED
          BY <1>2, <1>6, <3>2, <3>3, <5>1, <5>2, <5>3, <5>4 DEF LinkWithout
      <4> QED
        BY <4>1, <4>2
    <3> QED
      BY <3>1, <3>2, <3>3, <3>4, <3>5
  <2>3. CASE n > p
    <3>1. n \in (p + 1)..Len(s) /\ n # p /\ n # 1 /\ n # p - 1
      BY <1>c, <2>3
    <3>2. t[n] = s[n] /\ s[n] \in DOMAIN c.node
      BY <1>a, <1>8, <3>1
    <3>3. s[n] # id /\ s[n] # s[p - 1]
      BY <1>b, <1>c, <3>1
    <3>4. d.node[t[n]].prev = t[n - 1]
      <4>1. CASE n = p + 1
        <5>1. n - 1 = p /\ p \in 2..p /\ p # Len(s)
          BY <1>c, <4>1
        <5>2. t[n - 1] = s[p - 1] /\ c.node[id].next = s[n]
          BY <1>3, <1>8, <4>1, <5>1
        <5> QED
          BY <1>2, <1>6, <3>2, <3>3, <5>2 DEF BackLinkWithout
      <4>2. CASE n # p + 1
        <5>1. n - 1 \in (p + 1)..Len(s)
          BY <1>c, <2>3, <4>2
        <5>2. t[n - 1] = s[n - 1]
          BY <1>8, <5>1
        <5>3. s[n] # c.node[id].next
          BY <1>4, <4>2
        <5>4. c.node[s[n]].prev = s[n - 1] /\ c.head # s[n]
          BY <1>1, <3>1, Neighbours
        <5> QED
          BY <1>6, <3>2, <3>3, <5>2, <5>3, <5>4 DEF BackLinkWithout
      <4> QED
        BY <4>1, <4>2
    <3>5. d.node[t[n]].next = IF n = Len(s) THEN 0 ELSE t[n + 1]
      <4>1. d.node[t[n]].next = c.node[s[n]].next
        BY <1>2, <1>6, <3>2, <3>3 DEF LinkWithout
      <4>2. n # Len(s) => n + 1 \in (p + 1)..Len(s)
        BY <1>c, <2>3
      <4>3. n # Len(s) => t[n + 1] = s[n + 1]
        BY <1>8, <4>2
      <4>4. /\ n = Len(s) => c.node[s[n]].next = 0
            /\ n # Len(s) => c.node[s[n]].next = s[n + 1]
        BY <1>1, Neighbours
      <4> QED
        BY <4>1, <4>3, <4>4
    <3> QED
      BY <3>1, <3>2, <3>4, <3>5
  <2> QED
    BY <1>c, <2>1, <2>2, <2>3
<1>13. d.tail = t[Len(s)]
  <2>1. Len(s) \in 1..Len(s)
    BY <1>c
  <2>2. c.tail = s[Len(s)]
    BY <1>1, <2>1, Neighbours
  <2>3. CASE p = Len(s)
    <3>1. p \in 2..p
      BY <1>c
    <3>2. t[p] = s[p - 1]
      BY <1>8, <3>1
    <3> QED
      BY <1>5, <2>2, <2>3, <3>2
  <2>4. CASE p # Len(s)
    <3>1. Len(s) \in (p + 1)..Len(s)
      BY <1>c, <2>4
    <3>2. t[Len(s)] = s[Len(s)] /\ s[Len(s)] # id
      BY <1>8, <1>b, <2>1, <2>4, <3>1
    <3> QED
      BY <1>5, <2>2, <3>2
  <2> QED
    BY <2>3, <2>4
<1>14. DOMAIN d.node \subseteq 1..(d.capacity + 1)
  <2>1. DOMAIN c.node \subseteq 1..(c.capacity + 1)
    BY <1>1 DEF Linked, Nodes
  <2> QED
    BY <1>5, <2>1
<1>15. Len(s) # 0
  BY <1>c
<1>16. Nodes(d, t)
  BY <1>1, <1>5, <1>7, <1>11, <1>14 DEF Nodes
<1>17. Once(t)
  BY <1>7, <1>10 DEF Once
<1>18. Links(d, t)
  BY <1>5, <1>7, <1>12 DEF Links
<1>19. Extremes(d, t)
  BY <1>1, <1>5, <1>7, <1>13, <1>15 DEF Extremes
<1> QED
  BY <1>16, <1>17, <1>18, <1>19 DEF Linked, t

LEMMA ContentsRaised ==
    ASSUME NEW c, NEW d, NEW s, NEW t, NEW p \in 1..Len(s),
           Len(s) \in Nat, Len(t) = Len(s), t = Raised(s, p),
           \A n \in 1..Len(s) : s[n] \in DOMAIN c.node,
           \A i \in DOMAIN c.node :
               d.node[i].key = c.node[i].key /\ d.node[i].value = c.node[i].value
    PROVE  Contents(d, t) = Raised(Contents(c, s), p)
<1> DEFINE entry(i) == [key |-> c.node[i].key, value |-> c.node[i].value]
           es == Contents(c, s)
<1>1. es = [n \in 1..Len(s) |-> entry(s[n])] /\ Len(es) = Len(s)
  BY DEF Contents
<1>2. ASSUME NEW n \in 1..Len(s)
      PROVE  /\ t[n] = IF n = 1 THEN s[p] ELSE IF n <= p THEN s[n - 1] ELSE s[n]
             /\ t[n] \in DOMAIN c.node
             /\ [key |-> d.node[t[n]].key, value |-> d.node[t[n]].value] = entry(t[n])
             /\ entry(t[n]) = IF n = 1 THEN es[p] ELSE IF n <= p THEN es[n - 1] ELSE es[n]
  <2>1. t[n] = IF n = 1 THEN s[p] ELSE IF n <= p THEN s[n - 1] ELSE s[n]
    BY DEF Raised
  <2>2. n # 1 => n - 1 \in 1..Len(s)
    OBVIOUS
  <2>3. t[n] \in DOMAIN c.node
    BY <2>1, <2>2
  <2>4. [key |-> d.node[t[n]].key, value |-> d.node[t[n]].value] = entry(t[n])
    BY <2>3
  <2> HIDE DEF entry, es
  <2>5. entry(t[n]) = IF n = 1 THEN es[p] ELSE IF n <= p THEN es[n - 1] ELSE es[n]
    BY <1>1, <2>1, <2>2
  <2> QED
    BY <2>1, <2>3, <2>4, <2>5
<1>3. Contents(d, t) = [n \in 1..Len(s) |-> [key |-> d.node[t[n]].key, value |-> d.node[t[n]].value]]
  BY DEF Contents
<1>4. Raised(es, p)
      = [n \in 1..Len(s) |-> IF n = 1 THEN es[p] ELSE IF n <= p THEN es[n - 1] ELSE es[n]]
  BY <1>1, Zenon DEF Raised
<1> HIDE DEF entry, es
<1>5. Contents(d, t) = Raised(es, p)
  BY <1>2, <1>3, <1>4
<1> QED
  BY <1>5 DEF es

LEMMA RaisedTop ==
    ASSUME NEW X, NEW s \in Seq(X), Len(s) # 0
    PROVE  Raised(s, 1) = s
<1>1. Len(s) \in Nat /\ 1 \in 1..Len(s)
  OBVIOUS
<1>2. s = [n \in 1..Len(s) |-> s[n]]
  OBVIOUS
<1>3. \A n \in 1..Len(s) : (IF n = 1 THEN s[1] ELSE IF n <= 1 THEN s[n - 1] ELSE s[n]) = s[n]
  BY <1>1
<1> QED
  BY <1>2, <1>3 DEF Raised

LEMMA MoveToTopSync ==
    ASSUME NEW c, NEW s, Sync(c, s), NEW p \in 1..Len(s),
           NEW d, d = MoveToTop(c, s[p])
    PROVE  /\ Sync(d, Raised(s, p)) /\ Len(Raised(s, p)) = Len(s)
           /\ d.capacity = c.capacity /\ d.map = c.map
           /\ Contents(d, Raised(s, p)) = Raised(Contents(c, s), p)
<1>1. /\ Shape(c) /\ Linked(c, s) /\ Mapped(c) /\ s \in Seq(Nat \ {0}) /\ Len(s) \in Nat
      /\ Len(s) # 0
  BY LinkedFacts DEF Sync
<1>2. /\ s[p] \in DOMAIN c.node
      /\ c.node[s[p]].prev = 0 <=> p = 1
      /\ \A n \in 1..Len(s) : s[n] \in DOMAIN c.node
  <2>1. \A n \in 1..Len(s) : s[n] \in DOMAIN c.node /\ s[n] # 0
    BY LinkedFacts
  <2>2. p # 1 => p - 1 \in 1..Len(s)
    BY <1>1
  <2> QED
    BY <1>1, <2>1, <2>2, Neighbours
<1>3. Len(Raised(s, p)) = Len(s)
  BY <1>1 DEF Raised
<1>4. CASE p = 1
  <2>1. d = c /\ Raised(s, p) = s
    BY <1>1, <1>2, <1>4, RaisedTop DEF MoveToTop
  <2>2. Contents(d, s) = Raised(Contents(c, s), p)
    BY <1>1, <1>2, <1>4, <2>1, ContentsRaised
  <2> QED
    BY <1>1, <1>3, <2>1, <2>2
<1>5. CASE p # 1
  <2>1. Linked(d, Raised(s, p))
    BY <1>5, MoveToTopLinked
  <2>2. /\ Shape(d) /\ d.capacity = c.capacity /\ d.map = c.map
        /\ DOMAIN d.node = DOMAIN c.node
        /\ \A i \in DOMAIN c.node :
              d.node[i].key = c.node[i].key /\ d.node[i].value = c.node[i].value
    BY <1>1, <1>2, <1>5, MoveToTopFields
  <2>3. Mapped(d)
    BY <1>1, <2>2 DEF Mapped
  <2>4. Contents(d, Raised(s, p)) = Raised(Contents(c, s), p)
    BY <1>1, <1>2, <1>3, <2>2, ContentsRaised
  <2> QED
    BY <1>3, <2>1, <2>2, <2>3, <2>4 DEF Sync
<1> QED
  BY <1>4, <1>5

-----------------------------------------------------------------------------
(* A value that is replaced.                                               *)

Replaced(c, id, v) == [c EXCEPT !.node[id].value = v]

LEMMA ReplacedSync ==
    ASSUME NEW c, NEW s, Sync(c, s), NEW p \in 1..Len(s), NEW v,
           NEW d, d = Replaced(c, s[p], v)
    PROVE  /\ Sync(d, s) /\ d.capacity = c.capacity /\ d.map = c.map
           /\ Contents(d, s) = Changed(Contents(c, s), p, [key |-> c.node[s[p]].key, value |-> v])
<1> DEFINE id == s[p]
           node == [c.node EXCEPT ![id].value = v]
<1>1. /\ Shape(c) /\ Linked(c, s) /\ Mapped(c) /\ s \in Seq(Nat \ {0}) /\ Len(s) \in Nat
      /\ id \in DOMAIN c.node
      /\ \A n \in 1..Len(s) : s[n] \in DOMAIN c.node
  BY LinkedFacts DEF Sync
<1>2. d = [c EXCEPT !.node = node]
  BY DEF Replaced
<1>3. DOMAIN node = DOMAIN c.node /\ node = [i \in DOMAIN c.node |-> node[i]]
  BY <1>1 DEF Shape
<1>4. ASSUME NEW i \in DOMAIN c.node
      PROVE  /\ node[i] = [key |-> node[i].key, value |-> node[i].value,
                           prev |-> node[i].prev, next |-> node[i].next]
             /\ node[i].key = c.node[i].key /\ node[i].prev = c.node[i].prev
             /\ node[i].next = c.node[i].next
             /\ node[i].value = IF i = id THEN v ELSE c.node[i].value
  <2>1. c.node[i] = [key |-> c.node[i].key, value |-> c.node[i].value,
                     prev |-> c.node[i].prev, next |-> c.node[i].next]
    BY <1>1 DEF Shape
  <2>2. node[i] = IF i = id THEN [c.node[i] EXCEPT !.value = v] ELSE c.node[i]
    OBVIOUS
  <2> HIDE DEF node
  <2>3. node[i] = [key |-> c.node[i].key, value |-> IF i = id THEN v ELSE c.node[i].value,
                   prev |-> c.node[i].prev, next |-> c.node[i].next]
    BY <2>1, <2>2
  <2> QED
    BY <2>3
<1> HIDE DEF node
<1>5. d = [capacity |-> c.capacity, map |-> c.map, node |-> node,
           head |-> c.head, tail |-> c.tail, len |-> c.len]
  BY <1>1, <1>2 DEF Shape
<1>6. /\ d.capacity = c.capacity /\ d.map = c.map /\ d.len = c.len
      /\ d.head = c.head /\ d.tail = c.tail /\ d.node = node
  BY <1>5
<1>7. Shape(d)
  <2>1. node = [i \in DOMAIN node |->
                    [key |-> node[i].key, value |-> node[i].value,
                     prev |-> node[i].prev, next |-> node[i].next]]
    BY <1>3, <1>4
  <2> QED
    BY <1>1, <1>5, <1>6, <2>1 DEF Shape
<1>a. \A i \in DOMAIN c.node : /\ d.node[i].key = c.node[i].key
                               /\ d.node[i].prev = c.node[i].prev
                               /\ d.node[i].next = c.node[i].next
  BY <1>3, <1>4, <1>6
<1>b. DOMAIN d.node = DOMAIN c.node
  BY <1>3, <1>6
<1>8. Linked(d, s)
  <2>1. Nodes(d, s) /\ Once(s) /\ Extremes(d, s)
    BY <1>1, <1>3, <1>6 DEF Linked, Nodes, Extremes
  <2>2. Links(d, s)
    BY <1>1, <1>a, <1>b DEF Linked, Links
  <2> QED
    BY <2>1, <2>2 DEF Linked
<1>9. Mapped(d)
  <2>1. d.map = c.map /\ Mapped(c)
    BY <1>1, <1>6
  <2>2. \A i \in DOMAIN c.node : d.node[i].key = c.node[i].key
    BY <1>a
  <2> QED
    BY ONLY <1>b, <2>1, <2>2 DEF Mapped
<1>10. Contents(d, s) = Changed(Contents(c, s), p, [key |-> c.node[s[p]].key, value |-> v])
  <2>1. ASSUME NEW n \in 1..Len(s)
        PROVE  [key |-> node[s[n]].key, value |-> node[s[n]].value]
               = IF n = p THEN [key |-> c.node[s[p]].key, value |-> v] ELSE Contents(c, s)[n]
    <3>1. Contents(c, s)[n] = [key |-> c.node[s[n]].key, value |-> c.node[s[n]].value]
      BY DEF Contents
    <3>2. s[n] = id <=> n = p
      BY <1>1 DEF Linked, Once
    <3> QED
      BY <1>1, <1>4, <3>1, <3>2
  <2>2. Contents(d, s) = [n \in 1..Len(s) |-> [key |-> node[s[n]].key, value |-> node[s[n]].value]]
    BY <1>6 DEF Contents
  <2>3. Changed(Contents(c, s), p, [key |-> c.node[s[p]].key, value |-> v])
        = [n \in 1..Len(s) |-> IF n = p THEN [key |-> c.node[s[p]].key, value |-> v]
                               ELSE Contents(c, s)[n]]
    <3>1. Len(Contents(c, s)) = Len(s)
      BY <1>1 DEF Contents
    <3> QED
      BY <3>1, Zenon DEF Changed
  <2> QED
    BY <2>1, <2>2, <2>3
<1> QED
  BY <1>6, <1>7, <1>8, <1>9, <1>10 DEF Sync

-----------------------------------------------------------------------------
(* Push.                                                                   *)

\* There is a number that no node has.
LEMMA FreeNumber ==
    ASSUME NEW c, NEW s, Nodes(c, s), c.capacity \in Nat, Len(s) <= c.capacity
    PROVE  \E i \in 1..(c.capacity + 1) : i \notin DOMAIN c.node
<1> SUFFICES ASSUME 1..(c.capacity + 1) \subseteq DOMAIN c.node PROVE FALSE
  OBVIOUS
<1> DEFINE S == 1..(c.capacity + 1)
           T == 1..Len(s)
           f == [i \in S |-> CHOOSE p \in T : s[p] = i]
<1>1. Len(s) \in Nat
  BY DEF Nodes
<1>2. IsFiniteSet(S) /\ Cardinality(S) = c.capacity + 1
  <2>1. 1 \in Int /\ c.capacity + 1 \in Int /\ ~(1 > c.capacity + 1)
        /\ (c.capacity + 1) - 1 + 1 = c.capacity + 1
    OBVIOUS
  <2> QED
    BY <2>1, FS_Interval
<1>3. IsFiniteSet(T) /\ Cardinality(T) = Len(s)
  <2>1. 1 \in Int /\ Len(s) \in Int /\ (1 > Len(s) => Len(s) = 0) /\ Len(s) - 1 + 1 = Len(s)
    BY <1>1
  <2> QED
    BY <2>1, FS_Interval
<1>4. \A i \in S : f[i] \in T /\ s[f[i]] = i
  <2>1. \A i \in S : \E p \in T : s[p] = i
    BY DEF Nodes
  <2> QED
    BY <2>1
<1>5. f \in [S -> T]
  BY <1>4
<1>6. Cardinality(T) < Cardinality(S)
  BY <1>1, <1>2, <1>3
<1> HIDE DEF S, T, f
<1>7. \E x, y \in S : x # y /\ f[x] = f[y]
  BY <1>2, <1>3, <1>5, <1>6, FS_PigeonHole
<1> QED
  BY <1>4, <1>7

LEMMA PrecededFacts ==
    ASSUME NEW s, s \in Seq(Nat \ {0}), NEW x \in Nat \ {0}, NEW t, t = Preceded(x, s)
    PROVE  /\ t \in Seq(Nat \ {0}) /\ Len(t) = Len(s) + 1 /\ Len(s) \in Nat
           /\ t[1] = x
           /\ \A n \in 2..Len(t) : n - 1 \in 1..Len(s) /\ t[n] = s[n - 1]
           /\ \A n \in 1..Len(s) : n + 1 \in 2..Len(t) /\ t[n + 1] = s[n]
<1>1. Len(s) \in Nat /\ \A n \in 1..Len(s) : s[n] \in Nat \ {0}
  OBVIOUS
<1>2. t = [n \in 1..(Len(s) + 1) |-> IF n = 1 THEN x ELSE s[n - 1]]
  BY DEF Preceded
<1>3. ASSUME NEW n \in 1..(Len(s) + 1)
      PROVE  (IF n = 1 THEN x ELSE s[n - 1]) \in Nat \ {0}
  <2>1. n # 1 => n - 1 \in 1..Len(s)
    BY <1>1
  <2> QED
    BY <1>1, <2>1
<1>4. t \in [1..(Len(s) + 1) -> Nat \ {0}]
  BY <1>2, <1>3
<1>5. t \in Seq(Nat \ {0}) /\ Len(t) = Len(s) + 1
  BY <1>1, <1>4
<1>6. ASSUME NEW n \in 2..Len(t) PROVE n - 1 \in 1..Len(s) /\ t[n] = s[n - 1]
  BY <1>1, <1>2, <1>5
<1>7. ASSUME NEW n \in 1..Len(s) PROVE n + 1 \in 2..Len(t) /\ t[n + 1] = s[n]
  <2>1. n + 1 \in 2..Len(t) /\ (n + 1) - 1 = n
    BY <1>1, <1>5
  <2> QED
    BY <1>6, <2>1
<1>8. t[1] = x
  BY <1>1, <1>2
<1> QED
  BY <1>1, <1>5, <1>6, <1>7, <1>8

\* The cache after set() of a key that is not there, before the loop.
Pushed(c, key, value) ==
    LET pushed == Push(c, key, value)
    IN  [pushed EXCEPT
            !.map = [k \in DOMAIN c.map \cup {key} |->
                        IF k = key THEN pushed.head ELSE c.map[k]]]

LEMMA PushedFields ==
    ASSUME NEW c, NEW s, Sync(c, s), Len(s) <= c.capacity, NEW key, NEW value,
           NEW d, d = Pushed(c, key, value)
    PROVE  \E id \in 1..(c.capacity + 1) :
               /\ id \notin DOMAIN c.node
               /\ Shape(d) /\ d.capacity = c.capacity /\ d.len = c.len + 1 /\ d.head = id
               /\ d.tail = IF c.head = 0 THEN id ELSE c.tail
               /\ DOMAIN d.map = DOMAIN c.map \cup {key}
               /\ \A k \in DOMAIN d.map : d.map[k] = IF k = key THEN id ELSE c.map[k]
               /\ DOMAIN d.node = DOMAIN c.node \cup {id}
               /\ /\ d.node[id].key = key /\ d.node[id].value = value
                  /\ d.node[id].prev = 0 /\ d.node[id].next = c.head
               /\ \A i \in DOMAIN c.node :
                     /\ d.node[i].key = c.node[i].key /\ d.node[i].value = c.node[i].value
                     /\ d.node[i].next = c.node[i].next
                     /\ d.node[i].prev = IF i = c.head THEN id ELSE c.node[i].prev
<1> DEFINE id == CHOOSE i \in 1..(c.capacity + 1) : i \notin DOMAIN c.node
           new == [key |-> key, value |-> value, prev |-> 0, next |-> c.head]
           node == [i \in DOMAIN c.node \cup {id} |->
                       IF i = id THEN new
                       ELSE IF i = c.head THEN [c.node[i] EXCEPT !.prev = id] ELSE c.node[i]]
           tail == IF c.head = 0 THEN id ELSE c.tail
           map == [k \in DOMAIN c.map \cup {key} |-> IF k = key THEN id ELSE c.map[k]]
           pushed == Push(c, key, value)
<1>1. Shape(c) /\ Linked(c, s)
  BY DEF Sync
<1>2. id \in 1..(c.capacity + 1) /\ id \notin DOMAIN c.node
  <2>1. \E i \in 1..(c.capacity + 1) : i \notin DOMAIN c.node
    BY <1>1, FreeNumber DEF Shape, Linked
  <2> QED
    BY <2>1
<1>3. pushed = [c EXCEPT !.node = node, !.head = id, !.tail = tail, !.len = c.len + 1]
  BY DEF Push
<1>4. d = [pushed EXCEPT !.map = [k \in DOMAIN c.map \cup {key} |->
                                    IF k = key THEN pushed.head ELSE c.map[k]]]
  BY DEF Pushed
<1>5. /\ DOMAIN map = DOMAIN c.map \cup {key} /\ map = [k \in DOMAIN map |-> map[k]]
      /\ \A k \in DOMAIN map : map[k] = IF k = key THEN id ELSE c.map[k]
  OBVIOUS
<1>6. DOMAIN node = DOMAIN c.node \cup {id} /\ node = [i \in DOMAIN node |-> node[i]]
  OBVIOUS
<1>7. node[id] = new
  OBVIOUS
<1>8. ASSUME NEW i \in DOMAIN c.node
      PROVE  /\ node[i] = [key |-> node[i].key, value |-> node[i].value,
                           prev |-> node[i].prev, next |-> node[i].next]
             /\ node[i].key = c.node[i].key /\ node[i].value = c.node[i].value
             /\ node[i].next = c.node[i].next
             /\ node[i].prev = IF i = c.head THEN id ELSE c.node[i].prev
  <2>1. c.node[i] = [key |-> c.node[i].key, value |-> c.node[i].value,
                     prev |-> c.node[i].prev, next |-> c.node[i].next]
    BY <1>1 DEF Shape
  <2>2. node[i] = IF i = c.head THEN [c.node[i] EXCEPT !.prev = id] ELSE c.node[i]
    BY <1>2
  <2> HIDE DEF node, id
  <2>3. node[i] = [key |-> c.node[i].key, value |-> c.node[i].value,
                   prev |-> IF i = c.head THEN id ELSE c.node[i].prev,
                   next |-> c.node[i].next]
    BY <2>1, <2>2
  <2> QED
    BY <2>3
<1> HIDE DEF node, map, tail, pushed, id
<1>9. pushed = [capacity |-> c.capacity, map |-> c.map, node |-> node,
                head |-> id, tail |-> tail, len |-> c.len + 1]
  BY <1>1, <1>3 DEF Shape
<1>10. pushed.head = id
  BY <1>9
<1>11. d = [capacity |-> c.capacity, map |-> map, node |-> node,
            head |-> id, tail |-> tail, len |-> c.len + 1]
  <2>1. d = [pushed EXCEPT !.map = map]
    BY <1>4, <1>10 DEF map
  <2> QED
    BY <1>9, <2>1
<1>12. /\ d.capacity = c.capacity /\ d.map = map /\ d.node = node
       /\ d.head = id /\ d.tail = tail /\ d.len = c.len + 1
  BY <1>11
<1>13. ASSUME NEW i \in DOMAIN node
       PROVE  node[i] = [key |-> node[i].key, value |-> node[i].value,
                         prev |-> node[i].prev, next |-> node[i].next]
  <2>1. CASE i = id
    BY <1>7, <2>1
  <2>2. CASE i # id
    <3>1. i \in DOMAIN c.node
      BY <1>6, <2>2
    <3> QED
      BY <1>8, <3>1
  <2> QED
    BY <2>1, <2>2
<1>14. Shape(d)
  <2>1. node = [i \in DOMAIN node |->
                    [key |-> node[i].key, value |-> node[i].value,
                     prev |-> node[i].prev, next |-> node[i].next]]
    BY <1>6, <1>13
  <2> QED
    BY <1>1, <1>5, <1>11, <1>12, <2>1 DEF Shape
<1>15. /\ node[id].key = key /\ node[id].value = value
       /\ node[id].prev = 0 /\ node[id].next = c.head
  BY <1>7
<1> HIDE DEF new
<1>16. d.tail = IF c.head = 0 THEN id ELSE c.tail
  BY <1>12 DEF tail
<1> USE <1>2
<1> WITNESS id \in 1..(c.capacity + 1)
<1> QED
  BY <1>2, <1>5, <1>6, <1>8, <1>12, <1>14, <1>15, <1>16

LEMMA PushedSync ==
    ASSUME NEW c, NEW s, Sync(c, s), Len(s) <= c.capacity, NEW key, NEW value,
           key \notin DOMAIN c.map, NEW d, d = Pushed(c, key, value)
    PROVE  \E t : /\ Sync(d, t) /\ Len(t) = Len(s) + 1 /\ d.capacity = c.capacity
                  /\ Contents(d, t) = Preceded([key |-> key, value |-> value], Contents(c, s))
<1>1. PICK id \in 1..(c.capacity + 1) :
          /\ id \notin DOMAIN c.node
          /\ Shape(d) /\ d.capacity = c.capacity /\ d.len = c.len + 1 /\ d.head = id
          /\ d.tail = IF c.head = 0 THEN id ELSE c.tail
          /\ DOMAIN d.map = DOMAIN c.map \cup {key}
          /\ \A k \in DOMAIN d.map : d.map[k] = IF k = key THEN id ELSE c.map[k]
          /\ DOMAIN d.node = DOMAIN c.node \cup {id}
          /\ /\ d.node[id].key = key /\ d.node[id].value = value
             /\ d.node[id].prev = 0 /\ d.node[id].next = c.head
          /\ \A i \in DOMAIN c.node :
                /\ d.node[i].key = c.node[i].key /\ d.node[i].value = c.node[i].value
                /\ d.node[i].next = c.node[i].next
                /\ d.node[i].prev = IF i = c.head THEN id ELSE c.node[i].prev
  BY PushedFields
<1> DEFINE t == Preceded(id, s)
<1>2. /\ s \in Seq(Nat \ {0}) /\ Len(s) \in Nat /\ c.len = Len(s)
      /\ Linked(c, s) /\ Mapped(c) /\ c.capacity \in Nat /\ id \in Nat \ {0}
      /\ DOMAIN c.node \subseteq 1..(c.capacity + 1)
  <2>1. c.capacity \in Nat /\ s \in Seq(Nat \ {0}) /\ Len(s) \in Nat /\ c.len = Len(s)
    BY LinkedFacts
  <2> QED
    BY <2>1 DEF Sync, Linked, Nodes
<1>a. Linked(c, s)
  BY <1>2
<1>3. \A n \in 1..Len(s) : s[n] \in DOMAIN c.node /\ s[n] # id
  BY <1>1, LinkedFacts
<1>4. /\ t \in Seq(Nat \ {0}) /\ Len(t) = Len(s) + 1 /\ t[1] = id
      /\ \A n \in 2..Len(t) : n - 1 \in 1..Len(s) /\ t[n] = s[n - 1]
      /\ \A n \in 1..Len(s) : n + 1 \in 2..Len(t) /\ t[n + 1] = s[n]
  BY <1>2, PrecededFacts
<1> HIDE DEF t
<1>5. \A n \in 1..Len(t) : n = 1 \/ n \in 2..Len(t)
  BY <1>2, <1>4
<1>6. Nodes(d, t)
  <2>1. ASSUME NEW i \in DOMAIN d.node PROVE \E n \in 1..Len(t) : t[n] = i
    <3>1. CASE i = id
      <4>1. 1 \in 1..Len(t)
        BY <1>2, <1>4
      <4> QED
        BY <1>4, <3>1, <4>1
    <3>2. CASE i # id
      <4>1. i \in DOMAIN c.node
        BY <1>1, <3>2
      <4>2. PICK n \in 1..Len(s) : s[n] = i
        BY <1>2, <4>1 DEF Linked, Nodes
      <4>3. n + 1 \in 1..Len(t)
        BY <1>2, <1>4
      <4> QED
        BY <1>4, <4>2, <4>3
    <3> QED
      BY <3>1, <3>2
  <2>2. DOMAIN d.node \subseteq 1..(d.capacity + 1)
    BY <1>1, <1>2
  <2>3. d.len = Len(t)
    BY <1>1, <1>2, <1>4
  <2> QED
    BY <1>4, <2>1, <2>2, <2>3 DEF Nodes
<1>7. Once(t)
  <2>1. ASSUME NEW m \in 1..Len(t), NEW n \in 1..Len(t), t[m] = t[n] PROVE m = n
    <3>1. CASE m \in 2..Len(t) /\ n \in 2..Len(t)
      <4>1. m - 1 \in 1..Len(s) /\ n - 1 \in 1..Len(s) /\ s[m - 1] = s[n - 1]
        BY <1>4, <2>1, <3>1
      <4>2. m - 1 = n - 1
        BY <1>2, <4>1 DEF Linked, Once
      <4> QED
        BY <4>2
    <3>2. CASE m = 1 /\ n \in 2..Len(t)
      BY <1>3, <1>4, <2>1, <3>2
    <3>3. CASE m \in 2..Len(t) /\ n = 1
      BY <1>3, <1>4, <2>1, <3>3
    <3> QED
      BY <1>5, <3>1, <3>2, <3>3
  <2> QED
    BY <2>1 DEF Once
<1>8. Links(d, t)
  <2>1. ASSUME NEW n \in 1..Len(t)
        PROVE  /\ t[n] \in DOMAIN d.node
               /\ d.node[t[n]].prev = IF n = 1 THEN 0 ELSE t[n - 1]
               /\ d.node[t[n]].next = IF n = Len(t) THEN 0 ELSE t[n + 1]
    <3>1. CASE n = 1
      <4>1. t[n] \in DOMAIN d.node /\ d.node[t[n]].prev = 0
        BY <1>1, <1>4, <3>1
      <4>2. d.node[t[n]].next = c.head
        BY <1>1, <1>4, <3>1
      <4>3. c.head = IF Len(s) = 0 THEN 0 ELSE s[1]
        BY <1>2 DEF Linked, Extremes
      <4>4. Len(s) # 0 => 1 \in 1..Len(s) /\ t[n + 1] = s[1]
        BY <1>2, <1>4, <3>1
      <4>5. n = Len(t) <=> Len(s) = 0
        BY <1>2, <1>4, <3>1
      <4> QED
        BY <3>1, <4>1, <4>2, <4>3, <4>4, <4>5
    <3>2. CASE n \in 2..Len(t)
      <4>1. PICK q \in 1..Len(s) : t[n] = s[q] /\ n = q + 1 /\ n # 1 /\ n - 1 = q
        <5>1. n - 1 \in 1..Len(s) /\ t[n] = s[n - 1] /\ n = (n - 1) + 1 /\ n # 1
          BY <1>4, <3>2
        <5> QED
          BY <5>1
      <4>2. s[q] \in DOMAIN c.node /\ s[q] # id
        BY <1>3, <4>1
      <4>3. d.node[t[n]].prev = t[n - 1]
        <5>1. CASE q = 1
          <6>1. c.head = s[q]
            BY <1>2, <4>1, <5>1, Neighbours
          <6> QED
            BY <1>1, <1>4, <4>1, <4>2, <5>1, <6>1
        <5>2. CASE q # 1
          <6>1. c.head # s[q] /\ c.node[s[q]].prev = s[q - 1]
            BY <1>a, <5>2, Neighbours
          <6>2. q \in 2..Len(t)
            BY <1>2, <1>4, <4>1, <5>2
          <6>3. t[n - 1] = s[q - 1]
            BY <1>4, <4>1, <6>2
          <6> QED
            BY <1>1, <4>1, <4>2, <6>1, <6>3
        <5> QED
          BY <5>1, <5>2
      <4>4. d.node[t[n]].next = c.node[s[q]].next
        BY <1>1, <4>1, <4>2
      <4>5. CASE q = Len(s)
        BY <1>1, <1>2, <1>4, <4>1, <4>2, <4>3, <4>4, <4>5, Neighbours
      <4>6. CASE q # Len(s)
        <5>1. n \in 1..Len(s) /\ n # Len(t)
          BY <1>2, <1>4, <4>1, <4>6
        <5>2. t[n + 1] = s[n]
          BY <1>4, <5>1
        <5>3. c.node[s[q]].next = s[q + 1]
          BY <1>2, <4>1, <4>6, Neighbours
        <5> QED
          BY <1>1, <4>1, <4>2, <4>3, <4>4, <5>1, <5>2, <5>3
      <4> QED
        BY <4>5, <4>6
    <3> QED
      BY <1>5, <3>1, <3>2
  <2> QED
    BY <2>1 DEF Links
<1>9. Extremes(d, t)
  <2>1. Len(t) # 0
    BY <1>2, <1>4
  <2>2. d.tail = t[Len(t)]
    <3>1. CASE Len(s) = 0
      <4>1. c.head = 0 /\ Len(t) = 1
        BY <1>2, <1>4, <3>1 DEF Linked, Extremes
      <4> QED
        BY <1>1, <1>4, <4>1
    <3>2. CASE Len(s) # 0
      <4>1. Len(s) \in 1..Len(s) /\ 1 \in 1..Len(s) /\ Len(t) = Len(s) + 1
        BY <1>2, <1>4, <3>2
      <4>2. c.head = s[1] /\ c.tail = s[Len(s)]
        BY <1>2, <3>2 DEF Linked, Extremes
      <4>3. c.head # 0 /\ t[Len(s) + 1] = s[Len(s)]
        BY <1>4, <4>1, <4>2, LinkedFacts
      <4> QED
        BY <1>1, <4>1, <4>2, <4>3
    <3> QED
      BY <3>1, <3>2
  <2> QED
    BY <1>1, <1>4, <2>1, <2>2 DEF Extremes
<1>10. Mapped(d)
  <2>1. ASSUME NEW k \in DOMAIN d.map
        PROVE  d.map[k] \in DOMAIN d.node /\ d.node[d.map[k]].key = k
    <3>1. CASE k = key
      BY <1>1, <3>1
    <3>2. CASE k # key
      <4>1. k \in DOMAIN c.map /\ d.map[k] = c.map[k]
        BY <1>1, <3>2
      <4>2. c.map[k] \in DOMAIN c.node /\ c.node[c.map[k]].key = k
        BY <1>2, <4>1 DEF Mapped
      <4> QED
        BY <1>1, <4>1, <4>2
    <3> QED
      BY <3>1, <3>2
  <2>2. ASSUME NEW i \in DOMAIN d.node
        PROVE  d.node[i].key \in DOMAIN d.map /\ d.map[d.node[i].key] = i
    <3>1. CASE i = id
      BY <1>1, <3>1
    <3>2. CASE i # id
      <4>1. i \in DOMAIN c.node /\ d.node[i].key = c.node[i].key
        BY <1>1, <3>2
      <4>2. c.node[i].key \in DOMAIN c.map /\ c.map[c.node[i].key] = i
        BY <1>2, <4>1 DEF Mapped
      <4> QED
        BY <1>1, <4>1, <4>2
    <3> QED
      BY <3>1, <3>2
  <2> QED
    BY <2>1, <2>2 DEF Mapped
<1>11. Contents(d, t) = Preceded([key |-> key, value |-> value], Contents(c, s))
  <2> DEFINE es == Contents(c, s)
             e == [key |-> key, value |-> value]
  <2>1. Len(es) = Len(s) /\ es = [n \in 1..Len(s) |-> es[n]]
    BY <1>2 DEF Contents
  <2>2. Contents(d, t)
        = [n \in 1..Len(t) |-> [key |-> d.node[t[n]].key, value |-> d.node[t[n]].value]]
    BY DEF Contents
  <2>3. ASSUME NEW n \in 1..Len(t)
        PROVE  [key |-> d.node[t[n]].key, value |-> d.node[t[n]].value]
               = IF n = 1 THEN e ELSE es[n - 1]
    <3>1. CASE n = 1
      BY <1>1, <1>4, <3>1
    <3>2. CASE n \in 2..Len(t)
      <4>1. n - 1 \in 1..Len(s) /\ t[n] = s[n - 1] /\ n # 1
        BY <1>4, <3>2
      <4>2. es[n - 1] = [key |-> c.node[s[n - 1]].key, value |-> c.node[s[n - 1]].value]
        BY <4>1 DEF Contents
      <4>3. s[n - 1] \in DOMAIN c.node
        BY <1>3, <4>1
      <4>4. d.node[t[n]].key = c.node[s[n - 1]].key /\ d.node[t[n]].value = c.node[s[n - 1]].value
        BY <1>1, <4>1, <4>3
      <4> QED
        BY <4>1, <4>2, <4>4
    <3> QED
      BY <1>5, <3>1, <3>2
  <2> HIDE DEF es, e
  <2>4. Preceded(e, es) = [n \in 1..Len(t) |-> IF n = 1 THEN e ELSE es[n - 1]]
    BY <1>4, <2>1 DEF Preceded
  <2>5. Contents(d, t) = Preceded(e, es)
    BY <2>2, <2>3, <2>4
  <2> QED
    BY <2>5 DEF es, e
<1> QED
  BY <1>1, <1>4, <1>6, <1>7, <1>8, <1>9, <1>10, <1>11 DEF Sync, Linked

-----------------------------------------------------------------------------
(* DeleteBottom.                                                           *)

LEMMA ShortenedFacts ==
    ASSUME NEW s, s \in Seq(Nat \ {0}), Len(s) # 0, NEW t, t = Shortened(s)
    PROVE  /\ t \in Seq(Nat \ {0}) /\ Len(s) \in Nat /\ Len(s) = Len(t) + 1
           /\ \A n \in 1..Len(t) : n \in 1..Len(s) /\ n # Len(s) /\ t[n] = s[n]
<1>1. Len(s) \in Nat /\ \A n \in 1..Len(s) : s[n] \in Nat \ {0}
  OBVIOUS
<1>2. t = [n \in 1..(Len(s) - 1) |-> s[n]] /\ Len(s) - 1 \in Nat
  BY <1>1 DEF Shortened
<1>3. \A n \in 1..(Len(s) - 1) : n \in 1..Len(s)
  BY <1>1
<1>4. t \in [1..(Len(s) - 1) -> Nat \ {0}]
  BY <1>1, <1>2, <1>3
<1>5. t \in Seq(Nat \ {0}) /\ Len(t) = Len(s) - 1 /\ Len(s) = Len(t) + 1
  BY <1>1, <1>2, <1>4
<1>6. ASSUME NEW n \in 1..Len(t) PROVE n \in 1..Len(s) /\ n # Len(s) /\ t[n] = s[n]
  <2>1. n \in 1..(Len(s) - 1)
    BY <1>5
  <2> QED
    BY <1>1, <1>2, <2>1
<1> QED
  BY <1>1, <1>5, <1>6

LEMMA BoundedFields ==
    ASSUME NEW c, NEW s, Sync(c, s), Len(s) > c.capacity, NEW d, d = Bounded(c)
    PROVE  /\ c.tail \in DOMAIN c.node
           /\ Shape(d) /\ d.capacity = c.capacity /\ d.len = c.len - 1
           /\ d.head = c.head /\ d.tail = c.node[c.tail].prev
           /\ DOMAIN d.map = DOMAIN c.map \ {c.node[c.tail].key}
           /\ \A k \in DOMAIN d.map : d.map[k] = c.map[k]
           /\ DOMAIN d.node = DOMAIN c.node \ {c.tail}
           /\ \A i \in DOMAIN d.node :
                 /\ d.node[i].key = c.node[i].key /\ d.node[i].value = c.node[i].value
                 /\ d.node[i].prev = c.node[i].prev
                 /\ d.node[i].next = IF i = c.node[c.tail].prev THEN 0 ELSE c.node[i].next
<1> DEFINE last == c.node[c.tail].prev
           node == [i \in DOMAIN c.node \ {c.tail} |->
                       IF i = last THEN [c.node[i] EXCEPT !.next = 0] ELSE c.node[i]]
           map == [k \in DOMAIN c.map \ {c.node[c.tail].key} |-> c.map[k]]
           b == DeleteBottom(c)
<1>1. /\ Shape(c) /\ Linked(c, s) /\ c.len = Len(s) /\ Len(s) \in Nat /\ c.capacity \in Nat \ {0}
  BY LinkedFacts
<1>2. Len(s) > 1 /\ 1 \in 1..Len(s) /\ Len(s) \in 1..Len(s) /\ 1 # Len(s)
  <2> HIDE DEF last, node, map, b
  <2>1. Len(s) \in Nat /\ c.capacity \in Nat /\ c.capacity # 0
    BY <1>1
  <2>2. Len(s) > 1
    BY <2>1
  <2>3. ASSUME NEW m \in Nat, m > 1 PROVE 1 \in 1..m /\ m \in 1..m /\ 1 # m
    BY <2>3
  <2> QED
    BY <2>1, <2>2, <2>3, Zenon
<1>3. c.tail = s[Len(s)] /\ c.tail \in DOMAIN c.node /\ c.tail # c.head
  BY <1>1, <1>2, Neighbours
<1>4. b = [c EXCEPT !.node = node, !.head = c.head, !.tail = last, !.len = c.len - 1]
  BY <1>3 DEF DeleteBottom
<1>5. d = [b EXCEPT !.map = map]
  BY <1>1 DEF Bounded
<1>6. /\ DOMAIN map = DOMAIN c.map \ {c.node[c.tail].key} /\ map = [k \in DOMAIN map |-> map[k]]
      /\ \A k \in DOMAIN map : map[k] = c.map[k]
  OBVIOUS
<1>7. DOMAIN node = DOMAIN c.node \ {c.tail} /\ node = [i \in DOMAIN node |-> node[i]]
  OBVIOUS
<1>8. ASSUME NEW i \in DOMAIN node
      PROVE  /\ node[i] = [key |-> node[i].key, value |-> node[i].value,
                           prev |-> node[i].prev, next |-> node[i].next]
             /\ node[i].key = c.node[i].key /\ node[i].value = c.node[i].value
             /\ node[i].prev = c.node[i].prev
             /\ node[i].next = IF i = last THEN 0 ELSE c.node[i].next
  <2>1. c.node[i] = [key |-> c.node[i].key, value |-> c.node[i].value,
                     prev |-> c.node[i].prev, next |-> c.node[i].next]
    BY <1>1, <1>7 DEF Shape
  <2>2. node[i] = IF i = last THEN [c.node[i] EXCEPT !.next = 0] ELSE c.node[i]
    OBVIOUS
  <2> HIDE DEF node, last
  <2>3. node[i] = [key |-> c.node[i].key, value |-> c.node[i].value,
                   prev |-> c.node[i].prev,
                   next |-> IF i = last THEN 0 ELSE c.node[i].next]
    BY <2>1, <2>2
  <2> QED
    BY <2>3
<1> HIDE DEF node, map, b
<1>9. d = [capacity |-> c.capacity, map |-> map, node |-> node,
           head |-> c.head, tail |-> last, len |-> c.len - 1]
  BY <1>1, <1>4, <1>5 DEF Shape
<1>10. /\ d.capacity = c.capacity /\ d.map = map /\ d.node = node
       /\ d.head = c.head /\ d.tail = last /\ d.len = c.len - 1
  BY <1>9
<1>11. Shape(d)
  <2>1. node = [i \in DOMAIN node |->
                    [key |-> node[i].key, value |-> node[i].value,
                     prev |-> node[i].prev, next |-> node[i].next]]
    BY <1>7, <1>8
  <2> QED
    BY <1>1, <1>6, <1>9, <1>10, <2>1 DEF Shape
<1> QED
  BY <1>3, <1>6, <1>7, <1>8, <1>10, <1>11

LEMMA BoundedSync ==
    ASSUME NEW c, NEW s, Sync(c, s), Len(s) = c.capacity + 1, NEW d, d = Bounded(c)
    PROVE  \E t : /\ Sync(d, t) /\ Len(t) = c.capacity /\ d.capacity = c.capacity
                  /\ Contents(d, t) = Shortened(Contents(c, s))
<1> DEFINE t == Shortened(s)
<1>1. /\ s \in Seq(Nat \ {0}) /\ c.len = Len(s) /\ c.capacity \in Nat \ {0}
      /\ \A n \in 1..Len(s) : s[n] # 0 /\ s[n] \in DOMAIN c.node
  BY LinkedFacts
<1>a. Linked(c, s) /\ Mapped(c)
  BY DEF Sync
<1>2. /\ t \in Seq(Nat \ {0}) /\ Len(s) \in Nat /\ Len(s) = Len(t) + 1 /\ Len(t) \in Nat
      /\ Len(t) # 0
      /\ \A n \in 1..Len(t) : n \in 1..Len(s) /\ n # Len(s) /\ t[n] = s[n]
  BY <1>1, ShortenedFacts
<1> HIDE DEF t
<1>3. Len(s) \in 1..Len(s) /\ Len(t) \in 1..Len(s) /\ 1 \in 1..Len(s) /\ Len(t) \in 1..Len(t)
  BY <1>2
<1>4. /\ c.tail = s[Len(s)] /\ c.head = s[1] /\ c.node[c.tail].prev = s[Len(t)]
  <2>1. Len(s) # 1 /\ Len(s) - 1 = Len(t)
    BY <1>2
  <2>2. c.tail = s[Len(s)] /\ c.node[s[Len(s)]].prev = s[Len(s) - 1]
    BY <1>a, <1>3, <2>1, Neighbours
  <2>3. c.head = s[1]
    BY <1>a, <1>3, Neighbours
  <2> QED
    BY <2>1, <2>2, <2>3
<1>c. Len(s) > c.capacity
  BY <1>1
<1>5. /\ Shape(d) /\ d.capacity = c.capacity /\ d.len = c.len - 1
      /\ d.head = c.head /\ d.tail = c.node[c.tail].prev
      /\ DOMAIN d.map = DOMAIN c.map \ {c.node[c.tail].key}
      /\ \A k \in DOMAIN d.map : d.map[k] = c.map[k]
      /\ DOMAIN d.node = DOMAIN c.node \ {c.tail}
      /\ \A i \in DOMAIN d.node :
            /\ d.node[i].key = c.node[i].key /\ d.node[i].value = c.node[i].value
            /\ d.node[i].prev = c.node[i].prev
            /\ d.node[i].next = IF i = c.node[c.tail].prev THEN 0 ELSE c.node[i].next
  BY <1>c, BoundedFields
<1>7. \A i \in DOMAIN d.node :
          /\ d.node[i].key = c.node[i].key /\ d.node[i].value = c.node[i].value
          /\ d.node[i].prev = c.node[i].prev
          /\ d.node[i].next = IF i = c.node[c.tail].prev THEN 0 ELSE c.node[i].next
  BY <1>5
<1>b. \A m, n \in 1..Len(s) : s[m] = s[n] => m = n
  BY <1>a DEF Linked, Once
<1>8. ASSUME NEW n \in 1..Len(t)
      PROVE  n \in 1..Len(s) /\ n # Len(s) /\ t[n] = s[n] /\ t[n] \in DOMAIN d.node
  <2>1. n \in 1..Len(s) /\ n # Len(s) /\ t[n] = s[n] /\ s[n] \in DOMAIN c.node
    BY <1>1, <1>2
  <2>2. s[n] # s[Len(s)]
    BY <1>b, <1>3, <2>1
  <2> QED
    BY <1>4, <1>5, <2>1, <2>2
<1>9. Nodes(d, t)
  <2>1. ASSUME NEW i \in DOMAIN d.node PROVE \E n \in 1..Len(t) : t[n] = i
    <3>1. i \in DOMAIN c.node /\ i # c.tail
      BY <1>5
    <3>2. PICK n \in 1..Len(s) : s[n] = i
      BY <1>a, <3>1 DEF Linked, Nodes
    <3>3. n # Len(s)
      BY <1>4, <3>1, <3>2
    <3>4. n \in 1..Len(t)
      BY <1>2, <3>3
    <3> QED
      BY <1>8, <3>2, <3>4
  <2>2. DOMAIN d.node \subseteq 1..(d.capacity + 1)
    BY <1>5, <1>a DEF Linked, Nodes
  <2>3. d.len = Len(t)
    BY <1>1, <1>2, <1>5
  <2> QED
    BY <1>2, <2>1, <2>2, <2>3 DEF Nodes
<1>10. Once(t)
  BY <1>8, <1>b DEF Once
<1>11. Links(d, t)
  <2>1. ASSUME NEW n \in 1..Len(t)
        PROVE  /\ d.node[t[n]].prev = IF n = 1 THEN 0 ELSE t[n - 1]
               /\ d.node[t[n]].next = IF n = Len(t) THEN 0 ELSE t[n + 1]
    <3>1. n \in 1..Len(s) /\ n # Len(s) /\ t[n] = s[n] /\ t[n] \in DOMAIN d.node
      BY <1>8
    <3>2. d.node[t[n]].prev = c.node[s[n]].prev
      BY <1>7, <3>1
    <3>3. d.node[t[n]].next = IF s[n] = s[Len(t)] THEN 0 ELSE c.node[s[n]].next
      BY <1>4, <1>7, <3>1
    <3>4. s[n] = s[Len(t)] <=> n = Len(t)
      BY <1>3, <1>b, <3>1
    <3>5. /\ n = 1 => c.node[s[n]].prev = 0
          /\ n # 1 => c.node[s[n]].prev = s[n - 1]
          /\ c.node[s[n]].next = s[n + 1]
      BY <1>a, <3>1, Neighbours
    <3>6. n # 1 => t[n - 1] = s[n - 1]
      <4>1. n # 1 => n - 1 \in 1..Len(t)
        BY <1>2
      <4> QED
        BY <1>8, <4>1
    <3>7. n # Len(t) => t[n + 1] = s[n + 1]
      <4>1. n # Len(t) => n + 1 \in 1..Len(t)
        BY <1>2
      <4> QED
        BY <1>8, <4>1
    <3> QED
      BY <3>2, <3>3, <3>4, <3>5, <3>6, <3>7
  <2> QED
    BY <1>8, <2>1 DEF Links
<1>12. Extremes(d, t)
  <2>1. 1 \in 1..Len(t)
    BY <1>2
  <2>2. t[1] = s[1] /\ t[Len(t)] = s[Len(t)]
    BY <1>3, <1>8, <2>1
  <2> QED
    BY <1>2, <1>4, <1>5, <2>2 DEF Extremes
<1>13. Mapped(d)
  <2>0. c.tail \in DOMAIN c.node
    BY <1>1, <1>3, <1>4
  <2>1. ASSUME NEW k \in DOMAIN d.map
        PROVE  d.map[k] \in DOMAIN d.node /\ d.node[d.map[k]].key = k
    <3>1. k \in DOMAIN c.map /\ k # c.node[c.tail].key /\ d.map[k] = c.map[k]
      BY <1>5
    <3>2. c.map[k] \in DOMAIN c.node /\ c.node[c.map[k]].key = k
      BY <1>a, <3>1 DEF Mapped
    <3> QED
      BY <1>5, <1>7, <3>1, <3>2
  <2>2. ASSUME NEW i \in DOMAIN d.node
        PROVE  d.node[i].key \in DOMAIN d.map /\ d.map[d.node[i].key] = i
    <3>1. i \in DOMAIN c.node /\ i # c.tail /\ d.node[i].key = c.node[i].key
      BY <1>5, <1>7
    <3>2. c.node[i].key \in DOMAIN c.map /\ c.map[c.node[i].key] = i
      BY <1>a, <3>1 DEF Mapped
    <3>3. c.map[c.node[c.tail].key] = c.tail
      BY <1>a, <2>0 DEF Mapped
    <3> QED
      BY <1>5, <3>1, <3>2, <3>3
  <2> QED
    BY <2>1, <2>2 DEF Mapped
<1>14. Contents(d, t) = Shortened(Contents(c, s))
  <2> DEFINE es == Contents(c, s)
  <2>1. Len(es) = Len(s) /\ \A n \in 1..Len(s) :
            es[n] = [key |-> c.node[s[n]].key, value |-> c.node[s[n]].value]
    BY <1>2 DEF Contents
  <2>2. Contents(d, t)
        = [n \in 1..Len(t) |-> [key |-> d.node[t[n]].key, value |-> d.node[t[n]].value]]
    BY DEF Contents
  <2> HIDE DEF es
  <2>3. ASSUME NEW n \in 1..Len(t)
        PROVE  [key |-> d.node[t[n]].key, value |-> d.node[t[n]].value] = es[n]
    BY <1>7, <1>8, <2>1
  <2>4. Shortened(es) = [n \in 1..Len(t) |-> es[n]]
    <3>1. Len(es) - 1 = Len(t)
      BY <1>2, <2>1
    <3> QED
      BY <3>1 DEF Shortened
  <2>5. Contents(d, t) = Shortened(es)
    BY <2>2, <2>3, <2>4
  <2> QED
    BY <2>5 DEF es
<1>15. Len(t) = c.capacity
  BY <1>1, <1>2
<1>16. \A n \in 1..Len(t) : t[n] \in DOMAIN d.node
  BY <1>8
<1> QED
  BY <1>5, <1>9, <1>10, <1>11, <1>12, <1>13, <1>14, <1>15 DEF Sync, Linked

-----------------------------------------------------------------------------
(* entries().                                                              *)

\* What the walk along the list is to satisfy.
Walks(c, f) ==
    f = [n \in 0..(c.capacity + 1) |->
            IF n = 0 THEN <<c.head, <<>> >>
            ELSE LET id == f[n - 1][1]
                     so == f[n - 1][2]
                 IN  IF id \notin DOMAIN c.node THEN <<0, so>>
                     ELSE <<c.node[id].next,
                            Append(so, [key |-> c.node[id].key, value |-> c.node[id].value])>>]

LEMMA EntriesWalk ==
    ASSUME NEW c, NEW g, Walks(c, g)
    PROVE  \E f : Walks(c, f) /\ Entries(c) = f[c.capacity + 1][2]
BY DEF Entries, Walks

\* Two walks are the same.
LEMMA OneWalk ==
    ASSUME NEW c, c.capacity \in Nat, NEW f, NEW g, Walks(c, f), Walks(c, g)
    PROVE  f[c.capacity + 1] = g[c.capacity + 1]
<1> DEFINE N == c.capacity + 1
           S == {n \in Nat : n <= N => f[n] = g[n]}
<1>0. N \in Nat
  OBVIOUS
<1>a. ASSUME NEW n \in 0..N
      PROVE  /\ f[n] = IF n = 0 THEN <<c.head, <<>> >>
                       ELSE LET id == f[n - 1][1]
                                so == f[n - 1][2]
                            IN  IF id \notin DOMAIN c.node THEN <<0, so>>
                                ELSE <<c.node[id].next,
                                       Append(so, [key |-> c.node[id].key,
                                                   value |-> c.node[id].value])>>
             /\ g[n] = IF n = 0 THEN <<c.head, <<>> >>
                       ELSE LET id == g[n - 1][1]
                                so == g[n - 1][2]
                            IN  IF id \notin DOMAIN c.node THEN <<0, so>>
                                ELSE <<c.node[id].next,
                                       Append(so, [key |-> c.node[id].key,
                                                   value |-> c.node[id].value])>>
  BY Zenon DEF Walks
<1> HIDE DEF N
<1>1. 0 \in S
  <2>1. 0 \in 0..N
    BY <1>0
  <2>2. f[0] = <<c.head, <<>> >> /\ g[0] = <<c.head, <<>> >>
    BY <1>a, <2>1, Zenon
  <2> QED
    BY <2>2
<1>2. ASSUME NEW n \in Nat, n \in S PROVE n + 1 \in S
  <2>1. CASE n + 1 <= N
    <3> DEFINE m == n + 1
    <3>1. m \in 0..N /\ m - 1 = n /\ m # 0 /\ f[n] = g[n]
      BY <1>0, <1>2, <2>1
    <3> HIDE DEF m
    <3>2. f[m] = g[m]
      BY <1>a, <3>1
    <3> QED
      BY <3>2 DEF m
  <2>2. CASE ~(n + 1 <= N)
    BY <2>2
  <2> QED
    BY <2>1, <2>2
<1> HIDE DEF S
<1>3. Nat \subseteq S
  BY <1>1, <1>2, SetInduction
<1>4. N \in S
  BY <1>0, <1>3
<1>5. f[N] = g[N]
  BY <1>0, <1>4 DEF S
<1> QED
  BY <1>5 DEF N

LEMMA EntriesAre ==
    ASSUME NEW c, NEW s, Sync(c, s), Len(s) <= c.capacity + 1
    PROVE  Entries(c) = Contents(c, s)
<1> DEFINE L == Len(s)
           N == c.capacity + 1
           es == Contents(c, s)
           at(n) == IF n < L THEN s[n + 1] ELSE 0
           upto(n) == IF n < L THEN n ELSE L
           pre(n) == [p \in 1..upto(n) |-> es[p]]
           g == [n \in 0..N |-> <<at(n), pre(n)>>]
<1>1. /\ L \in Nat /\ N \in Nat /\ L <= N /\ 0 \notin DOMAIN c.node /\ c.capacity \in Nat
      /\ Linked(c, s)
  <2>1. Len(s) \in Nat /\ c.capacity \in Nat /\ 0 \notin DOMAIN c.node /\ Linked(c, s)
    BY LinkedFacts
  <2> QED
    BY <2>1
<1>2. es = [p \in 1..L |-> es[p]] /\ Len(es) = L
      /\ \A p \in 1..L : es[p] = [key |-> c.node[s[p]].key, value |-> c.node[s[p]].value]
  BY <1>1 DEF Contents
<1> HIDE DEF es
<1>3. g[0] = <<c.head, <<>> >>
  <2>1. 0 \in 0..N /\ at(0) = c.head
    BY <1>1 DEF Linked, Extremes
  <2>2. pre(0) = <<>>
    <3>1. upto(0) = 0
      BY <1>1
    <3>2. 1..upto(0) = {}
      BY <3>1
    <3> QED
      BY <3>2
  <2> HIDE DEF at, pre
  <2> QED
    BY <2>1, <2>2
<1>4. ASSUME NEW n \in 1..N
      PROVE  g[n] = IF g[n - 1][1] \notin DOMAIN c.node THEN <<0, g[n - 1][2]>>
                    ELSE <<c.node[g[n - 1][1]].next,
                           Append(g[n - 1][2], [key |-> c.node[g[n - 1][1]].key,
                                                value |-> c.node[g[n - 1][1]].value])>>
  <2> DEFINE m == n - 1
  <2>0. n \in 0..N /\ m \in 0..N /\ m \in Nat /\ n = m + 1
    BY <1>1
  <2>1. g[n] = <<at(n), pre(n)>> /\ g[m] = <<at(m), pre(m)>>
    BY <2>0
  <2> HIDE DEF m
  <2>2. CASE m < L
    <3>1. n \in 1..L /\ at(m) = s[n] /\ upto(m) = m /\ upto(n) = n
      BY <1>1, <2>0, <2>2
    <3>2. s[n] \in DOMAIN c.node /\ c.node[s[n]].next = at(n)
      <4>1. /\ s[n] \in DOMAIN c.node
            /\ n = L => c.node[s[n]].next = 0
            /\ n # L => c.node[s[n]].next = s[n + 1]
        BY <1>1, <3>1, Neighbours
      <4>2. /\ n = L => at(n) = 0
            /\ n # L => at(n) = s[n + 1]
        BY <1>1, <3>1
      <4> HIDE DEF at
      <4> QED
        BY <4>1, <4>2
    <3>3. pre(n) = Append(pre(m), es[n])
      <4>1. pre(m) = [p \in 1..m |-> es[p]] /\ pre(n) = [p \in 1..(m + 1) |-> es[p]]
        BY <2>0, <3>1
      <4> HIDE DEF pre
      <4>2. Append(pre(m), es[n]) = [p \in 1..(m + 1) |-> es[p]]
        BY <2>0, <4>1
      <4> QED
        BY <4>1, <4>2
    <3>4. es[n] = [key |-> c.node[s[n]].key, value |-> c.node[s[n]].value]
      BY <1>2, <3>1
    <3> HIDE DEF g, at, pre
    <3>5. g[m][1] = s[n] /\ g[m][2] = pre(m)
      BY <2>1, <3>1
    <3>6. g[n] = IF g[m][1] \notin DOMAIN c.node THEN <<0, g[m][2]>>
                 ELSE <<c.node[g[m][1]].next,
                        Append(g[m][2], [key |-> c.node[g[m][1]].key,
                                         value |-> c.node[g[m][1]].value])>>
      BY <2>1, <3>2, <3>3, <3>4, <3>5
    <3> QED
      BY <3>6 DEF m
  <2>3. CASE ~(m < L)
    <3>1. at(m) = 0 /\ at(n) = 0 /\ upto(m) = L /\ upto(n) = L
      BY <1>1, <2>0, <2>3
    <3>2. pre(n) = pre(m)
      BY <3>1
    <3> HIDE DEF g, at, pre
    <3>3. g[m][1] = 0 /\ g[m][2] = pre(m) /\ g[n] = <<0, pre(m)>>
      BY <2>1, <3>1, <3>2
    <3>4. g[n] = IF g[m][1] \notin DOMAIN c.node THEN <<0, g[m][2]>>
                 ELSE <<c.node[g[m][1]].next,
                        Append(g[m][2], [key |-> c.node[g[m][1]].key,
                                         value |-> c.node[g[m][1]].value])>>
      BY <1>1, <3>3
    <3> QED
      BY <3>4 DEF m
  <2> QED
    BY <2>2, <2>3
<1>5. g = [n \in 0..N |-> g[n]]
  OBVIOUS
<1>6. g[N][2] = es
  <2>1. N \in 0..N /\ upto(N) = L
    BY <1>1
  <2>2. pre(N) = [p \in 1..L |-> es[p]]
    BY <2>1
  <2>3. g[N][2] = pre(N)
    <3> HIDE DEF at, pre
    <3> QED
      BY <2>1
  <2> QED
    BY <1>2, <2>2, <2>3
<1> HIDE DEF g
<1>7. Walks(c, g)
  <2>1. ASSUME NEW n \in 0..N
        PROVE  g[n] = IF n = 0 THEN <<c.head, <<>> >>
                      ELSE IF g[n - 1][1] \notin DOMAIN c.node THEN <<0, g[n - 1][2]>>
                      ELSE <<c.node[g[n - 1][1]].next,
                             Append(g[n - 1][2], [key |-> c.node[g[n - 1][1]].key,
                                                  value |-> c.node[g[n - 1][1]].value])>>
    <3>1. CASE n = 0
      BY <1>3, <3>1
    <3>2. CASE n # 0
      <4>1. n \in 1..N
        BY <1>1, <3>2
      <4> QED
        BY <1>4, <3>2, <4>1, Zenon
    <3> QED
      BY <3>1, <3>2
  <2> QED
    BY <1>5, <2>1, Zenon DEF Walks
<1>8. PICK f : Walks(c, f) /\ Entries(c) = f[c.capacity + 1][2]
  BY <1>7, EntriesWalk
<1>9. f[N] = g[N]
  BY <1>1, <1>7, <1>8, OneWalk
<1> QED
  BY <1>6, <1>8, <1>9 DEF es

-----------------------------------------------------------------------------
(* The sequences of the abstract cache.                                    *)

LEMMA JoinedFacts ==
    ASSUME NEW X, NEW a \in Seq(X), NEW b \in Seq(X), NEW w, w = a \o b
    PROVE  /\ w \in Seq(X) /\ Len(w) = Len(a) + Len(b)
           /\ \A i \in 1..(Len(a) + Len(b)) :
                  w[i] = IF i <= Len(a) THEN a[i] ELSE b[i - Len(a)]
BY ConcatProperties

\* All the elements but the p-th.
Others(s, p) == SubSeq(s, 1, p - 1) \o SubSeq(s, p + 1, Len(s))

\* They come after e.
Before(e, s, p) == <<e>> \o Others(s, p)

LEMMA OthersFacts ==
    ASSUME NEW X, NEW s \in Seq(X), NEW p \in 1..Len(s), NEW w, w = Others(s, p)
    PROVE  /\ w \in Seq(X) /\ Len(w) = Len(s) - 1
           /\ \A i \in 1..(Len(s) - 1) : w[i] = IF i < p THEN s[i] ELSE s[i + 1]
<1>1. /\ Len(s) \in Nat /\ p \in Int /\ 1 <= p /\ p <= Len(s)
      /\ \A n \in 1..Len(s) : s[n] \in X
  BY LenProperties, ElementOfSeq
<1>2. PICK a : a = SubSeq(s, 1, p - 1)
  OBVIOUS
<1>3. PICK b : b = SubSeq(s, p + 1, Len(s))
  OBVIOUS
<1>4. a \in Seq(X) /\ Len(a) = p - 1 /\ \A i \in 1..(p - 1) : a[i] = s[i]
  <2>1. \A i \in 1..(p - 1) : s[i] \in X
    BY <1>1
  <2> QED
    BY <1>1, <1>2, <2>1
<1>5. b \in Seq(X) /\ Len(b) = Len(s) - p /\ \A i \in 1..(Len(s) - p) : b[i] = s[p + i]
  <2>1. \A i \in (p + 1)..Len(s) : s[i] \in X
    BY <1>1
  <2> QED
    BY <1>1, <1>3, <2>1
<1>6. w = a \o b
  BY <1>2, <1>3, Zenon DEF Others
<1>7. /\ w \in Seq(X) /\ Len(w) = Len(a) + Len(b)
      /\ \A i \in 1..(Len(a) + Len(b)) :
             w[i] = IF i <= Len(a) THEN a[i] ELSE b[i - Len(a)]
  <2>1. a \in Seq(X) /\ b \in Seq(X)
    BY <1>4, <1>5
  <2> QED
    BY ONLY <1>6, <2>1, JoinedFacts
<1>a. Len(a) = p - 1 /\ Len(b) = Len(s) - p /\ (p - 1) + (Len(s) - p) = Len(s) - 1
  BY <1>1, <1>4, <1>5
<1>8. Len(w) = Len(s) - 1
  BY <1>a, <1>7
<1>9. ASSUME NEW i \in 1..(Len(s) - 1) PROVE w[i] = IF i < p THEN s[i] ELSE s[i + 1]
  <2>1. w[i] = IF i <= p - 1 THEN a[i] ELSE b[i - (p - 1)]
    BY <1>a, <1>7
  <2>2. CASE i < p
    <3>1. i <= p - 1 /\ i \in 1..(p - 1)
      BY <1>1, <2>2
    <3> QED
      BY <1>4, <2>1, <2>2, <3>1
  <2>3. CASE ~(i < p)
    <3>1. ~(i <= p - 1) /\ i - (p - 1) \in 1..(Len(s) - p) /\ p + (i - (p - 1)) = i + 1
      BY <1>1, <2>3
    <3>2. b[i - (p - 1)] = s[i + 1]
      BY <1>5, <3>1
    <3> QED
      BY <2>1, <2>3, <3>1, <3>2
  <2> QED
    BY <2>2, <2>3
<1> QED
  BY <1>7, <1>8, <1>9

LEMMA FirstFacts ==
    ASSUME NEW X, NEW w \in Seq(X), NEW x \in X, NEW l, l = <<x>> \o w
    PROVE  /\ l \in Seq(X) /\ Len(l) = Len(w) + 1 /\ l[1] = x
           /\ \A i \in 2..(Len(w) + 1) : l[i] = w[i - 1]
<1>1. PICK h : h = <<x>>
  OBVIOUS
<1>2. h \in Seq(X) /\ Len(h) = 1 /\ h[1] = x
  BY <1>1
<1>3. l = h \o w
  BY <1>1
<1>4. /\ l \in Seq(X) /\ Len(l) = Len(h) + Len(w)
      /\ \A i \in 1..(Len(h) + Len(w)) :
             l[i] = IF i <= Len(h) THEN h[i] ELSE w[i - Len(h)]
  BY <1>2, <1>3, ConcatProperties
<1>5. Len(w) \in Nat
  BY LenProperties
<1> QED
  BY <1>2, <1>4, <1>5

LEMMA FirstOfOthers ==
    ASSUME NEW X, NEW s \in Seq(X), NEW p \in 1..Len(s), NEW x \in X
    PROVE  <<x>> \o Others(s, p)
           = Raised(Changed(s, p, x), p)
<1> DEFINE L == Len(s)
           u == [n \in 1..L |-> IF n = p THEN x ELSE s[n]]
<1>1. L \in Nat /\ p \in Int /\ 1 <= p /\ p <= L
  BY LenProperties
<1>2. PICK w : w = Others(s, p)
  OBVIOUS
<1>3. PICK l : l = <<x>> \o w
  OBVIOUS
<1>4. /\ w \in Seq(X) /\ Len(w) = L - 1
      /\ \A i \in 1..(L - 1) : w[i] = IF i < p THEN s[i] ELSE s[i + 1]
  BY <1>2, OthersFacts
<1>5. /\ l \in Seq(X) /\ Len(l) = Len(w) + 1 /\ l[1] = x
      /\ \A i \in 2..(Len(w) + 1) : l[i] = w[i - 1]
  BY <1>3, <1>4, FirstFacts
<1> HIDE DEF L
<1>6. l = [i \in 1..L |-> l[i]]
  <2>1. Len(l) = L
    BY <1>1, <1>4, <1>5
  <2>2. l \in [1..Len(l) -> X]
    BY <1>5, LenProperties
  <2> QED
    BY <2>1, <2>2
<1>7. ASSUME NEW i \in 1..L
      PROVE  l[i] = IF i = 1 THEN x ELSE IF i <= p THEN s[i - 1] ELSE s[i]
  <2>1. CASE i = 1
    BY <1>5, <2>1
  <2>2. CASE i # 1
    <3>1. i \in 2..(Len(w) + 1) /\ i - 1 \in 1..(L - 1) /\ (i - 1 < p <=> i <= p) /\ (i - 1) + 1 = i
      <4>1. Len(w) = L - 1
        BY <1>4
      <4> QED
        BY <1>1, <2>2, <4>1
    <3>2. l[i] = w[i - 1]
      BY <1>5, <3>1
    <3>3. w[i - 1] = IF i - 1 < p THEN s[i - 1] ELSE s[(i - 1) + 1]
      BY <1>4, <3>1
    <3> QED
      BY <2>2, <3>1, <3>2, <3>3
  <2> QED
    BY <2>1, <2>2
<1>8. Len(u) = L /\ u[p] = x
  BY <1>1
<1>9. Raised(u, p) = [i \in 1..L |-> IF i = 1 THEN u[p] ELSE IF i <= p THEN u[i - 1] ELSE u[i]]
  BY <1>8 DEF Raised
<1>10. ASSUME NEW i \in 1..L
       PROVE  (IF i = 1 THEN u[p] ELSE IF i <= p THEN u[i - 1] ELSE u[i])
              = IF i = 1 THEN x ELSE IF i <= p THEN s[i - 1] ELSE s[i]
  <2>1. i # 1 => i - 1 \in 1..L
    BY <1>1
  <2> QED
    BY <1>1, <1>8, <2>1
<1> HIDE DEF u
<1>11. l = Raised(u, p)
  BY <1>6, <1>7, <1>9, <1>10
<1> QED
  BY <1>2, <1>3, <1>11 DEF u, L, Changed

LEMMA FirstOfAll ==
    ASSUME NEW X, NEW s \in Seq(X), NEW x \in X
    PROVE  <<x>> \o s = Preceded(x, s)
<1>1. PICK l : l = <<x>> \o s
  OBVIOUS
<1>2. /\ l \in Seq(X) /\ Len(l) = Len(s) + 1 /\ l[1] = x
      /\ \A i \in 2..(Len(s) + 1) : l[i] = s[i - 1]
  BY ONLY <1>1, s \in Seq(X), x \in X, FirstFacts
<1>3. Len(s) \in Nat
  BY LenProperties
<1>4. l \in [1..(Len(s) + 1) -> X]
  BY <1>2, LenProperties
<1>5. ASSUME NEW i \in 1..(Len(s) + 1) PROVE l[i] = IF i = 1 THEN x ELSE s[i - 1]
  <2>1. i = 1 \/ i \in 2..(Len(s) + 1)
    BY <1>3
  <2> QED
    BY <1>2, <1>3, <2>1
<1>6. l = Preceded(x, s)
  BY <1>4, <1>5 DEF Preceded
<1> QED
  BY <1>1, <1>6

\* The first n elements.
Beginning(s, n) == SubSeq(s, 1, n)

LEMMA BeginningFacts ==
    ASSUME NEW X, NEW s \in Seq(X)
    PROVE  /\ Beginning(s, Len(s)) = s
           /\ Len(s) # 0 => Beginning(s, Len(s) - 1) = Shortened(s)
<1>1. Len(s) \in Nat /\ \A n \in 1..Len(s) : s[n] \in X
  BY LenProperties, ElementOfSeq
<1>2. Beginning(s, Len(s)) = s
  BY SubSeqFull DEF Beginning
<1>3. ASSUME Len(s) # 0 PROVE Beginning(s, Len(s) - 1) = Shortened(s)
  <2>1. PICK L \in Nat : L = Len(s) - 1 /\ \A n \in 1..L : n \in 1..Len(s)
    BY <1>1, <1>3
  <2>2. PICK b : b = SubSeq(s, 1, L)
    OBVIOUS
  <2>3. b \in Seq(X) /\ Len(b) = L /\ \A i \in 1..L : b[i] = s[i]
    <3>1. \A i \in 1..L : s[i] \in X
      BY <1>1, <2>1
    <3> QED
      BY <2>2, <3>1
  <2>4. b = [i \in 1..L |-> s[i]]
    BY <2>3
  <2>5. b = Shortened(s)
    BY ONLY <2>1, <2>4 DEF Shortened
  <2>6. b = Beginning(s, Len(s) - 1)
    BY ONLY <2>1, <2>2 DEF Beginning
  <2> QED
    BY <2>5, <2>6
<1> QED
  BY <1>2, <1>3

-----------------------------------------------------------------------------
(* The operations of the cache.                                            *)

\* The cache is in order, and within its capacity.
InOrder(c) == \E s : Sync(c, s) /\ Len(s) <= c.capacity

\* entries() of a cache that is in order: as many as there are nodes, the node
\* of each key at its place.
LEMMA EntriesFacts ==
    ASSUME NEW c, NEW s, Sync(c, s), Len(s) <= c.capacity
    PROVE  /\ Entries(c) = Contents(c, s)
           /\ \E X : Entries(c) \in Seq(X)
           /\ Len(Entries(c)) = Len(s) /\ DOMAIN Entries(c) = 1..Len(s)
           /\ \A n \in 1..Len(s) :
                 Entries(c)[n] = [key |-> c.node[s[n]].key, value |-> c.node[s[n]].value]
<1> DEFINE es == Contents(c, s)
<1>1. Len(s) \in Nat /\ Len(s) <= c.capacity + 1
  <2>1. Len(s) \in Nat /\ c.capacity \in Nat
    BY LinkedFacts
  <2> QED
    BY <2>1
<1>2. Entries(c) = es
  BY <1>1, EntriesAre
<1>3. \A n \in 1..Len(s) : es[n] = [key |-> c.node[s[n]].key, value |-> c.node[s[n]].value]
  BY DEF Contents
<1>4. es = [n \in 1..Len(s) |-> es[n]] /\ DOMAIN es = 1..Len(s)
  BY DEF Contents
<1> HIDE DEF es
<1>5. es \in [1..Len(s) -> {es[n] : n \in 1..Len(s)}]
  BY <1>4
<1>6. es \in Seq({es[n] : n \in 1..Len(s)}) /\ Len(es) = Len(s)
  BY <1>1, <1>5
<1>7. \E X : es \in Seq(X)
  BY <1>6
<1>8. Entries(c) = Contents(c, s)
  BY <1>2 DEF es
<1> QED
  BY <1>2, <1>3, <1>4, <1>6, <1>7, <1>8

\* The place of a key.
LEMMA PlaceOf ==
    ASSUME NEW c, NEW s, Sync(c, s), NEW key \in DOMAIN c.map
    PROVE  \E p \in 1..Len(s) : s[p] = c.map[key] /\ c.node[s[p]].key = key
<1>1. c.map[key] \in DOMAIN c.node /\ c.node[c.map[key]].key = key
  BY DEF Sync, Mapped
<1>2. \E p \in 1..Len(s) : s[p] = c.map[key]
  BY <1>1 DEF Sync, Linked, Nodes
<1> QED
  BY <1>1, <1>2

\* has() finds what entries() lists, and get() returns its value.
LEMMA EntryIs ==
    ASSUME NEW c, InOrder(c), NEW key
    PROVE  /\ HasEntry(c, key) <=> \E n \in DOMAIN Entries(c) : Entries(c)[n].key = key
           /\ \A n \in DOMAIN Entries(c) :
                 Entries(c)[n].key = key
                 => Entries(c)[n] = [key |-> key, value |-> EntryOf(c, key)]
<1>1. PICK s : Sync(c, s) /\ Len(s) <= c.capacity
  BY DEF InOrder
<1>2. /\ DOMAIN Entries(c) = 1..Len(s)
      /\ \A n \in 1..Len(s) :
            Entries(c)[n] = [key |-> c.node[s[n]].key, value |-> c.node[s[n]].value]
  BY <1>1, EntriesFacts
<1>3. ASSUME HasEntry(c, key) PROVE \E n \in 1..Len(s) : Entries(c)[n].key = key
  <2>1. PICK p \in 1..Len(s) : s[p] = c.map[key] /\ c.node[s[p]].key = key
    BY <1>1, <1>3, PlaceOf DEF HasEntry
  <2> QED
    BY <1>2, <2>1
<1>4. ASSUME NEW n \in 1..Len(s), Entries(c)[n].key = key
      PROVE  HasEntry(c, key) /\ Entries(c)[n] = [key |-> key, value |-> EntryOf(c, key)]
  <2>1. s[n] \in DOMAIN c.node /\ Mapped(c)
    BY <1>1, LinkedFacts DEF Sync
  <2>2. Entries(c)[n] = [key |-> c.node[s[n]].key, value |-> c.node[s[n]].value]
    BY <1>2
  <2>3. c.node[s[n]].key = key
    BY <1>4, <2>2
  <2>4. key \in DOMAIN c.map /\ c.map[key] = s[n]
    BY <2>1, <2>3 DEF Mapped
  <2> QED
    BY <2>2, <2>3, <2>4 DEF HasEntry, EntryOf
<1> QED
  BY <1>2, <1>3, <1>4

\* A new cache.
LEMMA NewCache ==
    ASSUME NEW N \in Nat \ {0}
    PROVE  /\ InOrder(NewLRU(N)) /\ NewLRU(N).capacity = N
           /\ Entries(NewLRU(N)) = <<>> /\ \A key : ~HasEntry(NewLRU(N), key)
<1> DEFINE c == NewLRU(N)
           s == <<>>
<1>1. /\ c.capacity = N /\ c.head = 0 /\ c.tail = 0 /\ c.len = 0
      /\ DOMAIN c.node = {} /\ DOMAIN c.map = {}
  BY DEF NewLRU
<1>2. Shape(c)
  BY DEF NewLRU, Shape
<1>3. Len(s) = 0 /\ s \in Seq(Nat \ {0}) /\ 1..Len(s) = {}
  OBVIOUS
<1> HIDE DEF c, s
<1>4. Sync(c, s)
  BY <1>1, <1>2, <1>3 DEF Sync, Linked, Nodes, Once, Extremes, Links, Mapped
<1>5. InOrder(c) /\ Len(s) <= c.capacity
  BY <1>1, <1>3, <1>4 DEF InOrder
<1>6. Entries(c) = Contents(c, s)
  BY <1>4, <1>5, EntriesFacts
<1>7. Contents(c, s) = <<>>
  BY <1>3 DEF Contents
<1>8. \A key : ~HasEntry(c, key)
  BY <1>1 DEF HasEntry
<1> QED
  BY <1>1, <1>5, <1>6, <1>7, <1>8 DEF c

\* A node on top.
LEMMA Touched ==
    ASSUME NEW c, NEW s, Sync(c, s), Len(s) <= c.capacity, NEW p \in 1..Len(s),
           NEW d, d = MoveToTop(c, s[p])
    PROVE  /\ InOrder(d) /\ d.capacity = c.capacity
           /\ p \in DOMAIN Entries(c)
           /\ Entries(d) = <<Entries(c)[p]>> \o Others(Entries(c), p)
<1> DEFINE es == Entries(c)
           t == Raised(s, p)
<1>1. /\ Sync(d, t) /\ Len(t) = Len(s) /\ d.capacity = c.capacity
      /\ Contents(d, t) = Raised(Contents(c, s), p)
  BY MoveToTopSync
<1>2. es = Contents(c, s) /\ (\E X : es \in Seq(X)) /\ Len(es) = Len(s) /\ DOMAIN es = 1..Len(s)
  BY EntriesFacts
<1> HIDE DEF es, t
<1>3. Entries(d) = Raised(es, p)
  <2>1. Len(t) <= d.capacity
    BY <1>1
  <2>2. Entries(d) = Contents(d, t)
    BY <1>1, <2>1, EntriesFacts
  <2> QED
    BY <1>1, <1>2, <2>2
<1>4. <<es[p]>> \o Others(es, p) = Raised(es, p)
  <2>1. PICK X : es \in Seq(X)
    BY <1>2
  <2>2. p \in 1..Len(es) /\ es[p] \in X
    BY <1>2, <2>1, ElementOfSeq
  <2>3. <<es[p]>> \o Others(es, p) = Raised(Changed(es, p, es[p]), p)
    BY <2>1, <2>2, FirstOfOthers
  <2>4. Changed(es, p, es[p]) = es
    <3>1. es = [n \in 1..Len(es) |-> es[n]]
      BY <2>1
    <3> QED
      BY <3>1 DEF Changed
  <2> QED
    BY <2>3, <2>4
<1>5. InOrder(d)
  <2>1. Len(t) <= d.capacity
    BY <1>1
  <2> QED
    BY <1>1, <2>1 DEF InOrder
<1> QED
  BY <1>1, <1>2, <1>3, <1>4, <1>5 DEF es

LEMMA GetSync ==
    ASSUME NEW c, InOrder(c), NEW key, HasEntry(c, key), NEW d, d = AfterGet(c, key)
    PROVE  /\ InOrder(d) /\ d.capacity = c.capacity
           /\ \E n \in DOMAIN Entries(c) :
                 /\ Entries(c)[n].key = key
                 /\ Entries(d) = Before(Entries(c)[n], Entries(c), n)
<1>1. PICK s : Sync(c, s) /\ Len(s) <= c.capacity
  BY DEF InOrder
<1>2. PICK p \in 1..Len(s) : s[p] = c.map[key] /\ c.node[s[p]].key = key
  BY <1>1, PlaceOf DEF HasEntry
<1>3. d = MoveToTop(c, s[p])
  BY <1>2 DEF AfterGet
<1>4. /\ InOrder(d) /\ d.capacity = c.capacity /\ p \in DOMAIN Entries(c)
      /\ Entries(d) = <<Entries(c)[p]>> \o Others(Entries(c), p)
  BY <1>1, <1>3, Touched
<1>5. Entries(c)[p] = [key |-> c.node[s[p]].key, value |-> c.node[s[p]].value]
  BY <1>1, EntriesFacts
<1>6. Entries(c)[p].key = key
  BY <1>2, <1>5
<1> QED
  BY <1>4, <1>6 DEF Before

\* Set() of a key that is there.
LEMMA SetReplaces ==
    ASSUME NEW c, InOrder(c), NEW key, HasEntry(c, key), NEW value,
           NEW d, d = AfterSet(c, key, value)
    PROVE  /\ InOrder(d) /\ d.capacity = c.capacity
           /\ \E n \in DOMAIN Entries(c) :
                 /\ Entries(c)[n].key = key
                 /\ Entries(d) = Before([key |-> key, value |-> value], Entries(c), n)
<1> DEFINE e == [key |-> key, value |-> value]
           es == Entries(c)
<1>1. PICK s : Sync(c, s) /\ Len(s) <= c.capacity
  BY DEF InOrder
<1>2. PICK p \in 1..Len(s) : s[p] = c.map[key] /\ c.node[s[p]].key = key
  BY <1>1, PlaceOf DEF HasEntry
<1>3. PICK b : b = Replaced(c, s[p], value)
  OBVIOUS
<1>4. d = MoveToTop(b, s[p])
  BY <1>2, <1>3 DEF AfterSet, Replaced
<1>5. /\ Sync(b, s) /\ b.capacity = c.capacity
      /\ Contents(b, s)
         = Changed(Contents(c, s), p, [key |-> c.node[s[p]].key, value |-> value])
  BY <1>1, <1>3, ReplacedSync
<1>6. /\ Sync(d, Raised(s, p)) /\ Len(Raised(s, p)) = Len(s) /\ d.capacity = b.capacity
      /\ Contents(d, Raised(s, p)) = Raised(Contents(b, s), p)
  BY <1>4, <1>5, MoveToTopSync
<1>7. /\ es = Contents(c, s) /\ (\E X : es \in Seq(X)) /\ Len(es) = Len(s)
      /\ DOMAIN es = 1..Len(s)
  BY <1>1, EntriesFacts
<1>8. es[p] = [key |-> c.node[s[p]].key, value |-> c.node[s[p]].value]
  BY <1>7 DEF Contents
<1>9. es[p].key = key /\ p \in DOMAIN es
  BY <1>2, <1>7, <1>8
<1> HIDE DEF es
<1>10. Len(Raised(s, p)) <= d.capacity
  BY <1>1, <1>5, <1>6
<1>11. Entries(d) = Contents(d, Raised(s, p))
  BY <1>6, <1>10, EntriesFacts
<1>12. Contents(b, s) = Changed(es, p, e)
  BY <1>2, <1>5, <1>7
<1>13. <<e>> \o Others(es, p) = Raised(Changed(es, p, e), p)
  <2> HIDE DEF e
  <2>1. PICK X : es \in Seq(X)
    BY <1>7
  <2>2. PICK Y : Y = X \cup {e}
    OBVIOUS
  <2>3. es \in Seq(Y) /\ e \in Y
    BY <2>1, <2>2, SeqMonotonic
  <2>4. p \in 1..Len(es)
    BY <1>7
  <2> QED
    BY <2>3, <2>4, FirstOfOthers
<1>14. Entries(d) = <<e>> \o Others(es, p)
  BY <1>6, <1>11, <1>12, <1>13
<1>15. InOrder(d)
  BY <1>6, <1>10 DEF InOrder
<1> QED
  BY <1>5, <1>6, <1>9, <1>14, <1>15 DEF es, Before

\* Set() of a key that is not.
LEMMA SetAdds ==
    ASSUME NEW c, InOrder(c), NEW key, ~HasEntry(c, key), NEW value,
           NEW d, d = AfterSet(c, key, value)
    PROVE  /\ InOrder(d) /\ d.capacity = c.capacity
           /\ LET all == <<[key |-> key, value |-> value]>> \o Entries(c)
              IN  Entries(d) = Beginning(all, IF Len(all) < c.capacity THEN Len(all) ELSE c.capacity)
<1> DEFINE e == [key |-> key, value |-> value]
           es == Entries(c)
           all == <<e>> \o es
<1>1. PICK s : Sync(c, s) /\ Len(s) <= c.capacity
  BY DEF InOrder
<1>2. PICK b : b = Pushed(c, key, value)
  OBVIOUS
<1>3. d = Bounded(b)
  BY <1>2 DEF AfterSet, Pushed
<1>4. PICK t : /\ Sync(b, t) /\ Len(t) = Len(s) + 1 /\ b.capacity = c.capacity
               /\ Contents(b, t) = Preceded(e, Contents(c, s))
  BY <1>1, <1>2, PushedSync DEF HasEntry
<1>5. /\ es = Contents(c, s) /\ (\E X : es \in Seq(X)) /\ Len(es) = Len(s)
  BY <1>1, EntriesFacts
<1>6. Len(s) \in Nat /\ c.capacity \in Nat
  BY <1>1, LinkedFacts
<1> HIDE DEF e, es
<1>7. PICK Y : es \in Seq(Y) /\ e \in Y
  <2>1. PICK X : es \in Seq(X)
    BY <1>5
  <2>2. PICK Y : Y = X \cup {e}
    OBVIOUS
  <2> QED
    BY <2>1, <2>2, SeqMonotonic
<1>8. all = Preceded(e, es)
  BY <1>7, FirstOfAll
<1>9. all \in Seq(Y) /\ Len(all) = Len(s) + 1
  <2>1. PICK l : l = all
    OBVIOUS
  <2>2. l \in Seq(Y) /\ Len(l) = Len(es) + 1
    BY <1>7, <2>1, FirstFacts
  <2> QED
    BY <1>5, <2>1, <2>2
<1> HIDE DEF all
<1>10. Contents(b, t) = all
  BY <1>4, <1>5, <1>8
<1>11. b.len = Len(t)
  BY <1>4, LinkedFacts
<1>12. CASE Len(s) + 1 <= c.capacity
  <2>1. d = b
    BY <1>3, <1>4, <1>6, <1>11, <1>12 DEF Bounded
  <2>2. Len(t) <= b.capacity
    BY <1>4, <1>12
  <2>3. Entries(b) = all
    BY <1>4, <1>10, <2>2, EntriesFacts
  <2>4. (IF Len(all) < c.capacity THEN Len(all) ELSE c.capacity) = Len(all)
    BY <1>6, <1>9, <1>12
  <2>5. Beginning(all, Len(all)) = all
    BY <1>9, BeginningFacts
  <2>6. InOrder(b)
    BY <1>4, <2>2 DEF InOrder
  <2> QED
    BY <1>4, <2>1, <2>3, <2>4, <2>5, <2>6 DEF all, es, e
<1>13. CASE ~(Len(s) + 1 <= c.capacity)
  <2>1. Len(s) = c.capacity /\ Len(t) = b.capacity + 1
    BY <1>1, <1>4, <1>6, <1>13
  <2>2. PICK u : /\ Sync(d, u) /\ Len(u) = b.capacity /\ d.capacity = b.capacity
                 /\ Contents(d, u) = Shortened(Contents(b, t))
    BY <1>3, <1>4, <2>1, BoundedSync
  <2>3. Len(u) <= d.capacity
    BY <1>4, <1>6, <2>2
  <2>4. Entries(d) = Shortened(all)
    BY <1>10, <2>2, <2>3, EntriesFacts
  <2>5. /\ (IF Len(all) < c.capacity THEN Len(all) ELSE c.capacity) = Len(all) - 1
        /\ Len(all) # 0
    BY <1>6, <1>9, <2>1
  <2>6. Beginning(all, Len(all) - 1) = Shortened(all)
    BY <1>9, <2>5, BeginningFacts
  <2>7. InOrder(d)
    BY <2>2, <2>3 DEF InOrder
  <2> QED
    BY <1>4, <2>2, <2>4, <2>5, <2>6, <2>7 DEF all, es, e
<1> QED
  BY <1>12, <1>13

\* The check of length() holds of a cache that is in order.
LEMMA InOrderInSync ==
    ASSUME NEW c, InOrder(c)
    PROVE  InSync(c)
<1>1. PICK s : Sync(c, s) /\ Len(s) <= c.capacity
  BY DEF InOrder
<1>2. Linked(c, s) /\ Mapped(c) /\ Len(s) \in Nat /\ c.len = Len(s) /\ c.len <= c.capacity
  BY <1>1, LinkedFacts DEF Sync
<1>a. \A n \in 1..Len(s) : s[n] \in DOMAIN c.node
  BY <1>1, LinkedFacts
<1>3. Cardinality(DOMAIN c.map) = c.len
  <2> DEFINE f == [n \in 1..Len(s) |-> c.node[s[n]].key]
  <2>1. \A n \in 1..Len(s) : f[n] \in DOMAIN c.map /\ c.map[f[n]] = s[n]
    BY <1>2, <1>a DEF Mapped
  <2>2. \A k \in DOMAIN c.map : \E n \in 1..Len(s) : f[n] = k
    BY <1>1, PlaceOf
  <2>3. \A m, n \in 1..Len(s) : f[m] = f[n] => m = n
    BY <1>2, <2>1 DEF Linked, Once
  <2>4. f \in [1..Len(s) -> DOMAIN c.map]
    BY <2>1
  <2> HIDE DEF f
  <2>5. f \in Bijection(1..Len(s), DOMAIN c.map)
    BY <2>2, <2>3, <2>4 DEF Bijection, Injection, IsInjective, Surjection
  <2>6. ExistsBijection(1..Len(s), DOMAIN c.map)
    BY <2>5 DEF ExistsBijection
  <2> QED
    BY <1>2, <2>6, FS_CountingElements
<1>4. Len(Entries(c)) = c.len
  BY <1>1, <1>2, EntriesFacts
<1>5. \A n \in DOMAIN Entries(c) : HasEntry(c, Entries(c)[n].key)
  BY EntryIs
<1>6. ASSUME NEW i \in DOMAIN c.node
      PROVE  /\ IF c.node[i].prev = 0 THEN c.head = i ELSE c.node[c.node[i].prev].next = i
             /\ IF c.node[i].next = 0 THEN c.tail = i ELSE c.node[c.node[i].next].prev = i
  <2>1. PICK p \in 1..Len(s) : s[p] = i
    BY <1>2 DEF Linked, Nodes
  <2>2. \A n \in 1..Len(s) : s[n] # 0
    BY <1>1, LinkedFacts
  <2>3. IF c.node[i].prev = 0 THEN c.head = i ELSE c.node[c.node[i].prev].next = i
    <3>1. CASE p = 1
      BY <1>2, <2>1, <3>1, Neighbours
    <3>2. CASE p # 1
      <4>1. PICK q \in 1..Len(s) : q = p - 1 /\ q + 1 = p /\ q # Len(s)
        BY <1>2, <3>2
      <4>2. c.node[s[p]].prev = s[q]
        BY <1>2, <3>2, <4>1, Neighbours
      <4>3. c.node[s[q]].next = s[q + 1]
        BY <1>2, <4>1, Neighbours
      <4> QED
        BY <2>1, <2>2, <4>1, <4>2, <4>3
    <3> QED
      BY <3>1, <3>2
  <2>4. IF c.node[i].next = 0 THEN c.tail = i ELSE c.node[c.node[i].next].prev = i
    <3>1. CASE p = Len(s)
      BY <1>2, <2>1, <3>1, Neighbours
    <3>2. CASE p # Len(s)
      <4>1. PICK q \in 1..Len(s) : q = p + 1 /\ q - 1 = p /\ q # 1
        BY <1>2, <3>2
      <4>2. c.node[s[p]].next = s[q]
        BY <1>2, <3>2, <4>1, Neighbours
      <4>3. c.node[s[q]].prev = s[q - 1]
        BY <1>2, <4>1, Neighbours
      <4> QED
        BY <2>1, <2>2, <4>1, <4>2, <4>3
    <3> QED
      BY <3>1, <3>2
  <2> QED
    BY <2>3, <2>4
<1> QED
  BY <1>2, <1>3, <1>4, <1>5, <1>6 DEF InSync
=============================================================================
