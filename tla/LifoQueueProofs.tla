-------------------------- MODULE LifoQueueProofs --------------------------
(***************************************************************************)
(* LifoQueue implements HandOff, for any items, consumers and promises:    *)
(* the arrays of promises and callbacks are a stack and a line.  Linked    *)
(* says how the arrays, the promises and the consumers refer to each       *)
(* other.                                                                  *)
(***************************************************************************)
EXTENDS LifoQueue, TLAPS

NoneTwice(s) == \A k, l \in DOMAIN s : s[k] = s[l] => k = l

\* The promises that get() can still return are resolved and nobody's.
Stacked ==
    \A k \in DOMAIN promises :
        /\ state[promises[k]] = "resolved"
        /\ value[promises[k]] \in Items
        /\ \A c \in Consumers : awaits[c] # promises[k]

\* The promises that push() can still resolve are pending and somebody's.
Lined ==
    \A k \in DOMAIN resolvers :
        /\ state[resolvers[k]] = "pending"
        /\ \E c \in Consumers : awaits[c] = resolvers[k]

\* What a consumer awaits is its own, and is with push() while it is pending.
Awaited ==
    \A c \in Consumers : awaits[c] # Null =>
        /\ \A d \in Consumers : awaits[d] = awaits[c] => d = c
        /\ state[awaits[c]] = "pending" =>
              \E k \in DOMAIN resolvers : resolvers[k] = awaits[c]
        /\ state[awaits[c]] = "resolved" <=> value[awaits[c]] # Null

Linked ==
    /\ promises = <<>> \/ resolvers = <<>>
    /\ rejecters = resolvers
    /\ NoneTwice(promises) /\ NoneTwice(resolvers)
    /\ Stacked /\ Lined /\ Awaited

IInv == TypeOK /\ Linked

-----------------------------------------------------------------------------
(* Sequences.                                                              *)

LEMMA SameInterval ==
    ASSUME NEW m \in Nat, NEW n \in Nat, 1..m = 1..n
    PROVE  m = n
<1>1. m \in 1..m \/ m = 0
  OBVIOUS
<1>2. n \in 1..n \/ n = 0
  OBVIOUS
<1>3. m \in 1..n \/ m = 0
  BY <1>1
<1>4. n \in 1..m \/ n = 0
  BY <1>2
<1> QED
  BY <1>3, <1>4

LEMMA SeqFacts ==
    ASSUME NEW S, NEW s \in Seq(S)
    PROVE  /\ Len(s) \in Nat /\ DOMAIN s = 1..Len(s)
           /\ \A k \in 1..Len(s) : s[k] \in S
           /\ s = <<>> <=> Len(s) = 0
OBVIOUS

LEMMA AppendFacts ==
    ASSUME NEW S, NEW s \in Seq(S), NEW e \in S
    PROVE  /\ Append(s, e) \in Seq(S)
           /\ Len(Append(s, e)) = Len(s) + 1
           /\ \A k \in 1..Len(s) : Append(s, e)[k] = s[k]
           /\ Append(s, e)[Len(s) + 1] = e
OBVIOUS

LEMMA TailFacts ==
    ASSUME NEW S, NEW s \in Seq(S), s # <<>>
    PROVE  /\ Head(s) = s[1] /\ Head(s) \in S
           /\ Tail(s) \in Seq(S)
           /\ Len(Tail(s)) = Len(s) - 1
           /\ \A k \in 1..(Len(s) - 1) : Tail(s)[k] = s[k + 1]
OBVIOUS

LEMMA FrontFacts ==
    ASSUME NEW S, NEW s \in Seq(S), s # <<>>
    PROVE  /\ Last(s) = s[Len(s)] /\ Last(s) \in S
           /\ Front(s) \in Seq(S)
           /\ Len(Front(s)) = Len(s) - 1
           /\ \A k \in 1..(Len(s) - 1) : Front(s)[k] = s[k]
<1>1. Len(s) \in Nat \ {0}
  OBVIOUS
<1>2. Front(s) = SubSeq(s, 1, Len(s) - 1) /\ Last(s) = s[Len(s)]
  BY DEF Front, Last
<1>3. /\ SubSeq(s, 1, Len(s) - 1) \in Seq(S)
      /\ Len(SubSeq(s, 1, Len(s) - 1)) = Len(s) - 1
      /\ \A k \in 1..(Len(s) - 1) : SubSeq(s, 1, Len(s) - 1)[k] = s[k]
  <2>1. SubSeq(s, 1, Len(s) - 1) \in Seq(S)
    BY <1>1
  <2>2. DOMAIN SubSeq(s, 1, Len(s) - 1) = 1..(Len(s) - 1)
    BY <1>1
  <2>3. Len(SubSeq(s, 1, Len(s) - 1)) = Len(s) - 1
    <3>1. Len(s) - 1 \in Nat
      BY <1>1
    <3> QED
      BY <2>1, <2>2, <3>1, SeqFacts, SameInterval
  <2>4. \A k \in 1..(Len(s) - 1) : SubSeq(s, 1, Len(s) - 1)[k] = s[k]
    BY <1>1
  <2> QED
    BY <2>1, <2>3, <2>4
<1>4. s[Len(s)] \in S
  BY <1>1
<1>5. Last(s) = s[Len(s)] /\ Last(s) \in S
  BY <1>2, <1>4
<1> QED
  BY <1>2, <1>3, <1>5, Zenon

LEMMA SameSeq ==
    ASSUME NEW S, NEW s \in Seq(S), NEW t \in Seq(S), Len(s) = Len(t),
           \A k \in 1..Len(s) : s[k] = t[k]
    PROVE  s = t
OBVIOUS

\* The stack of the items that the promises pr are resolved with.
LEMMA StackFacts ==
    ASSUME NEW pr \in Seq(Promises), NEW val,
           \A k \in 1..Len(pr) : val[pr[k]] \in Items,
           NEW stk, stk = [k \in 1..Len(pr) |-> val[pr[k]]]
    PROVE  /\ stk \in Seq(Items) /\ Len(stk) = Len(pr)
           /\ \A k \in 1..Len(pr) : stk[k] = val[pr[k]]
<1>1. Len(pr) \in Nat
  OBVIOUS
<1> QED
  BY <1>1

\* The line of the consumers that await the promises rs.
LEMMA LineFacts ==
    ASSUME NEW rs \in Seq(Promises), NEW aw,
           \A k \in 1..Len(rs) : \E c \in Consumers : aw[c] = rs[k],
           NEW ln,
           ln = [k \in 1..Len(rs) |-> CHOOSE c \in Consumers : aw[c] = rs[k]]
    PROVE  /\ ln \in Seq(Consumers) /\ Len(ln) = Len(rs)
           /\ \A k \in 1..Len(rs) : ln[k] \in Consumers /\ aw[ln[k]] = rs[k]
<1>1. Len(rs) \in Nat
  OBVIOUS
<1>2. \A k \in 1..Len(rs) : ln[k] \in Consumers /\ aw[ln[k]] = rs[k]
  OBVIOUS
<1> QED
  BY <1>1, <1>2

-----------------------------------------------------------------------------
(* The inductive invariant.                                                *)

LEMMA InitIInv == Init => IInv
<1> SUFFICES ASSUME Init PROVE IInv
  OBVIOUS
<1>1. TypeOK
  BY DEF Init, TypeOK
<1>2. Linked
  BY DEF Init, Linked, NoneTwice, Stacked, Lined, Awaited
<1> QED
  BY <1>1, <1>2 DEF IInv

LEMMA FreshFacts ==
    ASSUME IInv, NEW p \in Fresh
    PROVE  /\ p \in Promises /\ p # Null
           /\ \A k \in 1..Len(promises) : promises[k] # p
           /\ \A k \in 1..Len(resolvers) : resolvers[k] # p
           /\ \A c \in Consumers : awaits[c] # p
BY NullAssumption DEF IInv, TypeOK, Fresh, ToSet

\* What the steps below use of IInv, with the domains as intervals.
Facts ==
    /\ promises \in Seq(Promises) /\ resolvers \in Seq(Promises)
    /\ Len(promises) \in Nat /\ DOMAIN promises = 1..Len(promises)
    /\ Len(resolvers) \in Nat /\ DOMAIN resolvers = 1..Len(resolvers)
    /\ \A k \in 1..Len(promises) : promises[k] \in Promises
    /\ \A k \in 1..Len(resolvers) : resolvers[k] \in Promises
    /\ state \in [Promises -> {"pending", "resolved", "rejected"}]
    /\ value \in [Promises -> Items \cup {Null}]
    /\ awaits \in [Consumers -> Promises \cup {Null}]
    /\ Null \notin Items /\ Null \notin Promises
    /\ outside \subseteq Items

LEMMA TypeFacts == IInv => Facts
BY NullAssumption, SeqFacts DEF IInv, TypeOK, Facts

\* push() resolves the promise that has waited longest.
LEMMA PushLine ==
    ASSUME IInv, NEW i \in Items, Push(i), resolvers # <<>>
    PROVE  IInv'
<1> DEFINE r == Head(resolvers)
           n == Len(resolvers)
<1>0. Facts
  BY TypeFacts
<1>1. /\ r = resolvers[1] /\ r \in Promises
      /\ n \in Nat /\ n > 0
      /\ Tail(resolvers) \in Seq(Promises)
      /\ Len(Tail(resolvers)) = n - 1
      /\ \A k \in 1..(n - 1) : Tail(resolvers)[k] = resolvers[k + 1]
  BY <1>0, TailFacts, SeqFacts DEF Facts
<1>2. /\ promises = <<>> /\ rejecters = resolvers
      /\ state' = [state EXCEPT ![r] = "resolved"]
      /\ value' = [value EXCEPT ![r] = i]
      /\ resolvers' = Tail(resolvers) /\ rejecters' = Tail(resolvers)
      /\ promises' = <<>> /\ awaits' = awaits /\ outside' = outside \ {i}
  BY DEF IInv, Linked, Push, Shifted
<1> HIDE DEF r, n
<1>3. TypeOK'
  BY <1>0, <1>1, <1>2 DEF Facts, TypeOK
<1>4. DOMAIN resolvers' = 1..(n - 1)
  BY <1>1, <1>2, SeqFacts
<1>5. \A k \in 1..(n - 1) : /\ resolvers'[k] = resolvers[k + 1]
                            /\ k + 1 \in 1..n /\ resolvers'[k] # r
  BY <1>0, <1>1, <1>2 DEF IInv, Linked, NoneTwice, Facts, n
<1>6. NoneTwice(resolvers)'
  <2>1. \A k, l \in 1..n : resolvers[k] = resolvers[l] => k = l
    BY <1>0 DEF IInv, Linked, NoneTwice, Facts, n
  <2> QED
    BY <1>1, <1>4, <1>5, <2>1 DEF NoneTwice
<1>7. Lined'
  <2>1. \A k \in 1..n : /\ state[resolvers[k]] = "pending"
                        /\ \E c \in Consumers : awaits[c] = resolvers[k]
    BY <1>0 DEF IInv, Linked, Lined, Facts, n
  <2>2. \A k \in 1..(n - 1) : state'[resolvers'[k]] = state[resolvers[k + 1]]
    BY <1>0, <1>1, <1>2, <1>5 DEF Facts, n
  <2> SUFFICES ASSUME NEW k \in 1..(n - 1)
               PROVE  /\ state'[resolvers'[k]] = "pending"
                      /\ \E c \in Consumers : awaits[c] = resolvers'[k]
    BY <1>2, <1>4 DEF Lined
  <2>3. k + 1 \in 1..n /\ resolvers'[k] = resolvers[k + 1]
    BY <1>5
  <2> QED
    BY <2>1, <2>2, <2>3
<1>8. Awaited'
  <2> SUFFICES ASSUME NEW c \in Consumers, awaits[c] # Null
               PROVE  /\ \A d \in Consumers : awaits[d] = awaits[c] => d = c
                      /\ state'[awaits[c]] = "pending" =>
                           \E k \in 1..(n - 1) : resolvers'[k] = awaits[c]
                      /\ state'[awaits[c]] = "resolved" <=> value'[awaits[c]] # Null
    BY <1>2, <1>4 DEF Awaited
  <2>1. /\ \A d \in Consumers : awaits[d] = awaits[c] => d = c
        /\ state[awaits[c]] = "pending" =>
              \E k \in 1..n : resolvers[k] = awaits[c]
        /\ state[awaits[c]] = "resolved" <=> value[awaits[c]] # Null
        /\ awaits[c] \in Promises
    BY <1>0 DEF IInv, Linked, Awaited, Facts, n
  <2>2. CASE awaits[c] = r
    BY <1>0, <1>1, <1>2, <2>1, <2>2 DEF Facts
  <2>3. CASE awaits[c] # r
    <3>1. state'[awaits[c]] = state[awaits[c]] /\ value'[awaits[c]] = value[awaits[c]]
      BY <1>0, <1>2, <2>1, <2>3 DEF Facts
    <3>2. ASSUME NEW k \in 1..n, resolvers[k] = awaits[c]
          PROVE  \E l \in 1..(n - 1) : resolvers'[l] = awaits[c]
      <4>1. k # 1 /\ k - 1 \in 1..(n - 1) /\ (k - 1) + 1 = k
        BY <1>1, <2>3, <3>2
      <4> QED
        BY <1>5, <3>2, <4>1
    <3> QED
      BY <2>1, <3>1, <3>2
  <2> QED
    BY <2>2, <2>3
<1>9. Stacked' /\ NoneTwice(promises)'
  BY <1>2 DEF Stacked, NoneTwice
<1> QED
  BY <1>2, <1>3, <1>6, <1>7, <1>8, <1>9 DEF IInv, Linked

\* push() makes a promise for get() to return.
LEMMA PushStack ==
    ASSUME IInv, NEW i \in Items, Push(i), resolvers = <<>>
    PROVE  IInv'
<1> DEFINE n == Len(promises)
<1>0. Facts
  BY TypeFacts
<1>1. PICK p \in Fresh :
          /\ state' = [state EXCEPT ![p] = "resolved"]
          /\ value' = [value EXCEPT ![p] = i]
          /\ promises' = Append(promises, p)
          /\ resolvers' = Tail(Append(resolvers, p))
          /\ rejecters' = Tail(Append(rejecters, p))
          /\ awaits' = awaits /\ outside' = outside \ {i}
  BY DEF Push, Shifted
<1>2. resolvers' = <<>> /\ rejecters' = <<>>
  <2>1. rejecters = <<>>
    BY DEF IInv, Linked
  <2> QED
    BY <1>1, <2>1
<1>3. /\ p \in Promises /\ p # Null
      /\ \A k \in 1..n : promises[k] # p
      /\ \A c \in Consumers : awaits[c] # p
  BY FreshFacts
<1>4. /\ n \in Nat /\ promises' \in Seq(Promises) /\ Len(promises') = n + 1
      /\ DOMAIN promises' = 1..(n + 1)
      /\ \A k \in 1..n : promises'[k] = promises[k]
      /\ promises'[n + 1] = p
  BY <1>0, <1>1, <1>3, AppendFacts, SeqFacts DEF Facts
<1>5. /\ \A k \in 1..n : /\ promises[k] \in Promises
                         /\ state[promises[k]] = "resolved"
                         /\ value[promises[k]] \in Items
                         /\ \A c \in Consumers : awaits[c] # promises[k]
      /\ \A k, l \in 1..n : promises[k] = promises[l] => k = l
  BY <1>0 DEF IInv, Linked, Stacked, NoneTwice, Facts
<1> HIDE DEF n
<1>6. TypeOK'
  BY <1>0, <1>1, <1>2, <1>3, <1>4 DEF Facts, TypeOK
<1>7. NoneTwice(promises)'
  <2> SUFFICES ASSUME NEW k \in 1..(n + 1), NEW l \in 1..(n + 1),
                      promises'[k] = promises'[l]
               PROVE  k = l
    BY <1>4 DEF NoneTwice
  <2>1. (k \in 1..n \/ k = n + 1) /\ (l \in 1..n \/ l = n + 1)
    BY <1>4
  <2> QED
    BY <1>3, <1>4, <1>5, <2>1
<1>8. Stacked'
  <2> SUFFICES ASSUME NEW k \in 1..(n + 1)
               PROVE  /\ state'[promises'[k]] = "resolved"
                      /\ value'[promises'[k]] \in Items
                      /\ \A c \in Consumers : awaits[c] # promises'[k]
    BY <1>1, <1>4 DEF Stacked
  <2>1. CASE k \in 1..n
    BY <1>0, <1>1, <1>3, <1>4, <1>5, <2>1 DEF Facts
  <2>2. CASE k = n + 1
    BY <1>0, <1>1, <1>3, <1>4, <2>2 DEF Facts
  <2> QED
    BY <1>4, <2>1, <2>2
<1>9. Awaited'
  <2> SUFFICES ASSUME NEW c \in Consumers, awaits[c] # Null
               PROVE  /\ \A d \in Consumers : awaits[d] = awaits[c] => d = c
                      /\ state'[awaits[c]] # "pending"
                      /\ state'[awaits[c]] = "resolved" <=> value'[awaits[c]] # Null
    BY <1>1 DEF Awaited
  <2>1. /\ \A d \in Consumers : awaits[d] = awaits[c] => d = c
        /\ state[awaits[c]] # "pending"
        /\ state[awaits[c]] = "resolved" <=> value[awaits[c]] # Null
    BY DEF IInv, Linked, Awaited
  <2>2. state'[awaits[c]] = state[awaits[c]] /\ value'[awaits[c]] = value[awaits[c]]
    BY <1>0, <1>1, <1>3 DEF Facts
  <2> QED
    BY <2>1, <2>2
<1>10. Lined' /\ NoneTwice(resolvers)'
  BY <1>2 DEF Lined, NoneTwice
<1> QED
  BY <1>2, <1>6, <1>7, <1>8, <1>9, <1>10 DEF IInv, Linked

\* get() returns the promise made last.
LEMMA GetStack ==
    ASSUME IInv, NEW c \in Consumers, Get(c), promises # <<>>
    PROVE  IInv'
<1> DEFINE n == Len(promises)
           p == Last(promises)
<1>0. Facts
  BY TypeFacts
<1>1. /\ awaits[c] = Null /\ resolvers = <<>> /\ rejecters = resolvers
      /\ awaits' = [awaits EXCEPT ![c] = p]
      /\ promises' = Front(promises)
      /\ resolvers' = resolvers /\ rejecters' = rejecters
      /\ state' = state /\ value' = value /\ outside' = outside
  BY DEF IInv, Linked, Get
<1>2. /\ n \in Nat /\ n > 0 /\ p = promises[n] /\ p \in Promises /\ p # Null
      /\ promises' \in Seq(Promises) /\ Len(promises') = n - 1
      /\ DOMAIN promises' = 1..(n - 1)
      /\ \A k \in 1..(n - 1) : promises'[k] = promises[k]
  <2>1. promises \in Seq(Promises) /\ Null \notin Promises
    BY <1>0 DEF Facts
  <2>2. /\ p = promises[n] /\ p \in Promises /\ p # Null
        /\ promises' \in Seq(Promises) /\ Len(promises') = n - 1
        /\ \A k \in 1..(n - 1) : promises'[k] = promises[k]
    BY <1>1, <2>1, FrontFacts
  <2>3. n \in Nat /\ n > 0
    BY <2>1
  <2>4. DOMAIN promises' = 1..(n - 1)
    BY <2>2, SeqFacts
  <2> QED
    BY <2>2, <2>3, <2>4
<1>3. /\ \A k \in 1..n : /\ state[promises[k]] = "resolved"
                         /\ value[promises[k]] \in Items
                         /\ \A d \in Consumers : awaits[d] # promises[k]
      /\ \A k, l \in 1..n : promises[k] = promises[l] => k = l
  BY <1>0 DEF IInv, Linked, Stacked, NoneTwice, Facts
<1> HIDE DEF n, p
<1>4. TypeOK'
  BY <1>0, <1>1, <1>2 DEF Facts, TypeOK, IInv
<1>5. NoneTwice(promises)'
  BY <1>2, <1>3 DEF NoneTwice
<1>6. Stacked'
  <2> SUFFICES ASSUME NEW k \in 1..(n - 1), NEW d \in Consumers
               PROVE  /\ state[promises[k]] = "resolved"
                      /\ value[promises[k]] \in Items
                      /\ awaits'[d] # promises[k]
    BY <1>1, <1>2 DEF Stacked
  <2>1. k \in 1..n /\ n \in 1..n /\ k # n
    BY <1>2
  <2> QED
    BY <1>0, <1>1, <1>2, <1>3, <2>1 DEF Facts
<1>7. Awaited'
  <2> SUFFICES ASSUME NEW d \in Consumers, awaits'[d] # Null
               PROVE  /\ \A e \in Consumers : awaits'[e] = awaits'[d] => e = d
                      /\ state[awaits'[d]] # "pending"
                      /\ state[awaits'[d]] = "resolved" <=> value[awaits'[d]] # Null
    BY <1>1 DEF Awaited
  <2>1. /\ state[p] = "resolved" /\ value[p] \in Items
        /\ \A e \in Consumers : awaits[e] # p
    <3>1. n \in 1..n
      BY <1>2
    <3> QED
      BY <1>2, <1>3, <3>1
  <2>2. CASE d = c
    BY <1>0, <1>1, <2>1, <2>2 DEF Facts
  <2>3. CASE d # c
    <3>1. /\ \A e \in Consumers : awaits[e] = awaits[d] => e = d
          /\ state[awaits[d]] # "pending"
          /\ state[awaits[d]] = "resolved" <=> value[awaits[d]] # Null
          /\ awaits'[d] = awaits[d]
      BY <1>0, <1>1, <2>3 DEF IInv, Linked, Awaited, Facts
    <3> QED
      BY <1>0, <1>1, <2>1, <2>3, <3>1 DEF Facts
  <2> QED
    BY <2>2, <2>3
<1>8. Lined' /\ NoneTwice(resolvers)'
  BY <1>1 DEF Lined, NoneTwice
<1> QED
  BY <1>1, <1>4, <1>5, <1>6, <1>7, <1>8 DEF IInv, Linked

\* get() makes a promise for push() to resolve.
LEMMA GetLine ==
    ASSUME IInv, NEW c \in Consumers, Get(c), promises = <<>>
    PROVE  IInv'
<1> DEFINE n == Len(resolvers)
<1>0. Facts
  BY TypeFacts
<1>1. PICK p \in Fresh :
          /\ awaits[c] = Null /\ rejecters = resolvers
          /\ state' = [state EXCEPT ![p] = "pending"]
          /\ value' = [value EXCEPT ![p] = Null]
          /\ resolvers' = Append(resolvers, p)
          /\ rejecters' = resolvers'
          /\ awaits' = [awaits EXCEPT ![c] = p]
          /\ promises' = <<>> /\ outside' = outside
  BY DEF IInv, Linked, Get
<1>2. /\ p \in Promises /\ p # Null
      /\ \A k \in 1..n : resolvers[k] # p
      /\ \A d \in Consumers : awaits[d] # p
  BY FreshFacts
<1>3. /\ n \in Nat /\ resolvers' \in Seq(Promises) /\ Len(resolvers') = n + 1
      /\ DOMAIN resolvers' = 1..(n + 1)
      /\ \A k \in 1..n : resolvers'[k] = resolvers[k]
      /\ resolvers'[n + 1] = p
  BY <1>0, <1>1, <1>2, AppendFacts, SeqFacts DEF Facts
<1>4. /\ \A k \in 1..n : /\ resolvers[k] \in Promises
                         /\ state[resolvers[k]] = "pending"
                         /\ \E d \in Consumers : awaits[d] = resolvers[k]
      /\ \A k, l \in 1..n : resolvers[k] = resolvers[l] => k = l
  BY <1>0 DEF IInv, Linked, Lined, NoneTwice, Facts
<1>5. \A d \in Consumers : awaits'[d] = IF d = c THEN p ELSE awaits[d]
  BY <1>0, <1>1 DEF Facts
<1>6. \A d \in Consumers : awaits[d] # Null =>
          /\ \A e \in Consumers : awaits[e] = awaits[d] => e = d
          /\ state[awaits[d]] = "pending" =>
                \E k \in 1..n : resolvers[k] = awaits[d]
          /\ state[awaits[d]] = "resolved" <=> value[awaits[d]] # Null
  BY <1>0 DEF IInv, Linked, Awaited, Facts
<1> HIDE DEF n
<1>7. TypeOK'
  <2>1. state' \in [Promises -> {"pending", "resolved", "rejected"}]
    BY <1>0, <1>1, <1>2 DEF Facts
  <2>2. value' \in [Promises -> Items \cup {Null}]
    BY <1>0, <1>1, <1>2 DEF Facts
  <2>3. awaits' \in [Consumers -> Promises \cup {Null}]
    BY <1>0, <1>1, <1>2 DEF Facts
  <2> QED
    BY <1>0, <1>1, <1>3, <2>1, <2>2, <2>3 DEF Facts, TypeOK
<1>8. NoneTwice(resolvers)'
  <2> SUFFICES ASSUME NEW k \in 1..(n + 1), NEW l \in 1..(n + 1),
                      resolvers'[k] = resolvers'[l]
               PROVE  k = l
    BY <1>3 DEF NoneTwice
  <2>1. (k \in 1..n \/ k = n + 1) /\ (l \in 1..n \/ l = n + 1)
    BY <1>3
  <2> QED
    BY <1>2, <1>3, <1>4, <2>1
<1>9. Lined'
  <2> SUFFICES ASSUME NEW k \in 1..(n + 1)
               PROVE  /\ state'[resolvers'[k]] = "pending"
                      /\ \E d \in Consumers : awaits'[d] = resolvers'[k]
    BY <1>3 DEF Lined
  <2>1. CASE k \in 1..n
    <3>1. PICK d \in Consumers : awaits[d] = resolvers[k]
      BY <1>4, <2>1
    <3>2. d # c
      BY <1>0, <1>1, <1>4, <2>1, <3>1 DEF Facts
    <3> QED
      BY <1>0, <1>1, <1>2, <1>3, <1>4, <1>5, <2>1, <3>1, <3>2 DEF Facts
  <2>2. CASE k = n + 1
    BY <1>0, <1>1, <1>2, <1>3, <1>5, <2>2 DEF Facts
  <2> QED
    BY <1>3, <2>1, <2>2
<1>10. Awaited'
  <2> SUFFICES ASSUME NEW d \in Consumers, awaits'[d] # Null
               PROVE  /\ \A e \in Consumers : awaits'[e] = awaits'[d] => e = d
                      /\ state'[awaits'[d]] = "pending" =>
                           \E k \in 1..(n + 1) : resolvers'[k] = awaits'[d]
                      /\ state'[awaits'[d]] = "resolved" <=> value'[awaits'[d]] # Null
    BY <1>3 DEF Awaited
  <2>1. CASE d = c
    <3>1. n + 1 \in 1..(n + 1)
      BY <1>3
    <3> QED
      BY <1>0, <1>1, <1>2, <1>3, <1>5, <2>1, <3>1 DEF Facts
  <2>2. CASE d # c
    <3>1. awaits'[d] = awaits[d] /\ awaits[d] # Null /\ awaits[d] # p
      BY <1>2, <1>5, <2>2
    <3>2. state'[awaits[d]] = state[awaits[d]] /\ value'[awaits[d]] = value[awaits[d]]
      BY <1>0, <1>1, <3>1 DEF Facts
    <3>3. \A k \in 1..n : k \in 1..(n + 1) /\ resolvers'[k] = resolvers[k]
      BY <1>3
    <3> QED
      BY <1>2, <1>5, <1>6, <2>2, <3>1, <3>2, <3>3
  <2> QED
    BY <2>1, <2>2
<1>11. Stacked' /\ NoneTwice(promises)'
  BY <1>1 DEF Stacked, NoneTwice
<1> QED
  BY <1>1, <1>7, <1>8, <1>9, <1>10, <1>11 DEF IInv, Linked

\* The promises that cancelAllPending() rejects are those that are awaited.
LEMMA CancelIInv == IInv /\ CancelAllPending => IInv'
<1> SUFFICES ASSUME IInv, CancelAllPending PROVE IInv'
  OBVIOUS
<1>0. Facts
  BY TypeFacts
<1>1. /\ rejecters = resolvers /\ resolvers' = <<>> /\ rejecters' = <<>>
      /\ state' = [p \in Promises |->
                      IF p \in ToSet(rejecters) THEN "rejected" ELSE state[p]]
      /\ promises' = promises /\ value' = value /\ awaits' = awaits
      /\ outside' = outside
  BY DEF IInv, Linked, CancelAllPending, ClearedResolvers
<1>2. \A p \in Promises :
          /\ state'[p] \in {"pending", "resolved", "rejected"}
          /\ (\E k \in 1..Len(resolvers) : resolvers[k] = p) =>
                state'[p] = "rejected"
          /\ ~(\E k \in 1..Len(resolvers) : resolvers[k] = p) =>
                state'[p] = state[p]
  BY <1>0, <1>1 DEF Facts, ToSet
<1>3. TypeOK'
  BY <1>0, <1>1, <1>2 DEF Facts, TypeOK
<1>4. Stacked'
  <2> SUFFICES ASSUME NEW k \in 1..Len(promises)
               PROVE  /\ state'[promises[k]] = "resolved"
                      /\ value[promises[k]] \in Items
                      /\ \A c \in Consumers : awaits[c] # promises[k]
    BY <1>0, <1>1 DEF Stacked, Facts
  <2>1. /\ state[promises[k]] = "resolved" /\ promises[k] \in Promises
        /\ value[promises[k]] \in Items
        /\ \A c \in Consumers : awaits[c] # promises[k]
    BY <1>0 DEF IInv, Linked, Stacked, Facts
  <2>2. \A l \in 1..Len(resolvers) : state[resolvers[l]] = "pending"
    BY <1>0 DEF IInv, Linked, Lined, Facts
  <2> QED
    BY <1>2, <2>1, <2>2
<1>5. Awaited'
  <2> SUFFICES ASSUME NEW c \in Consumers, awaits[c] # Null
               PROVE  /\ \A d \in Consumers : awaits[d] = awaits[c] => d = c
                      /\ state'[awaits[c]] # "pending"
                      /\ state'[awaits[c]] = "resolved" <=> value[awaits[c]] # Null
    BY <1>1 DEF Awaited
  <2>1. /\ \A d \in Consumers : awaits[d] = awaits[c] => d = c
        /\ state[awaits[c]] = "pending" =>
              \E k \in 1..Len(resolvers) : resolvers[k] = awaits[c]
        /\ state[awaits[c]] = "resolved" <=> value[awaits[c]] # Null
        /\ awaits[c] \in Promises
    BY <1>0 DEF IInv, Linked, Awaited, Facts
  <2>2. \A l \in 1..Len(resolvers) : state[resolvers[l]] = "pending"
    BY <1>0 DEF IInv, Linked, Lined, Facts
  <2> QED
    BY <1>2, <2>1, <2>2
<1>6. NoneTwice(promises)' /\ NoneTwice(resolvers)' /\ Lined'
  BY <1>1 DEF IInv, Linked, NoneTwice, Lined
<1> QED
  BY <1>1, <1>3, <1>4, <1>5, <1>6 DEF IInv, Linked

LEMMA LeaveIInv == \A c \in Consumers : IInv /\ Leave(c) => IInv'
<1> SUFFICES ASSUME IInv, NEW c \in Consumers, Leave(c) PROVE IInv'
  OBVIOUS
<1>0. Facts
  BY TypeFacts
<1>1. /\ awaits[c] # Null /\ state[awaits[c]] # "pending"
      /\ outside' = outside \cup ({value[awaits[c]]} \ {Null})
      /\ awaits' = [awaits EXCEPT ![c] = Null]
      /\ promises' = promises /\ resolvers' = resolvers
      /\ rejecters' = rejecters /\ state' = state /\ value' = value
  BY DEF Leave, queue
<1>2. TypeOK'
  BY <1>0, <1>1 DEF IInv, TypeOK, Facts
<1>3. \A d \in Consumers : awaits'[d] = IF d = c THEN Null ELSE awaits[d]
  BY <1>0, <1>1 DEF Facts
<1>4. Stacked'
  BY <1>0, <1>1, <1>3 DEF IInv, Linked, Stacked, Facts
<1>5. Lined'
  <2> SUFFICES ASSUME NEW k \in DOMAIN resolvers
               PROVE  /\ state[resolvers[k]] = "pending"
                      /\ \E d \in Consumers : awaits'[d] = resolvers[k]
    BY <1>1 DEF Lined
  <2>1. /\ state[resolvers[k]] = "pending"
        /\ \E d \in Consumers : awaits[d] = resolvers[k]
    BY DEF IInv, Linked, Lined
  <2> QED
    BY <1>1, <1>3, <2>1
<1>6. Awaited'
  BY <1>1, <1>3 DEF IInv, Linked, Awaited
<1> QED
  BY <1>1, <1>2, <1>4, <1>5, <1>6 DEF IInv, Linked, NoneTwice

LEMMA NextIInv == IInv /\ [Next]_vars => IInv'
<1> SUFFICES ASSUME IInv, [Next]_vars PROVE IInv'
  OBVIOUS
<1>1. ASSUME NEW i \in Items, Push(i) PROVE IInv'
  BY <1>1, PushLine, PushStack
<1>2. ASSUME NEW c \in Consumers, Get(c) PROVE IInv'
  BY <1>2, GetLine, GetStack
<1>3. ASSUME NEW c \in Consumers, Leave(c) PROVE IInv'
  BY <1>3, LeaveIInv
<1>4. CASE CancelAllPending
  BY <1>4, CancelIInv
<1>5. CASE UNCHANGED vars
  BY <1>5 DEF vars, IInv, TypeOK, Linked, NoneTwice, Stacked, Lined, Awaited
<1> QED
  BY <1>1, <1>2, <1>3, <1>4, <1>5 DEF Next

LEMMA AlwaysIInv == Spec => []IInv
BY InitIInv, NextIInv, PTL DEF Spec

\* The two errors of push() and get() that "can never happen" do not
\* (CallbacksPaired), whatever is pushed, awaited and cancelled.
THEOREM CallbacksStayPaired == Spec => []CallbacksPaired
<1>1. IInv => CallbacksPaired
  BY DEF IInv, Linked, Lined, CallbacksPaired
<1> QED
  BY <1>1, AlwaysIInv, PTL

-----------------------------------------------------------------------------
(* The refinement.                                                         *)

\* The stack and the line that the arrays stand for.
MapOK ==
    /\ stack \in Seq(Items) /\ Len(stack) = Len(promises)
    /\ \A k \in 1..Len(promises) : stack[k] = value[promises[k]]
    /\ line \in Seq(Consumers) /\ Len(line) = Len(resolvers)
    /\ \A k \in 1..Len(resolvers) :
          line[k] \in Consumers /\ awaits[line[k]] = resolvers[k]
    /\ \A c, d \in Consumers :
          awaits[c] # Null /\ awaits[c] = awaits[d] => c = d

LEMMA MapFacts == IInv => MapOK
<1> SUFFICES ASSUME IInv PROVE MapOK
  OBVIOUS
<1>0. Facts
  BY TypeFacts
<1>1. /\ stack \in Seq(Items) /\ Len(stack) = Len(promises)
      /\ \A k \in 1..Len(promises) : stack[k] = value[promises[k]]
  <2>1. \A k \in 1..Len(promises) : value[promises[k]] \in Items
    BY <1>0 DEF IInv, Linked, Stacked, Facts
  <2>2. promises \in Seq(Promises)
    BY <1>0 DEF Facts
  <2> QED
    BY <2>1, <2>2, StackFacts DEF stack
<1>2. /\ line \in Seq(Consumers) /\ Len(line) = Len(resolvers)
      /\ \A k \in 1..Len(resolvers) :
            line[k] \in Consumers /\ awaits[line[k]] = resolvers[k]
  <2>1. \A k \in 1..Len(resolvers) :
            \E c \in Consumers : awaits[c] = resolvers[k]
    BY <1>0 DEF IInv, Linked, Lined, Facts
  <2>2. resolvers \in Seq(Promises)
    BY <1>0 DEF Facts
  <2> QED
    BY <2>1, <2>2, LineFacts DEF line, Owner
<1>3. \A c, d \in Consumers : awaits[c] # Null /\ awaits[c] = awaits[d] => c = d
  BY DEF IInv, Linked, Awaited
<1> QED
  BY <1>1, <1>2, <1>3 DEF MapOK

LEMMA MapFactsNext == IInv' => MapOK'
BY MapFacts, PTL

\* What a step says of the stack and the line, in terms of the arrays.
Both ==
    /\ Facts /\ MapOK /\ TypeOK' /\ MapOK'
    /\ st = [c \in Consumers |-> st[c]] /\ st' = [c \in Consumers |-> st'[c]]
    /\ hand = [c \in Consumers |-> hand[c]]
    /\ hand' = [c \in Consumers |-> hand'[c]]

LEMMA BothFacts == IInv /\ IInv' => Both
<1> SUFFICES ASSUME IInv, IInv' PROVE Both
  OBVIOUS
<1>1. Facts /\ MapOK /\ TypeOK' /\ MapOK'
  BY TypeFacts, MapFacts, MapFactsNext DEF IInv
<1>2. st = [c \in Consumers |-> st[c]] /\ st' = [c \in Consumers |-> st'[c]]
  BY DEF st
<1>3. /\ hand = [c \in Consumers |-> hand[c]]
      /\ hand' = [c \in Consumers |-> hand'[c]]
  BY DEF hand
<1> QED
  BY <1>1, <1>2, <1>3 DEF Both

LEMMA PushLineMaps ==
    ASSUME IInv, IInv', NEW i \in Items, Push(i), resolvers # <<>>
    PROVE  Queue!Push(i)
<1> DEFINE r == Head(resolvers)
           o == Head(line)
           n == Len(resolvers)
<1>0. Facts /\ MapOK /\ MapOK' /\ Both
  BY BothFacts DEF Both
<1>1. /\ i \in outside /\ outside' = outside \ {i} /\ awaits' = awaits
      /\ state' = [state EXCEPT ![r] = "resolved"]
      /\ value' = [value EXCEPT ![r] = i]
      /\ promises = <<>> /\ promises' = <<>>
      /\ resolvers' = Tail(resolvers)
  BY DEF IInv, Linked, Push, Shifted
<1>2. /\ r = resolvers[1] /\ r \in Promises /\ r # Null
      /\ n \in Nat /\ n > 0 /\ Len(resolvers') = n - 1
      /\ \A k \in 1..(n - 1) : resolvers'[k] = resolvers[k + 1]
  BY <1>0, <1>1, TailFacts, SeqFacts DEF Facts
<1>3. /\ line \in Seq(Consumers) /\ Len(line) = n /\ line # <<>>
      /\ line' \in Seq(Consumers) /\ Len(line') = n - 1
      /\ \A k \in 1..n : line[k] \in Consumers /\ awaits[line[k]] = resolvers[k]
      /\ \A k \in 1..(n - 1) :
            line'[k] \in Consumers /\ awaits[line'[k]] = resolvers'[k]
      /\ \A c, d \in Consumers :
            awaits[c] # Null /\ awaits[c] = awaits[d] => c = d
  BY <1>0, <1>1, <1>2, SeqFacts DEF MapOK
<1>4. /\ o = line[1] /\ o \in Consumers /\ awaits[o] = r
      /\ Tail(line) \in Seq(Consumers) /\ Len(Tail(line)) = n - 1
      /\ \A k \in 1..(n - 1) : Tail(line)[k] = line[k + 1]
  BY <1>2, <1>3, TailFacts
<1> HIDE DEF r, o, n
<1>5. line' = Tail(line)
  <2>1. ASSUME NEW k \in 1..(n - 1) PROVE line'[k] = Tail(line)[k]
    <3>1. k + 1 \in 1..n /\ resolvers[k + 1] \in Promises
      BY <1>0, <1>2 DEF Facts, n
    <3>2. awaits[line'[k]] = awaits[line[k + 1]] /\ awaits[line'[k]] # Null
      BY <1>0, <1>2, <1>3, <3>1 DEF Facts
    <3> QED
      BY <1>3, <1>4, <3>1, <3>2
  <2> QED
    BY <1>3, <1>4, <2>1, SameSeq
<1>6. \A c \in Consumers : awaits[c] = r <=> c = o
  BY <1>2, <1>3, <1>4
<1>7. state[r] = "pending"
  BY <1>2 DEF IInv, Linked, Lined, r
<1>8. \A c \in Consumers : /\ st'[c] = IF c = o THEN "served" ELSE st[c]
                           /\ hand'[c] = IF c = o THEN i ELSE hand[c]
  <2> SUFFICES ASSUME NEW c \in Consumers
               PROVE  /\ st'[c] = IF c = o THEN "served" ELSE st[c]
                      /\ hand'[c] = IF c = o THEN i ELSE hand[c]
    OBVIOUS
  <2>1. CASE c = o
    BY <1>0, <1>1, <1>2, <1>4, <2>1 DEF Facts, st, hand
  <2>2. CASE c # o
    <3>1. awaits[c] # r /\ awaits[c] \in Promises \cup {Null}
      BY <1>0, <1>6, <2>2 DEF Facts
    <3>2. awaits[c] # Null => /\ state'[awaits[c]] = state[awaits[c]]
                              /\ value'[awaits[c]] = value[awaits[c]]
      BY <1>0, <1>1, <3>1 DEF Facts
    <3> QED
      BY <1>1, <2>2, <3>2 DEF st, hand
  <2> QED
    BY <2>1, <2>2
<1>9. st' = [st EXCEPT ![o] = "served"] /\ hand' = [hand EXCEPT ![o] = i]
  BY <1>0, <1>8 DEF Both
<1>10. stack' = stack
  BY <1>1 DEF stack
<1> QED
  BY <1>1, <1>3, <1>5, <1>9, <1>10 DEF Queue!Push, Queue!Serve, o

LEMMA PushStackMaps ==
    ASSUME IInv, IInv', NEW i \in Items, Push(i), resolvers = <<>>
    PROVE  Queue!Push(i)
<1> DEFINE n == Len(promises)
<1>0. Facts /\ MapOK /\ MapOK' /\ Both
  BY BothFacts DEF Both
<1>1. PICK p \in Fresh :
          /\ i \in outside /\ outside' = outside \ {i} /\ awaits' = awaits
          /\ state' = [state EXCEPT ![p] = "resolved"]
          /\ value' = [value EXCEPT ![p] = i]
          /\ promises' = Append(promises, p)
          /\ resolvers' = Tail(Append(resolvers, p))
  BY DEF Push, Shifted
<1>2. resolvers' = <<>>
  BY <1>1
<1>3. /\ p \in Promises /\ p # Null
      /\ \A k \in 1..n : promises[k] # p
      /\ \A c \in Consumers : awaits[c] # p
  BY FreshFacts
<1>4. /\ n \in Nat /\ Len(promises') = n + 1
      /\ \A k \in 1..n : promises'[k] = promises[k] /\ promises[k] \in Promises
      /\ promises'[n + 1] = p
  BY <1>0, <1>1, <1>3, AppendFacts DEF Facts
<1>5. /\ stack \in Seq(Items) /\ Len(stack) = n
      /\ \A k \in 1..n : stack[k] = value[promises[k]]
      /\ stack' \in Seq(Items) /\ Len(stack') = n + 1
      /\ \A k \in 1..(n + 1) : stack'[k] = value'[promises'[k]]
  BY <1>0, <1>4 DEF MapOK
<1>6. /\ Append(stack, i) \in Seq(Items) /\ Len(Append(stack, i)) = n + 1
      /\ \A k \in 1..n : Append(stack, i)[k] = stack[k]
      /\ Append(stack, i)[n + 1] = i
  BY <1>5, AppendFacts
<1>nat. n \in Nat
  BY <1>4
<1> HIDE DEF n
<1>7. stack' = Append(stack, i)
  <2>1. ASSUME NEW k \in 1..(n + 1) PROVE stack'[k] = Append(stack, i)[k]
    <3>1. CASE k \in 1..n
      BY <1>0, <1>1, <1>3, <1>4, <1>5, <1>6, <3>1 DEF Facts
    <3>2. CASE k = n + 1
      BY <1>0, <1>1, <1>3, <1>4, <1>5, <1>6, <3>2 DEF Facts
    <3>3. k \in 1..n \/ k = n + 1
      BY <1>nat
    <3> QED
      BY <3>1, <3>2, <3>3
  <2> QED
    BY <1>5, <1>6, <2>1, SameSeq
<1>8. line = <<>> /\ line' = <<>>
  BY <1>2 DEF line
<1>9. st' = st /\ hand' = hand
  <2>1. \A c \in Consumers : awaits[c] # Null =>
            state'[awaits[c]] = state[awaits[c]] /\ value'[awaits[c]] = value[awaits[c]]
    BY <1>0, <1>1, <1>3 DEF Facts
  <2>2. \A c \in Consumers : st'[c] = st[c] /\ hand'[c] = hand[c]
    BY <1>1, <2>1 DEF st, hand
  <2> QED
    BY <1>0, <2>2 DEF Both
<1> QED
  BY <1>1, <1>7, <1>8, <1>9 DEF Queue!Push

LEMMA GetStackMaps ==
    ASSUME IInv, IInv', NEW c \in Consumers, Get(c), promises # <<>>
    PROVE  Queue!Get(c)
<1> DEFINE n == Len(promises)
           p == Last(promises)
<1>0. Facts /\ MapOK /\ MapOK' /\ Both
  BY BothFacts DEF Both
<1>1. /\ awaits[c] = Null /\ resolvers = <<>>
      /\ awaits' = [awaits EXCEPT ![c] = p]
      /\ promises' = Front(promises) /\ resolvers' = resolvers
      /\ state' = state /\ value' = value /\ outside' = outside
  BY DEF IInv, Linked, Get
<1>2. /\ p = promises[n] /\ p \in Promises /\ p # Null
      /\ n \in Nat /\ n > 0 /\ n \in 1..n /\ Len(promises') = n - 1
      /\ \A k \in 1..(n - 1) : promises'[k] = promises[k]
  <2>1. promises \in Seq(Promises) /\ Null \notin Promises /\ n \in Nat
    BY <1>0 DEF Facts
  <2>2. n > 0
    BY <2>1, SeqFacts
  <2> QED
    BY <1>1, <2>1, <2>2, FrontFacts
<1>3. /\ stack \in Seq(Items) /\ Len(stack) = n /\ stack # <<>>
      /\ \A k \in 1..n : stack[k] = value[promises[k]]
      /\ stack' \in Seq(Items) /\ Len(stack') = n - 1
      /\ \A k \in 1..(n - 1) : stack'[k] = value'[promises'[k]]
  BY <1>0, <1>2, SeqFacts DEF MapOK
<1>4. /\ Last(stack) = stack[n] /\ Front(stack) \in Seq(Items)
      /\ Len(Front(stack)) = n - 1
      /\ \A k \in 1..(n - 1) : Front(stack)[k] = stack[k]
  <2>1. /\ Last(stack) = stack[Len(stack)] /\ Front(stack) \in Seq(Items)
        /\ Len(Front(stack)) = Len(stack) - 1
        /\ \A k \in 1..(Len(stack) - 1) : Front(stack)[k] = stack[k]
    BY <1>3, FrontFacts
  <2>2. Len(stack) = n
    BY <1>3
  <2> HIDE DEF n, stack
  <2> QED
    BY <2>1, <2>2
<1> HIDE DEF n, p
<1>5. stack' = Front(stack)
  <2>1. \A k \in 1..(n - 1) : k \in 1..n /\ stack'[k] = Front(stack)[k]
    BY <1>1, <1>2, <1>3, <1>4
  <2> QED
    BY <1>3, <1>4, <2>1, SameSeq
<1>6. Last(stack) = value[p] /\ state[p] = "resolved"
  <2>1. state[promises[n]] = "resolved"
    BY <1>0, <1>2 DEF IInv, Linked, Stacked, Facts, n
  <2> QED
    BY <1>2, <1>3, <1>4, <2>1
<1>7. \A d \in Consumers :
          /\ st'[d] = IF d = c THEN "served" ELSE st[d]
          /\ hand'[d] = IF d = c THEN Last(stack) ELSE hand[d]
  <2>1. \A d \in Consumers : awaits'[d] = IF d = c THEN p ELSE awaits[d]
    BY <1>0, <1>1 DEF Facts
  <2> QED
    BY <1>1, <1>2, <1>6, <2>1 DEF st, hand
<1>8. /\ st' = [st EXCEPT ![c] = "served"]
      /\ hand' = [hand EXCEPT ![c] = Last(stack)]
  BY <1>0, <1>7 DEF Both
<1>9. line' = line
  BY <1>1 DEF line
<1>10. st[c] = "idle"
  BY <1>1 DEF st
<1> QED
  BY <1>1, <1>3, <1>5, <1>8, <1>9, <1>10
     DEF Queue!Get, Queue!Serve, Queue!Last, Queue!Front, Last, Front

LEMMA GetLineMaps ==
    ASSUME IInv, IInv', NEW c \in Consumers, Get(c), promises = <<>>
    PROVE  Queue!Get(c)
<1> DEFINE n == Len(resolvers)
<1>0. Facts /\ MapOK /\ MapOK' /\ Both
  BY BothFacts DEF Both
<1>1. PICK p \in Fresh :
          /\ awaits[c] = Null
          /\ state' = [state EXCEPT ![p] = "pending"]
          /\ value' = [value EXCEPT ![p] = Null]
          /\ resolvers' = Append(resolvers, p)
          /\ awaits' = [awaits EXCEPT ![c] = p]
          /\ promises' = promises /\ outside' = outside
  BY DEF Get
<1>2. /\ p \in Promises /\ p # Null
      /\ \A k \in 1..n : resolvers[k] # p
      /\ \A d \in Consumers : awaits[d] # p
  BY FreshFacts
<1>3. /\ n \in Nat /\ Len(resolvers') = n + 1
      /\ \A k \in 1..n : resolvers'[k] = resolvers[k] /\ resolvers[k] \in Promises
      /\ resolvers'[n + 1] = p
  BY <1>0, <1>1, <1>2, AppendFacts DEF Facts
<1>4. /\ line \in Seq(Consumers) /\ Len(line) = n
      /\ \A k \in 1..n : line[k] \in Consumers /\ awaits[line[k]] = resolvers[k]
      /\ line' \in Seq(Consumers) /\ Len(line') = n + 1
      /\ \A k \in 1..(n + 1) :
            line'[k] \in Consumers /\ awaits'[line'[k]] = resolvers'[k]
  BY <1>0, <1>3 DEF MapOK
<1>5. /\ Append(line, c) \in Seq(Consumers) /\ Len(Append(line, c)) = n + 1
      /\ \A k \in 1..n : Append(line, c)[k] = line[k]
      /\ Append(line, c)[n + 1] = c
  BY <1>4, AppendFacts
<1>6. \A d \in Consumers : awaits'[d] = IF d = c THEN p ELSE awaits[d]
  BY <1>0, <1>1 DEF Facts
<1>nat. n \in Nat
  BY <1>3
<1> HIDE DEF n
<1>7. line' = Append(line, c)
  <2>1. ASSUME NEW k \in 1..(n + 1) PROVE line'[k] = Append(line, c)[k]
    <3>1. CASE k \in 1..n
      <4>1. awaits'[line'[k]] = awaits[line[k]] /\ awaits[line[k]] # p
        BY <1>2, <1>3, <1>4, <3>1
      <4>2. line'[k] # c /\ awaits[line'[k]] = awaits[line[k]]
        BY <1>4, <1>6, <4>1
      <4>3. awaits[line'[k]] # Null
        BY <1>0, <1>3, <1>4, <3>1, <4>2 DEF Facts
      <4>4. line'[k] = line[k]
        BY <1>0, <1>4, <3>1, <4>2, <4>3 DEF MapOK
      <4> QED
        BY <1>5, <3>1, <4>4
    <3>2. CASE k = n + 1
      <4>1. awaits'[line'[k]] = p /\ line'[k] \in Consumers
        BY <1>3, <1>4, <3>2
      <4> QED
        BY <1>2, <1>5, <1>6, <3>2, <4>1
    <3>3. k \in 1..n \/ k = n + 1
      BY <1>nat
    <3> QED
      BY <3>1, <3>2, <3>3
  <2> QED
    BY <1>4, <1>5, <2>1, SameSeq
<1>8. stack = <<>> /\ stack' = <<>>
  BY <1>1 DEF stack
<1>9. \A d \in Consumers : /\ st'[d] = IF d = c THEN "waiting" ELSE st[d]
                           /\ hand'[d] = hand[d]
  <2> SUFFICES ASSUME NEW d \in Consumers
               PROVE  /\ st'[d] = IF d = c THEN "waiting" ELSE st[d]
                      /\ hand'[d] = hand[d]
    OBVIOUS
  <2>1. CASE d = c
    BY <1>0, <1>1, <1>2, <1>6, <2>1 DEF Facts, st, hand
  <2>2. CASE d # c
    <3>1. awaits[d] # Null =>
              state'[awaits[d]] = state[awaits[d]] /\ value'[awaits[d]] = value[awaits[d]]
      BY <1>0, <1>1, <1>2 DEF Facts
    <3> QED
      BY <1>6, <2>2, <3>1 DEF st, hand
  <2> QED
    BY <2>1, <2>2
<1>10. st' = [st EXCEPT ![c] = "waiting"] /\ hand' = hand
  BY <1>0, <1>9 DEF Both
<1>11. st[c] = "idle"
  BY <1>1 DEF st
<1> QED
  BY <1>1, <1>7, <1>8, <1>10, <1>11 DEF Queue!Get

LEMMA CancelMaps ==
    ASSUME IInv, IInv', CancelAllPending
    PROVE  Queue!CancelAllPending
<1>0. Facts /\ MapOK /\ MapOK' /\ Both
  BY BothFacts DEF Both
<1>1. /\ rejecters = resolvers /\ resolvers' = <<>>
      /\ state' = [p \in Promises |->
                      IF p \in ToSet(rejecters) THEN "rejected" ELSE state[p]]
      /\ promises' = promises /\ value' = value /\ awaits' = awaits
      /\ outside' = outside
  BY DEF IInv, Linked, CancelAllPending, ClearedResolvers
<1>2. line' = <<>>
  BY <1>1 DEF line
<1>3. stack' = stack /\ hand' = hand
  BY <1>1 DEF stack, hand
<1>4. ASSUME NEW c \in Consumers
      PROVE  st'[c] = IF st[c] = "waiting" THEN "failed" ELSE st[c]
  <2>1. CASE awaits[c] = Null
    BY <1>1, <2>1 DEF st
  <2>2. CASE awaits[c] # Null
    <3>1. /\ awaits[c] \in Promises
          /\ state[awaits[c]] \in {"pending", "resolved", "rejected"}
      BY <1>0, <2>2 DEF Facts
    <3>2. state[awaits[c]] = "pending" <=> awaits[c] \in ToSet(rejecters)
      BY <1>1, <2>2 DEF IInv, Linked, Lined, Awaited, ToSet
    <3>3. state'[awaits[c]] =
              IF state[awaits[c]] = "pending" THEN "rejected" ELSE state[awaits[c]]
      BY <1>1, <3>1, <3>2
    <3> QED
      BY <1>1, <2>2, <3>1, <3>3 DEF st
  <2> QED
    BY <2>1, <2>2
<1>5. st' = [c \in Consumers |-> IF st[c] = "waiting" THEN "failed" ELSE st[c]]
  BY <1>0, <1>4 DEF Both
<1> QED
  BY <1>1, <1>2, <1>3, <1>5 DEF Queue!CancelAllPending

LEMMA LeaveMaps ==
    ASSUME IInv, IInv', NEW c \in Consumers, Leave(c)
    PROVE  Queue!Leave(c)
<1>0. Facts /\ MapOK /\ MapOK' /\ Both
  BY BothFacts DEF Both
<1>1. /\ awaits[c] # Null /\ state[awaits[c]] # "pending"
      /\ outside' = outside \cup ({value[awaits[c]]} \ {Null})
      /\ awaits' = [awaits EXCEPT ![c] = Null]
      /\ promises' = promises /\ resolvers' = resolvers
      /\ state' = state /\ value' = value
  BY DEF Leave, queue
<1>2. stack' = stack
  BY <1>1 DEF stack
<1>3. \A d \in Consumers : awaits'[d] = IF d = c THEN Null ELSE awaits[d]
  BY <1>0, <1>1 DEF Facts
<1>4. line' = line
  <2>1. ASSUME NEW k \in 1..Len(resolvers) PROVE line'[k] = line[k]
    <3>1. /\ line[k] \in Consumers /\ awaits[line[k]] = resolvers[k]
          /\ line'[k] \in Consumers /\ awaits'[line'[k]] = resolvers[k]
          /\ resolvers[k] # Null
      <4>1. line[k] \in Consumers /\ awaits[line[k]] = resolvers[k]
        BY <1>0 DEF MapOK
      <4>2. line'[k] \in Consumers /\ awaits'[line'[k]] = resolvers'[k]
        BY <1>0, <1>1 DEF MapOK
      <4>3. resolvers[k] # Null
        BY <1>0 DEF Facts
      <4> QED
        BY <1>1, <4>1, <4>2, <4>3
    <3>2. awaits[line'[k]] = resolvers[k]
      BY <1>3, <3>1
    <3> QED
      BY <1>0, <3>1, <3>2 DEF MapOK
  <2>2. /\ line \in Seq(Consumers) /\ line' \in Seq(Consumers)
        /\ Len(line) = Len(resolvers) /\ Len(line') = Len(resolvers)
    BY <1>0, <1>1 DEF MapOK
  <2> QED
    BY <2>1, <2>2, SameSeq
<1>5. /\ st[c] \in {"served", "failed"}
      /\ outside' = outside \cup ({hand[c]} \ {Null})
  BY <1>0, <1>1 DEF st, hand, Facts
<1>6. \A d \in Consumers : /\ st'[d] = IF d = c THEN "idle" ELSE st[d]
                           /\ hand'[d] = IF d = c THEN Null ELSE hand[d]
  BY <1>1, <1>3 DEF st, hand
<1>7. st' = [st EXCEPT ![c] = "idle"] /\ hand' = [hand EXCEPT ![c] = Null]
  BY <1>0, <1>6 DEF Both
<1> QED
  BY <1>2, <1>4, <1>5, <1>7 DEF Queue!Leave

LEMMA InitMaps == Init => Queue!Init
<1> SUFFICES ASSUME Init PROVE Queue!Init
  OBVIOUS
<1>1. stack = <<>> /\ line = <<>>
  BY DEF Init, stack, line
<1>2. st = [c \in Consumers |-> "idle"] /\ hand = [c \in Consumers |-> Null]
  BY DEF Init, st, hand
<1> QED
  BY <1>1, <1>2 DEF Init, Queue!Init

LEMMA NextMaps == IInv /\ IInv' /\ [Next]_vars => [Queue!Next]_(Queue!vars)
<1> SUFFICES ASSUME IInv, IInv', [Next]_vars
             PROVE  [Queue!Next]_(Queue!vars)
  OBVIOUS
<1>1. ASSUME NEW i \in Items, Push(i) PROVE Queue!Next
  BY <1>1, PushLineMaps, PushStackMaps DEF Queue!Next
<1>2. ASSUME NEW c \in Consumers, Get(c) PROVE Queue!Next
  BY <1>2, GetLineMaps, GetStackMaps DEF Queue!Next
<1>3. ASSUME NEW c \in Consumers, Leave(c) PROVE Queue!Next
  BY <1>3, LeaveMaps DEF Queue!Next
<1>4. CASE CancelAllPending
  BY <1>4, CancelMaps DEF Queue!Next
<1>5. CASE UNCHANGED vars
  <2>1. /\ promises' = promises /\ resolvers' = resolvers /\ state' = state
        /\ value' = value /\ awaits' = awaits /\ outside' = outside
    BY <1>5 DEF vars
  <2>2. /\ stack' = stack /\ line' = line /\ st' = st /\ hand' = hand
    BY <2>1 DEF stack, line, Owner, st, hand
  <2> QED
    BY <2>1, <2>2 DEF Queue!vars
<1> QED
  BY <1>1, <1>2, <1>3, <1>4, <1>5 DEF Next

\* The arrays of promises and callbacks implement a stack of items and a line
\* of consumers served in the order they came (IsHandOff): every step of
\* push(), get() and cancelAllPending() is a step of HandOff.
THEOREM ImplementsHandOff == Spec => IsHandOff
<1>1. Init => Queue!Init
  BY InitMaps
<1>2. IInv /\ IInv' /\ [Next]_vars => [Queue!Next]_(Queue!vars)
  BY NextMaps
<1> QED
  BY AlwaysIInv, <1>1, <1>2, PTL DEF Spec, IsHandOff, Queue!Spec
=============================================================================
