-------------------------- MODULE ClientPoolProofs --------------------------
(***************************************************************************)
(* Proofs about ClientPool, for any calls, any concurrency and any         *)
(* suggestions of the server.  IInv is an inductive invariant: besides     *)
(* types and the place of every holder it says what a call's pc tells      *)
(* about the holder in its hands and its place among the waiting calls.    *)
(*                                                                         *)
(* The second half is about waiting calls and the shutdown.  A step does   *)
(* one of five things to the queue (QueueStep), so that nobody waits while *)
(* a holder is free or once the client shuts down.  Hence no call gets a   *)
(* holder after close() has begun (Quiet), and each holder is either       *)
(* awaited by close() or one that it did not reach (Shutdown).             *)
(***************************************************************************)
EXTENDS ClientPool, TLAPS

\* The states in which a call has a holder in its hands.
Holding == {"granted", "acquired", "connecting", "using", "backoff",
            "releasing", "resetting"}

WaitersOnce == \A i, j \in DOMAIN waiters : waiters[i] = waiters[j] => i = j

WaitersWait == \A i \in DOMAIN waiters : pc[waiters[i]] = "waiting"

HandsMatch == \A t \in Tasks : held[t] # 0 <=> pc[t] \in Holding

\* The part of IInv that the operations of the queue and the calls change.
CallsOK ==
    /\ free \in Seq(1..nHolders)
    /\ waiters \in Seq(Users)
    /\ pc \in [Tasks -> UserStates \cup CloserStates]
    /\ held \in [Tasks -> 0..nHolders]
    /\ WaitersOnce /\ WaitersWait /\ HandsMatch /\ HolderInOnePlace

\* The rest of TypeOK.
RestOK ==
    /\ nHolders \in 0..MaxHolders
    /\ suggested \in Suggestions \cup {Null}
    /\ closing \in {"open", "closing", "closed"}
    /\ closeWait \in [Holders -> {"settled", "waiting", "resumed"}]
    /\ conn \in [Holders -> {"none", "open", "lost", "closed"}]
    /\ dirty \in [Holders -> BOOLEAN]
    /\ inUse \in [Holders -> BOOLEAN]
    /\ iter \in [Tasks -> 0..(Attempts - 1)]
    /\ raced \subseteq Holders
    /\ terminated \in BOOLEAN

IInv == CallsOK /\ RestOK

LEMMA IInvImplies == IInv => TypeOK /\ HolderInOnePlace
BY DEF IInv, CallsOK, RestOK, TypeOK

-----------------------------------------------------------------------------
(* The queue's operations.                                                 *)

\* What is left of a sequence after its first k elements.
LEMMA DropFacts ==
    ASSUME NEW S, NEW s \in Seq(S), NEW k \in Nat
    PROVE  /\ SubSeq(s, k + 1, Len(s)) \in Seq(S)
           /\ Len(SubSeq(s, k + 1, Len(s))) =
                 IF k < Len(s) THEN Len(s) - k ELSE 0
           /\ \A i \in 1..Len(SubSeq(s, k + 1, Len(s))) :
                 SubSeq(s, k + 1, Len(s))[i] = s[k + i]
<1>1. CASE k < Len(s)
  BY <1>1
<1>2. CASE k >= Len(s)
  BY <1>2
<1> QED
  BY <1>1, <1>2

LEMMA CatFacts ==
    ASSUME NEW S, NEW s \in Seq(S), NEW t \in Seq(S)
    PROVE  /\ s \o t \in Seq(S)
           /\ Len(s \o t) = Len(s) + Len(t)
           /\ DOMAIN (s \o t) = 1..Len(s \o t)
           /\ \A i \in 1..Len(s \o t) :
                 (s \o t)[i] = IF i <= Len(s) THEN s[i] ELSE t[i - Len(s)]
OBVIOUS

LEMMA ElementFacts ==
    ASSUME NEW S, NEW s \in Seq(S)
    PROVE  \A i \in DOMAIN s : s[i] \in S
OBVIOUS

LEMMA FrontFacts ==
    ASSUME NEW S, NEW s \in Seq(S), s # <<>>
    PROVE  /\ Len(s) \in Nat \ {0} /\ DOMAIN s = 1..Len(s)
           /\ s[Len(s)] \in S
           /\ SubSeq(s, 1, Len(s) - 1) \in Seq(S)
           /\ DOMAIN SubSeq(s, 1, Len(s) - 1) = 1..(Len(s) - 1)
           /\ \A i \in 1..(Len(s) - 1) : SubSeq(s, 1, Len(s) - 1)[i] = s[i]
<1>1. Len(s) \in Nat \ {0} /\ DOMAIN s = 1..Len(s)
  OBVIOUS
<1> QED
  BY <1>1

\* The holders hs, all of 1..n but those that are free and those in helds, can
\* be pushed together with the calls moving to pcs and helds.
Pushable(n, hs, pcs, helds) ==
    /\ hs \in Seq(1..n)
    /\ pcs \in [Tasks -> UserStates \cup CloserStates]
    /\ helds \in [Tasks -> 0..n]
    /\ \A i \in DOMAIN waiters : pcs[waiters[i]] = "waiting"
    /\ \A t \in Tasks : helds[t] # 0 <=> pcs[t] \in Holding
    /\ \A i, j \in DOMAIN hs : hs[i] = hs[j] => i = j
    /\ \A i \in DOMAIN hs : \A j \in DOMAIN free : hs[i] # free[j]
    /\ \A t \in Tasks : \A i \in DOMAIN hs : hs[i] # helds[t]
    /\ \A t \in Tasks : \A i \in DOMAIN free : free[i] # helds[t]
    /\ \A t, u \in Tasks : helds[t] = helds[u] /\ helds[t] # 0 => t = u
    /\ \A h \in 1..n : \/ \E i \in DOMAIN free : free[i] = h
                       \/ \E i \in DOMAIN hs : hs[i] = h
                       \/ \E t \in Tasks : helds[t] = h

QueueOK(n) ==
    /\ free \in Seq(1..n)
    /\ waiters \in Seq(Users)
    /\ WaitersOnce
    /\ FreeOnce

\* Pushing such holders keeps every holder in one place.
LEMMA PushAllKeeps ==
    ASSUME NEW n \in Nat, NEW hs, NEW pcs, NEW helds,
           nHolders' = n, QueueOK(n), Pushable(n, hs, pcs, helds),
           PushAll(hs, pcs, helds)
    PROVE  CallsOK'
<1> DEFINE w == Len(waiters)
           k == Len(hs)
           f == Len(free)
<1>0. /\ w \in Nat /\ DOMAIN waiters = 1..w
      /\ k \in Nat /\ DOMAIN hs = 1..k
      /\ f \in Nat /\ DOMAIN free = 1..f
      /\ \A i \in 1..w : waiters[i] \in Users /\ waiters[i] \in Tasks
      /\ \A i \in 1..k : hs[i] \in 1..n
      /\ \A i \in 1..f : free[i] \in 1..n
      /\ w = Len(waiters) /\ k = Len(hs) /\ f = Len(free)
  BY DEF Tasks, QueueOK, Pushable
<1> HIDE DEF w, k, f
<1>nat. w \in Nat /\ k \in Nat /\ f \in Nat
  BY <1>0
<1>once. \A i, j \in 1..w : waiters[i] = waiters[j] => i = j
  BY <1>0 DEF QueueOK, WaitersOnce
<1>1. /\ waiters' \in Seq(Users)
      /\ Len(waiters') \in Nat
      /\ Len(waiters') = (IF k < w THEN w - k ELSE 0)
      /\ DOMAIN waiters' = 1..Len(waiters')
      /\ \A i \in 1..Len(waiters') : waiters'[i] = waiters[k + i]
  <2>1. waiters \in Seq(Users) /\ waiters' = SubSeq(waiters, k + 1, Len(waiters))
    BY <1>0 DEF PushAll, QueueOK
  <2>2. /\ waiters' \in Seq(Users)
        /\ Len(waiters') = (IF k < Len(waiters) THEN Len(waiters) - k ELSE 0)
        /\ \A i \in 1..Len(waiters') : waiters'[i] = waiters[k + i]
    BY <1>nat, <2>1, DropFacts
  <2>3. w = Len(waiters)
    BY <1>0
  <2> QED
    BY <2>2, <2>3
<1>2. \A t \in Tasks : t \in Served(hs) <=>
          \E i \in 1..w : i <= k /\ waiters[i] = t
  <2>1. \A i : i \in DOMAIN waiters \cap DOMAIN hs <=> i \in 1..w /\ i <= k
    BY <1>0
  <2> QED
    BY <2>1, Zenon DEF Served, Turn
<1>3. \A i \in 1..w : i <= k => /\ waiters[i] \in Served(hs)
                                /\ ServedWith(waiters[i], hs) = hs[i]
  <2> SUFFICES ASSUME NEW i \in 1..w, i <= k
               PROVE  /\ waiters[i] \in Served(hs)
                      /\ ServedWith(waiters[i], hs) = hs[i]
    OBVIOUS
  <2>1. \A j \in DOMAIN waiters : waiters[j] = waiters[i] <=> j = i
    BY <1>0, <1>once
  <2>2. i \in DOMAIN waiters
    BY <1>0
  <2>3. (CHOOSE j \in DOMAIN waiters : waiters[j] = waiters[i]) = i
    BY <2>1, <2>2
  <2> QED
    BY <1>0, <1>2, <2>3, Zenon DEF ServedWith, Turn
<1>4. \A t \in Tasks :
          t \in Served(hs) => pcs[t] = "waiting" /\ helds[t] = 0
  <2> SUFFICES ASSUME NEW t \in Tasks, t \in Served(hs)
               PROVE  pcs[t] = "waiting" /\ helds[t] = 0
    OBVIOUS
  <2>1. PICK i \in 1..w : waiters[i] = t
    BY <1>2
  <2>2. pcs[t] = "waiting" /\ (helds[t] # 0 <=> pcs[t] \in Holding)
    BY <1>0, <2>1 DEF Pushable
  <2> QED
    BY <2>2 DEF Holding
<1>5. \A t \in Tasks :
          \/ /\ t \notin Served(hs)
             /\ held'[t] = helds[t] /\ pc'[t] = pcs[t]
          \/ /\ t \in Served(hs)
             /\ \E i \in 1..w : /\ i <= k /\ waiters[i] = t
                                /\ held'[t] = hs[i] /\ pc'[t] = "granted"
  <2>1. \A t \in Tasks :
            /\ pc'[t] = IF t \in Served(hs) THEN "granted" ELSE pcs[t]
            /\ held'[t] = IF t \in Served(hs) THEN ServedWith(t, hs) ELSE helds[t]
    BY DEF PushAll
  <2> QED
    BY <1>2, <1>3, <2>1
<1>6. /\ pc' \in [Tasks -> UserStates \cup CloserStates]
      /\ held' \in [Tasks -> 0..nHolders']
  <2>1. \A t \in Tasks : pc'[t] \in UserStates \cup CloserStates
    BY <1>5 DEF UserStates, Pushable
  <2>2. \A t \in Tasks : held'[t] \in 0..n
    BY <1>0, <1>5 DEF Pushable
  <2>3. pc' = [t \in Tasks |-> pc'[t]] /\ held' = [t \in Tasks |-> held'[t]]
    BY DEF PushAll
  <2> QED
    BY <2>1, <2>2, <2>3
<1>7. /\ free' \in Seq(1..n) /\ DOMAIN free' = 1..Len(free')
      /\ Len(free') \in Nat
      /\ Len(free') = f + (IF w < k THEN k - w ELSE 0)
      /\ \A i \in 1..Len(free') :
            free'[i] = IF i <= f THEN free[i] ELSE hs[w + i - f]
  <2> DEFINE rest == SubSeq(hs, w + 1, k)
  <2>1. hs \in Seq(1..n) /\ free \in Seq(1..n) /\ free' = free \o rest
    BY <1>0 DEF PushAll, QueueOK, Pushable
  <2>2. /\ rest \in Seq(1..n)
        /\ Len(rest) = (IF w < k THEN k - w ELSE 0)
        /\ \A i \in 1..Len(rest) : rest[i] = hs[w + i]
    BY <1>0, <2>1, DropFacts
  <2> HIDE DEF rest
  <2>3. /\ free' \in Seq(1..n) /\ DOMAIN free' = 1..Len(free')
        /\ Len(free') = f + Len(rest)
        /\ \A i \in 1..Len(free') :
              free'[i] = IF i <= f THEN free[i] ELSE rest[i - f]
    <3>1. f = Len(free)
      BY <1>0
    <3> QED
      BY <2>1, <2>2, <3>1, CatFacts
  <2>4. \A i \in 1..Len(free') : ~(i <= f) => i - f \in 1..Len(rest)
    BY <1>nat, <2>2, <2>3
  <2> QED
    BY <1>nat, <2>2, <2>3, <2>4
<1>8. WaitersOnce'
  <2> SUFFICES ASSUME NEW i \in 1..Len(waiters'), NEW j \in 1..Len(waiters'),
                      waiters'[i] = waiters'[j]
               PROVE  i = j
    BY <1>1 DEF WaitersOnce
  <2>1. k + i \in 1..w /\ k + j \in 1..w
    BY <1>nat, <1>1
  <2>2. waiters[k + i] = waiters[k + j]
    BY <1>1
  <2>3. k + i = k + j
    BY <1>once, <2>1, <2>2
  <2> QED
    BY <1>nat, <2>3
<1>9. WaitersWait'
  <2> SUFFICES ASSUME NEW i \in 1..Len(waiters')
               PROVE  pc'[waiters'[i]] = "waiting"
    BY <1>1 DEF WaitersWait
  <2>1. k + i \in 1..w /\ waiters'[i] = waiters[k + i]
    BY <1>nat, <1>1
  <2>2. \A j \in 1..w : j <= k => waiters[k + i] # waiters[j]
    BY <1>0, <1>once, <2>1
  <2>3. waiters[k + i] \notin Served(hs)
    BY <1>0, <1>2, <2>1, <2>2
  <2>4. pcs[waiters[k + i]] = "waiting"
    BY <1>0, <2>1 DEF Pushable
  <2> QED
    BY <1>0, <1>5, <2>1, <2>3, <2>4
<1>10. HandsMatch'
  <2> SUFFICES ASSUME NEW t \in Tasks
               PROVE  held'[t] # 0 <=> pc'[t] \in Holding
    BY DEF HandsMatch
  <2>1. helds[t] # 0 <=> pcs[t] \in Holding
    BY DEF Pushable
  <2> QED
    BY <1>0, <1>5, <2>1 DEF Holding
<1>11. FreeOnce'
  <2> SUFFICES ASSUME NEW i \in 1..Len(free'), NEW j \in 1..Len(free'),
                      free'[i] = free'[j]
               PROVE  i = j
    BY <1>7 DEF FreeOnce
  <2>1. /\ \A a, b \in 1..f : free[a] = free[b] => a = b
        /\ \A a, b \in 1..k : hs[a] = hs[b] => a = b
        /\ \A a \in 1..k : \A b \in 1..f : hs[a] # free[b]
    BY <1>0 DEF QueueOK, FreeOnce, Pushable
  <2>2. \A a \in 1..Len(free') : ~(a <= f) => w + a - f \in 1..k
    BY <1>0, <1>7
  <2>3. CASE i <= f /\ j <= f
    BY <1>nat, <1>7, <2>1, <2>3
  <2>4. CASE i <= f /\ ~(j <= f)
    BY <1>nat, <1>7, <2>1, <2>2, <2>4
  <2>5. CASE ~(i <= f) /\ j <= f
    BY <1>nat, <1>7, <2>1, <2>2, <2>5
  <2>6. CASE ~(i <= f) /\ ~(j <= f)
    <3>1. w + i - f \in 1..k /\ w + j - f \in 1..k
      BY <2>2, <2>6
    <3>2. free'[i] = hs[w + i - f] /\ free'[j] = hs[w + j - f]
      BY <1>7, <2>6
    <3>3. w + i - f = w + j - f
      BY <2>1, <3>1, <3>2
    <3> QED
      BY <1>nat, <3>3
  <2> QED
    BY <2>3, <2>4, <2>5, <2>6
<1>hand. \A t \in Tasks : \/ held'[t] = helds[t]
                          \/ \E i \in 1..k : /\ i \in 1..w /\ waiters[i] = t
                                            /\ held'[t] = hs[i]
  BY <1>nat, <1>5
<1>12. HeldOnce'
  <2> SUFFICES ASSUME NEW t \in Tasks, NEW u \in Tasks,
                      held'[t] = held'[u], held'[t] # 0
               PROVE  t = u
    BY DEF HeldOnce
  <2>1. /\ \A a, b \in 1..k : hs[a] = hs[b] => a = b
        /\ \A a \in 1..k : hs[a] # helds[t] /\ hs[a] # helds[u]
        /\ helds[t] = helds[u] /\ helds[t] # 0 => t = u
    BY <1>0 DEF Pushable
  <2>2. CASE held'[t] = helds[t]
    <3>1. ASSUME NEW i \in 1..k, held'[u] = hs[i] PROVE FALSE
      BY <2>1, <2>2, <3>1
    <3>2. held'[u] = helds[u]
      BY <1>hand, <3>1
    <3> QED
      BY <2>1, <2>2, <3>2
  <2>3. CASE \E i \in 1..k : i \in 1..w /\ waiters[i] = t /\ held'[t] = hs[i]
    <3>1. PICK i \in 1..k : i \in 1..w /\ waiters[i] = t /\ held'[t] = hs[i]
      BY <2>3
    <3>2. held'[u] # helds[u]
      BY <2>1, <3>1
    <3>3. PICK j \in 1..k : j \in 1..w /\ waiters[j] = u /\ held'[u] = hs[j]
      BY <1>hand, <3>2
    <3>4. i = j
      BY <2>1, <3>1, <3>3
    <3> QED
      BY <3>1, <3>3, <3>4
  <2> QED
    BY <1>hand, <2>2, <2>3
<1>13. FreeNotHeld'
  <2> SUFFICES ASSUME NEW t \in Tasks, NEW i \in 1..Len(free')
               PROVE  free'[i] # held'[t]
    BY <1>7 DEF FreeNotHeld
  <2>1. \/ i \in 1..f /\ free'[i] = free[i]
        \/ \E j \in 1..k : w < j /\ free'[i] = hs[j]
    <3>1. CASE i <= f
      BY <1>nat, <1>7, <3>1
    <3>2. CASE ~(i <= f)
      <4>1. w + i - f \in 1..k /\ w < w + i - f /\ free'[i] = hs[w + i - f]
        BY <1>nat, <1>7, <3>2
      <4> QED
        BY <4>1
    <3> QED
      BY <3>1, <3>2
  <2>2. /\ \A a, b \in 1..k : hs[a] = hs[b] => a = b
        /\ \A a \in 1..k : \A b \in 1..f : hs[a] # free[b]
        /\ \A a \in 1..k : hs[a] # helds[t]
        /\ \A a \in 1..f : free[a] # helds[t]
    BY <1>0 DEF Pushable
  <2>3. CASE held'[t] = helds[t]
    BY <2>1, <2>2, <2>3
  <2>4. CASE \E j \in 1..k : j \in 1..w /\ held'[t] = hs[j]
    <3>1. PICK j \in 1..k : j \in 1..w /\ held'[t] = hs[j]
      BY <2>4
    <3>2. \A a \in 1..k : w < a => a # j
      BY <1>nat, <3>1
    <3> QED
      BY <2>1, <2>2, <3>1, <3>2
  <2> QED
    BY <1>hand, <2>3, <2>4
<1>14. NoneForgotten'
  <2> SUFFICES ASSUME NEW h \in 1..n
               PROVE  \/ \E i \in 1..Len(free') : free'[i] = h
                      \/ \E t \in Tasks : held'[t] = h
    BY <1>7 DEF NoneForgotten
  <2>1. CASE \E i \in 1..f : free[i] = h
    <3> PICK i \in 1..f : free[i] = h
      BY <2>1
    <3>1. i \in 1..Len(free') /\ free'[i] = h
      BY <1>nat, <1>7
    <3> QED
      BY <3>1
  <2>2. CASE \E i \in 1..k : hs[i] = h
    <3> PICK i \in 1..k : hs[i] = h
      BY <2>2
    <3>1. CASE i <= w
      <4>1. waiters[i] \in Tasks /\ waiters[i] \in Served(hs)
        BY <1>0, <1>3, <3>1
      <4>2. \A j \in 1..w : waiters[j] = waiters[i] => j = i
        BY <1>0, <1>once, <3>1
      <4> QED
        BY <1>5, <4>1, <4>2
    <3>2. CASE w < i
      <4>1. /\ f + i - w \in 1..Len(free')
            /\ free'[f + i - w] = hs[i]
        BY <1>0, <1>7, <3>2
      <4> QED
        BY <4>1
    <3> QED
      BY <1>0, <3>1, <3>2
  <2>3. CASE \E t \in Tasks : helds[t] = h
    <3> PICK t \in Tasks : helds[t] = h
      BY <2>3
    <3>1. t \notin Served(hs)
      BY <1>4
    <3> QED
      BY <1>5, <3>1
  <2>4. \/ \E i \in 1..f : free[i] = h
        \/ \E i \in 1..k : hs[i] = h
        \/ \E t \in Tasks : helds[t] = h
    BY <1>0 DEF Pushable
  <2> QED
    BY <2>1, <2>2, <2>3, <2>4
<1> QED
  BY <1>1, <1>6, <1>7, <1>8, <1>9, <1>10, <1>11, <1>12, <1>13, <1>14
     DEF CallsOK, HolderInOnePlace

\* Call t puts its holder back.
LEMMA EnqueueKeeps ==
    ASSUME NEW t \in Tasks, NEW next \in UserStates \cup CloserStates,
           nHolders \in Nat, nHolders' = nHolders,
           CallsOK, held[t] # 0, next \notin Holding,
           Enqueue(t, next)
    PROVE  CallsOK'
<1> DEFINE hs == <<held[t]>>
           pcs == [pc EXCEPT ![t] = next]
           helds == [held EXCEPT ![t] = 0]
<1>1. /\ hs \in Seq(1..nHolders) /\ DOMAIN hs = {1} /\ hs[1] = held[t]
      /\ pcs \in [Tasks -> UserStates \cup CloserStates]
      /\ helds \in [Tasks -> 0..nHolders]
  BY DEF CallsOK
<1>2. \A u \in Tasks : /\ pcs[u] = IF u = t THEN next ELSE pc[u]
                       /\ helds[u] = IF u = t THEN 0 ELSE held[u]
  BY DEF CallsOK
<1>3. QueueOK(nHolders)
  BY DEF CallsOK, QueueOK, HolderInOnePlace
<1>4. PushAll(hs, pcs, helds)
  BY DEF Enqueue
<1> HIDE DEF hs, pcs, helds
<1>5. \A i \in DOMAIN waiters : pcs[waiters[i]] = "waiting"
  <2>1. \A i \in DOMAIN waiters : waiters[i] \in Tasks
    BY DEF CallsOK, Tasks
  <2>2. pc[t] # "waiting"
    BY DEF CallsOK, HandsMatch, Holding
  <2> QED
    BY <1>2, <2>1, <2>2 DEF CallsOK, WaitersWait
<1>6. \A u \in Tasks : helds[u] # 0 <=> pcs[u] \in Holding
  BY <1>2 DEF CallsOK, HandsMatch
<1>7. /\ \A i, j \in DOMAIN hs : hs[i] = hs[j] => i = j
      /\ \A i \in DOMAIN hs : \A j \in DOMAIN free : hs[i] # free[j]
      /\ \A u \in Tasks : \A i \in DOMAIN hs : hs[i] # helds[u]
  BY <1>1, <1>2 DEF CallsOK, HolderInOnePlace, HeldOnce, FreeNotHeld
<1>8. \A u \in Tasks : \A i \in DOMAIN free : free[i] # helds[u]
  <2>1. \A i \in DOMAIN free : free[i] \in 1..nHolders
    BY DEF CallsOK
  <2> QED
    BY <1>2, <2>1 DEF CallsOK, HolderInOnePlace, FreeNotHeld
<1>9. \A u, v \in Tasks : helds[u] = helds[v] /\ helds[u] # 0 => u = v
  BY <1>2 DEF CallsOK, HolderInOnePlace, HeldOnce
<1>10. \A h \in 1..nHolders : \/ \E i \in DOMAIN free : free[i] = h
                              \/ \E i \in DOMAIN hs : hs[i] = h
                              \/ \E u \in Tasks : helds[u] = h
  BY <1>1, <1>2 DEF CallsOK, HolderInOnePlace, NoneForgotten
<1>11. Pushable(nHolders, hs, pcs, helds)
  BY <1>1, <1>5, <1>6, <1>7, <1>8, <1>9, <1>10 DEF Pushable
<1> QED
  BY <1>3, <1>4, <1>11, PushAllKeeps

\* Call t moves on with the same holder in its hands, or none.
LEMMA GotoKeeps ==
    ASSUME NEW t \in Tasks, NEW next \in UserStates \cup CloserStates,
           CallsOK, Goto(t, next), UNCHANGED <<nHolders, free, waiters, held>>,
           pc[t] # "waiting", pc[t] \in Holding <=> next \in Holding
    PROVE  CallsOK'
<1>1. pc' \in [Tasks -> UserStates \cup CloserStates]
  BY DEF CallsOK, Goto
<1>2. \A u \in Tasks : pc'[u] = IF u = t THEN next ELSE pc[u]
  BY DEF CallsOK, Goto
<1>3. WaitersWait'
  <2>1. \A i \in DOMAIN waiters : waiters[i] \in Tasks
    BY DEF CallsOK, Tasks
  <2> QED
    BY <1>2, <2>1 DEF CallsOK, WaitersWait
<1>4. HandsMatch'
  BY <1>2 DEF CallsOK, HandsMatch
<1>5. WaitersOnce' /\ HolderInOnePlace'
  BY DEF CallsOK, WaitersOnce, HolderInOnePlace, FreeOnce, HeldOnce,
         FreeNotHeld, NoneForgotten
<1> QED
  BY <1>1, <1>3, <1>4, <1>5 DEF CallsOK

\* Call t takes the last free holder or waits.
LEMMA GetKeeps ==
    ASSUME NEW t \in Users, CallsOK, pc[t] = "idle", Get(t), nHolders' = nHolders
    PROVE  CallsOK'
<1>0. t \in Tasks /\ held[t] = 0
  BY DEF CallsOK, HandsMatch, Holding, Tasks
<1>1. \A i \in DOMAIN waiters : waiters[i] \in Tasks /\ waiters[i] # t
  BY DEF CallsOK, WaitersWait, Tasks
<1>2. CASE free # <<>>
  <2> DEFINE f == Len(free)
             h == free[f]
  <2>0. free \in Seq(1..nHolders) /\ f = Len(free)
    BY DEF CallsOK
  <2>1. /\ f \in Nat \ {0} /\ DOMAIN free = 1..f
        /\ h \in 1..nHolders
    BY <1>2, <2>0, FrontFacts
  <2>2. free' = SubSeq(free, 1, f - 1)
    BY <1>2 DEF Get, Front
  <2>3. /\ UNCHANGED waiters
        /\ held' = [held EXCEPT ![t] = h]
        /\ pc' = [pc EXCEPT ![t] = "granted"]
    BY <1>2 DEF Get, Last
  <2> HIDE DEF f, h
  <2>4. /\ free' \in Seq(1..nHolders)
        /\ DOMAIN free' = 1..(f - 1)
        /\ \A i \in 1..(f - 1) : free'[i] = free[i]
    BY <1>2, <2>0, <2>2, FrontFacts
  <2>5. /\ pc' \in [Tasks -> UserStates \cup CloserStates]
        /\ held' \in [Tasks -> 0..nHolders]
        /\ \A u \in Tasks : /\ pc'[u] = IF u = t THEN "granted" ELSE pc[u]
                            /\ held'[u] = IF u = t THEN h ELSE held[u]
    BY <1>0, <2>1, <2>3 DEF CallsOK, UserStates
  <2>6. WaitersOnce' /\ WaitersWait'
    BY <1>1, <2>3, <2>5 DEF CallsOK, WaitersOnce, WaitersWait
  <2>7. HandsMatch'
    BY <1>0, <2>1, <2>5 DEF CallsOK, HandsMatch, Holding
  <2>8. FreeOnce'
    BY <2>1, <2>4 DEF CallsOK, HolderInOnePlace, FreeOnce
  <2>h. \A u \in Tasks : held[u] # h
    BY <2>1 DEF CallsOK, HolderInOnePlace, FreeNotHeld, h
  <2>9. HeldOnce'
    BY <2>5, <2>h DEF CallsOK, HolderInOnePlace, HeldOnce
  <2>10. \A i \in 1..(f - 1) : free[i] # h
    <3>1. \A i \in 1..(f - 1) : i \in 1..f /\ f \in 1..f /\ i # f
      BY <2>1
    <3>2. \A i, j \in 1..f : free[i] = free[j] => i = j
      BY <2>1 DEF CallsOK, HolderInOnePlace, FreeOnce
    <3> QED
      BY <3>1, <3>2 DEF h
  <2>11. FreeNotHeld'
    BY <2>1, <2>4, <2>5, <2>10 DEF CallsOK, HolderInOnePlace, FreeNotHeld
  <2>12. NoneForgotten'
    <3> SUFFICES ASSUME NEW g \in 1..nHolders
                 PROVE  \/ \E i \in DOMAIN free' : free'[i] = g
                        \/ \E u \in Tasks : held'[u] = g
      BY DEF NoneForgotten
    <3>1. CASE g = h
      BY <1>0, <2>5, <3>1
    <3>2. CASE g # h /\ \E i \in DOMAIN free : free[i] = g
      BY <2>1, <2>4, <3>2 DEF h
    <3>3. CASE \E u \in Tasks : held[u] = g
      BY <1>0, <2>5, <3>3
    <3> QED
      BY <3>1, <3>2, <3>3 DEF CallsOK, HolderInOnePlace, NoneForgotten
  <2> QED
    BY <2>3, <2>4, <2>5, <2>6, <2>7, <2>8, <2>9, <2>11, <2>12
       DEF CallsOK, HolderInOnePlace
<1>3. CASE free = <<>>
  <2>1. /\ UNCHANGED <<free, held>>
        /\ waiters' = Append(waiters, t)
        /\ pc' = [pc EXCEPT ![t] = "waiting"]
    BY <1>3 DEF Get
  <2>2. /\ waiters' \in Seq(Users)
        /\ DOMAIN waiters' = DOMAIN waiters \cup {Len(waiters) + 1}
        /\ \A i \in DOMAIN waiters : waiters'[i] = waiters[i]
        /\ waiters'[Len(waiters) + 1] = t
    BY <2>1 DEF CallsOK
  <2>3. /\ pc' \in [Tasks -> UserStates \cup CloserStates]
        /\ \A u \in Tasks : pc'[u] = IF u = t THEN "waiting" ELSE pc[u]
    BY <1>0, <2>1 DEF CallsOK, UserStates
  <2>4. WaitersOnce'
    BY <1>1, <2>2 DEF CallsOK, WaitersOnce
  <2>5. WaitersWait'
    BY <1>0, <1>1, <2>2, <2>3 DEF CallsOK, WaitersWait
  <2>6. HandsMatch'
    BY <1>0, <2>1, <2>3 DEF CallsOK, HandsMatch, Holding
  <2>7. HolderInOnePlace'
    BY <2>1 DEF CallsOK, HolderInOnePlace, FreeOnce, HeldOnce, FreeNotHeld,
                NoneForgotten
  <2> QED
    BY <2>1, <2>2, <2>3, <2>4, <2>5, <2>6, <2>7 DEF CallsOK
<1> QED
  BY <1>2, <1>3

\* Every waiting call ends; the other calls move to pcs with what they hold.
LEMMA CancelKeeps ==
    ASSUME NEW pcs \in [Tasks -> UserStates \cup CloserStates],
           CallsOK, CancelAllPending(pcs),
           UNCHANGED <<nHolders, free, held>>,
           \A t \in Tasks : pcs[t] \in Holding <=> pc[t] \in Holding
    PROVE  CallsOK'
<1>1. waiters' = <<>>
  BY DEF CancelAllPending
<1>2. \A t \in Tasks : pc'[t] = IF t \in ToSet(waiters) THEN "done" ELSE pcs[t]
  BY DEF CancelAllPending
<1>3. \A t \in ToSet(waiters) : pc[t] = "waiting"
  BY DEF ToSet, CallsOK, WaitersWait
<1>4. pc' \in [Tasks -> UserStates \cup CloserStates]
  <2>1. \A t \in Tasks : pc'[t] \in UserStates \cup CloserStates
    BY <1>2 DEF UserStates
  <2>2. pc' = [t \in Tasks |-> pc'[t]]
    BY DEF CancelAllPending
  <2> QED
    BY <2>1, <2>2
<1>5. HandsMatch'
  BY <1>2, <1>3 DEF CallsOK, HandsMatch, Holding
<1>6. HolderInOnePlace'
  BY DEF CallsOK, HolderInOnePlace, FreeOnce, HeldOnce, FreeNotHeld,
         NoneForgotten
<1>7. waiters' \in Seq(Users) /\ WaitersOnce' /\ WaitersWait'
  BY <1>1 DEF WaitersOnce, WaitersWait
<1> QED
  BY <1>4, <1>5, <1>6, <1>7 DEF CallsOK

\* _resizeHolderPool() adds holders with new numbers, within the bound.
LEMMA NewHoldersFacts ==
    ASSUME NEW s \in Suggestions \cup {Null}, nHolders \in 0..MaxHolders
    PROVE  LET new == NewHolders(s)
           IN  /\ new \in Seq(1..(nHolders + Len(new)))
               /\ Len(new) \in Nat
               /\ DOMAIN new = 1..Len(new)
               /\ \A i \in 1..Len(new) : new[i] = nHolders + i
               /\ nHolders + Len(new) \in 0..MaxHolders
<1> DEFINE c == Concurrency(s)
<1>1. c \in 0..MaxHolders /\ nHolders \in Nat /\ MaxHolders \in Nat
  BY ConcurrencyAssumption DEF Concurrency, Holders
<1>2. NewHolders(s) = [i \in 1..(c - nHolders) |-> nHolders + i]
  BY DEF NewHolders
<1> HIDE DEF c
<1>3. CASE c >= nHolders
  <2>1. c - nHolders \in Nat
    BY <1>1, <1>3
  <2>2. /\ Len(NewHolders(s)) = c - nHolders
        /\ DOMAIN NewHolders(s) = 1..(c - nHolders)
    BY <1>2, <2>1
  <2>3. NewHolders(s) \in Seq(1..c)
    BY <1>1, <1>2, <2>1
  <2> QED
    BY <1>1, <1>2, <2>1, <2>2, <2>3
<1>4. CASE ~(c >= nHolders)
  <2>1. 1..(c - nHolders) = {}
    BY <1>1, <1>4
  <2>2. NewHolders(s) = <<>>
    BY <1>2, <2>1
  <2> QED
    BY <1>1, <2>2
<1> QED
  BY <1>3, <1>4

\* The two ways of Connected: call t goes on with its holder, or puts it back.
GoesOn(t, pushed, next, h) ==
    \/ pushed = <<>> /\ h = held[t] /\ next \in Holding
    \/ pushed = <<held[t]>> /\ h = 0 /\ next \notin Holding

\* A connection is made: the pool may grow.
LEMMA ConnectedKeeps ==
    ASSUME NEW t \in Tasks, NEW pushed, NEW next \in UserStates, NEW h,
           CallsOK, RestOK, held[t] # 0, pc[t] # "waiting",
           GoesOn(t, pushed, next, h), Connected(t, pushed, next, h)
    PROVE  CallsOK' /\ nHolders' \in 0..MaxHolders
                    /\ suggested' \in Suggestions \cup {Null}
<1>1. PICK s \in Suggestions \cup {Null} :
          LET new == IF s \in {Null, suggested} THEN <<>> ELSE NewHolders(s)
          IN  /\ suggested' = IF s = Null THEN suggested ELSE s
              /\ nHolders' = nHolders + Len(new)
              /\ PushAll(new \o pushed, [pc EXCEPT ![t] = next],
                         [held EXCEPT ![t] = h])
  BY DEF Connected
<1> DEFINE new == IF s \in {Null, suggested} THEN <<>> ELSE NewHolders(s)
           n == nHolders + Len(new)
           hs == new \o pushed
           pcs == [pc EXCEPT ![t] = next]
           helds == [held EXCEPT ![t] = h]
<1>2. nHolders' = n /\ PushAll(hs, pcs, helds)
  BY <1>1
<1>3. suggested' \in Suggestions \cup {Null}
  BY <1>1 DEF RestOK
<1>4. /\ nHolders \in Nat /\ n \in Nat /\ n \in 0..MaxHolders /\ nHolders <= n
      /\ Len(new) \in Nat /\ n = nHolders + Len(new)
      /\ new \in Seq(1..n) /\ DOMAIN new = 1..Len(new)
      /\ \A i \in 1..Len(new) : new[i] = nHolders + i
  <2>1. nHolders \in 0..MaxHolders /\ MaxHolders \in Nat
    BY ConcurrencyAssumption DEF RestOK
  <2>2. CASE s \in {Null, suggested}
    BY <2>1, <2>2
  <2>3. CASE s \notin {Null, suggested}
    BY <2>1, <2>3, NewHoldersFacts
  <2> QED
    BY <2>2, <2>3
<1> HIDE DEF n, new, hs, pcs, helds
<1>nat. nHolders \in Nat /\ n \in Nat /\ nHolders <= n /\ Len(new) \in Nat
  BY <1>4
<1>5. /\ held[t] \in 1..nHolders /\ held[t] \in 1..n
      /\ pushed \in Seq(1..n)
      /\ \A u \in Tasks : held[u] \in 0..nHolders /\ held[u] \in 0..n
      /\ \A i \in DOMAIN free : free[i] \in 1..nHolders
  <2>1. \A u \in Tasks : held[u] \in 0..nHolders /\ held[u] \in 0..n
    <3>1. \A u \in Tasks : held[u] \in 0..nHolders
      BY DEF CallsOK
    <3> QED
      BY <1>nat, <3>1
  <2>2. held[t] \in 1..nHolders /\ held[t] \in 1..n
    <3>1. held[t] \in 0..nHolders /\ held[t] # 0
      BY <2>1
    <3> QED
      BY <1>nat, <3>1
  <2>3. \A i \in DOMAIN free : free[i] \in 1..nHolders
    <3>1. free \in Seq(1..nHolders)
      BY DEF CallsOK
    <3> QED
      BY <3>1, ElementFacts
  <2>4. pushed \in Seq(1..n)
    <3>1. CASE pushed = <<>>
      BY <3>1
    <3>2. CASE pushed = <<held[t]>>
      BY <2>2, <3>2
    <3> QED
      BY <3>1, <3>2 DEF GoesOn
  <2> QED
    BY <2>1, <2>2, <2>3, <2>4
<1>6. /\ pcs \in [Tasks -> UserStates \cup CloserStates]
      /\ helds \in [Tasks -> 0..n]
      /\ \A u \in Tasks : /\ pcs[u] = IF u = t THEN next ELSE pc[u]
                          /\ helds[u] = IF u = t THEN h ELSE held[u]
  <2>1. held \in [Tasks -> 0..n] /\ h \in 0..n
    <3>1. held \in [Tasks -> 0..nHolders]
      BY DEF CallsOK
    <3>2. h = held[t] \/ h = 0
      BY DEF GoesOn
    <3> QED
      BY <1>nat, <1>5, <3>1, <3>2
  <2> QED
    BY <2>1 DEF CallsOK, pcs, helds
<1>7. /\ hs \in Seq(1..n)
      /\ \A i \in DOMAIN hs :
            \/ i \in 1..Len(new) /\ hs[i] = nHolders + i
            \/ i = Len(new) + 1 /\ hs[i] = held[t] /\ h = 0
      /\ \A i \in 1..Len(new) : i \in DOMAIN hs /\ hs[i] = nHolders + i
      /\ h = 0 => Len(new) + 1 \in DOMAIN hs /\ hs[Len(new) + 1] = held[t]
  <2>1. CASE pushed = <<>> /\ h = held[t]
    <3>1. hs = new
      BY <1>4, <2>1 DEF hs
    <3>2. h # 0
      BY <2>1
    <3> QED
      BY <1>4, <3>1, <3>2
  <2>2. CASE pushed = <<held[t]>> /\ h = 0
    <3>1. Len(pushed) = 1 /\ pushed[1] = held[t]
      BY <2>2
    <3>2. new \in Seq(1..n) /\ pushed \in Seq(1..n)
      BY <1>4, <1>5
    <3>3. /\ hs \in Seq(1..n) /\ Len(hs) = Len(new) + Len(pushed)
          /\ DOMAIN hs = 1..Len(hs)
          /\ \A i \in 1..Len(hs) :
                hs[i] = IF i <= Len(new) THEN new[i] ELSE pushed[i - Len(new)]
      BY <3>2, CatFacts DEF hs
    <3>4. DOMAIN hs = 1..(Len(new) + 1)
      BY <3>1, <3>3
    <3>5. \A i \in 1..Len(new) : i \in DOMAIN hs /\ hs[i] = nHolders + i
      <4> SUFFICES ASSUME NEW i \in 1..Len(new)
                   PROVE  i \in DOMAIN hs /\ hs[i] = nHolders + i
        OBVIOUS
      <4>1. i \in 1..(Len(new) + 1) /\ i <= Len(new)
        BY <1>nat
      <4> QED
        BY <1>4, <3>3, <3>4, <4>1
    <3>6. Len(new) + 1 \in DOMAIN hs /\ hs[Len(new) + 1] = held[t]
      <4>1. Len(new) + 1 \in 1..Len(hs) /\ ~(Len(new) + 1 <= Len(new))
        BY <1>nat, <3>1, <3>3
      <4>2. Len(new) + 1 - Len(new) = 1
        BY <1>nat
      <4> QED
        BY <3>1, <3>3, <4>1, <4>2
    <3>7. \A i \in DOMAIN hs : i \in 1..Len(new) \/ i = Len(new) + 1
      BY <1>4, <3>4
    <3> QED
      BY <2>2, <3>3, <3>5, <3>6, <3>7
  <2> QED
    BY <2>1, <2>2 DEF GoesOn
<1>8. \A i \in DOMAIN waiters : pcs[waiters[i]] = "waiting"
  <2>1. \A i \in DOMAIN waiters : waiters[i] \in Tasks
    BY DEF CallsOK, Tasks
  <2> QED
    BY <1>6, <2>1 DEF CallsOK, WaitersWait
<1>9. \A u \in Tasks : helds[u] # 0 <=> pcs[u] \in Holding
  <2>1. h # 0 <=> next \in Holding
    BY DEF GoesOn
  <2> QED
    BY <1>6, <2>1 DEF CallsOK, HandsMatch
<1>new. \A i \in 1..Len(new) : nHolders + i > nHolders
  BY <1>4
<1>10. \A i, j \in DOMAIN hs : hs[i] = hs[j] => i = j
  <2> SUFFICES ASSUME NEW i \in DOMAIN hs, NEW j \in DOMAIN hs, hs[i] = hs[j]
               PROVE  i = j
    OBVIOUS
  <2>1. held[t] \in Nat /\ held[t] <= nHolders
    BY <1>4, <1>5
  <2>2. CASE i \in 1..Len(new) /\ j \in 1..Len(new)
    BY <1>4, <1>7, <2>2
  <2>3. CASE i \in 1..Len(new) /\ j \notin 1..Len(new)
    BY <1>4, <1>new, <1>7, <2>1, <2>3
  <2>4. CASE i \notin 1..Len(new) /\ j \in 1..Len(new)
    BY <1>4, <1>new, <1>7, <2>1, <2>4
  <2>5. CASE i \notin 1..Len(new) /\ j \notin 1..Len(new)
    BY <1>7, <2>5
  <2> QED
    BY <2>2, <2>3, <2>4, <2>5
<1>11. \A i \in DOMAIN hs : \A j \in DOMAIN free : hs[i] # free[j]
  <2> SUFFICES ASSUME NEW i \in DOMAIN hs, NEW j \in DOMAIN free
               PROVE  hs[i] # free[j]
    OBVIOUS
  <2>1. free[j] \in Nat /\ free[j] <= nHolders
    BY <1>4, <1>5
  <2>2. free[j] # held[t]
    BY DEF CallsOK, HolderInOnePlace, FreeNotHeld
  <2>3. CASE i \in 1..Len(new) /\ hs[i] = nHolders + i
    BY <1>nat, <1>new, <2>1, <2>3
  <2>4. CASE hs[i] = held[t]
    BY <2>2, <2>4
  <2>5. \/ i \in 1..Len(new) /\ hs[i] = nHolders + i
        \/ hs[i] = held[t]
    BY <1>7
  <2> QED
    BY <2>3, <2>4, <2>5
<1>12. \A u \in Tasks : \A i \in DOMAIN hs : hs[i] # helds[u]
  <2> SUFFICES ASSUME NEW u \in Tasks, NEW i \in DOMAIN hs
               PROVE  hs[i] # helds[u]
    OBVIOUS
  <2>1. helds[u] \in Nat /\ helds[u] <= nHolders
    BY <1>nat, <1>5, <1>6 DEF GoesOn
  <2>2. CASE i \in 1..Len(new) /\ hs[i] = nHolders + i
    BY <1>nat, <1>new, <2>1, <2>2
  <2>3. CASE hs[i] = held[t] /\ h = 0
    <3>1. held[t] # 0 /\ (held[u] = held[t] => u = t)
      BY DEF CallsOK, HolderInOnePlace, HeldOnce
    <3> QED
      BY <1>6, <2>3, <3>1
  <2>4. \/ i \in 1..Len(new) /\ hs[i] = nHolders + i
        \/ hs[i] = held[t] /\ h = 0
    BY <1>7
  <2> QED
    BY <2>2, <2>3, <2>4
<1>13. \A u \in Tasks : \A i \in DOMAIN free : free[i] # helds[u]
  <2> SUFFICES ASSUME NEW u \in Tasks, NEW i \in DOMAIN free
               PROVE  free[i] # helds[u]
    OBVIOUS
  <2>1. helds[u] = held[u] \/ helds[u] = 0
    BY <1>6 DEF GoesOn
  <2>2. free[i] # held[u] /\ free[i] \in 1..nHolders
    BY <1>5 DEF CallsOK, HolderInOnePlace, FreeNotHeld
  <2> QED
    BY <2>1, <2>2
<1>14. \A u, v \in Tasks : helds[u] = helds[v] /\ helds[u] # 0 => u = v
  <2>1. \A u \in Tasks : helds[u] # 0 => helds[u] = held[u]
    BY <1>6 DEF GoesOn
  <2> QED
    BY <2>1 DEF CallsOK, HolderInOnePlace, HeldOnce
<1>15. \A g \in 1..n : \/ \E i \in DOMAIN free : free[i] = g
                       \/ \E i \in DOMAIN hs : hs[i] = g
                       \/ \E u \in Tasks : helds[u] = g
  <2> SUFFICES ASSUME NEW g \in 1..n
               PROVE  \/ \E i \in DOMAIN free : free[i] = g
                      \/ \E i \in DOMAIN hs : hs[i] = g
                      \/ \E u \in Tasks : helds[u] = g
    OBVIOUS
  <2>1. CASE g > nHolders
    <3>1. g - nHolders \in 1..Len(new)
      BY <1>4, <2>1
    <3>2. nHolders + (g - nHolders) = g
      BY <1>nat
    <3>3. g - nHolders \in DOMAIN hs /\ hs[g - nHolders] = nHolders + (g - nHolders)
      BY <1>7, <3>1
    <3> QED
      BY <3>2, <3>3
  <2>2. CASE g = held[t]
    <3>1. helds[t] = h /\ (h = held[t] \/ h = 0)
      BY <1>6 DEF GoesOn
    <3> QED
      BY <1>7, <2>2, <3>1
  <2>3. CASE g <= nHolders /\ g # held[t]
    <3>1. g \in 1..nHolders
      BY <1>4, <2>3
    <3> QED
      BY <1>6, <2>3, <3>1 DEF CallsOK, HolderInOnePlace, NoneForgotten
  <2> QED
    BY <1>nat, <2>1, <2>2, <2>3
<1>16. Pushable(n, hs, pcs, helds)
  BY <1>6, <1>7, <1>8, <1>9, <1>10, <1>11, <1>12, <1>13, <1>14, <1>15
     DEF Pushable
<1>17. QueueOK(n)
  <2>1. free \in Seq(1..n)
    BY <1>4 DEF CallsOK
  <2> QED
    BY <2>1 DEF CallsOK, QueueOK, HolderInOnePlace
<1>18. CallsOK'
  BY <1>2, <1>4, <1>16, <1>17, PushAllKeeps
<1> QED
  BY <1>2, <1>3, <1>4, <1>18

-----------------------------------------------------------------------------
(* The inductive invariant.                                                *)

LEMMA InitIInv == Init => IInv
<1> SUFFICES ASSUME Init PROVE IInv
  OBVIOUS
<1>1. nHolders \in 0..MaxHolders /\ nHolders \in Nat
  BY ConcurrencyAssumption DEF Init, Concurrency
<1>2. /\ free \in Seq(1..nHolders)
      /\ DOMAIN free = 1..nHolders
      /\ \A i \in 1..nHolders : free[i] = i
  BY <1>1 DEF Init
<1>3. waiters \in Seq(Users) /\ WaitersOnce /\ WaitersWait
  BY DEF Init, WaitersOnce, WaitersWait
<1>4. /\ \A t \in Tasks : held[t] = 0 /\ pc[t] = "idle"
      /\ held \in [Tasks -> 0..nHolders]
      /\ pc \in [Tasks -> UserStates \cup CloserStates]
  BY <1>1 DEF Init, UserStates
<1>5. HandsMatch /\ HeldOnce /\ FreeOnce /\ NoneForgotten
  BY <1>2, <1>4 DEF HandsMatch, Holding, HeldOnce, FreeOnce, NoneForgotten
<1>6. FreeNotHeld
  <2>1. \A i \in DOMAIN free : free[i] # 0
    BY <1>1, <1>2
  <2> QED
    BY <1>4, <2>1 DEF FreeNotHeld
<1>7. RestOK
  <2>1. 0 \in 0..(Attempts - 1)
    BY AttemptsAssumption
  <2>2. iter \in [Tasks -> 0..(Attempts - 1)]
    BY <2>1 DEF Init
  <2> QED
    BY <1>1, <2>2 DEF Init, RestOK
<1> QED
  BY <1>2, <1>3, <1>4, <1>5, <1>6, <1>7
     DEF CallsOK, HolderInOnePlace, IInv

\* The holder in the hands of a call is one of the pool.
LEMMA HeldFacts ==
    ASSUME IInv, NEW t \in Tasks, pc[t] \in Holding
    PROVE  /\ held[t] \in 1..nHolders /\ held[t] \in Holders
           /\ held[t] # 0 /\ pc[t] # "waiting" /\ nHolders \in Nat
<1>1. /\ held[t] \in 0..nHolders /\ nHolders \in 0..MaxHolders
      /\ held[t] # 0 /\ MaxHolders \in Nat
  BY ConcurrencyAssumption DEF IInv, CallsOK, RestOK, HandsMatch
<1> QED
  BY <1>1 DEF Holders, Holding

LEMMA ConnectedIInv ==
    ASSUME IInv, NEW t \in Users, pc[t] = "connecting",
           NEW pushed, NEW next \in UserStates, NEW h,
           GoesOn(t, pushed, next, h), Connected(t, pushed, next, h)
    PROVE  IInv'
<1>1. CallsOK /\ RestOK /\ t \in Tasks /\ pc[t] \in Holding
  BY DEF Tasks, Holding, IInv
<1>2. held[t] # 0 /\ pc[t] # "waiting"
  BY <1>1, HeldFacts
<1>3. CallsOK' /\ nHolders' \in 0..MaxHolders
               /\ suggested' \in Suggestions \cup {Null}
  BY <1>1, <1>2, ConnectedKeeps
<1>4. /\ conn' \in [Holders -> {"none", "open", "lost", "closed"}]
      /\ dirty' \in [Holders -> BOOLEAN]
      /\ UNCHANGED <<shut, inUse, iter>>
  BY <1>1 DEF Connected, RestOK
<1>5. RestOK'
  BY <1>1, <1>3, <1>4 DEF RestOK, shut
<1> QED
  BY <1>3, <1>5 DEF IInv

\* Every step of a call that acquires a holder.
LEMMA OpStepIInv ==
    ASSUME IInv, NEW t \in Ops, OpStep(t)
    PROVE  IInv'
<1> USE DEF pool, conns, shut
<1>0. CallsOK /\ RestOK /\ t \in Users /\ t \in Tasks /\ nHolders \in Nat
  BY DEF Users, Tasks, RestOK, IInv
<1>1. CASE CallOp(t)
  <2>1. pc[t] = "idle" /\ UNCHANGED <<nHolders, suggested, conns, shut, inUse, iter>>
    BY <1>1 DEF CallOp, MayCall
  <2>2. RestOK'
    BY <1>0, <2>1 DEF RestOK
  <2>3. CASE closing # "open"
    <3>1. Goto(t, "done") /\ UNCHANGED <<free, waiters, held>>
      BY <1>1, <2>3 DEF CallOp
    <3> QED
      BY <1>0, <2>1, <2>2, <3>1, GotoKeeps DEF UserStates, Holding, IInv
  <2>4. CASE closing = "open"
    <3>1. Get(t)
      BY <1>1, <2>4 DEF CallOp
    <3> QED
      BY <1>0, <2>1, <2>2, <3>1, GetKeeps DEF IInv
  <2> QED
    BY <2>3, <2>4
<1>2. CASE Acquire(t)
  <2>1. /\ pc[t] = "granted"
        /\ UNCHANGED <<nHolders, suggested, conns, shut, iter>>
    BY <1>2 DEF Acquire
  <2>2. held[t] # 0 /\ held[t] \in Holders
    BY <1>0, <2>1, HeldFacts DEF Holding
  <2>3. CASE inUse[held[t]]
    <3>1. Enqueue(t, "done") /\ UNCHANGED inUse
      BY <1>2, <2>3 DEF Acquire
    <3>2. CallsOK'
      BY <1>0, <2>1, <2>2, <3>1, EnqueueKeeps DEF UserStates, Holding
    <3>3. RestOK'
      BY <1>0, <2>1, <3>1 DEF RestOK
    <3> QED
      BY <3>2, <3>3 DEF IInv
  <2>4. CASE ~inUse[held[t]]
    <3>1. /\ inUse' = [inUse EXCEPT ![held[t]] = TRUE]
          /\ Goto(t, "acquired") /\ UNCHANGED <<free, waiters, held>>
      BY <1>2, <2>4 DEF Acquire
    <3>2. CallsOK'
      BY <1>0, <2>1, <3>1, GotoKeeps DEF UserStates, Holding
    <3>3. RestOK'
      BY <1>0, <2>1, <3>1 DEF RestOK
    <3> QED
      BY <3>2, <3>3 DEF IInv
  <2> QED
    BY <2>3, <2>4
<1>3. CASE GetConnection(t)
  <2>1. \E next \in {"using", "releasing", "connecting"} : Goto(t, next)
    BY <1>3 DEF GetConnection
  <2>2. pc[t] = "acquired" /\ UNCHANGED <<pool, conns, shut, inUse, held, iter>>
    BY <1>3 DEF GetConnection
  <2>3. CallsOK'
    BY <1>0, <2>1, <2>2, GotoKeeps DEF UserStates, Holding
  <2>4. RestOK'
    BY <1>0, <2>2 DEF RestOK
  <2> QED
    BY <2>3, <2>4 DEF IInv
<1>4. CASE ConnectOk(t)
  <2>1. pc[t] = "connecting" /\ Connected(t, <<>>, "using", held[t])
    BY <1>4 DEF ConnectOk
  <2>2. GoesOn(t, <<>>, "using", held[t])
    BY DEF GoesOn, Holding
  <2> QED
    BY <1>0, <2>1, <2>2, ConnectedIInv DEF UserStates
<1>5. CASE ConnectFail(t)
  <2>1. /\ pc[t] = "connecting" /\ Goto(t, "releasing")
        /\ UNCHANGED <<pool, conns, shut, inUse, held, iter>>
    BY <1>5 DEF ConnectFail
  <2>2. CallsOK'
    BY <1>0, <2>1, GotoKeeps DEF UserStates, Holding
  <2>3. RestOK'
    BY <1>0, <2>1 DEF RestOK
  <2> QED
    BY <2>2, <2>3 DEF IInv
<1>6. CASE OpEnd(t)
  <2>1. /\ pc[t] = "using" /\ Goto(t, "releasing")
        /\ \E d \in BOOLEAN : dirty' = [dirty EXCEPT ![held[t]] = d]
        /\ UNCHANGED <<pool, conn, shut, inUse, held, iter>>
    BY <1>6 DEF OpEnd
  <2>2. CallsOK'
    BY <1>0, <2>1, GotoKeeps DEF UserStates, Holding
  <2>3. dirty' \in [Holders -> BOOLEAN]
    BY <1>0, <2>1 DEF RestOK
  <2>4. RestOK'
    BY <1>0, <2>1, <2>3 DEF RestOK
  <2> QED
    BY <2>2, <2>4 DEF IInv
<1>7. CASE OpRetry(t)
  <2>1. /\ pc[t] = "using" /\ Goto(t, "backoff") /\ iter[t] + 1 < Attempts
        /\ iter' = [iter EXCEPT ![t] = @ + 1]
        /\ UNCHANGED <<pool, conns, shut, inUse, held>>
    BY <1>7 DEF OpRetry, MayRetry
  <2>2. CallsOK'
    BY <1>0, <2>1, GotoKeeps DEF UserStates, Holding
  <2>3. iter[t] + 1 \in 0..(Attempts - 1)
    BY <1>0, <2>1, AttemptsAssumption DEF RestOK
  <2>4. iter' \in [Tasks -> 0..(Attempts - 1)]
    BY <1>0, <2>1, <2>3 DEF RestOK
  <2>5. RestOK'
    BY <1>0, <2>1, <2>4 DEF RestOK
  <2> QED
    BY <2>2, <2>5 DEF IInv
<1>8. CASE Wake(t)
  <2>1. /\ pc[t] = "backoff" /\ Goto(t, "acquired")
        /\ UNCHANGED <<pool, conns, shut, inUse, held, iter>>
    BY <1>8 DEF Wake
  <2>2. CallsOK'
    BY <1>0, <2>1, GotoKeeps DEF UserStates, Holding
  <2>3. RestOK'
    BY <1>0, <2>1 DEF RestOK
  <2> QED
    BY <2>2, <2>3 DEF IInv
<1>9. CASE Reset(t)
  <2>1. /\ pc[t] = "releasing" /\ Goto(t, "resetting")
        /\ UNCHANGED <<pool, conns, shut, inUse, held, iter>>
    BY <1>9 DEF Reset
  <2>2. CallsOK'
    BY <1>0, <2>1, GotoKeeps DEF UserStates, Holding
  <2>3. RestOK'
    BY <1>0, <2>1 DEF RestOK
  <2> QED
    BY <2>2, <2>3 DEF IInv
<1>10. CASE ResetEnd(t)
  <2>1. UNCHANGED <<pool, shut, inUse, pc, held, iter>>
    BY <1>10 DEF ResetEnd
  <2>2. CallsOK'
    BY <1>0, <2>1 DEF CallsOK, WaitersOnce, WaitersWait, HandsMatch,
       HolderInOnePlace, FreeOnce, HeldOnce, FreeNotHeld, NoneForgotten
  <2>3. /\ conn' \in [Holders -> {"none", "open", "lost", "closed"}]
        /\ dirty' \in [Holders -> BOOLEAN]
    BY <1>0, <1>10 DEF ResetEnd, RestOK
  <2>4. RestOK'
    BY <1>0, <2>1, <2>3 DEF RestOK
  <2> QED
    BY <2>2, <2>4 DEF IInv
<1>11. CASE Release(t)
  <2>1. /\ pc[t] \in {"releasing", "resetting"} /\ Enqueue(t, "done")
        /\ closeWait' = WakeCloser(held[t]) /\ inUse' = Unmark(held[t])
        /\ UNCHANGED <<nHolders, suggested, conns, closing, raced, terminated, iter>>
    BY <1>11 DEF Release, IsReset
  <2>2. held[t] # 0
    BY <1>0, <2>1, HeldFacts DEF Holding
  <2>3. CallsOK'
    BY <1>0, <2>1, <2>2, EnqueueKeeps DEF UserStates, Holding
  <2>4. /\ closeWait' \in [Holders -> {"settled", "waiting", "resumed"}]
        /\ inUse' \in [Holders -> BOOLEAN]
    BY <1>0, <2>1 DEF WakeCloser, Unmark, RestOK
  <2>5. RestOK'
    BY <1>0, <2>1, <2>4 DEF RestOK
  <2> QED
    BY <2>3, <2>5 DEF IInv
<1> QED
  BY <1>1, <1>2, <1>3, <1>4, <1>5, <1>6, <1>7, <1>8, <1>9, <1>10, <1>11
     DEF OpStep

\* Every step of ensureConnected().
LEMMA EnsureStepIInv ==
    ASSUME IInv, NEW t \in Ensures, EnsureStep(t)
    PROVE  IInv'
<1> USE DEF pool, conns, shut
<1>0. CallsOK /\ RestOK /\ t \in Users /\ t \in Tasks /\ nHolders \in Nat
  BY DEF Users, Tasks, RestOK, IInv
<1>1. CASE CallEnsure(t)
  <2>1. pc[t] = "idle" /\ UNCHANGED <<nHolders, suggested, conns, shut, inUse, iter>>
    BY <1>1 DEF CallEnsure
  <2>2. RestOK'
    BY <1>0, <2>1 DEF RestOK
  <2>3. \/ Goto(t, "done") /\ UNCHANGED <<free, waiters, held>>
        \/ Get(t)
    BY <1>1 DEF CallEnsure
  <2>4. CASE Goto(t, "done") /\ UNCHANGED <<free, waiters, held>>
    BY <1>0, <2>1, <2>2, <2>4, GotoKeeps DEF UserStates, Holding, IInv
  <2>5. CASE Get(t)
    BY <1>0, <2>1, <2>2, <2>5, GetKeeps DEF IInv
  <2> QED
    BY <2>3, <2>4, <2>5
<1>2. CASE EnsureGetConnection(t)
  <2>1. /\ pc[t] = "granted"
        /\ UNCHANGED <<nHolders, suggested, conns, shut, inUse, iter>>
    BY <1>2 DEF EnsureGetConnection
  <2>2. held[t] # 0
    BY <1>0, <2>1, HeldFacts DEF Holding
  <2>3. RestOK'
    BY <1>0, <2>1 DEF RestOK
  <2>4. \/ Enqueue(t, "done")
        \/ Goto(t, "connecting") /\ UNCHANGED <<free, waiters, held>>
    BY <1>2 DEF EnsureGetConnection
  <2>5. CASE Enqueue(t, "done")
    BY <1>0, <2>1, <2>2, <2>3, <2>5, EnqueueKeeps DEF UserStates, Holding, IInv
  <2>6. CASE Goto(t, "connecting") /\ UNCHANGED <<free, waiters, held>>
    BY <1>0, <2>1, <2>3, <2>6, GotoKeeps DEF UserStates, Holding, IInv
  <2> QED
    BY <2>4, <2>5, <2>6
<1>3. CASE EnsureConnectOk(t)
  <2>1. pc[t] = "connecting" /\ Connected(t, <<held[t]>>, "done", 0)
    BY <1>3 DEF EnsureConnectOk
  <2>2. GoesOn(t, <<held[t]>>, "done", 0)
    BY DEF GoesOn, Holding
  <2> QED
    BY <1>0, <2>1, <2>2, ConnectedIInv DEF UserStates
<1>4. CASE EnsureConnectFail(t)
  <2>1. /\ pc[t] = "connecting" /\ Enqueue(t, "done")
        /\ UNCHANGED <<nHolders, suggested, conns, shut, inUse, iter>>
    BY <1>4 DEF EnsureConnectFail
  <2>2. held[t] # 0
    BY <1>0, <2>1, HeldFacts DEF Holding
  <2>3. CallsOK'
    BY <1>0, <2>1, <2>2, EnqueueKeeps DEF UserStates, Holding
  <2>4. RestOK'
    BY <1>0, <2>1 DEF RestOK
  <2> QED
    BY <2>3, <2>4 DEF IInv
<1> QED
  BY <1>1, <1>2, <1>3, <1>4 DEF EnsureStep

\* The holders that a shutdown may touch are holders of the pool.
LEMMA TouchedFacts ==
    ASSUME IInv
    PROVE  TakenNotInUse \subseteq Holders /\ Connecting \subseteq Holders
<1>1. \A t \in Users : /\ held[t] \in 0..nHolders /\ nHolders \in 0..MaxHolders
                       /\ pc[t] = "connecting" => held[t] # 0
  BY DEF IInv, CallsOK, RestOK, HandsMatch, Holding, Users, Tasks
<1>2. MaxHolders \in Nat
  BY ConcurrencyAssumption
<1>3. \A t \in Users : held[t] # 0 => held[t] \in Holders
  BY <1>1, <1>2 DEF Holders
<1>4. TakenNotInUse \subseteq Holders
  BY <1>3 DEF TakenNotInUse
<1> QED
  BY <1>1, <1>3, <1>4 DEF Connecting

LEMMA ClosedConnFacts ==
    ASSUME RestOK, NEW h \in Holders
    PROVE  /\ ClosedConn(h) \in {"none", "lost", "closed"}
           /\ conn[h] \in {"none", "open", "lost", "closed"}
BY DEF RestOK, ClosedConn

\* Every step of a shutdown.
LEMMA CloserStepIInv ==
    ASSUME IInv, NEW c \in Closers, CloserStep(c)
    PROVE  IInv'
<1> USE DEF pool, conns, shut
<1>0. CallsOK /\ RestOK /\ c \in Tasks
  BY DEF Tasks, IInv
<1>1. CASE Close(c)
  <2> DEFINE pcs == [pc EXCEPT ![c] = "closing"]
  <2>1. /\ pc[c] = "idle" /\ closing' = "closing"
        /\ CancelAllPending(pcs)
        /\ raced' = raced \cup TakenNotInUse
        /\ UNCHANGED <<nHolders, suggested, free, dirty, inUse, held, iter,
                       terminated>>
    BY <1>1 DEF Close
  <2>2. /\ pcs \in [Tasks -> UserStates \cup CloserStates]
        /\ \A t \in Tasks : pcs[t] \in Holding <=> pc[t] \in Holding
    BY <1>0, <2>1 DEF CallsOK, CloserStates, Holding
  <2> HIDE DEF pcs
  <2>3. CallsOK'
    BY <1>0, <2>1, <2>2, CancelKeeps
  <2>4. conn' \in [Holders -> {"none", "open", "lost", "closed"}]
    <3>1. conn' = [h \in Holders |->
                       IF h \in NotInUse THEN ClosedConn(h) ELSE conn[h]]
      BY <1>1 DEF Close
    <3> QED
      BY <1>0, <3>1, ClosedConnFacts
  <2>5. closeWait' \in [Holders -> {"settled", "waiting", "resumed"}]
    BY <1>0, <1>1 DEF Close, RestOK
  <2>6. raced' \subseteq Holders
    BY <1>0, <2>1, TouchedFacts DEF RestOK
  <2>7. RestOK'
    BY <1>0, <2>1, <2>4, <2>5, <2>6 DEF RestOK
  <2> QED
    BY <2>3, <2>7 DEF IInv
<1>2. CASE CloseFinish(c)
  <2>1. /\ pc[c] = "closing" /\ closing' = "closed" /\ Goto(c, "done")
        /\ UNCHANGED <<pool, conns, closeWait, inUse, held, iter, raced, terminated>>
    BY <1>2 DEF CloseFinish
  <2>2. CallsOK'
    BY <1>0, <2>1, GotoKeeps DEF CloserStates, Holding
  <2>3. RestOK'
    BY <1>0, <2>1 DEF RestOK
  <2> QED
    BY <2>2, <2>3 DEF IInv
<1>3. CASE CloseAgain(c)
  <2>1. /\ pc[c] = "idle" /\ Goto(c, "awaiting")
        /\ UNCHANGED <<pool, conns, shut, inUse, held, iter>>
    BY <1>3 DEF CloseAgain
  <2>2. CallsOK'
    BY <1>0, <2>1, GotoKeeps DEF CloserStates, Holding
  <2>3. RestOK'
    BY <1>0, <2>1 DEF RestOK
  <2> QED
    BY <2>2, <2>3 DEF IInv
<1>4. CASE CloseReturn(c)
  <2>1. /\ pc[c] = "awaiting" /\ Goto(c, "done")
        /\ UNCHANGED <<pool, conns, shut, inUse, held, iter>>
    BY <1>4 DEF CloseReturn
  <2>2. CallsOK'
    BY <1>0, <2>1, GotoKeeps DEF CloserStates, Holding
  <2>3. RestOK'
    BY <1>0, <2>1 DEF RestOK
  <2> QED
    BY <2>2, <2>3 DEF IInv
<1> QED
  BY <1>1, <1>2, <1>3, <1>4 DEF CloserStep

\* Steps that leave the queue and the calls alone.
LEMMA CallsUnchanged ==
    ASSUME CallsOK, UNCHANGED <<nHolders, free, waiters, pc, held>>
    PROVE  CallsOK'
BY DEF CallsOK, WaitersOnce, WaitersWait, HandsMatch, HolderInOnePlace,
       FreeOnce, HeldOnce, FreeNotHeld, NoneForgotten

LEMMA ConnLostIInv ==
    ASSUME IInv, NEW h, ConnLost(h)
    PROVE  IInv'
<1>1. UNCHANGED <<pool, dirty, shut, inUse, pc, held, iter>>
  BY DEF ConnLost
<1>2. conn' \in [Holders -> {"none", "open", "lost", "closed"}]
  BY DEF ConnLost, IInv, RestOK
<1>3. RestOK'
  BY <1>1, <1>2 DEF IInv, RestOK, pool, shut
<1> QED
  BY <1>1, <1>3, CallsUnchanged DEF IInv, pool

LEMMA NextIInv == IInv /\ [Next]_vars => IInv'
<1> SUFFICES ASSUME IInv, [Next]_vars PROVE IInv'
  OBVIOUS
<1>0. CallsOK /\ RestOK
  BY DEF IInv
<1>1. CASE \E t \in Ops : OpStep(t)
  BY <1>1, OpStepIInv
<1>2. CASE \E t \in Ensures : EnsureStep(t)
  BY <1>2, EnsureStepIInv
<1>3. CASE \E c \in Closers : CloserStep(c)
  BY <1>3, CloserStepIInv
<1>4. CASE \E h \in Holders : CloseHolder(h)
  <2> PICK h \in Holders : CloseHolder(h)
    BY <1>4
  <2>1. /\ closeWait' = [closeWait EXCEPT ![h] = "settled"]
        /\ conn' = [conn EXCEPT ![h] = ClosedConn(h)]
        /\ UNCHANGED <<pool, dirty, closing, inUse, pc, held, iter, raced, terminated>>
    BY DEF CloseHolder
  <2>2. conn' \in [Holders -> {"none", "open", "lost", "closed"}]
    BY <1>0, <2>1, ClosedConnFacts DEF RestOK
  <2>3. RestOK'
    BY <1>0, <2>1, <2>2 DEF RestOK, pool
  <2> QED
    BY <1>0, <2>1, <2>3, CallsUnchanged DEF IInv, pool
<1>5. CASE \E t \in Transactions : TransactionTimeout(t)
  BY <1>5, ConnLostIInv DEF TransactionTimeout
<1>6. CASE \E h \in Holders : ConnLost(h)
  BY <1>6, ConnLostIInv
<1>7. CASE Terminate
  <2>1. /\ CancelAllPending(pc) /\ terminated' = TRUE
        /\ conn' = [h \in Holders |-> ClosedConn(h)]
        /\ closing' = (IF closing = "open" THEN "closed" ELSE closing)
        /\ raced' = (IF closing = "open" THEN raced \cup Connecting ELSE raced)
        /\ UNCHANGED <<nHolders, suggested, free, dirty, inUse, held, iter,
                       closeWait>>
    BY <1>7 DEF Terminate
  <2>2. CallsOK'
    BY <1>0, <2>1, CancelKeeps DEF CallsOK
  <2>3. conn' \in [Holders -> {"none", "open", "lost", "closed"}]
    BY <1>0, <2>1, ClosedConnFacts
  <2>4. raced' \subseteq Holders
    BY <1>0, <2>1, TouchedFacts DEF RestOK
  <2>5. RestOK'
    BY <1>0, <2>1, <2>3, <2>4 DEF RestOK
  <2> QED
    BY <2>2, <2>5 DEF IInv
<1>8. CASE AllDone \/ UNCHANGED vars
  <2>1. UNCHANGED vars
    BY <1>8 DEF AllDone
  <2>2. RestOK'
    BY <1>0, <2>1 DEF RestOK, vars
  <2> QED
    BY <1>0, <2>1, <2>2, CallsUnchanged DEF IInv, vars
<1> QED
  BY <1>1, <1>2, <1>3, <1>4, <1>5, <1>6, <1>7, <1>8 DEF Next

LEMMA AlwaysIInv == Spec => []IInv
BY InitIInv, NextIInv, PTL DEF Spec

\* The variables of the pool keep their types, for any number of calls, any
\* concurrency and any suggestions of the server.
THEOREM TypeCorrect == Spec => []TypeOK
BY AlwaysIInv, IInvImplies, PTL

\* Each holder of the pool is always free once or in the hands of exactly one
\* call: acquireHolder(), release(), ensureConnected(), resizing and shutdown
\* neither lose a holder nor give it to two calls.
THEOREM HoldersInOnePlace == Spec => []HolderInOnePlace
BY AlwaysIInv, IInvImplies, PTL

-----------------------------------------------------------------------------
(* What a step does to the queue and to the calls.                         *)

\* Call t moves on, the queue is left alone.
Moved(t, next) ==
    /\ pc[t] # "waiting" /\ next # "closing"
    /\ next = "connecting" => closing # "closed"
    /\ Goto(t, next)
    /\ UNCHANGED <<free, waiters, held>>

\* Call t takes a holder or begins to wait.
Taken(t) ==
    /\ closing = "open" /\ closing' = "open"
    /\ pc[t] = "idle"
    /\ Get(t)

\* Call t, which has a holder, goes on to next, and the holders hs are pushed.
Pushed(t, hs, next, h) ==
    /\ held[t] # 0 /\ h \in {0, held[t]} /\ next \in {"using", "done"}
    /\ Len(hs) \in Nat /\ DOMAIN hs = 1..Len(hs)
    /\ PushAll(hs, [pc EXCEPT ![t] = next], [held EXCEPT ![t] = h])
    /\ closing' = closing

\* The client shuts down.
Cancelled(pcs) ==
    /\ closing' # "open"
    /\ \A t \in Tasks : pcs[t] \in {pc[t], "closing"}
    /\ CancelAllPending(pcs)
    /\ UNCHANGED <<free, held>>

QueueStep ==
    \/ UNCHANGED <<free, waiters, pc, held, closing>>
    \/ \E t \in Tasks : \E next : Moved(t, next)
    \/ \E t \in Users : Taken(t)
    \/ \E t \in Tasks : \E hs, next, h : Pushed(t, hs, next, h)
    \/ \E pcs : Cancelled(pcs)

\* A connection becomes open in the hands of the call that connected it.
Opened == \A h \in Holders :
    conn'[h] = "open" =>
        conn[h] = "open" \/ \E t \in Users : pc[t] = "connecting" /\ held[t] = h

ShutStep ==
    \/ \E c \in Closers : Close(c) \/ CloseFinish(c)
    \/ \E h \in Holders : CloseHolder(h)
    \/ \E t \in Ops : Acquire(t) \/ Release(t)
    \/ Terminate
    \/ UNCHANGED <<shut, inUse>>

\* Only a shutdown closes connections.
Closes ==
    \/ \E c \in Closers : Close(c)
    \/ \E h \in Holders : CloseHolder(h)
    \/ Terminate

StepShape ==
    /\ QueueStep /\ Opened /\ ShutStep
    /\ nHolders \in Nat /\ nHolders' \in Nat /\ nHolders <= nHolders'
    /\ Closes \/ \A h \in Holders : conn'[h] = "closed" => conn[h] = "closed"

-----------------------------------------------------------------------------
(* Every step has this shape.                                              *)

\* A step in which no connection changes and no holder is added.
LEMMA PlainShape ==
    ASSUME IInv, QueueStep, ShutStep, UNCHANGED <<nHolders, conn>>
    PROVE  StepShape
<1>1. nHolders \in Nat
  BY DEF IInv, RestOK
<1> QED
  BY <1>1 DEF StepShape, Opened

LEMMA MovedShape ==
    ASSUME IInv, NEW t \in Tasks, NEW next, Goto(t, next), pc[t] # "waiting",
           next # "closing", next = "connecting" => closing # "closed",
           UNCHANGED <<nHolders, free, waiters, held, conn, shut, inUse>>
    PROVE  StepShape
<1>1. Moved(t, next)
  BY DEF Moved
<1> QED
  BY <1>1, PlainShape DEF QueueStep, ShutStep

LEMMA TakenShape ==
    ASSUME IInv, NEW t \in Users, closing = "open", pc[t] = "idle", Get(t),
           UNCHANGED <<nHolders, conn, shut, inUse>>
    PROVE  StepShape
<1>1. Taken(t)
  BY DEF Taken, shut
<1> QED
  BY <1>1, PlainShape DEF QueueStep, ShutStep

LEMMA EnqueueShape ==
    ASSUME IInv, NEW t \in Tasks, held[t] # 0, Enqueue(t, "done"), ShutStep,
           UNCHANGED <<nHolders, conn, closing>>
    PROVE  StepShape
<1> DEFINE hs == <<held[t]>>
<1>1. Len(hs) \in Nat /\ DOMAIN hs = 1..Len(hs)
  OBVIOUS
<1>2. PushAll(hs, [pc EXCEPT ![t] = "done"], [held EXCEPT ![t] = 0])
  BY DEF Enqueue
<1> HIDE DEF hs
<1>3. Pushed(t, hs, "done", 0)
  BY <1>1, <1>2 DEF Pushed
<1> QED
  BY <1>3, PlainShape DEF QueueStep

\* A connection is made, and the pool may grow.
LEMMA ConnectedShape ==
    ASSUME IInv, NEW t \in Users, pc[t] = "connecting", NEW pushed,
           NEW next \in {"using", "done"}, NEW h,
           GoesOn(t, pushed, next, h), Connected(t, pushed, next, h)
    PROVE  StepShape
<1>0. /\ CallsOK /\ RestOK /\ nHolders \in Nat /\ t \in Tasks
      /\ held[t] # 0 /\ held[t] \in Nat
  BY HeldFacts DEF IInv, RestOK, Holding, CallsOK, Tasks
<1>1. PICK s \in Suggestions \cup {Null} :
          LET new == IF s \in {Null, suggested} THEN <<>> ELSE NewHolders(s)
          IN  /\ nHolders' = nHolders + Len(new)
              /\ PushAll(new \o pushed, [pc EXCEPT ![t] = next],
                         [held EXCEPT ![t] = h])
  BY DEF Connected
<1> DEFINE new == IF s \in {Null, suggested} THEN <<>> ELSE NewHolders(s)
           hs == new \o pushed
<1>2. /\ nHolders' = nHolders + Len(new)
      /\ PushAll(hs, [pc EXCEPT ![t] = next], [held EXCEPT ![t] = h])
  BY <1>1
<1>3. new \in Seq(Nat) /\ Len(new) \in Nat
  <2>1. CASE s \in {Null, suggested}
    BY <2>1
  <2>2. CASE s \notin {Null, suggested}
    <3>1. /\ NewHolders(s) \in Seq(1..(nHolders + Len(NewHolders(s))))
          /\ Len(NewHolders(s)) \in Nat
      BY <1>0, NewHoldersFacts DEF RestOK
    <3> QED
      BY <1>0, <2>2, <3>1
  <2> QED
    BY <2>1, <2>2
<1>4. pushed \in Seq(Nat) /\ h \in {0, held[t]}
  <2>1. CASE pushed = <<>> /\ h = held[t]
    BY <2>1
  <2>2. CASE pushed = <<held[t]>> /\ h = 0
    BY <1>0, <2>2
  <2> QED
    BY <2>1, <2>2 DEF GoesOn
<1>5. Len(hs) \in Nat /\ DOMAIN hs = 1..Len(hs)
  <2> HIDE DEF new
  <2> QED
    BY <1>3, <1>4, CatFacts
<1>6. nHolders' \in Nat /\ nHolders <= nHolders'
  BY <1>0, <1>2, <1>3
<1> HIDE DEF hs, new
<1>7. /\ conn' = [conn EXCEPT ![held[t]] = "open"]
      /\ UNCHANGED <<shut, inUse>>
  BY DEF Connected
<1>8. Pushed(t, hs, next, h)
  BY <1>0, <1>2, <1>4, <1>5, <1>7 DEF Pushed, shut
<1>9. \A g \in Holders : conn'[g] = IF g = held[t] THEN "open" ELSE conn[g]
  BY <1>0, <1>7 DEF RestOK
<1>10. Opened /\ \A g \in Holders : conn'[g] = "closed" => conn[g] = "closed"
  BY <1>9 DEF Opened
<1> QED
  BY <1>0, <1>6, <1>7, <1>8, <1>10 DEF StepShape, QueueStep, ShutStep

LEMMA OpStepShape ==
    ASSUME IInv, NEW t \in Ops, OpStep(t)
    PROVE  StepShape
<1> USE DEF pool, conns
<1>0. t \in Users /\ t \in Tasks
  BY DEF Users, Tasks
<1>1. CASE CallOp(t)
  BY <1>0, <1>1, MovedShape, TakenShape DEF CallOp, MayCall
<1>2. CASE Acquire(t)
  <2>1. pc[t] = "granted" /\ UNCHANGED <<nHolders, conns, shut>>
    BY <1>2 DEF Acquire
  <2>2. held[t] # 0 /\ ShutStep
    BY <1>0, <1>2, <2>1, HeldFacts DEF Holding, ShutStep
  <2>3. CASE Enqueue(t, "done")
    BY <1>0, <2>1, <2>2, <2>3, EnqueueShape DEF shut
  <2>4. CASE Goto(t, "acquired") /\ UNCHANGED <<free, waiters, held>>
    <3>1. Moved(t, "acquired")
      BY <2>1, <2>4 DEF Moved
    <3> QED
      BY <1>0, <2>1, <2>2, <3>1, PlainShape DEF QueueStep
  <2> QED
    BY <1>2, <2>3, <2>4 DEF Acquire
<1>3. CASE GetConnection(t)
  <2>1. \E next \in {"using", "releasing", "connecting"} :
            Goto(t, next) /\ (next = "connecting" => closing # "closed")
    BY <1>3 DEF GetConnection
  <2> QED
    BY <1>0, <1>3, <2>1, MovedShape DEF GetConnection
<1>4. CASE ConnectOk(t)
  <2>1. GoesOn(t, <<>>, "using", held[t])
    BY DEF GoesOn, Holding
  <2> QED
    BY <1>0, <1>4, <2>1, ConnectedShape DEF ConnectOk
<1>5. CASE ConnectFail(t)
  BY <1>0, <1>5, MovedShape DEF ConnectFail
<1>6. CASE OpEnd(t)
  BY <1>0, <1>6, MovedShape DEF OpEnd
<1>7. CASE OpRetry(t)
  BY <1>0, <1>7, MovedShape DEF OpRetry
<1>8. CASE Wake(t)
  BY <1>0, <1>8, MovedShape DEF Wake
<1>9. CASE Reset(t)
  BY <1>0, <1>9, MovedShape DEF Reset
<1>10. CASE ResetEnd(t)
  <2>1. /\ UNCHANGED <<pool, shut, inUse, pc, held>>
        /\ \/ conn' = [conn EXCEPT ![held[t]] = "lost"]
           \/ conn' = conn
    BY <1>10 DEF ResetEnd
  <2>2. \A h \in Holders : conn'[h] = conn[h] \/ conn'[h] = "lost"
    BY <2>1 DEF IInv, RestOK
  <2>3. Opened /\ \A h \in Holders : conn'[h] = "closed" => conn[h] = "closed"
    BY <2>2 DEF Opened
  <2>4. nHolders \in Nat
    BY DEF IInv, RestOK
  <2> QED
    BY <2>1, <2>3, <2>4 DEF StepShape, QueueStep, ShutStep, shut
<1>11. CASE Release(t)
  <2>1. pc[t] \in Holding /\ Enqueue(t, "done") /\ UNCHANGED <<nHolders, conns, closing>>
    BY <1>11 DEF Release, IsReset, Holding
  <2>2. held[t] # 0 /\ ShutStep
    BY <1>0, <1>11, <2>1, HeldFacts DEF ShutStep
  <2> QED
    BY <1>0, <2>1, <2>2, EnqueueShape
<1> QED
  BY <1>1, <1>2, <1>3, <1>4, <1>5, <1>6, <1>7, <1>8, <1>9, <1>10, <1>11
     DEF OpStep

LEMMA EnsureStepShape ==
    ASSUME IInv, NEW t \in Ensures, EnsureStep(t)
    PROVE  StepShape
<1> USE DEF pool, conns
<1>0. t \in Users /\ t \in Tasks
  BY DEF Users, Tasks
<1>1. CASE CallEnsure(t)
  BY <1>0, <1>1, MovedShape, TakenShape DEF CallEnsure
<1>2. CASE EnsureGetConnection(t)
  <2>1. pc[t] = "granted" /\ UNCHANGED <<nHolders, conns, shut, inUse>>
    BY <1>2 DEF EnsureGetConnection
  <2>2. held[t] # 0 /\ ShutStep
    BY <1>0, <2>1, HeldFacts DEF Holding, ShutStep
  <2>3. CASE Enqueue(t, "done")
    BY <1>0, <2>1, <2>2, <2>3, EnqueueShape DEF shut
  <2>4. CASE /\ Goto(t, "connecting") /\ UNCHANGED <<free, waiters, held>>
             /\ closing # "closed"
    BY <1>0, <2>1, <2>4, MovedShape
  <2> QED
    BY <1>2, <2>3, <2>4 DEF EnsureGetConnection
<1>3. CASE EnsureConnectOk(t)
  <2>1. GoesOn(t, <<held[t]>>, "done", 0)
    BY DEF GoesOn, Holding
  <2> QED
    BY <1>0, <1>3, <2>1, ConnectedShape DEF EnsureConnectOk
<1>4. CASE EnsureConnectFail(t)
  <2>1. /\ pc[t] \in Holding /\ Enqueue(t, "done")
        /\ UNCHANGED <<nHolders, conns, shut, inUse>>
    BY <1>4 DEF EnsureConnectFail, Holding
  <2>2. held[t] # 0 /\ ShutStep
    BY <1>0, <2>1, HeldFacts DEF ShutStep
  <2> QED
    BY <1>0, <2>1, <2>2, EnqueueShape DEF shut
<1> QED
  BY <1>1, <1>2, <1>3, <1>4 DEF EnsureStep

LEMMA ClosedShape ==
    ASSUME IInv, QueueStep, ShutStep, Closes, nHolders' = nHolders,
           \A h \in Holders : conn'[h] \in {conn[h], ClosedConn(h)}
    PROVE  StepShape
<1>1. nHolders \in Nat
  BY DEF IInv, RestOK
<1>2. Opened
  BY DEF Opened, ClosedConn
<1> QED
  BY <1>1, <1>2 DEF StepShape

LEMMA CloserStepShape ==
    ASSUME IInv, NEW c \in Closers, CloserStep(c)
    PROVE  StepShape
<1> USE DEF pool, conns
<1>0. c \in Tasks
  BY DEF Tasks
<1>1. CASE Close(c)
  <2> DEFINE pcs == [pc EXCEPT ![c] = "closing"]
  <2>1. /\ closing' = "closing" /\ CancelAllPending(pcs)
        /\ UNCHANGED <<nHolders, free, held>>
        /\ conn' = [h \in Holders |->
                        IF h \in NotInUse THEN ClosedConn(h) ELSE conn[h]]
    BY <1>1 DEF Close
  <2>2. \A t \in Tasks : pcs[t] \in {pc[t], "closing"}
    BY <1>0 DEF IInv, CallsOK
  <2> HIDE DEF pcs
  <2>3. Cancelled(pcs)
    BY <2>1, <2>2 DEF Cancelled
  <2>4. ShutStep /\ Closes
    BY <1>1 DEF ShutStep, Closes
  <2> QED
    BY <2>1, <2>3, <2>4, ClosedShape DEF QueueStep
<1>2. CASE CloseFinish(c)
  <2>1. /\ pc[c] = "closing" /\ Goto(c, "done")
        /\ UNCHANGED <<pool, conns, held>>
    BY <1>2 DEF CloseFinish
  <2>2. Moved(c, "done")
    BY <2>1 DEF Moved
  <2> QED
    BY <1>0, <1>2, <2>1, <2>2, PlainShape DEF QueueStep, ShutStep
<1>3. CASE CloseAgain(c)
  BY <1>0, <1>3, MovedShape DEF CloseAgain
<1>4. CASE CloseReturn(c)
  BY <1>0, <1>4, MovedShape DEF CloseReturn
<1> QED
  BY <1>1, <1>2, <1>3, <1>4 DEF CloserStep

LEMMA ConnLostShape ==
    ASSUME IInv, NEW h, ConnLost(h)
    PROVE  StepShape
<1>1. /\ conn' = [conn EXCEPT ![h] = "lost"]
      /\ UNCHANGED <<pool, shut, inUse, pc, held>>
  BY DEF ConnLost
<1>2. \A g \in Holders : conn'[g] = conn[g] \/ conn'[g] = "lost"
  BY <1>1 DEF IInv, RestOK
<1>3. Opened /\ \A g \in Holders : conn'[g] = "closed" => conn[g] = "closed"
  BY <1>2 DEF Opened
<1>4. nHolders \in Nat
  BY DEF IInv, RestOK
<1> QED
  BY <1>1, <1>3, <1>4 DEF StepShape, QueueStep, ShutStep, shut, pool

LEMMA NextShape == ASSUME IInv, [Next]_vars PROVE StepShape
<1>1. CASE \E t \in Ops : OpStep(t)
  BY <1>1, OpStepShape
<1>2. CASE \E t \in Ensures : EnsureStep(t)
  BY <1>2, EnsureStepShape
<1>3. CASE \E c \in Closers : CloserStep(c)
  BY <1>3, CloserStepShape
<1>4. CASE \E h \in Holders : CloseHolder(h)
  <2> PICK h \in Holders : CloseHolder(h)
    BY <1>4
  <2>1. /\ conn' = [conn EXCEPT ![h] = ClosedConn(h)]
        /\ UNCHANGED <<pool, closing, pc, held>>
    BY DEF CloseHolder
  <2>2. \A g \in Holders : conn'[g] \in {conn[g], ClosedConn(g)}
    BY <2>1 DEF IInv, RestOK
  <2>3. QueueStep /\ ShutStep /\ Closes
    BY <2>1 DEF QueueStep, ShutStep, Closes, pool
  <2> QED
    BY <2>1, <2>2, <2>3, ClosedShape DEF pool
<1>5. CASE \E t \in Transactions : TransactionTimeout(t)
  BY <1>5, ConnLostShape DEF TransactionTimeout
<1>6. CASE \E h \in Holders : ConnLost(h)
  BY <1>6, ConnLostShape
<1>7. CASE Terminate
  <2>1. /\ CancelAllPending(pc) /\ closing' # "open"
        /\ conn' = [h \in Holders |-> ClosedConn(h)]
        /\ UNCHANGED <<nHolders, free, held>>
    BY <1>7 DEF Terminate
  <2>2. Cancelled(pc)
    BY <2>1 DEF Cancelled
  <2>3. QueueStep /\ ShutStep /\ Closes
    BY <1>7, <2>2 DEF QueueStep, ShutStep, Closes
  <2> QED
    BY <2>1, <2>3, ClosedShape
<1>8. CASE AllDone \/ UNCHANGED vars
  <2>1. UNCHANGED vars
    BY <1>8 DEF AllDone
  <2> QED
    BY <2>1, PlainShape DEF vars, QueueStep, ShutStep, shut
<1> QED
  BY <1>1, <1>2, <1>3, <1>4, <1>5, <1>6, <1>7, <1>8 DEF Next

-----------------------------------------------------------------------------
(* Waiting calls.                                                          *)

\* Pushing holders serves the calls at the head of the queue and no others.
LEMMA PushedFacts ==
    ASSUME IInv, NEW t \in Tasks, NEW hs, NEW next, NEW h, Pushed(t, hs, next, h)
    PROVE  /\ \A u \in Tasks :
                 IF u \in Served(hs) THEN pc'[u] = "granted"
                 ELSE /\ pc'[u] = IF u = t THEN next ELSE pc[u]
                      /\ held'[u] = IF u = t THEN h ELSE held[u]
           /\ \A i \in DOMAIN waiters : waiters[i] \in Served(hs) <=> i <= Len(hs)
           /\ waiters = <<>> => waiters' = <<>> /\ Served(hs) = {}
           /\ waiters' # <<>> => waiters # <<>> /\ free' = free
<1>1. /\ waiters \in Seq(Users) /\ free \in Seq(1..nHolders) /\ WaitersOnce
      /\ Len(hs) \in Nat /\ DOMAIN hs = 1..Len(hs)
      /\ pc \in [Tasks -> UserStates \cup CloserStates]
      /\ held \in [Tasks -> 0..nHolders]
  BY DEF IInv, CallsOK, Pushed
<1>2. /\ waiters' = SubSeq(waiters, Len(hs) + 1, Len(waiters))
      /\ free' = free \o SubSeq(hs, Len(waiters) + 1, Len(hs))
      /\ \A u \in Tasks :
            /\ pc'[u] = IF u \in Served(hs) THEN "granted"
                        ELSE [pc EXCEPT ![t] = next][u]
            /\ held'[u] = IF u \in Served(hs) THEN ServedWith(u, hs)
                          ELSE [held EXCEPT ![t] = h][u]
  BY DEF Pushed, PushAll
<1>3. Len(waiters) \in Nat /\ DOMAIN waiters = 1..Len(waiters)
  BY <1>1
<1>4. \A i \in DOMAIN waiters : waiters[i] \in Served(hs) <=> i <= Len(hs)
  <2>1. \A i : i \in DOMAIN waiters \cap DOMAIN hs
                   <=> i \in DOMAIN waiters /\ i <= Len(hs)
    BY <1>1, <1>3
  <2>2. \A i, j \in DOMAIN waiters : waiters[i] = waiters[j] => i = j
    BY <1>1 DEF WaitersOnce
  <2> QED
    BY <2>1, <2>2 DEF Served, Turn
<1>5. waiters = <<>> => waiters' = <<>> /\ Served(hs) = {}
  <2> SUFFICES ASSUME waiters = <<>> PROVE waiters' = <<>> /\ Served(hs) = {}
    OBVIOUS
  <2>1. Len(waiters) = 0 /\ DOMAIN waiters = {}
    OBVIOUS
  <2>2. waiters' = <<>>
    BY <1>1, <1>2, <2>1
  <2> QED
    BY <2>1, <2>2 DEF Served
<1>6. waiters' # <<>> => waiters # <<>> /\ free' = free
  <2> SUFFICES ASSUME waiters' # <<>> PROVE waiters # <<>> /\ free' = free
    OBVIOUS
  <2>1. Len(hs) < Len(waiters)
    BY <1>1, <1>2, <1>3
  <2>2. SubSeq(hs, Len(waiters) + 1, Len(hs)) = <<>>
    BY <1>1, <1>3, <2>1
  <2> QED
    BY <1>1, <1>2, <1>5, <2>2
<1>7. \A u \in Tasks :
          IF u \in Served(hs) THEN pc'[u] = "granted"
          ELSE /\ pc'[u] = IF u = t THEN next ELSE pc[u]
               /\ held'[u] = IF u = t THEN h ELSE held[u]
  BY <1>1, <1>2
<1> QED
  BY <1>4, <1>5, <1>6, <1>7

\* Nobody waits while a holder is free, and once the client shuts down nobody
\* waits at all.
LEMMA StepNoLostWakeup ==
    ASSUME IInv, NoLostWakeup, QueueStep, closing # "open" => closing' # "open",
           closing' = closing \/ closing # "open" \/ waiters' = <<>>
    PROVE  NoLostWakeup'
<1>1. CASE UNCHANGED <<free, waiters, pc, held, closing>>
  BY <1>1 DEF NoLostWakeup
<1>2. CASE \E t \in Tasks : \E next : Moved(t, next)
  <2>1. UNCHANGED <<free, waiters>>
    BY <1>2 DEF Moved
  <2> QED
    BY <2>1 DEF NoLostWakeup
<1>3. CASE \E t \in Users : Taken(t)
  <2> PICK t \in Users : Taken(t)
    BY <1>3
  <2>1. CASE free # <<>>
    BY <2>1 DEF Taken, Get, NoLostWakeup
  <2>2. CASE free = <<>>
    BY <2>2 DEF Taken, Get, NoLostWakeup
  <2> QED
    BY <2>1, <2>2
<1>4. CASE \E t \in Tasks : \E hs, next, h : Pushed(t, hs, next, h)
  <2> PICK t \in Tasks : \E hs, next, h : Pushed(t, hs, next, h)
    BY <1>4
  <2> PICK hs, next, h : Pushed(t, hs, next, h)
    OBVIOUS
  <2>1. closing' = closing
    BY DEF Pushed
  <2> QED
    BY <2>1, PushedFacts DEF NoLostWakeup
<1>5. CASE \E pcs : Cancelled(pcs)
  BY <1>5 DEF Cancelled, CancelAllPending, NoLostWakeup
<1> QED
  BY <1>1, <1>2, <1>3, <1>4, <1>5 DEF QueueStep

\* The calls that wait are served in the order in which they came.
LEMMA StepServedInOrder ==
    ASSUME IInv, QueueStep,
           NEW i \in DOMAIN waiters, NEW j \in DOMAIN waiters,
           i < j, pc'[waiters[j]] = "granted"
    PROVE  pc'[waiters[i]] # "waiting"
<1>1. /\ pc[waiters[i]] = "waiting" /\ pc[waiters[j]] = "waiting"
      /\ waiters[i] \in Tasks /\ waiters[j] \in Tasks
      /\ i \in Nat /\ j \in Nat
      /\ pc \in [Tasks -> UserStates \cup CloserStates]
  BY DEF IInv, CallsOK, WaitersWait, Tasks
<1>2. CASE UNCHANGED <<free, waiters, pc, held, closing>>
  BY <1>1, <1>2
<1>3. CASE \E t \in Tasks : \E next : Moved(t, next)
  BY <1>1, <1>3 DEF Moved, Goto
<1>4. CASE \E t \in Users : Taken(t)
  BY <1>1, <1>4 DEF Taken, Get
<1>5. CASE \E t \in Tasks : \E hs, next, h : Pushed(t, hs, next, h)
  <2> PICK t \in Tasks : \E hs, next, h : Pushed(t, hs, next, h)
    BY <1>5
  <2> PICK hs, next, h : Pushed(t, hs, next, h)
    OBVIOUS
  <2>1. pc[t] # "waiting" /\ next # "granted" /\ Len(hs) \in Nat
    BY DEF Pushed, IInv, CallsOK, HandsMatch, Holding
  <2>2. waiters[j] \in Served(hs)
    BY <1>1, <2>1, PushedFacts
  <2>3. waiters[i] \in Served(hs)
    BY <1>1, <2>1, <2>2, PushedFacts
  <2> QED
    BY <1>1, <2>3, PushedFacts
<1>6. CASE \E pcs : Cancelled(pcs)
  <2>1. waiters[j] \in ToSet(waiters)
    BY DEF ToSet
  <2> QED
    BY <1>1, <1>6, <2>1 DEF Cancelled, CancelAllPending
<1> QED
  BY <1>2, <1>3, <1>4, <1>5, <1>6 DEF QueueStep

-----------------------------------------------------------------------------
(* The shutdown.                                                           *)

\* A connection is open on a holder that the pool has.
Fresh == \A h \in Holders : conn[h] = "open" => h <= nHolders

ClosersClose == \A c \in Closers : pc[c] = "closing" => closing # "open"

\* close() awaits nothing before it has begun.
Waits == closing = "open" => \A h \in Holders : closeWait[h] = "settled"

\* A holder whose release close() has noticed is not taken again.
Resumed ==
    \A h \in Holders : closeWait[h] = "resumed" =>
        ~inUse[h] /\ \A t \in Tasks : held[t] # h

\* While close() is pending, it awaits the holders that it did not miss.
Reached ==
    closing = "closing" =>
        /\ \A t \in Users : held[t] # 0 =>
               held[t] \in raced \/ closeWait[held[t]] = "waiting"
        /\ \A h \in Holders : conn[h] = "open" =>
               h \in raced \/ closeWait[h] # "settled"

\* After the shutdown only the missed holders have, or get, a connection.
Closed ==
    closing = "closed" =>
        /\ \A h \in Holders : conn[h] = "open" => h \in raced
        /\ \A t \in Users : pc[t] = "connecting" => held[t] \in raced

Shutdown ==
    /\ NoLostWakeup /\ Fresh /\ ClosersClose
    /\ Waits /\ Resumed /\ Reached /\ Closed

\* A shutdown is not undone.
LEMMA StaysClosing ==
    ASSUME ShutStep, closing # "open"
    PROVE  closing' # "open"
BY DEF ShutStep, Close, CloseFinish, CloseHolder, Acquire, Release, Terminate, shut

\* From then on no call gets a holder, and after its end none that is not at
\* it already connects.
LEMMA Quiet ==
    ASSUME IInv, NoLostWakeup, QueueStep, closing # "open", NEW u \in Tasks
    PROVE  /\ held'[u] \in {0, held[u]}
           /\ closing = "closed" /\ pc'[u] = "connecting" =>
                  pc[u] = "connecting" /\ held'[u] = held[u]
<1>0. waiters = <<>> /\ pc \in [Tasks -> UserStates \cup CloserStates]
  BY DEF NoLostWakeup, IInv, CallsOK
<1>1. CASE UNCHANGED <<free, waiters, pc, held, closing>>
  BY <1>1
<1>2. CASE \E t \in Tasks : \E next : Moved(t, next)
  BY <1>0, <1>2 DEF Moved, Goto
<1>3. CASE \E t \in Users : Taken(t)
  BY <1>3 DEF Taken
<1>4. CASE \E t \in Tasks : \E hs, next, h : Pushed(t, hs, next, h)
  <2> PICK t \in Tasks : \E hs, next, h : Pushed(t, hs, next, h)
    BY <1>4
  <2> PICK hs, next, h : Pushed(t, hs, next, h)
    OBVIOUS
  <2>1. h \in {0, held[t]} /\ next # "connecting"
    BY DEF Pushed
  <2>2. /\ pc'[u] = IF u = t THEN next ELSE pc[u]
        /\ held'[u] = IF u = t THEN h ELSE held[u]
    BY <1>0, PushedFacts
  <2> QED
    BY <2>1, <2>2
<1>5. CASE \E pcs : Cancelled(pcs)
  BY <1>5 DEF Cancelled, CancelAllPending
<1> QED
  BY <1>1, <1>2, <1>3, <1>4, <1>5 DEF QueueStep

LEMMA StepFresh ==
    ASSUME IInv, Fresh, StepShape
    PROVE  Fresh'
<1>1. nHolders \in Nat /\ nHolders' \in Nat /\ nHolders <= nHolders'
  BY DEF StepShape
<1>2. \A t \in Users : held[t] \in Nat /\ held[t] <= nHolders
  BY <1>1 DEF IInv, CallsOK, Tasks
<1>3. \A h \in Holders : h \in Nat
  BY DEF Holders
<1>4. \A h \in Holders : conn'[h] = "open" => h <= nHolders
  BY <1>2 DEF StepShape, Opened, Fresh
<1> QED
  BY <1>1, <1>3, <1>4 DEF Fresh

LEMMA StepClosersClose ==
    ASSUME IInv, ClosersClose, QueueStep, ShutStep
    PROVE  ClosersClose'
<1> SUFFICES ASSUME NEW c \in Closers, pc'[c] = "closing", closing' = "open"
             PROVE  FALSE
  BY DEF ClosersClose
<1>0. /\ closing = "open" /\ pc[c] # "closing" /\ c \in Tasks
      /\ pc \in [Tasks -> UserStates \cup CloserStates]
  BY StaysClosing DEF ClosersClose, Tasks, IInv, CallsOK
<1>1. CASE UNCHANGED <<free, waiters, pc, held, closing>>
  BY <1>0, <1>1
<1>2. CASE \E t \in Tasks : \E next : Moved(t, next)
  BY <1>0, <1>2 DEF Moved, Goto
<1>3. CASE \E t \in Users : Taken(t)
  BY <1>0, <1>3 DEF Taken, Get
<1>4. CASE \E t \in Tasks : \E hs, next, h : Pushed(t, hs, next, h)
  <2> PICK t \in Tasks : \E hs, next, h : Pushed(t, hs, next, h)
    BY <1>4
  <2> PICK hs, next, h : Pushed(t, hs, next, h)
    OBVIOUS
  <2>1. next # "closing"
    BY DEF Pushed
  <2> QED
    BY <1>0, <2>1, PushedFacts
<1>5. CASE \E pcs : Cancelled(pcs)
  BY <1>5 DEF Cancelled
<1> QED
  BY <1>1, <1>2, <1>3, <1>4, <1>5 DEF QueueStep

LEMMA InitShutdown == Init => Shutdown
<1> SUFFICES ASSUME Init PROVE Shutdown
  OBVIOUS
<1>1. /\ waiters = <<>> /\ closing = "open"
      /\ \A h \in Holders : conn[h] = "none" /\ closeWait[h] = "settled"
      /\ \A t \in Tasks : pc[t] = "idle"
  BY DEF Init
<1> QED
  BY <1>1 DEF Shutdown, NoLostWakeup, Fresh, ClosersClose, Waits, Resumed,
              Reached, Closed, Tasks

\* A step that does nothing to the shutdown; a holder is marked in use by the
\* call that has it.
LEMMA OtherShutdown ==
    ASSUME IInv, Shutdown, StepShape, UNCHANGED <<closing, closeWait, raced>>,
           \A h \in Holders :
               inUse'[h] => inUse[h] \/ \E t \in Tasks : held[t] = h
    PROVE  Waits' /\ Resumed' /\ Reached' /\ Closed'
<1>1. \A h \in Holders : h # 0
  BY DEF Holders
<1>2. \A h \in Holders :
          conn'[h] = "open" =>
              \/ conn[h] = "open"
              \/ \E t \in Users : pc[t] = "connecting" /\ held[t] = h
  BY DEF StepShape, Opened
<1>3. closing # "open" =>
          \A u \in Tasks :
              /\ held'[u] \in {0, held[u]}
              /\ closing = "closed" /\ pc'[u] = "connecting" =>
                     pc[u] = "connecting" /\ held'[u] = held[u]
  BY Quiet DEF Shutdown, StepShape
<1>4. Waits'
  BY DEF Shutdown, Waits
<1>5. Resumed'
  <2> SUFFICES ASSUME NEW h \in Holders, closeWait[h] = "resumed"
               PROVE  ~inUse'[h] /\ \A t \in Tasks : held'[t] # h
    BY DEF Resumed
  <2>1. closing # "open" /\ ~inUse[h] /\ \A t \in Tasks : held[t] # h
    BY DEF Shutdown, Waits, Resumed
  <2> QED
    BY <1>1, <1>3, <2>1
<1>6. Reached'
  <2> SUFFICES ASSUME closing = "closing" PROVE Reached'
    BY DEF Reached
  <2>1. \A t \in Users : held[t] # 0 =>
            held[t] \in raced \/ closeWait[held[t]] = "waiting"
    BY DEF Shutdown, Reached
  <2>2. \A t \in Users : held'[t] # 0 =>
            held'[t] \in raced \/ closeWait[held'[t]] = "waiting"
    BY <1>3, <2>1 DEF Tasks
  <2>3. \A h \in Holders : conn'[h] = "open" => h \in raced \/ closeWait[h] # "settled"
    BY <1>1, <1>2, <2>1 DEF Shutdown, Reached
  <2> QED
    BY <2>2, <2>3 DEF Reached
<1>7. Closed'
  BY <1>2, <1>3 DEF Shutdown, Closed, Tasks
<1> QED
  BY <1>4, <1>5, <1>6, <1>7

\* A call gives its holder back, and wakes the close() that awaits it.
LEMMA ReleaseShutdown ==
    ASSUME IInv, Shutdown, StepShape, NEW t \in Ops, Release(t)
    PROVE  Waits' /\ Resumed' /\ Reached' /\ Closed'
<1>0. /\ t \in Tasks /\ pc[t] \in Holding
      /\ closeWait' = WakeCloser(held[t]) /\ inUse' = Unmark(held[t])
      /\ Enqueue(t, "done") /\ UNCHANGED <<conn, closing, raced>>
  BY DEF Release, IsReset, Holding, Tasks, Users, conns
<1>1. /\ held[t] \in Holders /\ held[t] # 0
      /\ \A h \in Holders :
            /\ h # 0
            /\ closeWait'[h] = IF h = held[t] /\ closeWait[h] = "waiting"
                               THEN "resumed" ELSE closeWait[h]
            /\ inUse'[h] <=> h # held[t] /\ inUse[h]
  BY <1>0, HeldFacts DEF IInv, RestOK, WakeCloser, Unmark, Holders
<1>2. \A u \in Tasks : u # t => held[u] # held[t]
  BY <1>0, <1>1 DEF IInv, CallsOK, HolderInOnePlace, HeldOnce
<1>3. closing # "open" =>
          \A u \in Tasks :
              /\ held'[u] = IF u = t THEN 0 ELSE held[u]
              /\ pc'[u] = IF u = t THEN "done" ELSE pc[u]
  <2> SUFFICES ASSUME closing # "open", NEW u \in Tasks
               PROVE  /\ held'[u] = IF u = t THEN 0 ELSE held[u]
                      /\ pc'[u] = IF u = t THEN "done" ELSE pc[u]
    OBVIOUS
  <2>1. waiters = <<>>
    BY DEF Shutdown, NoLostWakeup
  <2>2. DOMAIN waiters = {}
    BY <2>1
  <2>3. Served(<<held[t]>>) = {}
    BY <2>2 DEF Served
  <2> QED
    BY <1>0, <2>3 DEF Enqueue, PushAll, IInv, CallsOK
<1>4. Waits'
  BY <1>0, <1>1 DEF Shutdown, Waits
<1>5. Resumed'
  <2> SUFFICES ASSUME NEW h \in Holders, closeWait'[h] = "resumed"
               PROVE  ~inUse'[h] /\ \A u \in Tasks : held'[u] # h
    BY DEF Resumed
  <2>1. closeWait[h] # "settled"
    BY <1>1
  <2>2. closing # "open"
    BY <2>1 DEF Shutdown, Waits
  <2>3. CASE h = held[t]
    BY <1>1, <1>2, <1>3, <2>2, <2>3
  <2>4. CASE h # held[t]
    <3>1. ~inUse[h] /\ \A u \in Tasks : held[u] # h
      BY <1>1, <2>4 DEF Shutdown, Resumed
    <3> QED
      BY <1>1, <1>3, <2>2, <2>4, <3>1
  <2> QED
    BY <2>3, <2>4
<1>6. Reached'
  <2> SUFFICES ASSUME closing = "closing" PROVE Reached'
    BY <1>0 DEF Reached
  <2>1. /\ \A u \in Users : held[u] # 0 =>
               held[u] \in raced \/ closeWait[held[u]] = "waiting"
        /\ \A h \in Holders : conn[h] = "open" =>
               h \in raced \/ closeWait[h] # "settled"
    BY DEF Shutdown, Reached
  <2>2. \A u \in Users : u \in Tasks /\ (held[u] # 0 => held[u] \in Holders)
    <3>1. MaxHolders \in Nat
      BY ConcurrencyAssumption
    <3> QED
      BY <3>1 DEF IInv, CallsOK, RestOK, Holders, Tasks
  <2>3. \A u \in Users : held'[u] # 0 =>
            held'[u] \in raced \/ closeWait'[held'[u]] = "waiting"
    BY <1>1, <1>2, <1>3, <2>1, <2>2
  <2>4. \A h \in Holders : conn[h] = "open" => h \in raced \/ closeWait'[h] # "settled"
    BY <1>1, <2>1
  <2> QED
    BY <1>0, <2>3, <2>4 DEF Reached
<1>7. Closed'
  BY <1>0, <1>3 DEF Shutdown, Closed, Tasks
<1> QED
  BY <1>4, <1>5, <1>6, <1>7

\* close() begins: it closes what nobody uses and awaits what somebody uses;
\* what somebody has taken and does not use is missed.
LEMMA CloseShutdown ==
    ASSUME IInv, Shutdown, NEW c \in Closers, Close(c)
    PROVE  Waits' /\ Resumed' /\ Reached' /\ Closed'
<1>1. /\ closing = "open" /\ closing' = "closing"
      /\ CancelAllPending([pc EXCEPT ![c] = "closing"])
      /\ conn' = [h \in Holders |->
                      IF h \in NotInUse THEN ClosedConn(h) ELSE conn[h]]
      /\ closeWait' = [h \in Holders |-> IF h \in 1..nHolders \ NotInUse
                                         THEN "waiting" ELSE closeWait[h]]
      /\ raced' = raced \cup TakenNotInUse
      /\ UNCHANGED <<nHolders, inUse, held>>
  BY DEF Close
<1>2. /\ nHolders \in Nat /\ MaxHolders \in Nat /\ nHolders <= MaxHolders
      /\ \A t \in Users : held[t] \in 0..nHolders
      /\ \A h \in Holders : h \in Nat /\ h # 0
  BY ConcurrencyAssumption DEF IInv, CallsOK, RestOK, Holders, Tasks
<1>3. \A h \in Holders : h \in 1..nHolders <=> h <= nHolders
  BY <1>2
<1>4. \A h \in Holders : h \in NotInUse <=> h <= nHolders /\ ~inUse[h]
  BY <1>3 DEF NotInUse
<1>5. \A h \in Holders :
          closeWait'[h] = IF h <= nHolders /\ inUse[h] THEN "waiting" ELSE "settled"
  BY <1>1, <1>3, <1>4 DEF Shutdown, Waits
<1>6. Waits' /\ Resumed' /\ Closed'
  BY <1>1, <1>5 DEF Waits, Resumed, Closed
<1>7. \A t \in Users : held[t] # 0 => held[t] \in raced' \/ closeWait'[held[t]] = "waiting"
  <2> SUFFICES ASSUME NEW t \in Users, held[t] # 0
               PROVE  held[t] \in raced' \/ closeWait'[held[t]] = "waiting"
    OBVIOUS
  <2>1. held[t] \in Holders /\ held[t] <= nHolders
    BY <1>2 DEF Holders
  <2>2. CASE inUse[held[t]]
    BY <1>5, <2>1, <2>2
  <2>3. CASE ~inUse[held[t]]
    BY <1>1, <2>3 DEF TakenNotInUse
  <2> QED
    BY <2>2, <2>3
<1>8. \A h \in Holders : conn'[h] = "open" => closeWait'[h] # "settled"
  <2> SUFFICES ASSUME NEW h \in Holders, conn'[h] = "open"
               PROVE  closeWait'[h] # "settled"
    OBVIOUS
  <2>1. h \notin NotInUse /\ conn[h] = "open"
    BY <1>1 DEF ClosedConn
  <2>2. h <= nHolders
    BY <2>1 DEF Shutdown, Fresh
  <2> QED
    BY <1>4, <1>5, <2>1, <2>2
<1> QED
  BY <1>1, <1>6, <1>7, <1>8 DEF Reached

\* close() has awaited every holder that it did not miss.
LEMMA CloseFinishShutdown ==
    ASSUME IInv, Shutdown, NEW c \in Closers, CloseFinish(c)
    PROVE  NoLostWakeup' /\ Waits' /\ Resumed' /\ Reached' /\ Closed'
<1>1. /\ pc[c] = "closing" /\ closing' = "closed" /\ Goto(c, "done")
      /\ \A h \in Holders : closeWait[h] = "settled"
      /\ UNCHANGED <<free, waiters, conn, closeWait, inUse, held, raced>>
  BY DEF CloseFinish, pool, conns
<1>2. closing \in {"closing", "closed"} /\ waiters = <<>>
  BY <1>1 DEF Shutdown, ClosersClose, NoLostWakeup, IInv, RestOK
<1>3. NoLostWakeup' /\ Waits' /\ Resumed' /\ Reached'
  BY <1>1, <1>2 DEF Shutdown, NoLostWakeup, Waits, Resumed, Reached
<1>4. \A t \in Users : pc'[t] = "connecting" =>
          pc[t] = "connecting" /\ held[t] \in Holders /\ held[t] # 0
  <2> SUFFICES ASSUME NEW t \in Users, pc'[t] = "connecting"
               PROVE  pc[t] = "connecting" /\ held[t] \in Holders /\ held[t] # 0
    OBVIOUS
  <2>1. t \in Tasks /\ pc[t] = "connecting"
    BY <1>1 DEF Goto, IInv, CallsOK, Tasks
  <2> QED
    BY <2>1, HeldFacts DEF Holding
<1>5. Closed'
  <2>1. CASE closing = "closed"
    BY <1>1, <1>4, <2>1 DEF Shutdown, Closed
  <2>2. CASE closing = "closing"
    BY <1>1, <1>4, <2>2 DEF Shutdown, Reached, Closed
  <2> QED
    BY <1>2, <2>1, <2>2
<1> QED
  BY <1>3, <1>5

\* close() closes a holder that has been given back.
LEMMA CloseHolderShutdown ==
    ASSUME IInv, Shutdown, NEW h \in Holders, CloseHolder(h)
    PROVE  Waits' /\ Resumed' /\ Reached' /\ Closed'
<1>1. /\ closeWait[h] = "resumed"
      /\ closeWait' = [closeWait EXCEPT ![h] = "settled"]
      /\ conn' = [conn EXCEPT ![h] = ClosedConn(h)]
      /\ UNCHANGED <<closing, inUse, pc, held, raced>>
  BY DEF CloseHolder
<1>2. \A g \in Holders : /\ closeWait'[g] = IF g = h THEN "settled" ELSE closeWait[g]
                         /\ conn'[g] = "open" => conn[g] = "open" /\ g # h
  BY <1>1 DEF IInv, RestOK, ClosedConn
<1>3. Waits' /\ Resumed' /\ Closed'
  BY <1>1, <1>2 DEF Shutdown, Waits, Resumed, Closed
<1>4. \A t \in Users : held[t] # h
  BY <1>1 DEF Shutdown, Resumed, Tasks
<1>5. Reached'
  <2> SUFFICES ASSUME closing = "closing" PROVE Reached'
    BY <1>1 DEF Reached
  <2>1. /\ \A t \in Users : held[t] # 0 =>
               held[t] \in raced \/ closeWait[held[t]] = "waiting"
        /\ \A g \in Holders : conn[g] = "open" =>
               g \in raced \/ closeWait[g] # "settled"
    BY DEF Shutdown, Reached
  <2>2. \A t \in Users : closeWait[held[t]] = "waiting" =>
            closeWait'[held[t]] = "waiting"
    BY <1>1, <1>4 DEF IInv, RestOK
  <2> QED
    BY <1>1, <1>2, <2>1, <2>2 DEF Reached
<1> QED
  BY <1>3, <1>5

\* terminate() closes every connection, and misses those being made unless a
\* close() is pending, which awaits them.
LEMMA TerminateShutdown ==
    ASSUME IInv, Shutdown, Terminate
    PROVE  Waits' /\ Resumed' /\ Reached' /\ Closed'
<1>1. /\ closing # "closed"
      /\ CancelAllPending(pc)
      /\ conn' = [h \in Holders |-> ClosedConn(h)]
      /\ closing' = IF closing = "open" THEN "closed" ELSE closing
      /\ raced' = IF closing = "open" THEN raced \cup Connecting ELSE raced
      /\ UNCHANGED <<inUse, held, closeWait>>
  BY DEF Terminate
<1>2. \A h \in Holders : conn'[h] # "open"
  BY <1>1 DEF ClosedConn
<1>3. closing' # "open" /\ (closing' = "closing" => closing = "closing" /\ raced' = raced)
  BY <1>1
<1>4. Waits' /\ Resumed'
  BY <1>1, <1>3 DEF Shutdown, Waits, Resumed
<1>5. Reached'
  BY <1>1, <1>2, <1>3 DEF Shutdown, Reached
<1>6. closing' = "closed" => raced' = raced \cup Connecting
  BY <1>1
<1>7. \A t \in Users : pc'[t] = "connecting" => pc[t] = "connecting"
  BY <1>1 DEF CancelAllPending, Tasks
<1>8. Closed'
  BY <1>1, <1>2, <1>6, <1>7 DEF Closed, Connecting
<1> QED
  BY <1>4, <1>5, <1>8

LEMMA NextShutdown ==
    ASSUME IInv, Shutdown, [Next]_vars
    PROVE  Shutdown'
<1>1. StepShape /\ QueueStep /\ ShutStep
  BY NextShape DEF StepShape
<1>2. Fresh' /\ ClosersClose'
  BY <1>1, StepFresh, StepClosersClose DEF Shutdown
<1>3. closing # "open" => closing' # "open"
  BY <1>1, StaysClosing
<1>4. ASSUME UNCHANGED closing PROVE NoLostWakeup'
  BY <1>1, <1>3, <1>4, StepNoLostWakeup DEF Shutdown
<1>5. ASSUME waiters' = <<>> PROVE NoLostWakeup'
  BY <1>5 DEF NoLostWakeup
<1>6. CASE \E c \in Closers : Close(c)
  <2> PICK c \in Closers : Close(c)
    BY <1>6
  <2>1. NoLostWakeup'
    BY <1>5 DEF Close, CancelAllPending
  <2> QED
    BY <1>2, <2>1, CloseShutdown DEF Shutdown
<1>7. CASE \E c \in Closers : CloseFinish(c)
  BY <1>2, <1>7, CloseFinishShutdown DEF Shutdown
<1>8. CASE \E h \in Holders : CloseHolder(h)
  <2> PICK h \in Holders : CloseHolder(h)
    BY <1>8
  <2>1. NoLostWakeup'
    BY <1>4 DEF CloseHolder
  <2> QED
    BY <1>2, <2>1, CloseHolderShutdown DEF Shutdown
<1>9. CASE \E t \in Ops : Release(t)
  <2> PICK t \in Ops : Release(t)
    BY <1>9
  <2>1. NoLostWakeup'
    BY <1>4 DEF Release
  <2> QED
    BY <1>1, <1>2, <2>1, ReleaseShutdown DEF Shutdown
<1>10. CASE \E t \in Ops : Acquire(t)
  <2> PICK t \in Ops : Acquire(t)
    BY <1>10
  <2>1. /\ t \in Tasks /\ UNCHANGED <<closing, closeWait, raced>>
        /\ inUse' = inUse \/ inUse' = [inUse EXCEPT ![held[t]] = TRUE]
    BY DEF Acquire, shut, Tasks, Users
  <2>2. \A h \in Holders : inUse'[h] => inUse[h] \/ \E u \in Tasks : held[u] = h
    BY <2>1 DEF IInv, RestOK
  <2>3. NoLostWakeup'
    BY <1>4, <2>1
  <2>4. Waits' /\ Resumed' /\ Reached' /\ Closed'
    BY <1>1, <2>1, <2>2, OtherShutdown
  <2> QED
    BY <1>2, <2>3, <2>4 DEF Shutdown
<1>11. CASE Terminate
  <2>1. NoLostWakeup'
    BY <1>5, <1>11 DEF Terminate, CancelAllPending
  <2> QED
    BY <1>2, <1>11, <2>1, TerminateShutdown DEF Shutdown
<1>12. CASE UNCHANGED <<shut, inUse>>
  <2>1. UNCHANGED <<closing, closeWait, raced, inUse>>
    BY <1>12 DEF shut
  <2>2. NoLostWakeup'
    BY <1>4, <2>1
  <2>3. Waits' /\ Resumed' /\ Reached' /\ Closed'
    BY <1>1, <2>1, OtherShutdown
  <2> QED
    BY <1>2, <2>2, <2>3 DEF Shutdown
<1> QED
  BY <1>1, <1>6, <1>7, <1>8, <1>9, <1>10, <1>11, <1>12 DEF ShutStep

-----------------------------------------------------------------------------
(* The theorems.                                                           *)

LEMMA AlwaysShutdown == Spec => [](IInv /\ Shutdown)
<1>1. Init => IInv /\ Shutdown
  BY InitIInv, InitShutdown
<1>2. (IInv /\ Shutdown) /\ [Next]_vars => (IInv /\ Shutdown)'
  BY NextIInv, NextShutdown
<1> QED
  BY <1>1, <1>2, PTL DEF Spec

\* No interleaving of acquireHolder(), release(), resizing and shutdown leaves
\* a call waiting while a holder is free, or waiting once the client is shut
\* down (LifoQueue in the pool of src/client.ts).
THEOREM WakeupsNotLost == Spec => []NoLostWakeup
BY AlwaysShutdown, PTL DEF Shutdown

\* After close() or terminate() a connection is open only on a holder that was
\* taken and not marked as in use when close() looked, or that was connecting
\* when terminate() did (ClientPool.close() and terminate() in src/client.ts).
THEOREM OnlyMissedStayOpen == Spec => []OnlyRacedStayOpen
<1>1. Shutdown => OnlyRacedStayOpen
  BY DEF Shutdown, Closed, OnlyRacedStayOpen
<1> QED
  BY <1>1, AlwaysShutdown, PTL

\* close() never closes the connection of a holder that is in use: it closes
\* the idle ones at once and each other one after its release.
THEOREM ClosesGracefully == Spec => CloseIsGraceful
<1> DEFINE A == \A h \in Holders : inUse[h] /\ conn[h] = "open" /\ conn'[h] = "closed"
                                     => terminated'
<1>1. ASSUME IInv, Shutdown, [Next]_vars PROVE A
  <2> SUFFICES ASSUME NEW h \in Holders, inUse[h], conn[h] = "open",
                      conn'[h] = "closed"
               PROVE  terminated'
    OBVIOUS
  <2>1. Closes
    BY <1>1, NextShape DEF StepShape
  <2>2. ASSUME NEW c \in Closers, Close(c) PROVE FALSE
    BY <2>2 DEF Close, NotInUse
  <2>3. ASSUME NEW g \in Holders, CloseHolder(g) PROVE FALSE
    <3>1. g # h
      BY <1>1, <2>3 DEF CloseHolder, Shutdown, Resumed
    <3> QED
      BY <1>1, <2>3, <3>1 DEF CloseHolder, IInv, RestOK
  <2> QED
    BY <2>1, <2>2, <2>3 DEF Closes, Terminate
<1>2. IInv /\ Shutdown /\ [Next]_vars => [A]_vars
  BY <1>1
<1> HIDE DEF A
<1>3. Spec => [][A]_vars
  BY <1>2, AlwaysShutdown, PTL DEF Spec
<1> QED
  BY <1>3 DEF A, CloseIsGraceful

\* Calls that wait for a holder are served in the order in which they came,
\* whichever calls give holders back and however the pool grows.
THEOREM WaitersServedInOrder == Spec => ServedInOrder
<1> DEFINE A == \A i, j \in DOMAIN waiters :
                    i < j /\ pc'[waiters[j]] = "granted" => pc'[waiters[i]] # "waiting"
<1>1. ASSUME IInv, [Next]_vars PROVE A
  BY <1>1, NextShape, StepServedInOrder DEF StepShape
<1>2. IInv /\ [Next]_vars => [A]_vars
  BY <1>1
<1> HIDE DEF A
<1>3. Spec => [][A]_vars
  BY <1>2, AlwaysIInv, PTL DEF Spec
<1> QED
  BY <1>3 DEF A, ServedInOrder
=============================================================================
