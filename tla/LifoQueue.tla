----------------------------- MODULE LifoQueue -----------------------------
(***************************************************************************)
(* The queue of the pool (src/primitives/queues.ts).  The code keeps no    *)
(* items and no consumers: it keeps promises that get() returns, and the   *)
(* callbacks that settle them.  HandOff says what it promises.             *)
(*                                                                         *)
(* A resolver or a rejecter is named by the promise it settles.  A promise *)
(* that nobody can reach any more may be made again.                       *)
(***************************************************************************)
EXTENDS Naturals, Sequences, SequencesExt, FiniteSets

CONSTANTS
    Items,
    Consumers,   \* users of get()
    Promises,    \* the promises that can be reached at a time
    Null         \* no promise, no item

ASSUME NullAssumption == Null \notin Items \cup Promises

VARIABLES
    promises,    \* this._promises
    resolvers,   \* this._resolvers
    rejecters,   \* this._rejecters
    state,       \* each promise: pending, resolved or rejected
    value,       \* the item a promise was resolved with, or Null
    awaits,      \* the promise that get() returned to each consumer, or Null
    outside      \* items that the program has and the queue has not

queue == <<promises, resolvers, rejecters>>
vars  == <<promises, resolvers, rejecters, state, value, awaits, outside>>

Init ==
    /\ promises = <<>>
    /\ resolvers = <<>>
    /\ rejecters = <<>>
    /\ state = [p \in Promises |-> "pending"]
    /\ value = [p \in Promises |-> Null]
    /\ awaits = [c \in Consumers |-> Null]
    /\ outside = Items

\* Promises that nothing refers to.
Fresh == {p \in Promises :
              /\ p \notin ToSet(promises) \cup ToSet(resolvers) \cup ToSet(rejecters)
              /\ \A c \in Consumers : awaits[c] # p}

\* Faulty variant: pop() instead of shift().
Popped(s) == Front(s)

\* shift() leaves an empty array as it is.
Shifted(s) == IF s = <<>> THEN s ELSE Tail(s)

\* The first callback left after an append is always there.
Push(i) ==
    /\ i \in outside
    /\ outside' = outside \ {i}
    /\ \/ /\ resolvers # <<>>
          /\ state' = [state EXCEPT ![Head(resolvers)] = "resolved"]
          /\ value' = [value EXCEPT ![Head(resolvers)] = i]
          /\ resolvers' = Shifted(resolvers)
          /\ rejecters' = Shifted(rejecters)
          /\ UNCHANGED promises
       \/ /\ resolvers = <<>>
          /\ \E p \in Fresh :
                /\ state' = [state EXCEPT ![p] = "resolved"]
                /\ value' = [value EXCEPT ![p] = i]
                /\ promises' = Append(promises, p)
                /\ resolvers' = Shifted(Append(resolvers, p))
                /\ rejecters' = Shifted(Append(rejecters, p))
    /\ UNCHANGED awaits

Get(c) ==
    /\ awaits[c] = Null
    /\ \/ /\ promises # <<>>
          /\ awaits' = [awaits EXCEPT ![c] = Last(promises)]
          /\ promises' = Front(promises)
          /\ UNCHANGED <<resolvers, rejecters, state, value>>
       \/ /\ promises = <<>>
          /\ \E p \in Fresh :
                /\ state' = [state EXCEPT ![p] = "pending"]
                /\ value' = [value EXCEPT ![p] = Null]
                /\ resolvers' = Append(resolvers, p)
                /\ rejecters' = Append(rejecters, p)
                /\ awaits' = [awaits EXCEPT ![c] = p]
          /\ UNCHANGED promises
    /\ UNCHANGED outside

ClearedResolvers == <<>>

CancelAllPending ==
    /\ state' = [p \in Promises |->
                     IF p \in ToSet(rejecters) THEN "rejected" ELSE state[p]]
    /\ resolvers' = ClearedResolvers
    /\ rejecters' = <<>>
    /\ UNCHANGED <<promises, value, awaits, outside>>

\* The program: a consumer whose promise is settled is done with the item.
Leave(c) ==
    /\ awaits[c] # Null
    /\ state[awaits[c]] # "pending"
    /\ outside' = outside \cup ({value[awaits[c]]} \ {Null})
    /\ awaits' = [awaits EXCEPT ![c] = Null]
    /\ UNCHANGED <<queue, state, value>>

Next ==
    \/ \E i \in Items : Push(i)
    \/ \E c \in Consumers : Get(c) \/ Leave(c)
    \/ CancelAllPending

Spec == Init /\ [][Next]_vars

-----------------------------------------------------------------------------
(* Properties.                                                             *)

\* The types of the variables.
TypeOK ==
    /\ promises \in Seq(Promises)
    /\ resolvers \in Seq(Promises)
    /\ rejecters \in Seq(Promises)
    /\ state \in [Promises -> {"pending", "resolved", "rejected"}]
    /\ value \in [Promises -> Items \cup {Null}]
    /\ awaits \in [Consumers -> Promises \cup {Null}]
    /\ outside \subseteq Items

-----------------------------------------------------------------------------
(* What the arrays stand for.                                              *)

\* The consumer that awaits promise p.
Owner(p) == CHOOSE c \in Consumers : awaits[c] = p

stack == [k \in 1..Len(promises) |-> value[promises[k]]]
line  == [k \in 1..Len(resolvers) |-> Owner(resolvers[k])]
st    == [c \in Consumers |->
              IF awaits[c] = Null THEN "idle"
              ELSE IF state[awaits[c]] = "pending" THEN "waiting"
              ELSE IF state[awaits[c]] = "resolved" THEN "served" ELSE "failed"]
hand  == [c \in Consumers |->
              IF awaits[c] = Null THEN Null ELSE value[awaits[c]]]

Queue == INSTANCE HandOff WITH stack <- stack, line <- line, st <- st, hand <- hand

\* The arrays of promises and callbacks behave like a stack of items and a
\* line of consumers served in the order they came.
IsHandOff == Queue!Spec

\* The two errors of push() and get() that "can never happen" do not: the
\* queue keeps promises to return or callbacks to call, never both, and a
\* resolver and a rejecter for each promise that is still pending.
CallbacksPaired ==
    /\ promises = <<>> \/ resolvers = <<>>
    /\ rejecters = resolvers
    /\ \A k \in DOMAIN resolvers : state[resolvers[k]] = "pending"
=============================================================================
