----------------------------- MODULE ClientPool -----------------------------
(***************************************************************************)
(* The connection pool of the client (src/client.ts): ClientPool, its      *)
(* ClientConnectionHolders and the calls of Client that take a holder from *)
(* the pool, work on the holder's connection and give it back.             *)
(*                                                                         *)
(* JavaScript runs one continuation at a time, so an action is the code    *)
(* between two awaits of one call; between two actions of a call any other *)
(* call may run.  The order of the microtask queue is not modelled: every  *)
(* interleaving of continuations is allowed.  Each call runs once.         *)
(***************************************************************************)
EXTENDS Naturals, Integers, Sequences, SequencesExt

CONSTANTS
    Queries,          \* Client.query*() and Client.execute() calls
    Transactions,     \* Client.transaction() calls
    Ensures,          \* Client.ensureConnected() calls
    Closers,          \* Client.close() calls
    Parent,           \* Parent[q]: the transaction whose block awaits query q
    UserConcurrency,  \* the concurrency option, Null when it is not given
    Suggestions,      \* values of the server's suggested_pool_concurrency
    MaxHolders,       \* bound of the options and of the suggestions
    Attempts,         \* RetryOptions: attempts of one call
    AllowTerminate,   \* whether Client.terminate() may be called
    Null

Ops   == Queries \cup Transactions     \* calls that acquire a holder
Users == Ops \cup Ensures              \* calls that take one from the queue
Tasks == Users \cup Closers

Holders == 1..MaxHolders

ASSUME KindsAssumption ==
    /\ Queries \cap Transactions = {}
    /\ Ensures \cap Ops = {}
    /\ Closers \cap Users = {}
ASSUME ParentAssumption ==
    Parent \in [Queries -> Transactions \cup {Null}]
ASSUME ConcurrencyAssumption ==
    /\ MaxHolders \in Nat \ {0}
    /\ Null \notin Nat
    /\ UserConcurrency \in (0..MaxHolders) \cup {Null}
    /\ Suggestions \subseteq Holders
ASSUME AttemptsAssumption ==
    /\ Attempts \in Nat \ {0}
    /\ AllowTerminate \in BOOLEAN

VARIABLES
    nHolders,    \* pool._holders is the sequence 1..nHolders
    suggested,   \* pool._suggestedConcurrency
    free,        \* pool._queue: holders ready to be taken, the last first
    waiters,     \* pool._queue: calls waiting for a holder, in order
    closing,     \* pool._closing: null ("open"), pending, or done ("closed")
    closeWait,   \* close() for each holder: awaits inUse, resumed, or settled
    conn,        \* holder._connection: none, open, lost, closed by the client
    dirty,       \* the connection's last status is not TRANS_IDLE
    inUse,       \* holder._inUse is set
    pc,          \* where each call stands
    held,        \* the holder in the hands of each call, or 0
    iter,        \* retry iteration of each call
    raced,       \* history: holders close() or terminate() could not reach
    terminated   \* history: terminate() has taken effect

pool  == <<nHolders, suggested, free, waiters>>
conns == <<conn, dirty>>
shut  == <<closing, closeWait, raced, terminated>>
vars  == <<nHolders, suggested, free, waiters, closing, closeWait, conn, dirty,
           inUse, pc, held, iter, raced, terminated>>

\* Where a call may stand; "granted": queue.get() has been resolved with a
\* holder and the continuation has not run yet.
UserStates == {"idle", "waiting", "granted", "acquired", "connecting", "using",
               "backoff", "releasing", "resetting", "done"}
CloserStates == {"idle", "closing", "awaiting", "done"}

-----------------------------------------------------------------------------
(* The pool's size and its queue.                                          *)

\* "Faulty variant" marks a definition that is no part of the model: the one
\* after it as a plausible bug would have it, to show that a property notices.

Concurrency(s) ==
    IF UserConcurrency # Null THEN UserConcurrency
    ELSE IF s # Null THEN s ELSE 1

\* The holders that _resizeHolderPool() adds; it never removes one.
NewHolders(s) == [i \in 1..(Concurrency(s) - nHolders) |-> nHolders + i]

\* Faulty variant: the call that came last is served first.
LastTurn(i) == waiters[Len(waiters) + 1 - i]

\* The waiting call that the i-th push serves.
Turn(i) == waiters[i]

\* LifoQueue.push() of each holder of hs in turn serves the calls that have
\* waited longest, the i-th of them with hs[i]; the rest goes on the stack.
Served(hs)        == {Turn(i) : i \in DOMAIN waiters \cap DOMAIN hs}
ServedWith(t, hs) == hs[CHOOSE i \in DOMAIN waiters : Turn(i) = t]

\* pcs and helds are the calls' states after the rest of the pushing step.
PushAll(hs, pcs, helds) ==
    /\ waiters' = SubSeq(waiters, Len(hs) + 1, Len(waiters))
    /\ free' = free \o SubSeq(hs, Len(waiters) + 1, Len(hs))
    /\ pc' = [t \in Tasks |-> IF t \in Served(hs) THEN "granted" ELSE pcs[t]]
    /\ held' = [t \in Tasks |->
                    IF t \in Served(hs) THEN ServedWith(t, hs) ELSE helds[t]]

\* Faulty variant: an item is stacked although calls are waiting.
StackAnyway(t, next) ==
    /\ free' = Append(free, held[t])
    /\ pc' = [pc EXCEPT ![t] = next]
    /\ held' = [held EXCEPT ![t] = 0]
    /\ UNCHANGED waiters

\* pool.enqueue(): call t puts its holder back and goes on to next.
Enqueue(t, next) ==
    PushAll(<<held[t]>>, [pc EXCEPT ![t] = next], [held EXCEPT ![t] = 0])

\* Faulty variant: get() reads the last holder and leaves it on the stack.
GetWithoutPop(t) ==
    /\ free # <<>>
    /\ held' = [held EXCEPT ![t] = Last(free)]
    /\ pc' = [pc EXCEPT ![t] = "granted"]
    /\ UNCHANGED <<free, waiters>>

\* LifoQueue.get(): the holder pushed last, or a place among the waiting.
Get(t) ==
    \/ /\ free # <<>>
       /\ free' = Front(free)
       /\ held' = [held EXCEPT ![t] = Last(free)]
       /\ pc' = [pc EXCEPT ![t] = "granted"]
       /\ UNCHANGED waiters
    \/ /\ free = <<>>
       /\ waiters' = Append(waiters, t)
       /\ pc' = [pc EXCEPT ![t] = "waiting"]
       /\ UNCHANGED <<free, held>>

\* LifoQueue.cancelAllPending(): every waiting call ends with an error.
CancelAllPending(pcs) ==
    /\ waiters' = <<>>
    /\ pc' = [t \in Tasks |->
                  IF t \in ToSet(waiters) THEN "done" ELSE pcs[t]]

Init ==
    /\ suggested = Null
    /\ nHolders = Concurrency(Null)
    /\ free = [i \in 1..nHolders |-> i]
    /\ waiters = <<>>
    /\ closing = "open"
    /\ closeWait = [h \in Holders |-> "settled"]
    /\ conn = [h \in Holders |-> "none"]
    /\ dirty = [h \in Holders |-> FALSE]
    /\ inUse = [h \in Holders |-> FALSE]
    /\ pc = [t \in Tasks |-> "idle"]
    /\ held = [t \in Tasks |-> 0]
    /\ iter = [t \in Tasks |-> 0]
    /\ raced = {}
    /\ terminated = FALSE

-----------------------------------------------------------------------------
(* Calls that acquire a holder.                                            *)

Goto(t, next) == pc' = [pc EXCEPT ![t] = next]

\* A query inside a transaction block is made while the block runs.
MayCall(t) ==
    /\ pc[t] = "idle"
    /\ t \in Queries /\ Parent[t] # Null => pc[Parent[t]] = "using"

\* The block of t awaits a call that has not ended.
Blocked(t) ==
    \E q \in Queries : Parent[q] = t /\ pc[q] \notin {"idle", "done"}

\* pool.acquireHolder() up to its await.
CallOp(t) ==
    /\ MayCall(t)
    /\ IF closing # "open"
       THEN Goto(t, "done") /\ UNCHANGED <<free, waiters, held>>
       ELSE Get(t)
    /\ UNCHANGED <<nHolders, suggested, conns, shut, inUse, iter>>

\* holder.acquire(); its options are not modelled.
Acquire(t) ==
    /\ pc[t] = "granted"
    /\ IF inUse[held[t]]
       THEN Enqueue(t, "done") /\ UNCHANGED inUse
       ELSE /\ inUse' = [inUse EXCEPT ![held[t]] = TRUE]
            /\ Goto(t, "acquired")
            /\ UNCHANGED <<free, waiters, held>>
    /\ UNCHANGED <<nHolders, suggested, conns, shut, iter>>

\* holder._getConnection() and pool.getNewConnection() up to their await.
GetConnection(t) ==
    /\ pc[t] = "acquired"
    /\ Goto(t, IF conn[held[t]] = "open" THEN "using"
               ELSE IF closing = "closed" THEN "releasing" ELSE "connecting")
    /\ UNCHANGED <<pool, conns, shut, inUse, held, iter>>

\* retryingConnect() has succeeded: adopt the server's suggestion, resize the
\* pool and keep the connection.  The call goes on with the connection.
Connected(t, pushed, next, h) ==
    /\ conn' = [conn EXCEPT ![held[t]] = "open"]
    /\ dirty' = [dirty EXCEPT ![held[t]] = FALSE]
    /\ \E s \in Suggestions \cup {Null} :
          LET new == IF s \in {Null, suggested} THEN <<>> ELSE NewHolders(s)
          IN  /\ suggested' = IF s = Null THEN suggested ELSE s
              /\ nHolders' = nHolders + Len(new)
              /\ PushAll(new \o pushed, [pc EXCEPT ![t] = next],
                         [held EXCEPT ![t] = h])
    /\ UNCHANGED <<shut, inUse, iter>>

ConnectOk(t) ==
    /\ pc[t] = "connecting"
    /\ Connected(t, <<>>, "using", held[t])

\* The connection error is raised outside of the loops' try blocks.
ConnectFail(t) ==
    /\ pc[t] = "connecting"
    /\ Goto(t, "releasing")
    /\ UNCHANGED <<pool, conns, shut, inUse, held, iter>>

\* The call is over, with a result or an error.  While the connection is up it
\* ends only after the calls its block awaits; when the connection aborts,
\* Promise.race() ends it.  A transaction whose COMMIT failed may leave the
\* server's transaction open, in error.  (A block that returns while a query of
\* its own is in progress is not modelled here.)
OpEnd(t) ==
    /\ pc[t] = "using"
    /\ conn[held[t]] = "open" => ~Blocked(t)
    /\ Goto(t, "releasing")
    /\ \E d \in BOOLEAN :
          /\ d => t \in Transactions /\ conn[held[t]] = "open"
          /\ dirty' = [dirty EXCEPT ![held[t]] = d]
    /\ UNCHANGED <<pool, conn, shut, inUse, held, iter>>

\* Faulty variant: one attempt too many.
RetryPastLast(t) == iter[t] < Attempts

MayRetry(t) == iter[t] + 1 < Attempts

\* The call got an error with SHOULD_RETRY: from the server, or because the
\* connection was lost.  An InterfaceError of a connection that the client
\* closed has no such tag.
OpRetry(t) ==
    /\ pc[t] = "using"
    /\ conn[held[t]] # "closed"
    /\ conn[held[t]] = "open" => ~Blocked(t)
    /\ MayRetry(t)
    /\ iter' = [iter EXCEPT ![t] = @ + 1]
    /\ Goto(t, "backoff")
    /\ UNCHANGED <<pool, conns, shut, inUse, held>>

\* The backoff has elapsed; the loop starts over with _getConnection().
Wake(t) ==
    /\ pc[t] = "backoff"
    /\ Goto(t, "acquired")
    /\ UNCHANGED <<pool, conns, shut, inUse, held, iter>>

\* conn.resetState() awaits nothing: no open transaction, or no connection.
IsReset(t) ==
    /\ pc[t] \in {"releasing", "resetting"}
    /\ ~(conn[held[t]] = "open" /\ dirty[held[t]])

\* holder.release() has called resetState(), which sends the rollback.
Reset(t) ==
    /\ pc[t] = "releasing"
    /\ ~IsReset(t)
    /\ Goto(t, "resetting")
    /\ UNCHANGED <<pool, conns, shut, inUse, held, iter>>

\* The rollback is answered; on an error resetState() aborts the connection.
ResetEnd(t) ==
    /\ pc[t] = "resetting"
    /\ conn[held[t]] = "open" /\ dirty[held[t]]
    /\ \/ dirty' = [dirty EXCEPT ![held[t]] = FALSE] /\ UNCHANGED conn
       \/ conn' = [conn EXCEPT ![held[t]] = "lost"] /\ UNCHANGED dirty
    /\ UNCHANGED <<pool, shut, inUse, pc, held, iter>>

\* Faulty variant: release() drops the event without setting it.
WakeNone(h) == closeWait

\* inUse.set() resumes a close() that awaits it.
WakeCloser(h) ==
    [closeWait EXCEPT ![h] = IF @ = "waiting" THEN "resumed" ELSE @]

Unmark(h) == [inUse EXCEPT ![h] = FALSE]

\* holder.release() after its await.
Release(t) ==
    /\ IsReset(t)
    /\ closeWait' = WakeCloser(held[t])
    /\ inUse' = Unmark(held[t])
    /\ Enqueue(t, "done")
    /\ UNCHANGED <<nHolders, suggested, conns, closing, raced, terminated, iter>>

-----------------------------------------------------------------------------
(* Client.ensureConnected(): takes a holder without marking it in use.     *)

CallEnsure(t) ==
    /\ pc[t] = "idle"
    /\ IF closing # "open" \/ \E h \in Holders : conn[h] = "open"
       THEN Goto(t, "done") /\ UNCHANGED <<free, waiters, held>>
       ELSE Get(t)
    /\ UNCHANGED <<nHolders, suggested, conns, shut, inUse, iter>>

\* _getConnection(); when it has nothing to await the holder goes back.
EnsureGetConnection(t) ==
    /\ pc[t] = "granted"
    /\ IF conn[held[t]] = "open" \/ closing = "closed"
       THEN Enqueue(t, "done")
       ELSE Goto(t, "connecting") /\ UNCHANGED <<free, waiters, held>>
    /\ UNCHANGED <<nHolders, suggested, conns, shut, inUse, iter>>

EnsureConnectOk(t) ==
    /\ pc[t] = "connecting"
    /\ Connected(t, <<held[t]>>, "done", 0)

EnsureConnectFail(t) ==
    /\ pc[t] = "connecting"
    /\ Enqueue(t, "done")
    /\ UNCHANGED <<nHolders, suggested, conns, shut, inUse, iter>>

-----------------------------------------------------------------------------
(* Client.close() and Client.terminate().                                  *)

\* Faulty variant: close() says farewell and does not abort.
StaysOpen(h) == conn[h]

\* RawConnection.close(): nothing happens to a connection already aborted.
ClosedConn(h) == IF conn[h] = "open" THEN "closed" ELSE conn[h]

\* Faulty variant: close() closes every holder's connection at once.
CloseAll == Holders

\* Holders whose connection close() closes without waiting.
NotInUse == {h \in 1..nHolders : ~inUse[h]}

\* Holders taken from the queue but not in use: close() does not await them.
TakenNotInUse == {held[t] : t \in {u \in Users : held[u] # 0 /\ ~inUse[held[u]]}}

\* The first close(): up to the await of Promise.all().
Close(c) ==
    /\ pc[c] = "idle"
    /\ closing = "open"
    /\ closing' = "closing"
    /\ CancelAllPending([pc EXCEPT ![c] = "closing"])
    /\ conn' = [h \in Holders |->
                    IF h \in NotInUse THEN ClosedConn(h) ELSE conn[h]]
    /\ closeWait' = [h \in Holders |-> IF h \in 1..nHolders \ NotInUse
                                       THEN "waiting" ELSE closeWait[h]]
    /\ raced' = raced \cup TakenNotInUse
    /\ UNCHANGED <<nHolders, suggested, free, dirty, inUse, held, iter, terminated>>

\* _waitUntilReleasedAndClose() after its await.
CloseHolder(h) ==
    /\ closeWait[h] = "resumed"
    /\ closeWait' = [closeWait EXCEPT ![h] = "settled"]
    /\ conn' = [conn EXCEPT ![h] = ClosedConn(h)]
    /\ UNCHANGED <<pool, dirty, closing, inUse, pc, held, iter, raced, terminated>>

CloseFinish(c) ==
    /\ pc[c] = "closing"
    /\ \A h \in Holders : closeWait[h] = "settled"
    /\ closing' = "closed"
    /\ Goto(c, "done")
    /\ UNCHANGED <<pool, conns, closeWait, inUse, held, iter, raced, terminated>>

\* A later close() awaits the first one, or the end terminate() has set.
CloseAgain(c) ==
    /\ pc[c] = "idle"
    /\ closing # "open"
    /\ Goto(c, "awaiting")
    /\ UNCHANGED <<pool, conns, shut, inUse, held, iter>>

CloseReturn(c) ==
    /\ pc[c] = "awaiting"
    /\ closing = "closed"
    /\ Goto(c, "done")
    /\ UNCHANGED <<pool, conns, shut, inUse, held, iter>>

\* Holders that are being connected while terminate() looks at them.
Connecting == {held[t] : t \in {u \in Users : pc[u] = "connecting"}}

\* While a close() is pending, closing stays pending.
Terminate ==
    /\ AllowTerminate
    /\ closing # "closed"
    /\ CancelAllPending(pc)
    /\ conn' = [h \in Holders |-> ClosedConn(h)]
    /\ closing' = IF closing = "open" THEN "closed" ELSE closing
    /\ raced' = IF closing = "open" THEN raced \cup Connecting ELSE raced
    /\ terminated' = TRUE
    /\ UNCHANGED <<nHolders, suggested, free, dirty, inUse, held, iter, closeWait>>

-----------------------------------------------------------------------------
(* The network and the server.                                             *)

ConnLost(h) ==
    /\ conn[h] = "open"
    /\ conn' = [conn EXCEPT ![h] = "lost"]
    /\ UNCHANGED <<pool, dirty, shut, inUse, pc, held, iter>>

\* The server ends a transaction that stays idle, with its connection.
TransactionTimeout(t) ==
    /\ pc[t] = "using"
    /\ Blocked(t)
    /\ ConnLost(held[t])

\* Every call has ended, or its transaction block has not made it.
AllDone ==
    /\ \A t \in Tasks : pc[t] # "done" => t \in Queries /\ pc[t] = "idle"
    /\ \A t \in Queries : ~MayCall(t)
    /\ UNCHANGED vars

OpStep(t) ==
    \/ CallOp(t) \/ Acquire(t) \/ GetConnection(t) \/ ConnectOk(t)
    \/ ConnectFail(t) \/ OpEnd(t) \/ OpRetry(t) \/ Wake(t) \/ Reset(t)
    \/ ResetEnd(t) \/ Release(t)

EnsureStep(t) ==
    \/ CallEnsure(t) \/ EnsureGetConnection(t)
    \/ EnsureConnectOk(t) \/ EnsureConnectFail(t)

CloserStep(c) ==
    Close(c) \/ CloseFinish(c) \/ CloseAgain(c) \/ CloseReturn(c)

Next ==
    \/ \E t \in Ops : OpStep(t)
    \/ \E t \in Ensures : EnsureStep(t)
    \/ \E c \in Closers : CloserStep(c)
    \/ \E h \in Holders : CloseHolder(h)
    \/ \E t \in Transactions : TransactionTimeout(t)
    \/ \E h \in Holders : ConnLost(h)
    \/ Terminate
    \/ AllDone

Spec == Init /\ [][Next]_vars

-----------------------------------------------------------------------------
(* Fairness.  The event loop runs every continuation that is ready, a      *)
(* connection attempt and a request end (with an answer or an error), and  *)
(* the server's session timeout ends an idle transaction.  Nobody has to   *)
(* make a call, call terminate() or lose a connection.                     *)

OpProgress(t) ==
    \/ Acquire(t) \/ GetConnection(t) \/ ConnectOk(t) \/ ConnectFail(t)
    \/ OpEnd(t) \/ OpRetry(t) \/ Wake(t) \/ Reset(t) \/ ResetEnd(t)
    \/ Release(t)
    \/ t \in Transactions /\ TransactionTimeout(t)

EnsureProgress(t) ==
    EnsureGetConnection(t) \/ EnsureConnectOk(t) \/ EnsureConnectFail(t)

Fairness ==
    /\ \A t \in Ops : WF_vars(OpProgress(t))
    /\ \A t \in Ensures : WF_vars(EnsureProgress(t))
    /\ \A c \in Closers : WF_vars(CloseFinish(c)) /\ WF_vars(CloseReturn(c))
    /\ \A h \in Holders : WF_vars(CloseHolder(h))

FairSpec == Spec /\ Fairness

-----------------------------------------------------------------------------
(* Properties.                                                             *)

\* The types of the variables; iter stays below RetryOptions' attempts.
TypeOK ==
    /\ nHolders \in 0..MaxHolders
    /\ suggested \in Suggestions \cup {Null}
    /\ free \in Seq(1..nHolders)
    /\ waiters \in Seq(Users)
    /\ closing \in {"open", "closing", "closed"}
    /\ closeWait \in [Holders -> {"settled", "waiting", "resumed"}]
    /\ conn \in [Holders -> {"none", "open", "lost", "closed"}]
    /\ dirty \in [Holders -> BOOLEAN]
    /\ inUse \in [Holders -> BOOLEAN]
    /\ pc \in [Tasks -> UserStates \cup CloserStates]
    /\ held \in [Tasks -> 0..nHolders]
    /\ iter \in [Tasks -> 0..(Attempts - 1)]
    /\ raced \subseteq Holders
    /\ terminated \in BOOLEAN

\* No holder is on the free stack twice.
FreeOnce == \A i, j \in DOMAIN free : free[i] = free[j] => i = j

\* No holder is in the hands of two calls.
HeldOnce == \A t, u \in Tasks : held[t] = held[u] /\ held[t] # 0 => t = u

\* No holder is both free and in the hands of a call.
FreeNotHeld == \A t \in Tasks : \A i \in DOMAIN free : free[i] # held[t]

\* No holder is forgotten.
NoneForgotten ==
    \A h \in 1..nHolders : \/ \E i \in DOMAIN free : free[i] = h
                           \/ \E t \in Tasks : held[t] = h

\* Whatever calls, failures, resizes and shutdowns interleave, each holder of
\* the pool is in exactly one place: free once, or in the hands of one call
\* (acquireHolder(), release(), ensureConnected()'s finally, resizing).
HolderInOnePlace == FreeOnce /\ HeldOnce /\ FreeNotHeld /\ NoneForgotten

\* No call waits while a holder is free, nor once the client is shutting down:
\* no interleaving of get(), push() and cancelAllPending() loses a wake-up.
NoLostWakeup == waiters # <<>> => free = <<>> /\ closing = "open"

\* A connection is open after shutdown only on a holder that close() or
\* terminate() could not reach: one that a call had taken and not marked in
\* use when close() looked, or that was connecting when terminate() did.
OnlyRacedStayOpen ==
    closing = "closed" => \A h \in Holders : conn[h] = "open" => h \in raced

\* close() never closes the connection of a holder that is in use; only
\* terminate() interrupts a call.
CloseIsGraceful ==
    [][\A h \in Holders :
          inUse[h] /\ conn[h] = "open" /\ conn'[h] = "closed" => terminated']_vars

\* A call that waits for a holder gets one before the calls that came later.
ServedInOrder ==
    [][\A i, j \in DOMAIN waiters :
          i < j /\ pc'[waiters[j]] = "granted" => pc'[waiters[i]] # "waiting"]_vars

\* Every call that was made ends: nobody waits for a holder forever, a block
\* that awaits a call starved by its own transaction included.
EveryCallEnds == \A t \in Users : (pc[t] # "idle") ~> (pc[t] = "done")

\* A close() that was called ends.
CloseEnds == \A c \in Closers : (pc[c] # "idle") ~> (pc[c] = "done")

\* What the documentation says of close(): it has awaited the calls that were
\* at work.  The code does not guarantee it.
CloseAwaitsCalls ==
    closing = "closed" /\ ~terminated => \A t \in Users : held[t] = 0
=============================================================================
