---------------------------- MODULE Transaction ----------------------------
(***************************************************************************)
(* Calls of Client.transaction() that use one connection holder, one after *)
(* the other: the retry loop (src/client.ts, ClientConnectionHolder), the  *)
(* Transaction object (src/transaction.ts), the connection's operations    *)
(* (src/baseConn.ts, src/rawConn.ts) and the session of the server.        *)
(*                                                                         *)
(* An operation writes a request and awaits the connection's only message  *)
(* waiter; whoever awaits it reads the next answer, whoever asked for it.  *)
(* An action is the code between two awaits.  An answer is one or several  *)
(* messages and the ReadyForCommand that ends them.                        *)
(***************************************************************************)
EXTENDS Naturals, Sequences, FiniteSets

CONSTANTS
    Calls,        \* Client.transaction() calls
    Attempts,     \* rule.attempts for a lost connection and for other errors
    MaxQueries,   \* bound: queries that a block makes in one attempt
    Overlap,      \* whether a block may end with a query in progress, or leak
                  \* its transaction
    Null

Retryable == {"conn", "retry"}    \* errors that have the tag SHOULD_RETRY
Errors    == Retryable \cup {"fatal"}

ASSUME TransactionAssumption ==
    /\ Attempts \in [Retryable -> Nat \ {0}]
    /\ MaxQueries \in Nat
    /\ Overlap \in BOOLEAN
    /\ Null \notin Calls

VARIABLES
    conn,          \* holder._connection: none, open or lost
    status,        \* conn.serverXactStatus
    reader,        \* the operation that awaits conn.messageWaiter, or Null
    requests,      \* sent and not handled by the server yet
    answers,       \* sent by the server and not read yet
    xact,          \* the server's session: idle, intrans or inerror
    work,          \* queries executed in the open transaction
    committed,     \* history: [call, iter, work] of every COMMIT that succeeded
    stray,         \* history: queries executed outside of a transaction
    call,          \* the call that holds the connection holder, or Null
    pc,            \* where it stands
    iter,          \* its iteration
    commitFailed,  \* the commitFailed of its iteration
    failure,       \* the error it handles, or that its last query threw
    active,        \* transaction._state is ACTIVE
    busy,          \* transaction._opInProgress
    made,          \* number of queries its block has made in this iteration
    done,          \* history: those that succeeded
    outcome        \* what each call ended with

wire   == <<requests, answers>>
server == <<xact, work, committed, stray>>
block  == <<active, busy, made, done>>
loop   == <<iter, commitFailed, failure>>
vars   == <<conn, status, reader, requests, answers, xact, work, committed,
            stray, call, pc, iter, commitFailed, failure, active, busy, made,
            done, outcome>>

QueryKinds == {"execute", "parse", "fetch"}
Kinds == QueryKinds \cup {"reset", "start", "commit", "rollback", "cleanup"}

\* The n-th query of an attempt, or with n = 0 an operation of the loop.
Op(kind, n) == [call |-> call, iter |-> iter, kind |-> kind, n |-> n]

Running == [how |-> "running", iter |-> 0, unsure |-> FALSE]

Init ==
    /\ conn = "none" /\ status = "idle" /\ reader = Null
    /\ requests = <<>> /\ answers = <<>>
    /\ xact = "idle" /\ work = {} /\ committed = {} /\ stray = {}
    /\ call = Null /\ pc = "free" /\ iter = 0
    /\ commitFailed = FALSE /\ failure = "none"
    /\ active = FALSE /\ busy = FALSE /\ made = 0 /\ done = {}
    /\ outcome = [c \in Calls |-> Running]

-----------------------------------------------------------------------------
(* Operations of the connection.                                           *)

\* execute() and fetch(): write the request and wait; the waiter of an
\* operation that is still waiting is overwritten.
Send(op) ==
    /\ requests' = Append(requests, op)
    /\ reader' = op

\* The answers that the loop of an operation expects; any other makes
\* _fallthrough() throw, and stays unread.
Expected(kind) ==
    {"retry", "fatal"} \cup CASE kind = "parse" -> {"prepared"}
                              [] kind = "fetch" -> {"rows", "complete"}
                              [] OTHER          -> {"complete"}

\* What the operation that awaits the message waiter ends with.
Outcome ==
    IF conn # "open" THEN "conn"
    ELSE IF Head(answers).body \notin Expected(reader.kind) THEN "unexpected"
    ELSE IF Head(answers).body \in Errors THEN Head(answers).body ELSE "ok"

\* Faulty variant: execute() forgets the error it has parsed.
AnyAnswer == Outcome # "conn"

Succeeded == Outcome = "ok"

\* Faulty variant: an abort does not reject the message waiter.
AnsweredOnly(kinds) ==
    reader # Null /\ reader.kind \in kinds /\ answers # <<>>

\* The message waiter of such an operation is resolved, or rejected because
\* the connection was aborted.
Resumed(kinds) ==
    /\ reader # Null /\ reader.kind \in kinds
    /\ answers # <<>> \/ conn # "open"

\* Faulty variant: the loop stops before it has read ReadyForCommand.
StopsEarly == UNCHANGED <<answers, status>>

\* The operation has read the answer.
Read ==
    IF Outcome \in {"conn", "unexpected"}
    THEN UNCHANGED <<answers, status>>
    ELSE /\ answers' = Tail(answers)
         /\ status' = Head(answers).status

\* The connection is gone: the server rolls back, requests and answers are lost.
Disconnected ==
    /\ conn' = "lost"
    /\ requests' = <<>> /\ answers' = <<>>
    /\ xact' = "idle" /\ work' = {}

-----------------------------------------------------------------------------
(* The retry loop.                                                         *)

\* The call ends with e.
End(e) ==
    /\ outcome' = [outcome EXCEPT ![call] =
                       [how |-> e, iter |-> iter, unsure |-> commitFailed]]
    /\ pc' = "ended"

Call(c) ==
    /\ pc = "free"
    /\ outcome[c] = Running
    /\ call' = c /\ iter' = 0 /\ pc' = "connect"
    /\ commitFailed' = FALSE /\ failure' = "none"
    /\ UNCHANGED <<conn, status, reader, wire, server, block, outcome>>

\* Faulty variant: the connection is used as the last user left it.
NoReset == FALSE

\* resetState() sends a rollback.
NeedsReset == status # "idle"

\* Transaction._startTransaction() on the holder's open connection.
StartTransaction ==
    /\ pc = "connect" /\ conn = "open"
    /\ Send(Op(IF NeedsReset THEN "reset" ELSE "start", 0))
    /\ pc' = "starting"
    /\ UNCHANGED <<conn, status, answers, server, call, loop, block, outcome>>

\* ... on a new one.
Connect ==
    /\ pc = "connect" /\ conn # "open"
    /\ conn' = "open" /\ status' = "idle"
    /\ requests' = <<Op("start", 0)>> /\ answers' = <<>>
    /\ reader' = Op("start", 0)
    /\ pc' = "starting"
    /\ UNCHANGED <<server, call, loop, block, outcome>>

ConnectFail(e) ==
    /\ pc = "connect" /\ conn # "open" /\ e # "retry"
    /\ End(e)
    /\ UNCHANGED <<conn, status, reader, wire, server, call, loop, block>>

\* resetState() goes on to START TRANSACTION, or aborts the connection, which
\* START TRANSACTION then finds closed.
ResetDone ==
    /\ Resumed({"reset"})
    /\ Outcome = "ok"
    /\ Read
    /\ Send(Op("start", 0))
    /\ UNCHANGED <<conn, server, call, pc, loop, block, outcome>>

ResetFailed ==
    /\ Resumed({"reset"})
    /\ Outcome # "ok"
    /\ Disconnected
    /\ reader' = Null
    /\ End("conn")
    /\ UNCHANGED <<status, committed, stray, call, loop, block>>

\* An error of START TRANSACTION is thrown outside of the loop's try block.
StartDone ==
    /\ Resumed({"start"})
    /\ Read
    /\ reader' = Null
    /\ IF Succeeded
       THEN /\ pc' = "block" /\ active' = TRUE
            /\ busy' = FALSE /\ made' = 0 /\ done' = {}
            /\ UNCHANGED outcome
       ELSE /\ End(IF Outcome = "unexpected" THEN "fatal" ELSE Outcome)
            /\ UNCHANGED block
    /\ UNCHANGED <<conn, requests, server, call, loop>>

\* Faulty variant: one attempt too many.
RetryPastLast ==
    /\ failure \in Retryable
    /\ ~(commitFailed /\ failure = "conn")
    /\ iter < Attempts[failure]

\* Faulty variant: whether the COMMIT was lost is not looked at.
RetryAnyway ==
    failure \in Retryable /\ iter + 1 < Attempts[failure]

MayRetry ==
    /\ failure \in Retryable
    /\ ~(commitFailed /\ failure = "conn")
    /\ iter + 1 < Attempts[failure]

\* Faulty variant: the operation does not mark the transaction.
OpUnmarked == busy' = FALSE

OpStarts == busy' = TRUE

\* tx.execute(), or tx.query*(): "parse" is a first request whose answer
\* describes the query's types (Parse, or an Execute with outdated codecs),
\* "fetch" an Execute with the right ones.  A call that is made while another
\* one is in progress, or when COMMIT or ROLLBACK has succeeded, only throws.
\* (A transaction that its block has leaked is used during the backoff, not
\* later.)
BlockQuery(kind) ==
    /\ pc = "block" \/ (Overlap /\ pc = "caught" /\ MayRetry)
    /\ active /\ ~busy /\ conn = "open" /\ made < MaxQueries
    /\ Send(Op(kind, made + 1))
    /\ OpStarts /\ made' = made + 1
    /\ UNCHANGED <<conn, status, answers, server, call, pc, loop, active, done, outcome>>

\* fetch() knows the query's types and executes it.
Parsed ==
    /\ Resumed({"parse"})
    /\ Outcome = "ok"
    /\ Read
    /\ Send([reader EXCEPT !.kind = "fetch"])
    /\ UNCHANGED <<conn, server, call, pc, loop, block, outcome>>

\* The query ends; its transaction may not be the current one any more.
QueryDone ==
    /\ Resumed(QueryKinds)
    /\ ~(reader.kind = "parse" /\ Outcome = "ok")
    /\ Read
    /\ reader' = Null
    /\ IF reader.call = call /\ reader.iter = iter
       THEN /\ busy' = FALSE
            /\ done' = IF Outcome = "ok" THEN done \cup {reader} ELSE done
            /\ failure' = IF pc # "block" \/ Outcome = "ok" THEN failure
                          ELSE IF Outcome = "unexpected" THEN "fatal" ELSE Outcome
       ELSE UNCHANGED <<busy, done, failure>>
    /\ UNCHANGED <<conn, requests, server, call, pc, iter, commitFailed, active, made, outcome>>

\* The block returns.  COMMIT is refused while a query is in progress.
BlockReturn ==
    /\ pc = "block" /\ conn = "open"
    /\ busy => Overlap
    /\ IF busy
       THEN /\ commitFailed' = TRUE /\ failure' = "fatal" /\ pc' = "caught"
            /\ UNCHANGED <<requests, reader>>
       ELSE /\ Send(Op("commit", 0)) /\ pc' = "committing"
            /\ UNCHANGED <<commitFailed, failure>>
    /\ UNCHANGED <<conn, status, answers, server, call, iter, block, outcome>>

\* The block throws an error of its own or of its last query.  The error that
\* refuses ROLLBACK while a query is in progress is ignored.
BlockThrow(e) ==
    /\ pc = "block" /\ conn = "open"
    /\ e \in {"fatal", failure} \ {"none"}
    /\ busy => Overlap
    /\ failure' = e
    /\ IF busy
       THEN pc' = "caught" /\ UNCHANGED <<requests, reader>>
       ELSE Send(Op("rollback", 0)) /\ pc' = "rollback"
    /\ UNCHANGED <<conn, status, answers, server, call, iter, commitFailed,
                   block, outcome>>

\* Promise.race(): _waitForConnAbort() ends the block.  ROLLBACK then fails at
\* once.  The server may have said that the transaction has timed out.
BlockAborted ==
    /\ pc = "block" /\ conn # "open"
    /\ failure' \in {"conn", "fatal"}
    /\ pc' = "caught"
    /\ reader' = Null
    /\ UNCHANGED <<conn, status, wire, server, call, iter, commitFailed, block,
                   outcome>>

CommitDone ==
    /\ Resumed({"commit"})
    /\ Read
    /\ reader' = Null
    /\ active' = ~Succeeded
    /\ IF Succeeded
       THEN End("ok") /\ UNCHANGED <<commitFailed, failure>>
       ELSE /\ commitFailed' = TRUE
            /\ failure' = IF Outcome = "unexpected" THEN "fatal" ELSE Outcome
            /\ pc' = "caught"
            /\ UNCHANGED outcome
    /\ UNCHANGED <<conn, requests, server, call, iter, busy, made, done>>

\* An EdgeDBError of ROLLBACK is ignored; another error is thrown.
RollbackDone ==
    /\ Resumed({"rollback"})
    /\ Read
    /\ reader' = Null
    /\ active' = ~Succeeded
    /\ IF Outcome = "unexpected"
       THEN End("fatal")
       ELSE pc' = "caught" /\ UNCHANGED outcome
    /\ UNCHANGED <<conn, requests, server, call, loop, busy, made, done>>

\* The backoff has elapsed.
Retry ==
    /\ pc = "caught"
    /\ MayRetry
    /\ iter' = iter + 1
    /\ commitFailed' = FALSE /\ failure' = "none"
    /\ pc' = "connect"
    /\ UNCHANGED <<conn, status, reader, wire, server, call, block, outcome>>

GiveUp ==
    /\ pc = "caught"
    /\ ~MayRetry
    /\ End(failure)
    /\ UNCHANGED <<conn, status, reader, wire, server, call, loop, block>>

\* holder.release(): the holder goes back once resetState() has returned.
Free == call' = Null /\ pc' = "free"

Release ==
    /\ pc = "ended"
    /\ IF conn = "open" /\ NeedsReset
       THEN Send(Op("cleanup", 0)) /\ pc' = "cleanup" /\ UNCHANGED call
       ELSE Free /\ UNCHANGED <<requests, reader>>
    /\ UNCHANGED <<conn, status, answers, server, loop, block, outcome>>

CleanupDone ==
    /\ Resumed({"cleanup"})
    /\ Outcome = "ok"
    /\ Read
    /\ reader' = Null
    /\ Free
    /\ UNCHANGED <<conn, requests, server, loop, block, outcome>>

CleanupFailed ==
    /\ Resumed({"cleanup"})
    /\ Outcome # "ok"
    /\ Disconnected
    /\ reader' = Null
    /\ Free
    /\ UNCHANGED <<status, committed, stray, loop, block, outcome>>

-----------------------------------------------------------------------------
(* The server handles the requests of the session in order.                *)

\* The first request is answered, and the session is in state x.
Answer(body, x) ==
    /\ requests' = Tail(requests)
    /\ answers' = Append(answers,
                         [to |-> Head(requests), body |-> body, status |-> x])
    /\ xact' = x
    /\ UNCHANGED <<conn, status, reader, call, pc, loop, block, outcome>>

Requested(kinds) == requests # <<>> /\ Head(requests).kind \in kinds

\* An error inside a transaction leaves it in error.
ServerError ==
    /\ Requested(Kinds \ {"reset", "rollback", "cleanup"})
    /\ \E body \in {"retry", "fatal"} :
          \/ /\ xact = "idle"
             /\ Answer(body, "idle")
          \/ /\ xact # "idle"
             /\ Answer(body, "inerror")
          \/ /\ xact = "intrans" /\ Requested({"commit"})
             /\ Answer(body, "idle")
    /\ work' = {}
    /\ UNCHANGED <<committed, stray>>

ServerStart ==
    /\ Requested({"start"})
    /\ xact = "idle"
    /\ Answer("complete", "intrans")
    /\ UNCHANGED <<work, committed, stray>>

ServerParse ==
    /\ Requested({"parse"})
    /\ xact # "inerror"
    /\ Answer("prepared", xact)
    /\ UNCHANGED <<work, committed, stray>>

\* A query that returns nothing is answered like a command.
ServerExecute ==
    /\ Requested({"execute", "fetch"})
    /\ xact # "inerror"
    /\ \E body \in IF Requested({"fetch"}) THEN {"complete", "rows"} ELSE {"complete"} :
          Answer(body, xact)
    /\ IF xact = "intrans"
       THEN work' = work \cup {Head(requests)} /\ UNCHANGED stray
       ELSE stray' = stray \cup {Head(requests)} /\ UNCHANGED work
    /\ UNCHANGED committed

ServerCommit ==
    /\ Requested({"commit"})
    /\ xact = "intrans"
    /\ Answer("complete", "idle")
    /\ committed' = committed \cup
          {[call |-> Head(requests).call, iter |-> Head(requests).iter, work |-> work]}
    /\ work' = {}
    /\ UNCHANGED stray

ServerRollback ==
    /\ Requested({"reset", "rollback", "cleanup"})
    /\ \/ Answer("complete", "idle")
       \/ xact = "idle" /\ Answer("fatal", "idle")
    /\ work' = {}
    /\ UNCHANGED <<committed, stray>>

ConnLost ==
    /\ conn = "open"
    /\ Disconnected
    /\ UNCHANGED <<status, reader, committed, stray, call, pc, loop, block, outcome>>

-----------------------------------------------------------------------------

Client ==
    \/ StartTransaction \/ Connect \/ (\E e \in Errors : ConnectFail(e))
    \/ ResetDone \/ ResetFailed \/ StartDone
    \/ Parsed \/ QueryDone \/ BlockAborted
    \/ BlockReturn \/ (\E e \in Errors : BlockThrow(e))
    \/ CommitDone \/ RollbackDone \/ Retry \/ GiveUp
    \/ Release \/ CleanupDone \/ CleanupFailed

Server ==
    \/ ServerError \/ ServerStart \/ ServerParse \/ ServerExecute
    \/ ServerCommit \/ ServerRollback

AllDone ==
    /\ pc = "free" /\ \A c \in Calls : outcome[c] # Running
    /\ UNCHANGED vars

Next ==
    \/ \E c \in Calls : Call(c)
    \/ \E kind \in QueryKinds : BlockQuery(kind)
    \/ Client
    \/ Server
    \/ ConnLost
    \/ AllDone

Spec == Init /\ [][Next]_vars

\* The event loop runs what is ready, blocks end, the server handles what it
\* is sent.  Nobody has to make a call or lose a connection.
FairSpec == Spec /\ WF_vars(Client) /\ WF_vars(Server)

-----------------------------------------------------------------------------
(* Properties.                                                             *)

Ops == [call : Calls, iter : Nat, kind : Kinds, n : 0..MaxQueries]

\* The types of the variables; a call never makes more attempts than the rule
\* of its errors allows.
TypeOK ==
    /\ conn \in {"none", "open", "lost"}
    /\ {status, xact} \subseteq {"idle", "intrans", "inerror"}
    /\ reader \in Ops \cup {Null}
    /\ \A k \in DOMAIN requests : requests[k] \in Ops
    /\ \A k \in DOMAIN answers : answers[k].to \in Ops
    /\ work \cup stray \cup done \subseteq Ops
    /\ call \in Calls \cup {Null}
    /\ pc \in {"free", "connect", "starting", "block", "committing", "rollback",
               "caught", "ended", "cleanup"}
    /\ \E e \in Retryable : iter < Attempts[e]
    /\ commitFailed \in BOOLEAN /\ active \in BOOLEAN /\ busy \in BOOLEAN
    /\ failure \in Errors \cup {"none"}
    /\ made \in 0..MaxQueries

\* Every operation reads the answer to its own request (the loops of execute()
\* and fetch() around the single message waiter).
AnswerIsOwn ==
    reader # Null /\ answers # <<>> => Head(answers).to = reader

\* However attempts fail, and wherever connections are lost, a block's effects
\* are committed at most once.
CommittedOnce ==
    \A c, d \in committed : c.call = d.call => c = d

\* A call that resolves has committed the attempt whose value it returns.
ResolvedIsCommitted ==
    \A c \in Calls : outcome[c].how = "ok" =>
        \E d \in committed : d.call = c /\ d.iter = outcome[c].iter

\* A call that is rejected has committed nothing, unless the connection was
\* lost while COMMIT was in progress.
RejectedIsRolledBack ==
    \A c \in Calls :
        outcome[c].how \in Errors /\ ~(outcome[c].how = "conn" /\ outcome[c].unsure)
            => \A d \in committed : d.call # c

\* No query of a transaction is executed outside of it.
NothingStray == stray = {}

\* COMMIT commits all that the block's queries did in this attempt and nothing
\* else.
CommitsWhatWasDone ==
    [][\A d \in committed' \ committed : d.work = done]_vars

\* The connection that goes back to the pool has no transaction and no answer
\* that the next user could take for its own.
CleanWhenFree ==
    pc = "free" /\ conn = "open" =>
        /\ xact = "idle" /\ status = "idle"
        /\ wire = <<<<>>, <<>>>> /\ reader = Null

\* A call ends, whatever fails.
EveryCallEnds == \A c \in Calls : (call = c) ~> (call # c)
=============================================================================
