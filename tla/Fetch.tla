------------------------------- MODULE Fetch -------------------------------
(***************************************************************************)
(* Queries and scripts made on one connection holder, one after the other: *)
(* the retry loop (src/client.ts, retryingFetch), the flows of a           *)
(* connection and its cache of query types (src/baseConn.ts), over a       *)
(* socket (src/rawConn.ts) or over HTTP (src/fetchConn.ts), against a      *)
(* server whose schema changes.                                            *)
(*                                                                         *)
(* A client reads every message that has arrived before anything else      *)
(* happens: an unread message is one that has not arrived yet.  Only an    *)
(* unexpected one stays in its buffer.                                     *)
(***************************************************************************)
EXTENDS LRU

CONSTANTS
    Keys,        \* queries, with their output format and expected cardinality
    Single,      \* those of querySingle()
    Required,    \* those of queryRequiredSingle()
    Scripts,     \* those that execute() sends
    Modifying,   \* those that are not read-only
    TypeOf,      \* the types of a query's arguments and rows in each schema
    NoResult,    \* <<query, types>> where its cardinality is "no result"
    Unfit,       \* <<query, types>> where its arguments do not fit the types
    Broken,      \* types that no codec can be built for
    Attempts,    \* rule.attempts of RetryOptions for each retryable error
    Modes,       \* transports, protocol versions, whether capabilities are sent
    CacheSize,   \* the capacity of queryCodecCache
    MaxSchema, MaxCalls, MaxRows,   \* bounds
    Null

Retryable  == {"conn", "conflict", "retry"}   \* they have the tag SHOULD_RETRY
ErrorKinds == Retryable \cup {"fatal"}
Types      == UNION {{TypeOf[k][v] : v \in 0..MaxSchema} : k \in Keys}
Caps       == {"unknown", "readOnly", "modifies"}

ASSUME FetchAssumption ==
    /\ Required \subseteq Single /\ Single \subseteq Keys
    /\ Scripts \subseteq Keys \ Single /\ Modifying \subseteq Keys
    /\ NoResult \cup Unfit \subseteq Keys \X Types /\ Broken \subseteq Types
    /\ Attempts \in [Retryable -> Nat \ {0}]
    \* Protocol 2 is 1.0, 1 an older one, 0 one before 0.14.
    /\ Modes \subseteq [http : BOOLEAN, protocol : 0..2, sendsCaps : BOOLEAN]
    /\ \A m \in Modes : m.http => m.protocol = 2
    /\ CacheSize \in Nat \ {0} /\ MaxSchema \in Nat /\ MaxCalls \in Nat
    /\ MaxRows \in Nat \ {0} /\ Null \notin Keys \cup Types

VARIABLES
    mode,       \* the connection's element of Modes
    conn,       \* holder._connection: none, open or lost
    cache,      \* conn.queryCodecCache
    known,      \* types for which the client's registry has a codec
    requests,   \* sent and not handled by the server yet
    inbox,      \* sent by the server and not read
    schema,     \* the server's schema
    prepared,   \* the types of its unnamed statement
    runs,       \* history: what it has executed since the last call began
    call,       \* number of the last call
    key,        \* its query
    iter,       \* its iteration of retryingFetch()
    pc,         \* where it stands
    op,         \* the locals of fetch() and of its flows
    outcome     \* what it ended with

server == <<schema, prepared, runs>>
caller == <<call, key, iter>>
vars   == <<mode, conn, cache, known, requests, inbox, server, caller, pc, op, outcome>>

NewOp == [type |-> Null, caps |-> "unknown", error |-> "none", reExec |-> FALSE, rows |-> <<>>]

Flows == {"parse", "describe", "execute", "optimistic", "script"}

Running == [how |-> "running", rows |-> <<>>]

Init ==
    /\ mode \in Modes
    /\ conn = IF mode.http THEN "open" ELSE "none"
    /\ cache = NewLRU(CacheSize) /\ known = {}
    /\ requests = <<>> /\ inbox = <<>>
    /\ schema = 0 /\ prepared = Null /\ runs = <<>>
    /\ call = 0 /\ key = Null /\ iter = 0 /\ pc = "idle" /\ op = NewOp
    /\ outcome = Running

-----------------------------------------------------------------------------
(* Parts of the flows: what becomes of pc, op, requests and outcome.       *)

\* An error is thrown, and goes up to the method of the connection holder.
Throw(e) ==
    /\ pc' = "caught" /\ op' = [op EXCEPT !.error = e]
    /\ UNCHANGED <<requests, outcome>>

\* A flow begins: its message is written.  Over HTTP none is while a message
\* is unread, and the error that says so is lost.
Send(flow, o) ==
    /\ pc' = flow
    /\ op' = [o EXCEPT !.error = "none", !.reExec = FALSE]
    /\ requests' = IF mode.http /\ inbox' # <<>> THEN requests
                   ELSE Append(requests, [flow |-> flow, key |-> key,
                                          type |-> o.type, call |-> call])
    /\ UNCHANGED outcome

\* _encodeArgs() throws when the arguments do not fit the types.
SendQuery(flow, o) ==
    IF <<key, o.type>> \in Unfit THEN Throw("fatal") ELSE Send(flow, o)

\* _validateFetchCardinality() throws.
Refused(type) == key \in Required /\ <<key, type>> \in NoResult

\* The flow that executes a query once its types have been received.
ExecuteFlow == IF mode.protocol = 2 THEN "optimistic" ELSE "execute"

\* fetch() returns.
Return(rows) ==
    IF key \in Required /\ rows = <<>> THEN Throw("fatal")
    ELSE /\ pc' = "idle" /\ op' = NewOp /\ UNCHANGED requests
         /\ outcome' = [how |-> "ok",
                        rows |-> IF key \in Single /\ rows # <<>> THEN <<Head(rows)>> ELSE rows]

\* The types of the query are known: fetch() goes on after _parse().
Parsed(type, caps) ==
    IF Refused(type) THEN Throw("fatal") /\ UNCHANGED cache
    ELSE /\ cache' = AfterSet(cache, key, [type |-> type, caps |-> caps])
         /\ SendQuery(ExecuteFlow, [op EXCEPT !.type = type])

-----------------------------------------------------------------------------
(* A call.                                                                 *)

Begin(k) ==
    /\ pc = "idle" /\ call < MaxCalls
    /\ call' = call + 1 /\ key' = k /\ iter' = 0
    /\ pc' = "connection" /\ op' = NewOp /\ outcome' = Running
    /\ runs' = <<>>
    /\ UNCHANGED <<mode, conn, cache, known, requests, inbox, schema, prepared>>

\* _getConnection(): a new connection, with a cache of its own.
Connect ==
    /\ pc = "connection" /\ conn # "open"
    /\ conn' = "open" /\ cache' = NewLRU(CacheSize)
    /\ requests' = <<>> /\ inbox' = <<>> /\ prepared' = Null
    /\ UNCHANGED <<mode, known, schema, runs, caller, pc, op, outcome>>

\* No connection can be made: the call ends, outside of the retry loop's try.
ConnectFail ==
    /\ pc = "connection" /\ conn # "open"
    /\ pc' = "idle" /\ op' = NewOp /\ outcome' = [how |-> "conn", rows |-> <<>>]
    /\ UNCHANGED <<mode, conn, cache, known, requests, inbox, server, caller>>

\* Faulty variant: the rows of an earlier attempt are kept.
KeptOp == [NewOp EXCEPT !.rows = op.rows]

\* The array that fetch() collects the rows in is new.
FreshOp == NewOp

\* fetch() of a query whose types are cached.
StartCached ==
    /\ pc = "connection" /\ conn = "open" /\ UNCHANGED inbox
    /\ key \notin Scripts
    /\ HasEntry(cache, key)
    /\ cache' = AfterGet(cache, key)
    /\ LET type == EntryOf(cache, key).type
       IN  IF Refused(type) THEN Throw("fatal")
           ELSE SendQuery("optimistic", [FreshOp EXCEPT !.type = type])
    /\ UNCHANGED <<mode, conn, known, server, caller>>

\* fetch() of any other.
StartParse ==
    /\ pc = "connection" /\ conn = "open" /\ UNCHANGED inbox
    /\ key \notin Scripts
    /\ ~HasEntry(cache, key)
    /\ Send("parse", FreshOp)
    /\ UNCHANGED <<mode, conn, cache, known, server, caller>>

\* execute().
StartScript ==
    /\ pc = "connection" /\ conn = "open" /\ UNCHANGED inbox
    /\ key \in Scripts
    /\ Send("script", FreshOp)
    /\ UNCHANGED <<mode, conn, cache, known, server, caller>>

\* Faulty variant: any query is executed again after a lost connection.
RetriesAnything(caps) == op.error \in Retryable

\* The condition of the retry loop, given the capabilities cached.
MayRetry(caps) ==
    /\ op.error \in Retryable
    /\ caps = "readOnly" \/ op.error = "conflict"

CachedCaps == IF HasEntry(cache, key) THEN EntryOf(cache, key).caps ELSE "none"

\* retryingFetch() catches an error; looking the capabilities up makes the
\* query the last one used.
Caught ==
    /\ pc = "caught" /\ key \notin Scripts
    /\ cache' = IF op.error \in Retryable THEN AfterGet(cache, key) ELSE cache
    /\ IF MayRetry(CachedCaps) /\ iter + 1 < Attempts[op.error]
       THEN pc' = "sleep" /\ UNCHANGED <<op, outcome>>
       ELSE pc' = "idle" /\ op' = NewOp /\ outcome' = [how |-> op.error, rows |-> <<>>]
    /\ UNCHANGED <<mode, conn, known, requests, inbox, server, caller>>

\* The next iteration, after the backoff.
Retry ==
    /\ pc = "sleep"
    /\ iter' = iter + 1 /\ pc' = "connection"
    /\ UNCHANGED <<mode, conn, cache, known, requests, inbox, server, call, key, op, outcome>>

\* An error of a script ends the call.
ScriptFails ==
    /\ pc = "caught" /\ key \in Scripts
    /\ pc' = "idle" /\ op' = NewOp /\ outcome' = [how |-> op.error, rows |-> <<>>]
    /\ UNCHANGED <<mode, conn, cache, known, requests, inbox, server, caller>>

-----------------------------------------------------------------------------
(* The loops that read the server's messages.                              *)

Expected ==
    {"E", "Z", "S", "L"} \cup
        CASE pc = "parse"      -> {"1"}
          [] pc = "describe"   -> {"T"}
          [] pc = "execute"    -> {"D", "C"}
          [] pc = "optimistic" -> {"D", "C", "T"}
          [] pc = "script"     -> {"C"}

\* The next message is none that the loop knows.
Stuck == inbox # <<>> /\ Head(inbox).k \notin Expected

Reading(k) ==
    /\ pc \in Flows /\ inbox # <<>> /\ Head(inbox).k = k /\ k \in Expected
    /\ inbox' = Tail(inbox)
    /\ UNCHANGED <<mode, conn, server, caller>>

\* ParseComplete.
ReadPrepared ==
    /\ Reading("1")
    /\ op' = [op EXCEPT !.type = Head(inbox).type, !.caps = Head(inbox).caps]
    /\ UNCHANGED <<cache, known, requests, pc, outcome>>

\* CommandDataDescription: codecs are built for the types it describes.  In
\* the optimistic flow the cached entry is replaced at once.
ReadTypes ==
    /\ Reading("T")
    /\ LET type == Head(inbox).type
           caps == Head(inbox).caps
       IN  IF type \in Broken \ known
           THEN op' = [op EXCEPT !.error = "fatal"] /\ UNCHANGED <<cache, known>>
           ELSE /\ known' = known \cup {type}
                /\ op' = [op EXCEPT !.type = type, !.caps = caps,
                                    !.reExec = pc = "optimistic"]
                /\ cache' = IF pc = "optimistic"
                            THEN AfterSet(cache, key, [type |-> type, caps |-> caps])
                            ELSE cache
    /\ UNCHANGED <<requests, pc, outcome>>

\* Data: a row is decoded, and once that has failed discarded.
ReadRow ==
    /\ Reading("D")
    /\ op' = IF op.error # "none" THEN op
             ELSE IF Head(inbox).type # op.type THEN [op EXCEPT !.error = "fatal"]
             ELSE [op EXCEPT !.rows = Append(@, Head(inbox).row)]
    /\ UNCHANGED <<cache, known, requests, pc, outcome>>

\* Faulty variant: the loop stops at an error.
StopAtError ==
    /\ Reading("E")
    /\ Throw(Head(inbox).error) /\ UNCHANGED <<cache, known>>

\* ErrorResponse.
ReadError ==
    /\ Reading("E")
    /\ op' = [op EXCEPT !.error = Head(inbox).error]
    /\ UNCHANGED <<cache, known, requests, pc, outcome>>

\* CommandComplete, ParameterStatus, LogMessage.
ReadOther ==
    /\ \E k \in {"C", "S", "L"} : Reading(k)
    /\ UNCHANGED <<cache, known, requests, pc, op, outcome>>

\* _fallthrough() throws: the message stays where it is.
ReadUnexpected ==
    /\ pc \in Flows /\ Stuck
    /\ Throw("fatal")
    /\ UNCHANGED <<mode, conn, cache, known, inbox, server, caller>>

\* ReadyForCommand after an error.
FlowFails ==
    /\ Reading("Z") /\ op.error # "none"
    /\ Throw(op.error) /\ UNCHANGED <<cache, known>>

\* ReadyForCommand ends _parse(), unless the types must be described, which
\* are sent with ParseComplete from protocol 0.14 on.
ParseEnds ==
    /\ Reading("Z") /\ pc = "parse" /\ op.error = "none"
    /\ IF op.type \in known THEN Parsed(op.type, op.caps) /\ UNCHANGED known
       ELSE IF mode.protocol = 0 THEN Send("describe", op) /\ UNCHANGED <<cache, known>>
       ELSE IF op.type \in Broken THEN Throw("fatal") /\ UNCHANGED <<cache, known>>
       ELSE known' = known \cup {op.type} /\ Parsed(op.type, op.caps)

DescribeEnds ==
    /\ Reading("Z") /\ pc = "describe" /\ op.error = "none"
    /\ Parsed(op.type, op.caps) /\ UNCHANGED known

\* Faulty variant: what is executed again has the types of the first time.
Outdated == [op EXCEPT !.type = CHOOSE t \in Types : t # op.type]

\* What is executed again has the types that were received.
Updated == op

\* ReadyForCommand ends a flow that executes a query; it is executed again
\* when it had outdated types.
ExecuteEnds ==
    /\ Reading("Z") /\ pc \in {"execute", "optimistic"} /\ op.error = "none"
    /\ IF ~op.reExec THEN Return(op.rows)
       ELSE IF Refused(op.type) THEN Throw("fatal")
       ELSE SendQuery(ExecuteFlow, Updated)
    /\ UNCHANGED <<cache, known>>

ScriptEnds ==
    /\ Reading("Z") /\ pc = "script" /\ op.error = "none"
    /\ pc' = "idle" /\ op' = NewOp /\ outcome' = [how |-> "ok", rows |-> <<>>]
    /\ UNCHANGED <<cache, known, requests>>

-----------------------------------------------------------------------------
(* What happens to a connection.                                           *)

\* The socket is closed: the waiter is rejected, nothing more arrives.
ConnLost ==
    /\ ~mode.http /\ conn = "open" /\ pc \notin {"caught", "connection"}
    /\ conn' = "lost" /\ inbox' = <<>> /\ prepared' = Null
    /\ IF pc \in Flows
       THEN pc' = "caught" /\ op' = [op EXCEPT !.error = "conn"]
       ELSE UNCHANGED <<pc, op>>
    /\ requests' = <<>>
    /\ UNCHANGED <<mode, cache, known, schema, runs, caller, outcome>>

\* A request over HTTP fails, or its response ends before ReadyForCommand.
HttpFails ==
    /\ mode.http /\ pc \in Flows
    /\ ~Stuck
    /\ pc' = "caught" /\ op' = [op EXCEPT !.error = "fatal"]
    /\ requests' = <<>> /\ inbox' = <<>>
    /\ UNCHANGED <<mode, conn, cache, known, server, caller, outcome>>

-----------------------------------------------------------------------------
(* The server.                                                             *)

TypeNow(k) == TypeOf[k][schema]

CapsSent(k) ==
    IF ~mode.sendsCaps THEN "unknown" ELSE IF k \in Modifying THEN "modifies" ELSE "readOnly"

\* ReadyForCommand, maybe after a log message or one the client does not know.
Ends == {<<[k |-> "Z"]>>} \cup {<<[k |-> k], [k |-> "Z"]>> : k \in {"L", "X"}}

\* The rows of a run; the last one may be impossible to decode.
RowsOf(run, n, type, last) ==
    [i \in 1..n |-> [k |-> "D", row |-> <<run, i>>, type |-> IF i = n THEN last ELSE type]]

RowCounts(k, type) ==
    IF k \in Scripts \/ <<k, type>> \in NoResult THEN {0}
    ELSE IF k \in Single THEN 0..1 ELSE 0..MaxRows

\* What is sent after a message that stays unread is never read either.
Sends(messages) ==
    inbox' = IF inbox # <<>> /\ Head(inbox).k = "X" THEN inbox ELSE inbox \o messages

Handles(r) == requests # <<>> /\ r = Head(requests) /\ requests' = Tail(requests)

\* The types are sent: as asked, or because the request has outdated ones.
Describes(r) ==
    /\ Handles(r)
    /\ \/ r.flow = "parse" /\ prepared' = TypeNow(r.key)
       \/ r.flow = "optimistic" /\ r.type # TypeNow(r.key) /\ prepared' = TypeNow(r.key)
       \/ r.flow = "describe" /\ UNCHANGED prepared
    /\ \E end \in Ends :
           Sends(<<[k |-> IF r.flow = "parse" THEN "1" ELSE "T",
                    type |-> prepared', caps |-> CapsSent(r.key)]>> \o end)
    /\ UNCHANGED runs

\* The query is executed, and what it does is done.
Executes(r) ==
    /\ Handles(r)
    /\ r.flow \in {"execute", "script"} \/ (r.flow = "optimistic" /\ r.type = TypeNow(r.key))
    /\ LET type == IF r.flow = "execute" THEN prepared ELSE TypeNow(r.key)
       IN  \E n \in RowCounts(r.key, type), last \in {type, Null}, end \in Ends :
               /\ runs' = Append(runs, [call |-> r.call, key |-> r.key, rows |-> n])
               /\ Sends(RowsOf(Len(runs) + 1, n, type, last) \o <<[k |-> "C"]>> \o end)
    /\ UNCHANGED prepared

\* The request fails, maybe after some rows; what it has done is undone.
Rejects(r) ==
    /\ Handles(r)
    /\ \E e \in ErrorKinds \ {"conn"}, end \in Ends,
          n \in IF r.flow \in {"execute", "optimistic"} THEN RowCounts(r.key, r.type) ELSE {0} :
           Sends(RowsOf(0, n, r.type, r.type) \o <<[k |-> "E", error |-> e]>> \o end)
    /\ UNCHANGED <<prepared, runs>>

Serve ==
    /\ \E r \in {requests[n] : n \in DOMAIN requests} : Describes(r) \/ Executes(r) \/ Rejects(r)
    /\ UNCHANGED <<mode, conn, cache, known, schema, caller, pc, op, outcome>>

\* A migration, made elsewhere.
SchemaChange ==
    /\ schema < MaxSchema /\ schema' = schema + 1
    /\ UNCHANGED <<mode, conn, cache, known, requests, inbox, prepared, runs, caller, pc, op, outcome>>

-----------------------------------------------------------------------------
Client ==
    \/ Connect \/ ConnectFail \/ StartCached \/ StartParse \/ StartScript
    \/ Caught \/ Retry \/ ScriptFails
    \/ ReadPrepared \/ ReadTypes \/ ReadRow \/ ReadError \/ ReadOther \/ ReadUnexpected
    \/ FlowFails \/ ParseEnds \/ DescribeEnds \/ ExecuteEnds \/ ScriptEnds

Next ==
    \/ \E k \in Keys : Begin(k)
    \/ Client \/ ConnLost \/ HttpFails \/ Serve \/ SchemaChange

Spec == Init /\ [][Next]_vars

\* The client goes on while it can, and the server handles what it gets.
FairSpec == Spec /\ WF_vars(Client) /\ WF_vars(Serve)

-----------------------------------------------------------------------------
(* Properties.                                                             *)

\* The variables have their types, and the map and the list of the cache agree.
TypeOK ==
    /\ mode \in Modes /\ conn \in {"none", "open", "lost"}
    /\ known \subseteq Types \ Broken /\ prepared \in Types \cup {Null}
    /\ schema \in 0..MaxSchema /\ call \in 0..MaxCalls /\ key \in Keys \cup {Null}
    /\ pc \in Flows \cup {"idle", "connection", "caught", "sleep"}
    /\ op.type \in Types \cup {Null} /\ op.caps \in Caps /\ op.reExec \in BOOLEAN
    /\ op.error \in ErrorKinds \cup {"none"}
    /\ outcome.how \in ErrorKinds \cup {"running", "ok"}
    /\ InSync(cache)

\* However its call is retried, a query that is not read-only is executed
\* successfully once at most: an answer that was lost is not asked for again.
ModifiesOnce ==
    \A i, j \in DOMAIN runs :
        runs[i].key \in Modifying /\ runs[i].call = runs[j].call => i = j

\* What a call returns are all the rows of one execution of its query, and of
\* none that failed: whatever was retried, described anew or executed again,
\* every row is decoded with the types it was encoded with.
OwnRows ==
    pc = "idle" /\ outcome.how = "ok" =>
        \E i \in DOMAIN runs :
            /\ runs[i].call = call
            /\ outcome.rows = [n \in 1..runs[i].rows |-> <<i, n>>]

\* Whatever a call has ended with, an open connection is left with nothing to
\* read and nothing to answer, so that the next call reads its own answers;
\* a message it does not know is left, and makes every later call fail.
NothingLeft ==
    pc \in {"idle", "sleep"} /\ conn = "open" =>
        \/ requests = <<>> /\ inbox = <<>>
        \/ /\ inbox # <<>> /\ Head(inbox).k = "X"
           /\ outcome.how # "ok"

\* The cache keeps what was used last, whatever evicts and whatever replaces.
LastUsed == INSTANCE Recency WITH Values  <- [type : Types, caps : Caps],
                                  entries <- Entries(cache)
IsRecency == LastUsed!Spec

\* Every call ends: outdated types are not asked for again and again.
EveryFetchEnds == pc # "idle" ~> pc = "idle"
=============================================================================
