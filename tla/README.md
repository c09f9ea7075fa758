# Verification of the EdgeDB TypeScript client

TLA+ specifications of the runtime of edgedb-js (`src/` of the repository), the
TLC configurations that check them on small instances and proofs checked by
TLAPS. Paths below are relative to the repository.

## 1. The system

A program creates a `Client` and calls `query*()`, `execute()`, `transaction()`,
`ensureConnected()`, `close()` and `terminate()` on it, many of them at a time.
JavaScript runs one continuation at a time: between two `await`s a call runs
alone, at an `await` any other call, timer or socket event may run. All hard
behaviour of the client comes from what happens at the `await`s.

| component | state | operations | talks to |
|---|---|---|---|
| pool (`src/client.ts`, `ClientPool`) | `_closing`, `_queue`, `_holders`, `_userConcurrency`, `_suggestedConcurrency` | `acquireHolder`, `enqueue`, `ensureConnected`, `getNewConnection` (resizes), `close`, `terminate` | holders, queue, reconnect loop |
| holder (`src/client.ts`, `ClientConnectionHolder`) | `_connection`, `_options`, `_inUse` | `acquire`, `release`, `_getConnection`, `transaction`, `retryingFetch`, `execute` | pool, connection, transaction |
| queue and event (`src/primitives/queues.ts`, `event.ts`) | three arrays of promises and their callbacks | `push`, `get`, `cancelAllPending`; `wait`, `set`, `setError` | pool |
| transaction (`src/transaction.ts`) | `_state`, `_opInProgress` | `_startTransaction`, `_commit`, `_rollback`, `_waitForConnAbort`, the query methods | connection |
| connection protocol (`src/baseConn.ts`, `src/rawConn.ts`) | `messageWaiter`, `connWaiter`, `connAbortWaiter`, `connected`, `serverXactStatus`, codec cache, socket | `fetch`, `execute`, `resetState`, `close`, socket callbacks, `connect` | buffers, codecs, socket |
| reconnect loop (`src/retry.ts`) | deadline | `retryingConnect` | connection |
| buffers (`src/primitives/buffer.ts`, `ring.ts`) | ring of chunks, current message | `feed`, `takeMessage`, `finishMessage`, `consumeMessage` | connection |
| HTTP transport (`src/fetchConn.ts`) | the messages that wait, the response that is read | `_sendData`, `_waitForMessage` | connection protocol |
| LRU cache (`src/primitives/lru.ts`) | map and linked list | `get`, `set`, `has`, `keys` | codecs registry, connection |
| codecs registry (`src/codecs/registry.ts`) | caches of codecs, custom codecs | `getCodec`, `buildCodec`, `setCustomCodecs` | connection |
| codecs (`src/codecs/`) | none | `encode`, `decode`, `encodeArgs` | buffers |
| configuration (`src/conUtils.ts`, `credentials.ts`, `platform.ts`) | resolved options | `parseConnectArguments` | pool |
| SCRAM (`src/scram.ts`) | none (pure functions) | message exchange of the handshake | connection |
| dates and durations (`src/datatypes/`) | none | ordinals, constructors, texts | codecs |
| query builder (`src/syntax/`) | expressions that refer to each other | `select` ... `with`, `$toEdgeQL` | inference |
| inference (`src/reflection/util/cardinalityUtil.ts`, `src/syntax/funcops.ts`, `select.ts`, `set.ts`) | none | tables on cardinalities, `$resolveOverload`, `getSharedParent`, `$handleModifiers` | schema |
| schema reflection (`src/reflection/queries`, `generators`, `util`) | none | `getCasts`, `topoSort`, `sortFuncopOverloads` | query builder |

The generators, which only write text, the generated error classes and the platform
adapters keep no state that calls share and are left out; `PROJECT.json` lists
them with the reason.

What makes each part correct, and what is hard to test in it:

- *pool*: every holder is free once or in the hands of one call; nobody waits
  while a holder is free; a call, a close() and a block that awaits a call on the
  pool it exhausts end; close() lets calls finish; a closed client has no open
  connection; a connection goes back without an open transaction. The hazards
  are the windows between the check of `_closing` and the use of what was
  awaited, resizing while calls wait, and shutdown during a connection attempt.
- *queue*: it is a stack of holders and a line of waiting calls, although the code
  keeps promises on one side and callbacks on the other.
- *transaction*: the block's effects are committed at most once, a resolved call
  has committed, retries are bounded, a query is never sent while another one is
  in progress. The hazards are a connection lost during COMMIT and a block that
  returns while one of its queries is in progress.
- *connection*: an answer goes to the request it belongs to, nobody waits on a
  dead connection, an attempt to connect ends. The hazards are the single
  `messageWaiter`, an answer that is left unread after an error, a close during
  the handshake, the timeout.
- *buffers*: messages come out as they were cut at the sender, wherever the
  chunks are cut; the ring is not overrun.
- *queries*: one that is not read-only takes effect once, however often its call is
  retried; the rows of a call are those of one execution, decoded with the types they
  were encoded with; whatever it ended with, the next call reads its own answers. The
  hazards are the caches of types and capabilities, which a migration outdates and
  another query evicts, and errors between the messages of an answer.
- *LRU*: map and list agree, the least recently used entry is evicted.
- *codecs registry*: a type's codec is what its descriptor says, whatever was cached,
  although a descriptor whose codec is known is skipped by code of its own.
- *codecs and buffers in memory*: what is written is what is read, at the limits of
  widths, signs and scales.
- *dates*: ordinals and dates are inverse at the ends of every cycle; the text of a
  duration tells its amount, and the wire keeps it. The hazards are divisions of negative
  numbers, and fractions of a second in double precision.
- *configuration*: a parameter comes from the first source that gives it, and no
  combination of modes and certificates weakens what is checked of the server.
- *inference*: the number of results of a query is within its inferred cardinality; the
  overload taken is the most specific; the compiler's tables are the program's.
- *query builder*: in the text of a query every name is declared around its use.

## 2. The modules

| module | extends or instances | models |
|---|---|---|
| `ClientPool`, `MCClientPool`, `ClientPoolProofs` | | the pool, its holders and its shutdown |
| `HandOff`; `LifoQueue`, `MCLifoQueue`, `LifoQueueProofs` | `LifoQueue` implements `HandOff` | the queue |
| `Transaction`, `MCTransaction`, `TransactionProofs` | | transactions, retries, the server's session |
| `Connect`, `ConnectProofs` | | handshake, timeout, reconnect loop |
| `Ring`; `MessageBuffer`, `MCMessageBuffer`, `MessageBufferProofs` | `MessageBuffer` extends `Ring` | receiving messages |
| `LRU`, `LRUProofs`, `Recency`; `Fetch`, `MCFetch`, `FetchProofs` | `Fetch` extends `LRU`, whose list implements `Recency`; `FetchProofs` extends `LRUProofs` | queries and scripts, message by message |
| `Registry`, `Lookups`, `MCRegistry` | `Registry` extends `LRU`; `Lookups` extends it with what it promises; proved in `FunctionsProofs` | the codecs registry |
| `Wire`; `Codecs`, `MCCodecs` | `Codecs` extends `Wire` | buffers in memory, codecs |
| `Doubles`; `Dates`, `Calendar`, `MCDates`; `FunctionsProofs` | `Dates` extends `Doubles`; `Calendar` extends `Dates` with what it promises; `FunctionsProofs` extends `Calendar`, `Lookups`, `Cardinality` and `LRUProofs` | dates, times, durations and their codecs |
| `Config`, `Precedence`, `MCConfig` | `Precedence` extends `Config` with what it promises; proved in `ConnectProofs` | connection parameters |
| `Schema`, `MCSchema`; `Cardinality`; `Inference`, `MCInference` | `Inference` extends `Schema` and `Cardinality`, which is proved in `FunctionsProofs` | casts, overloads, cardinalities |
| `QueryText`, `QueryBuilder`, `MCQuery` | each extends the one before | the text of queries |
| `Cases`, `MCFunctions` | extends `Cases`, `MCConfig`, `MCRegistry`, `MCDates` and `Cardinality`, instances the other `MC` modules of the six lines above | one state per input of a pure function |

What could be added next: `ClientPool` with `LifoQueue` in place of the stack and the
line; `group` and link properties in `QueryText`.

## 3. The pool

`ClientPool.tla` models `src/client.ts`. A call (`Tasks`) has a program counter
`pc` that names the `await` at which it stands; an action is the code between
two awaits.

| module | code |
|---|---|
| `free`, `waiters` | the queue: holders on the stack, calls in line |
| `held` | the holder a call got from `queue.get()` |
| `inUse`, `closeWait` | the event `_inUse`, and for each holder what close() is doing about it |
| `conn`, `dirty` | `_connection` and whether its last status is not idle |
| `closing` | `_closing`: null, a pending event, an event that is set |
| `CallOp`, `Acquire` | `acquireHolder()` up to and after its await |
| `GetConnection`, `ConnectOk`, `ConnectFail` | `_getConnection()`, `getNewConnection()` with the resize |
| `OpEnd`, `OpRetry`, `Wake` | the work on the connection, the retry loops and their backoff |
| `Reset`, `ResetEnd`, `Release` | `release()`, with `resetState()` |
| `CallEnsure` ... `EnsureConnectFail` | `ensureConnected()` |
| `Close`, `CloseHolder`, `CloseFinish`, `CloseAgain`, `CloseReturn` | `close()` |
| `Terminate` | `terminate()` |
| `ConnLost`, `TransactionTimeout` | the network; the server's limit on idle transactions |

Every interleaving of continuations is allowed, which is more than the order of
the microtask queue allows; the runs that find a violation were checked against
that order by hand. What a call does on its connection is abstract: it ends or is
retried, and a transaction may leave the connection `dirty`. A query whose
`Parent` is a transaction is made inside its block, which then awaits it.
`raced` and `terminated` are history variables.

## 4. The queue

`HandOff.tla` is what `LifoQueue` promises: a stack of items and a line of
consumers, one of which is always empty. `LifoQueue.tla` keeps what
`src/primitives/queues.ts` keeps:

| module | code |
|---|---|
| `promises`, `resolvers`, `rejecters` | the three arrays, oldest first; a callback is named by the promise it settles |
| `state`, `value`, `awaits` | what became of each promise, and which promise a consumer awaits |
| `Push` | `push()`: calls the oldest resolver, or adds a promise and resolves it |
| `Get` | `get()`: takes the newest promise (`pop()`), or adds one and returns it |
| `CancelAllPending` | `cancelAllPending()`: rejects every pending promise and drops the callbacks |
| `Fresh`, `Shifted` | `_add()`; `shift()` of an array that may be empty |
| `Leave` | the program: a consumer is done with what it got |

`IsHandOff` is the refinement: `LifoQueue` implements `HandOff` with the free
items being those of the resolved promises that nobody took, and the line being
the consumers of the pending ones. `ClientPool` uses the same stack and line.

## 5. Transactions

`Transaction.tla` models one connection holder, the calls of `transaction()` that
use it one after the other, its connection and the server's session.

| module | code |
|---|---|
| `Call`, `Retry`, `GiveUp` | the loop of `ClientConnectionHolder.transaction()` (`src/client.ts`) |
| `StartTransaction`, `Connect`, `ConnectFail`, `ResetDone`, `ResetFailed`, `StartDone` | `_getConnection()`, `Transaction._startTransaction()`, and the `resetState()` of a connection that is not clean |
| `BlockQuery`, `Parsed`, `QueryDone` | the query methods of `src/transaction.ts` with `_opInProgress`, `fetch()` and `execute()` of `src/baseConn.ts` |
| `BlockReturn`, `BlockThrow`, `BlockAborted` | the three ends of the block and of its `Promise.race()` |
| `CommitDone`, `RollbackDone` | `_commit()`, `_rollback()` and the `catch` around them |
| `Release`, `CleanupDone`, `CleanupFailed` | `release()` with `resetState()` |
| `Send`, `Resumed`, `Read`, `Outcome` | the message waiter: whoever awaits it reads the next answer |
| `ConnLost` | `_abort()` and the socket's events |
| `ServerError` ... `ServerRollback` | the server, external: it answers in order, keeps idle, intrans or inerror, and reports it with every answer |

A query is one or two requests (`parse`, then `fetch`): the first describes the
types when the client does not know them, or has outdated ones. A request is
answered as a whole. `Outcome = "unexpected"` is the error of `_fallthrough()`: the
answer then stays unread. `Overlap` says whether blocks may end while a query of
theirs is in progress, or leak their transaction, which the API does not prevent: while the
loop sleeps before a retry, what kept the transaction of a failed attempt may still query,
if its state is still `ACTIVE` (`active`: COMMIT or ROLLBACK failed or was refused). Three variables are histories:
`committed`, `stray` and `done`.

## 6. Connecting

`Connect.tla` models one `retryingConnect()` with its deadline: attempts, the
timer of `connectWithTimeout()`, the socket and the handshake with SASL, and at the first
ReadyForCommand the check that the protocol version does not require TLS of a socket that
has none. The server
may send any message at any time, and ends or drops the connection when it likes; a
`genuine` one knows the password.

| module | code |
|---|---|
| `Init`, `Again`, `Deadline`, `Reconnects` | `src/retry.ts` |
| `Begun`, `Timeout`, `Thrown`, `Fail` | `connectWithTimeout()` (`src/rawConn.ts`) |
| `SocketConnect`, `SocketError`, `SocketEnd`, `SocketClose` | `_onConnect`, `_onError`, `_onClose` and Node's socket: an error is followed by "close", `destroy()` of a destroyed socket does nothing |
| `Message`, `Take`, `Accepted`, `Nonce` | the loop of `connect()` and `_authSasl()` with its three awaits |

`EndsUnlessMissed` says exactly when an attempt does not end: a socket that fails where
nobody is told of it. A server that ends the connection in the handshake does that
(`_onClose()` of a socket that is not `connected` does nothing, `src/rawConn.ts:79`), the
timeout notwithstanding: the deadline is compared after a failure only.

## 7. Receiving messages

`Ring.tla` are the operations of `src/primitives/ring.ts` on a record; `MessageBuffer.tla`
is `ReadMessageBuffer` (`src/primitives/buffer.ts`) over it, with the socket that feeds it
(`_onData()`), the wait for a message and the loop of an operation.

| module | code |
|---|---|
| `buffer` | `bufs`, `buf0` from `pos0` on, `len`, and the `curMessage...` fields |
| `Fed`, `IsFull`, `Overflows` | `feed()`, `feedEnqueue()` |
| `Skip`, `EnsureFirstBuf`, `Read`, `Throws` | `_readBuffer()`, `discardBuffer()`, `ensureFirstBuf()`, `checkOverread()` |
| `TakeMessage`, `TakeData`, `Finished` | `takeMessage()`, `takeMessageType()`, `_finishMessage()` |
| `OnData`, `OnDataOverflow` | `_onData()` (`src/rawConn.ts`) |
| `WaitForMessage` | `takeMessage()`, then `_waitForMessage()`, which resumes a paused socket |
| `ReadField`, `ReadFails`, `FinishMessage` | the reads of one message and `finishMessage()` |
| `ConsumeMessage`, `TakeNextData`, `DiscardMessage` | `_parseDataMessages()` and the data messages after an error |
| `pc = "taking"` | the operation is at the next `takeMessage()` of its loop, which it reaches without an `await` |

A byte is its place in what the buffer was fed; that says which message it belongs to and
whether it is its type, a part of its length or of its payload, and a read returns places,
so that `MessagesIntact` compares what is handed over with what was sent. Neither reading a
message nor going on to the next one awaits anything, so chunks arrive only while an
operation waits or none is at work.

## 8. Queries and scripts

`Fetch.tla` models the calls made on one connection holder, one after the other, message
by message: the retry loop, the flows of the protocol, the connection's cache of query
types, and a server whose schema a migration changes. `mode` chooses a socket or HTTP, the
protocol version and whether the server sends capabilities.

| module | code |
|---|---|
| `Begin`, `Connect`, `ConnectFail`, `Caught`, `Retry`, `ScriptFails` | `retryingFetch()`, `execute()` and `_getConnection()` of the holder (`src/client.ts`) |
| `StartCached`, `StartParse`, `StartScript` | the beginnings of `fetch()` and `execute()` (`src/baseConn.ts`) |
| `Send`, `SendQuery`, `Parsed`, `Return`, `Throw` | what the flows have in common: arguments encoded, cardinality checked, the cache written |
| `ReadPrepared` ... `ReadUnexpected` | one turn of a flow's `while` over the messages; `_fallthrough()` |
| `FlowFails`, `ParseEnds`, `DescribeEnds`, `ExecuteEnds`, `ScriptEnds` | ReadyForCommand, and what follows the loop |
| `ConnLost`, `HttpFails` | `_abort()`; a request over HTTP that fails (`src/fetchConn.ts`) |
| `Serve`, `SchemaChange` | the server, external: it describes, executes or rejects |
| `cache` | `queryCodecCache`, an LRU with map and list (`LRU.tla`) |
| `known` | what the codecs registry can build without being told the types again |

`LRU.tla` has the operations of `src/primitives/lru.ts` on the two structures that have to
agree, the map and the doubly linked list, with their links. `Recency.tla` is what a
least-recently-used cache promises, a sequence without any links; `IsRecency` says that
`Fetch` implements it, with `Entries(cache)` for the sequence.

A client reads what has arrived before anything else happens, so that an unread message
is one that has not arrived. The types of a query are a value of a small set, a row says
with which types it was encoded and which execution it is of; `runs` is the history of what
the server has executed for the call.

## 9. The algorithms

These have no concurrency. A state of `MCFunctions` is one input, or a registry with its
last lookup; each property compares the outcome with an independent definition of what it
should be, which its `MC` module has (for `Config`, `Precedence`; for `Registry`, `Lookups`;
for `Dates`, `Calendar`; `Cardinality` has its own).

| module | code | compared with |
|---|---|---|
| `Registry` | `src/codecs/registry.ts`: `OneCodec` is `_buildCodec()`, `Skipped` its first half, which consumes a descriptor whose codec is known, `Consumed` the other. Up to three lookups, some of them of the null type, follow each other (`LookUp`, `LookUpNull`) on caches of one, two and eight codecs | what a list of descriptors describes without a cache (`Described`); where each of them ends (`Offsets`) |
| `Config` | `src/conUtils.ts`, `src/credentials.ts`: `SetParam`, `ResolveLevel`, `Resolve`; `TlsOptions`; `ProjectDir`. A level may give credentials in three forms, each of which excludes the others (`Compounds`) | what each level gives (`Gives`), level after level, parameter by parameter (`FirstWins`); the mode asked for (`Asked`) |
| `Dates`, `Doubles` | `src/datatypes/`, `src/codecs/datetime.ts`. `DurationText` is `toString()`, in exact integers; `DurationFrom` is `from()`, in double-precision numbers, which `Doubles` has bit by bit: the nearest one of a decimal fraction and of a product, `% 1` and `Math.floor()`. A count of microseconds is a pair, since TLC's integers have 32 bits | `NextDay`, what a duration adds up to (`Amount`), what a text says (`Meant`) |
| `Wire`, `Codecs` | `src/primitives/buffer.ts` in memory and `src/codecs/` | what the server sends (`ServerData`), the framing of messages (`Framing`) |
| `Schema` | `src/reflection/queries/getCasts.ts`, `getTypes.ts`, `generators/generateCastMaps.ts`, `util/functionUtils.ts` | chains of casts (`Below`) |
| `Cardinality` | `src/reflection/util/cardinalityUtil.ts`, as functions and as types; what `src/syntax/funcops.ts` makes of a parameter's cardinality and `select.ts` of modifiers | how many elements there can be (`Admits`, `Calls`, `Passes`), and no more than that (`Tight`) |
| `Inference` | `src/syntax/funcops.ts`, `set.ts`: overloads and shared types, with the scalars that stand for others in casts (`StandsFor`) | the results of a call for the counts of its arguments (`ResultCounts`); which types fit (`Matches`) |
| `QueryText`, `QueryBuilder` | `src/syntax/toEdgeQL.ts`: `Walk` is `walkExprTree()`, `Extract` the loop that assigns WITH blocks, `Render` is `renderEdgeQL()`, whose text is a tree that keeps the names; `src/syntax/path.ts`, `select.ts` ... make the expressions | how EdgeQL resolves a name (`Resolves`) |

In `Wire` and `Codecs` the bases are constants, so that all integers of a width can be
tried: a byte has four values, a numeric's group three binary digits, a buffer grows by six
bytes, and integers are safe up to 16 times the low half. A set of arrays comes in envelopes, whose
record sizes are checked and whose element sizes are not. The widths, the signs, the halves
and the scales are the code's. In `MCQuery` a query is one of a family of 31,456: a select,
update, insert or for inside of a select, in both of which three expressions occur up to
four times, two of them made of the others, with the blocks of `e.with()` and aliases.

## 10. What the runs show

| run | instance | what it shows |
|---|---|---|
| `pool_safety` | two queries, a transaction, an `ensureConnected()`, two `close()`, `terminate()`; one holder, two after the server's suggestion; 1.5 million states | `HolderInOnePlace`: a holder is free once or in one call's hands. `NoLostWakeup`: nobody waits while a holder is free. `OnlyRacedStayOpen`, `CloseIsGraceful`: what close() does guarantee. `ServedInOrder`: waiting calls are served in the order they came |
| `pool_live` | a query inside a transaction block, on a pool the user keeps to one holder | `EveryCallEnds`, `CloseEnds` |
| `lifo_queue` | three consumers, two items, five promises | `CallbacksPaired`, `IsHandOff` |
| `tx_safety` | two calls, two queries per attempt, two attempts for a lost connection and three for other errors; 180,605 states | `CommittedOnce`, `ResolvedIsCommitted`, `RejectedIsRolledBack`, `CommitsWhatWasDone`, `NothingStray`: what the API says happened did, once and whole. `AnswerIsOwn`, `CleanWhenFree` |
| `tx_live` | the same with overlapping queries and leaked transactions; 1,014,100 states | `EveryCallEnds`: neither an overwritten waiter nor an unread answer stops a call |
| `connect` | any server; 968 states | `EndsUnlessMissed`, `TimeoutIsReported`, `ServerIsProved` |
| `message_buffer` | five messages, two of them data in a row, chunks of 1, 2, 6 and 9 bytes, a ring of five; 37,719 states | `MessagesIntact`: each message has its own bytes, in order. `ToldBeforeCrash`: an overflow is reported before it ends the process. `AllAreRead`: what was received is handed over, unless a chunk does not fit or a field of no bytes ends it |
| `fetch` | three calls of three queries and a script, a cache of two, a migration, four modes; 205,496 states | `ModifiesOnce`: what is not read-only is not done twice. `OwnRows`: the rows returned are those of one execution, and all of them. `NothingLeft`: whatever a call ended with, the next one reads its own answers. `IsRecency`: the cache keeps what was used last. `EveryFetchEnds` |
| `functions` | the inputs of section 9; 219,118 states | `RegistrySound`, `FirstSourceWins`, `SecurityKept`, `CalendarSound`, `RoundTrips`, `CallsResolved`, `InferenceSound`, `QueryResolves` |

*Bounds.* Two of everything is what the properties relate: the call that holds and
the one that waits, a holder that is resized and one that is kept, an attempt and the
next one, a query in progress and the request that overtakes it. `MaxHolders` bounds the
resizes (a suggestion is at most that), `Attempts` the retries, `MaxQueries` the
queries of a block: two let one succeed and the other fail (`tx_live`, where the next
attempt or call meets the answer that one query leaves behind, needs only one).
Different bounds for the two kinds of errors let a block fail for both reasons. The
queue has a promise for every consumer and every item, so that it never lacks one:
promises that nobody refers to are used again. `Connect` has no bound but one: a
message that arrives while another is waiting is not modelled (`inbox` has one place).

In `MessageBuffer` the ring must hold more than a header (2,047 chunks do, and
`StreamAssumption` says so); one message is longer than a ring of one-byte chunks, so that
the ring fills within a message and between messages, and the sizes of the chunks cut
every header at every place and also join whole messages; two data messages in a row let an
operation go from one to the next.

In `Fetch` three calls let a query be cached, evicted or outdated by another one, and
called again; a cache of two holds less than the four queries; one migration outdates the
types of every query: those of one then have no codec, those of another no longer take
its arguments. Two rows show that the rows are of one execution.

The inputs of `MCFunctions` are the smallest that meet every branch: years at the exceptions
of the leap years and the ends of cycles, integers at the limits of their widths, each way of
giving a parameter at two levels, all acyclic casts between four types, three expressions that
contain each other. The fractions of a second are some that doubles hold, some that they do
not, in texts with a fraction of each unit and in durations whose parts are larger than
the next unit. Of the decimals of an hour and a minute `from()` reads ten; nine are
modelled, and counted in billionths.

*Fairness.* The event loop runs whatever continuation is ready, timers fire, a user's
block ends when what it awaits has ended, the server handles the requests it got
(`tx_live`, `pool_live`, `fetch`): these are the weak fairness conditions of `FairSpec`. Nobody
has to call anything, lose a connection or close the client. In `Connect` neither the
server nor the network owes anything: only timers and local callbacks are fair. In
`MessageBuffer` the network delivers what it may, and somebody waits for messages.
`EveryFetchEnds` needs no more: a query is described anew only when the schema has changed
once more, and retried a number of times that is bounded.

### Disagreements between the code and what is said of it

Each is a run that TLC finds violated; `PROJECT.json` quotes the lines.

- `pool_close_call`: `client.query(); client.close()`: `acquireHolder()` checks
  `_closing` only before its await, so that close() neither sees nor awaits the call.
- `tx_overlap`: a block that ends with a query in progress gives the connection back
  one answer behind; a later `transaction()` resolves without having committed.
- `query_shared`: an expression that is met again is not walked again
  (`src/syntax/toEdgeQL.ts:374`), so that what it shares with another scope is declared in an
  inner WITH block and named outside of it. `QueryResolves` is the property without such
  queries (`Recorded`).

### Seen on the way

What the passing runs contain, or what was met while modelling, that a user may be surprised
by. None of it is a run of its own.

- `ensureConnected()` does not set `_inUse`, so that a `close()` during it ends before its
  connection is made, which stays open; likewise a connection that is being made when
  `terminate()` runs. `OnlyRacedStayOpen` says that no other one does.
- A retryable error of START TRANSACTION is not retried: it is thrown outside of the `try`
  (`src/transaction.ts:54`, `src/client.ts:121`).
- After "query result is too big: buffer overflow" the connection stays in use with its
  ring full: a chunk that comes when no operation waits makes `feed()` throw out of the
  socket's "data" listener, where nothing catches it. An empty string at the very end of
  what was received makes the read throw "buffer overread", since `_readBuffer(0)` asks for
  the next chunk first.
- A message that a flow does not know stays in the buffer, and makes every later call on
  that connection fail (`NothingLeft`, its second case).
- `setCustomCodecs()` does not drop codecs that were built before. A descriptor's
  annotation fails the build when its type was evicted meanwhile.
- A date before the year 1, which `LocalDate` takes and EdgeDB does not have, is encoded as
  another one: `daysBeforeYear()` cuts towards zero (`src/datatypes/dateutil.ts:22`), so
  that `LocalDate(0, 1, 1)` comes back as 0-01-02.
- `LocalDateTimeCodec.decode()` refuses microseconds before 2000 that are not whole
  milliseconds: the remainder is negative (`src/codecs/datetime.ts:87`).
  `Duration.from("P1D")` throws a TypeError, for want of a T.
- `Duration.from()` reads a fraction with double-precision numbers, times 1000, `% 1` and
  `Math.floor()` (`src/datatypes/datetime.ts:614-624`): `PT0.0014S`, which is what
  `toString()` writes of 1 ms and 400 us, is read as 1 ms, 399 us and 999 ns.
  `src/test/types.test.ts:193-213` compares texts with the exact `Temporal.Duration`, and
  has none that meets it. `RoundTrips` says that such a text loses a nanosecond and no more
  (`TextSound`).
- An exponent of a decimal text
  that is no multiple of four gives another number. `writeBigInt64()` of 2^63 and above
  writes a negative number. Arguments by name are only counted: a name the query does not
  know passes when another is missing.
- The type of `assignable()` lets `Many` be given for `AtLeastOne`. Of variadic arguments
  only the first one's type is checked. The cardinality of a filter looks at the type of
  the pointer's parent, not at the path that leads to it (`src/syntax/select.ts:336`).
  `limit: 0` passes for no limit at run time. `update()` takes `order_by`, `limit` and
  `offset` as types and throws when it is called. Where casts know a scalar under another's
  name, that of an argument is replaced and that of a parameter's array is not
  (`src/syntax/funcops.ts:255`): a parameter of type `array<int64>` takes no
  `array<int64>`, which `Inference` keeps (`ParentSound`). The parent of two named tuples depends on
  their order.
- An alias that occurs twice, and an expression whose block is rendered twice, are renamed
  twice.
- A concurrency of 0 passes the validation whose message says "greater than 0" and gives a
  pool where every call waits. The fall-back to clear text on `EPROTO` cannot be reached,
  since `_onError()` wraps the socket's error in one that has no code. A handshake that
  fails does not destroy its socket.

## 11. What is proved

For every value of the constants, from the `ASSUME`s of the modules (the number of
attempts is positive, `Null` is none of the ids, and so on):

- **`ClientPoolProofs`** `TypeCorrect` and `HoldersInOnePlace`. The second is not
  inductive: whether a release pushes a holder that is nowhere else depends on which
  call has it and at which `await` it stands. The invariant (`CallsOK`) adds that a call
  has a holder exactly when its program counter says so (`HandsMatch`), and that the
  line holds waiting calls only, each once (`WaitersWait`, `WaitersOnce`), so that the
  one that is handed a holder has none; one lemma per action shows what it does to them.
- **`ClientPoolProofs`**, second part: `WakeupsNotLost`, `WaitersServedInOrder`,
  `OnlyMissedStayOpen`, `ClosesGracefully`. Every step does one of five things to the queue
  (`QueueStep`), which is all that the first two need. For the shutdown, the invariant
  (`Shutdown`) says that close() awaits every holder that a call has, or that is still open,
  but those of which it had no way to know (`Reached`); that nobody takes a holder whose
  release close() has noticed (`Resumed`); and that after the end only the missed holders
  have, or are given, a connection (`Closed`). It is kept because no call gets a holder once
  the queue is cancelled (`Quiet`), which in turn needs that nobody waits in it any more.
- **`LifoQueueProofs`** `ImplementsHandOff` and `CallbacksStayPaired`. The invariant
  (`Linked`) says that promises that are kept to return are resolved and wait for
  nobody, that callbacks that are kept belong to pending promises in the order of
  their consumers, and that never both exist; under it every step of the code maps to
  a step of `HandOff` or changes nothing of it.
- **`TransactionProofs`** `AtMostOneCommit`, `ResolvedCommits`,
  `RejectedCommitsNothing`, `AnswersMatch`, on the condition `~Overlap` (a block does
  not end with a query in progress; `tx_overlap` shows that they fail otherwise).
  `CommittedOnce` is not inductive: nothing in it says why the next attempt has no
  commit behind it. The invariant follows the wire: at most one request or one answer
  is on its way, the reader's (`Wire`), and the reader is the operation at which the
  call stands (`Match`). Hence a call knows what became of its COMMIT unless the
  connection was lost (`Unclear`), and as long as it is not unclear it has committed
  nothing (`Commits`); the condition on `commitFailed` in the retry loop is what keeps
  an unclear attempt from being followed by another.
- **`TransactionProofs`**, second part: `TypeCorrect`, `ReleasedClean`, `NoStrayQuery` and
  `CommitIsExact`, on the same condition and with the invariant above. They are about the server's
  session, which the client only knows from the status that ends every answer. The
  invariant (`Session`) says that an answer that has been read told the state the session
  is still in (`Known`), that an unread one tells what its request did to it (`Told`),
  that a block therefore runs in a transaction, though perhaps a failed one, and a free
  holder has none (`Placed`), and that an open transaction holds the block's successful
  queries and the one whose answer is unread (`Accounted`): that is why COMMIT makes
  exactly the block's work permanent. `TypeCorrect` adds that operations on their way are
  numbered and that an iteration is within the rule of its errors (`Bounds`).
- **`ConnectProofs`** `TimeoutReported` and `ServerProved`, for any number of attempts and
  any messages. The invariant (`Attempt`) says that the timeout has destroyed the socket, so
  that no message and no error of it comes after (`Destroyed`), and that from the moment an
  impostor asks for authentication connect() stands within `_authSasl()`, which it leaves
  only for a proof of the server (`Unproved`).
- **`ConnectProofs`**, second part: `FirstSource` and `SecurityIsKept`, for any options,
  environment, project and client, with any values, DSNs and credentials, and for ways to
  the root of any length. What is compared are two orders of doing things: the code sets
  one parameter after the other on a configuration that may already be refused, level by
  level; `Precedence` looks every parameter up on its own. The lemmas say that setting
  parameters takes the first value of each (`SetParamsIs`), that doing so for one list and
  then for another is doing so once for the two (`ThenThen`), hence what a DSN, credentials,
  a level and the levels make of what was known (`ParseDSNIs`, `CredentialsGive`,
  `LevelIs`, `LevelsAre`), and that it does not matter whether a value is validated before
  or after it is chosen (`ValidFirst`). The hypotheses say what an input is
  (`IsInput`) and that the markers `None` and `Failed` are no values (`Distinct`), which the
  run meets with model values.
- **`LRUProofs`**, for any capacity: the nodes of a cache that is in order are those of one
  sequence, without repetition, whose neighbours the links name (`Linked`), and the map is
  the inverse of the nodes' keys (`Mapped`). `get()` raises an element of that sequence,
  `set()` puts one before it and perhaps drops the last one; `entries()` walks along it.
  What a walk yields is a function defined by recursion: its facts are proved by induction
  for a set of naturals, the least element of whose complement would not be in it
  (`SetInduction`).
- **`FetchProofs`** `TypeCorrect`, `ModifiedOnce`, `RowsAreOwn`, `LeavesNothing`,
  `CacheIsRecency`, for any queries, types, schemas and calls. Within a flow the connection
  has the flow's one request or what is left of its answer, which the one ReadyForCommand
  ends (`Wire`); `NothingLeft` follows. What has arrived of an answer, with what the flow
  has collected, is all the rows of one execution, or has an error, or new types and no row
  (`Rows`, `Collected`); that a flow which needs types has them is `TypesKnown`.
  `ModifiesOnce` is not inductive: a query that is not read-only could be sent again after
  new types or after an error that permits a retry. `TriedOnce` says that neither follows
  once the server has, or will have, executed it, which needs that no message and no entry
  of the cache calls it read-only (`CapsKept`, `CacheKept`). `CacheIsRecency` is the
  refinement of `Recency`: a step that touches the cache maps to one of its steps, by the
  lemmas of `LRUProofs`.
- **`MessageBufferProofs`** `TypeCorrect`, `ReadAsSent`, `CrashIsTold`, for any messages, any
  sizes of chunks and any ring that holds more than a header (`StreamAssumption`). The
  chunks that the buffer holds follow one another up to the last byte it was fed, around the
  end of the ring's array too (`Chained`); what `takeMessage()` has read so far, the type,
  the type and the length or neither, says where in the stream the next byte is (`Parsed`).
  A full ring means a paused socket, a waiting operation or an overflow that was told
  (`Told`). And a chunk is lost only when the ring is full and holds less than the message
  lacks (`Stuck`), so that no message that lacks bytes is ever handed over as if it had
  them: nothing is read past the loss.
- **`FunctionsProofs`** `LookupsAreSound`, for caches of any capacities, any custom codecs, any
  version of the protocol, and any number of lookups of the null type and of any types that mean the same wherever
  they are described (`TypesAssumption`, which TLC evaluates for the types of the run). The
  caches hold what is described of a type, each under its own, whatever was evicted (`Holds`,
  kept by a `get` and a `set` of any cache that is in order, by the lemmas of `LRUProofs`).
  Each turn of the loop of `buildCodec()` ends where the descriptor ends, since what is skipped
  of it is as long as what is read (`SkippedIs`), and adds to the list of codecs what the
  descriptor means, whether it was found or built (`AfterTurns`). An annotation throws unless
  its type is found: it is, if the cache has room for as many codecs as the list has
  descriptors, because a type is then still among those used since the list was begun
  (`Used`). `NoCodecIsNone` says that the marker of a lookup that failed is no codec.
- **`FunctionsProofs`** `CalendarIsSound`, for every date from the year 1 to the year 275759, every
  time of a day on each of them, and every duration of integers. A date survives
  `LocalDateCodec`, its day is one less than that of the next date, and its day of
  the year is within the year (`DatesSurvive`). A year is some cycles of 400, 100 and 4 years and
  some years (`Cycles`); these say whether it is a leap year and how many days are before it
  (`YearFacts`). The divisions of `ord2ymd()` find the same cycles (`Divisions`), except on
  the last day of a leap year, where a quotient is one too large and the year is taken
  from the year after; its estimate of a month is that month or the next one (`Estimate`).
  A time survives its three codecs, on a date before 2000 provided that it is one of
  milliseconds where `DecodeLocalDateTime` cuts (`TimesSurvive`). A duration of mixed signs is
  refused; the fields of any other are its sign times natural numbers (`Signed`). For any of
  them, to the nanosecond, the text says what the fields add up to (`TextMeans`): the decimals,
  taken three at a time, carry as the fields do (`ElapsedIs`). A text without a fraction, whose
  numbers are then whole, is read back as the duration it came from (`WholeIsRead`). The
  codecs give fields of its sign, whose sum is the same (`Carried`, `DurationSurvives`,
  `RelativeSurvives`). What doubles make of a fraction that is read is not proved: TLC checks
  it (`TextSound` in `RoundTrips`). Integers are unbounded here: what does
  not fit into the 64 bits of the wire, or into a double, is not considered. `NoDate`, what
  throws, is none of the values.

- **`FunctionsProofs`** `InferenceIsSound`, for any numbers of elements (`Amounts`, of which the
  run has four), any base and any modifiers. Whether none, one or more than one element is
  admitted tells the cardinalities apart (`OfFacts`), so that a table is as narrow as it can be
  when it admits exactly what there can be (`ExactIsTight`); `MultiplyTable`, `MergeTable`,
  `OrTable`, `LowerBoundTable` and `UpperBoundTable` say it of each table, as a function and as
  a type. The product of more than two arguments is a fold, and stays with TLC
  (`CallsResolved`). Two things the code does are stated as they are: `overrideUpperBound()` of
  an empty set is at most one, which is wider than it could be, and `assignable` lets any set
  pass for a pointer that must have an element.

Only model-checked:

- everything under fairness (`EveryCallEnds`, `CloseEnds`, `EndsUnlessMissed`, `AllAreRead`,
  `EveryFetchEnds`), which the prover does not handle;
- what `Duration.from()` makes of a fraction (`TextSound`), on the texts of `MCDates`;
- `RoundTrips`, `CallsResolved` and `QueryResolves` (`Codecs`, `Schema`, `Inference` and
  `QueryText` of section 9), on bounded inputs: they follow data that contains data with
  RECURSIVE operators, of which the prover knows nothing.

What to prove next: the pool with `LifoQueue` in the place of the stack and the line, from
`ImplementsHandOff`; and the casts and overloads of `Schema`, once what they compute is
written without RECURSIVE operators.

Proving found one thing that checking had not: TLC takes the first arm of a `CASE` whose guard
holds, but TLA+ does not say which one is taken. Where the code's order of conditions matters
(the security modes, the tables of cardinalities, the rendering of a query), the
definitions are therefore `IF ... ELSE`, or have guards that exclude each other.

## 12. What is not modelled

Code generation, which only writes text, the generated error classes, the command line and
the platform adapters, for the reasons given in `PROJECT.json`. The cryptography of SCRAM
and the server are external: they are modelled by what the client relies on. In
`ClientPool` what a call does on its connection is abstract, in `Transaction` and `Fetch`
the pool around the holder is; `Transaction` leaves out what a leaked transaction does after
its call has ended. `Fetch` leaves out the legacy protocol's headers and the
format of the results. In `MessageBuffer` what the fields of a message say is left out, and
so are `putMessage()` and `clear()`, which nothing calls on a connection. `Config` leaves
out the syntax of DSNs, file formats and host names: a value is valid or not. Of the query
builder the block of an `e.with()` that is itself what an expression refers to, which is
rendered and dropped (`src/syntax/toEdgeQL.ts:699-788`), `group`, link properties and the polymorphic parts of shapes are left out, and so
are the static types of its functions except for the tables of cardinalities.

## 13. Assumptions about what is outside

Casts of a schema have no cycle (they are declared by the database, and `getCasts` would
not return of one). The server answers requests in the order they came, one transaction
status with every answer, and ends every answer with ReadyForCommand; what it sends within
that is free. Node.js reports every closed socket with "close", which an "error" precedes when
there was one.

## 14. Conventions

A definition has the name of the function it models where it has one. Operators
under a comment "Faulty variant" are not used by any specification: each is a
plausible mistake in the definition that follows it (a dropped guard, a swapped order,
a missing reset), and the property that `PROJECT.json` names for it is violated when
it takes that definition's place. They show that the property depends on the code.

To run: `tlc -config X.cfg M` with the configuration and the module that
`PROJECT.json` lists under "runs", `tlapm M.tla` for the modules `*Proofs.tla`.
