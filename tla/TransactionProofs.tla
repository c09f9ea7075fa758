------------------------- MODULE TransactionProofs -------------------------
(***************************************************************************)
(* Safety of Transaction for any calls, attempts and number of queries, on *)
(* the condition that no block ends with a query in progress (~Overlap).   *)
(*                                                                         *)
(* The argument: the connection carries one request or one answer at most, *)
(* that of its reader (Wire), and the reader is the operation that the     *)
(* call stands at (Match).  So a call knows whether its COMMIT succeeded,  *)
(* unless the connection was lost (Unclear), and an unclear attempt is     *)
(* never followed by another one (Commits).                                *)
(***************************************************************************)
EXTENDS Transaction, TLAPS

PCs == {"free", "connect", "starting", "block", "committing", "rollback",
        "caught", "ended", "cleanup"}

Over == {"free", "ended", "cleanup"}

Types ==
    /\ pc \in PCs
    /\ call \in Calls \cup {Null}
    /\ call = Null <=> pc = "free"
    /\ failure \in Errors \cup {"none"}
    /\ pc \in {"rollback", "caught"} => failure # "none"
    /\ outcome \in [Calls -> [how : Errors \cup {"ok", "running"}, iter : Nat,
                              unsure : BOOLEAN]]
    /\ iter \in Nat
    /\ commitFailed \in BOOLEAN

Idle == requests = <<>> /\ answers = <<>>

Asked == requests = <<reader>> /\ answers = <<>>

Answered ==
    /\ requests = <<>>
    /\ answers = <<Head(answers)>>
    /\ Head(answers).to = reader
    /\ Head(answers).body \in Expected(reader.kind)

\* Nothing is on its way, or the reader's request or its answer.
Wire == Idle \/ (conn = "open" /\ (Asked \/ Answered))

\* The operations that are awaited where the call stands.
KindsAt == CASE pc = "starting"   -> {"reset", "start"}
             [] pc = "committing" -> {"commit"}
             [] pc = "rollback"   -> {"rollback"}
             [] pc = "cleanup"    -> {"cleanup"}
             [] pc = "block"      -> IF busy THEN QueryKinds ELSE {}
             [] OTHER             -> {}

IsOp(r) == r = [call |-> r.call, iter |-> r.iter, kind |-> r.kind, n |-> r.n]

Match ==
    reader # Null \/ ~Idle =>
        /\ IsOp(reader) /\ reader.kind \in KindsAt
        /\ reader.call = call /\ reader.iter = iter

\* The answer that COMMIT has succeeded is there.
Confirmed == answers # <<>> /\ Head(answers).body = "complete"

\* The call may have committed.
Unclear ==
    \/ pc \in Over
    \/ pc = "committing" /\ (conn # "open" \/ Confirmed)
    \/ pc = "caught" /\ commitFailed /\ failure = "conn"

Commits ==
    /\ ~Unclear => \A d \in committed : d.call # call
    /\ \A c \in Calls : outcome[c].how = "running" /\ c # call =>
           \A d \in committed : d.call # c
    /\ pc \notin Over => outcome[call] = Running
    /\ pc \in {"ended", "cleanup"} => outcome[call].how # "running"
    /\ pc = "committing" /\ Confirmed =>
           \E d \in committed : d.call = call /\ d.iter = iter

Outcomes == CommittedOnce /\ ResolvedIsCommitted /\ RejectedIsRolledBack

IInv == Types /\ Wire /\ Match /\ Commits /\ Outcomes

-----------------------------------------------------------------------------

LEMMA SeqFacts ==
    ASSUME NEW x
    PROVE  /\ Append(<<>>, x) = <<x>> /\ Head(<<x>>) = x
           /\ Tail(<<x>>) = <<>> /\ <<x>> # <<>>
OBVIOUS

LEMMA InitIInv == Init => IInv
<1> SUFFICES ASSUME Init PROVE IInv
  OBVIOUS
<1>1. Types
  BY DEF Init, Types, PCs, Running, Errors, Retryable
<1>2. Wire /\ Match
  BY DEF Init, Wire, Match, Idle
<1>3. Commits
  BY DEF Init, Commits, Unclear, Over
<1>4. Outcomes
  BY DEF Init, Outcomes, CommittedOnce, ResolvedIsCommitted,
         RejectedIsRolledBack, Running, Errors, Retryable
<1> QED
  BY <1>1, <1>2, <1>3, <1>4 DEF IInv

\* The error kinds, spelled out.
LEMMA ErrorFacts == Errors = {"conn", "retry", "fatal"}
BY DEF Errors, Retryable

\* An operation that is awaited ends with the loss of the connection, or with
\* the answer to its own request.
LEMMA ResumedFacts ==
    ASSUME IInv, NEW K, Resumed(K)
    PROVE  /\ IsOp(reader) /\ reader.kind \in K \cap KindsAt
           /\ reader.call = call /\ reader.iter = iter
           /\ requests = <<>>
           /\ conn # "open" => Outcome = "conn" /\ answers = <<>>
           /\ conn = "open" =>
                 /\ Answered
                 /\ Outcome \in {"retry", "fatal", "ok"}
                 /\ reader.kind = "commit" =>
                       (Outcome = "ok" <=> Head(answers).body = "complete")
           /\ Read => answers' = <<>>
<1>1. reader # Null /\ reader.kind \in K /\ (answers # <<>> \/ conn # "open")
  BY DEF Resumed
<1>2. /\ IsOp(reader) /\ reader.kind \in KindsAt
      /\ reader.call = call /\ reader.iter = iter
  BY <1>1 DEF IInv, Match
<1>3. CASE conn # "open"
  <2>1. requests = <<>> /\ answers = <<>>
    BY <1>3 DEF IInv, Wire, Idle
  <2>2. Outcome = "conn"
    BY <1>3 DEF Outcome
  <2>3. Read => answers' = <<>>
    BY <2>1, <2>2 DEF Read
  <2> QED
    BY <1>1, <1>2, <1>3, <2>1, <2>2, <2>3
<1>4. CASE conn = "open"
  <2>1. Answered
    BY <1>1, <1>4, SeqFacts DEF IInv, Wire, Idle, Asked
  <2>2. Head(answers).body \in Expected(reader.kind)
    BY <2>1 DEF Answered
  <2>3. Outcome = IF Head(answers).body \in Errors THEN Head(answers).body ELSE "ok"
    BY <1>4, <2>2 DEF Outcome
  <2>4. "conn" \notin Expected(reader.kind)
    BY DEF Expected
  <2>5. Outcome \in {"retry", "fatal", "ok"}
    BY <2>2, <2>3, <2>4, ErrorFacts
  <2>6. reader.kind = "commit" => (Outcome = "ok" <=> Head(answers).body = "complete")
    BY <2>2, <2>3, ErrorFacts DEF Expected
  <2>7. Read => answers' = <<>>
    <3> SUFFICES ASSUME Read PROVE answers' = <<>>
      OBVIOUS
    <3>1. answers' = Tail(answers)
      BY <2>5 DEF Read
    <3> DEFINE a == Head(answers)
    <3>2. answers = <<a>>
      BY <2>1 DEF Answered
    <3> HIDE DEF a
    <3> QED
      BY <3>1, <3>2, SeqFacts
  <2> QED
    BY <1>1, <1>2, <1>4, <2>1, <2>5, <2>6, <2>7 DEF Answered
<1> QED
  BY <1>3, <1>4

-----------------------------------------------------------------------------
(* What steps have in common.                                              *)

LEMMA AloneKeeps ==
    ASSUME reader' = Null, Idle'
    PROVE  Wire' /\ Match'
BY DEF Wire, Match

\* A request is sent when nothing is on its way.
LEMMA SentKeeps ==
    ASSUME NEW op, conn' = "open", reader' = op, requests' = <<op>>, answers' = <<>>,
           IsOp(op), op.kind \in KindsAt', op.call = call', op.iter = iter'
    PROVE  Wire' /\ Match'
BY DEF Wire, Match, Asked, IsOp

\* The call goes on.
LEMMA GoesOn ==
    ASSUME IInv, UNCHANGED <<committed, outcome, call>>, pc \notin Over,
           pc' \notin Over, ~Unclear' => ~Unclear,
           pc' = "committing" /\ Confirmed' =>
               pc = "committing" /\ Confirmed /\ iter' = iter
    PROVE  Commits' /\ Outcomes'
<1>1. Commits'
  <2>1. ~Unclear' => \A d \in committed' : d.call # call'
    BY DEF IInv, Commits
  <2>2. \A c \in Calls : outcome'[c].how = "running" /\ c # call' =>
            \A d \in committed' : d.call # c
    BY DEF IInv, Commits
  <2>3. outcome'[call'] = Running
    BY DEF IInv, Commits
  <2>4. pc' = "committing" /\ Confirmed' =>
            \E d \in committed' : d.call = call' /\ d.iter = iter'
    BY DEF IInv, Commits
  <2>5. pc' \notin {"ended", "cleanup"}
    BY DEF Over
  <2> QED
    BY <2>1, <2>2, <2>3, <2>4, <2>5 DEF Commits
<1>2. Outcomes'
  BY DEF IInv, Outcomes, CommittedOnce, ResolvedIsCommitted, RejectedIsRolledBack
<1> QED
  BY <1>1, <1>2

\* The call ends with e.
LEMMA EndKeeps ==
    ASSUME IInv, pc \notin Over, NEW e \in Errors \cup {"ok"}, End(e),
           UNCHANGED <<committed, call, iter, commitFailed, failure>>,
           e = "ok" => \E d \in committed : d.call = call /\ d.iter = iter,
           e # "ok" /\ ~(e = "conn" /\ commitFailed) =>
               \A d \in committed : d.call # call
    PROVE  Types' /\ Commits' /\ Outcomes'
<1> DEFINE r == [how |-> e, iter |-> iter, unsure |-> commitFailed]
<1>1. /\ outcome' = [outcome EXCEPT ![call] = r]
      /\ pc' = "ended"
  BY DEF End
<1>2. call \in Calls
  BY DEF IInv, Types, Over
<1>3. r \in [how : Errors \cup {"ok", "running"}, iter : Nat, unsure : BOOLEAN]
  BY DEF IInv, Types
<1>4. r.how = e /\ r.iter = iter /\ r.unsure = commitFailed /\ e # "running"
  BY ErrorFacts
<1> HIDE DEF r
<1>5. /\ outcome'[call] = r
      /\ \A c \in Calls : c # call => outcome'[c] = outcome[c]
  BY <1>1, <1>2 DEF IInv, Types
<1>6. Types'
  BY <1>1, <1>2, <1>3 DEF IInv, Types, PCs, Over
<1>7. Commits'
  <2>1. Unclear' /\ pc' \in Over
    BY <1>1 DEF Unclear, Over
  <2>2. \A c \in Calls : outcome'[c].how = "running" /\ c # call' =>
            \A d \in committed' : d.call # c
    BY <1>5 DEF IInv, Commits
  <2>3. outcome'[call'].how # "running"
    BY <1>4, <1>5
  <2> QED
    BY <1>1, <2>1, <2>2, <2>3 DEF Commits
<1>8. CommittedOnce'
  BY DEF IInv, Outcomes, CommittedOnce
<1>9. ResolvedIsCommitted'
  BY <1>4, <1>5 DEF IInv, Outcomes, ResolvedIsCommitted
<1>10. RejectedIsRolledBack'
  BY <1>4, <1>5, ErrorFacts DEF IInv, Outcomes, RejectedIsRolledBack
<1> QED
  BY <1>6, <1>7, <1>8, <1>9, <1>10 DEF Outcomes

\* The connection holder goes back to the pool.
LEMMA FreedKeeps ==
    ASSUME IInv, call \in Calls, outcome[call].how # "running",
           call' = Null, pc' = "free", Null \notin Calls,
           UNCHANGED <<committed, outcome, loop>>, Wire', Match'
    PROVE  IInv'
<1>1. Types'
  BY DEF IInv, Types, PCs, loop
<1>2. Commits'
  BY DEF IInv, Commits, Unclear, Over
<1>3. Outcomes'
  BY DEF IInv, Outcomes, CommittedOnce, ResolvedIsCommitted, RejectedIsRolledBack
<1> QED
  BY <1>1, <1>2, <1>3 DEF IInv

-----------------------------------------------------------------------------
(* The steps of the call.                                                  *)

LEMMA CallIInv ==
    ASSUME IInv, NEW c \in Calls, Call(c), Null \notin Calls
    PROVE  IInv'
<1>1. /\ pc = "free" /\ outcome[c] = Running /\ call = Null
      /\ call' = c /\ iter' = 0 /\ pc' = "connect" /\ commitFailed' = FALSE
      /\ failure' = "none" /\ outcome' = outcome /\ committed' = committed
      /\ reader' = reader /\ requests' = requests /\ answers' = answers
  BY DEF Call, IInv, Types, wire, server
<1>2. Types'
  BY <1>1 DEF IInv, Types, PCs
<1>3. reader = Null /\ Idle
  BY <1>1 DEF IInv, Match, KindsAt
<1>4. Wire' /\ Match'
  BY <1>1, <1>3, AloneKeeps DEF Idle
<1>5. Commits'
  <2>1. outcome[c].how = "running"
    BY <1>1 DEF Running
  <2>2. \A d \in committed : d.call # c
    BY <1>1, <2>1 DEF IInv, Commits
  <2>3. \A b \in Calls : outcome[b].how = "running" => \A d \in committed : d.call # b
    BY <1>1 DEF IInv, Commits
  <2> QED
    BY <1>1, <2>1, <2>2, <2>3 DEF Commits
<1>6. Outcomes'
  BY <1>1 DEF IInv, Outcomes, CommittedOnce, ResolvedIsCommitted,
              RejectedIsRolledBack
<1> QED
  BY <1>2, <1>4, <1>5, <1>6 DEF IInv

\* Nothing is on its way unless the call awaits an operation.
LEMMA RestFacts ==
    ASSUME IInv, KindsAt = {}
    PROVE  reader = Null /\ Idle
BY DEF IInv, Match

LEMMA OpFacts ==
    ASSUME NEW k, NEW n
    PROVE  /\ Op(k, n).kind = k /\ Op(k, n).call = call /\ Op(k, n).iter = iter
           /\ IsOp(Op(k, n))
BY DEF Op, IsOp

LEMMA StartTransactionIInv == ASSUME IInv, StartTransaction PROVE IInv'
<1> DEFINE op == Op(IF NeedsReset THEN "reset" ELSE "start", 0)
<1>1. /\ pc = "connect" /\ conn = "open" /\ pc' = "starting"
      /\ requests' = Append(requests, op) /\ reader' = op /\ answers' = answers
      /\ conn' = conn /\ UNCHANGED <<committed, outcome, call, loop>>
  BY DEF StartTransaction, Send, server
<1>2. IsOp(op) /\ op.kind \in {"reset", "start"} /\ op.call = call /\ op.iter = iter
  BY OpFacts
<1> HIDE DEF op
<1>3. Idle
  BY <1>1, RestFacts DEF KindsAt
<1>4. Wire' /\ Match'
  <2>1. requests' = <<op>> /\ answers' = <<>>
    BY <1>1, <1>3, SeqFacts DEF Idle
  <2>2. op.kind \in KindsAt'
    BY <1>1, <1>2 DEF KindsAt
  <2> QED
    BY <1>1, <1>2, <2>1, <2>2, SentKeeps DEF loop
<1>5. Types'
  BY <1>1 DEF IInv, Types, PCs, loop
<1>6. Commits' /\ Outcomes'
  BY <1>1, GoesOn DEF Unclear, Over
<1> QED
  BY <1>4, <1>5, <1>6 DEF IInv

LEMMA ConnectIInv == ASSUME IInv, Connect PROVE IInv'
<1> DEFINE op == Op("start", 0)
<1>1. /\ pc = "connect" /\ conn' = "open" /\ pc' = "starting"
      /\ requests' = <<op>> /\ answers' = <<>> /\ reader' = op
      /\ UNCHANGED <<committed, outcome, call, loop>>
  BY DEF Connect, server
<1>2. IsOp(op) /\ op.kind = "start" /\ op.call = call /\ op.iter = iter
  BY OpFacts
<1> HIDE DEF op
<1>3. Wire' /\ Match'
  <2>1. op.kind \in KindsAt'
    BY <1>1, <1>2 DEF KindsAt
  <2> QED
    BY <1>1, <1>2, <2>1, SentKeeps DEF loop
<1>4. Types'
  BY <1>1 DEF IInv, Types, PCs, loop
<1>5. Commits' /\ Outcomes'
  BY <1>1, GoesOn DEF Unclear, Over
<1> QED
  BY <1>3, <1>4, <1>5 DEF IInv

LEMMA ConnectFailIInv ==
    ASSUME IInv, NEW e \in Errors, ConnectFail(e)
    PROVE  IInv'
<1>1. /\ pc = "connect" /\ End(e) /\ UNCHANGED <<committed, call, loop>>
      /\ reader' = reader /\ requests' = requests /\ answers' = answers
  BY DEF ConnectFail, server, wire
<1>2. reader = Null /\ Idle
  BY <1>1, RestFacts DEF KindsAt
<1>3. Wire' /\ Match'
  BY <1>1, <1>2, AloneKeeps DEF Idle
<1>4. \A d \in committed : d.call # call
  BY <1>1 DEF IInv, Commits, Unclear, Over
<1>5. Types' /\ Commits' /\ Outcomes'
  BY <1>1, <1>4, EndKeeps, ErrorFacts DEF loop, Over
<1> QED
  BY <1>3, <1>5 DEF IInv

LEMMA ResetDoneIInv == ASSUME IInv, ResetDone PROVE IInv'
<1> DEFINE op == Op("start", 0)
<1>1. /\ Resumed({"reset"}) /\ Outcome = "ok" /\ Read
      /\ requests' = Append(requests, op) /\ reader' = op
      /\ UNCHANGED <<conn, committed, outcome, call, pc, loop>>
  BY DEF ResetDone, Send, server
<1>2. IsOp(op) /\ op.kind = "start" /\ op.call = call /\ op.iter = iter
  BY OpFacts
<1> HIDE DEF op
<1>3. /\ reader.kind = "reset" /\ reader.kind \in KindsAt /\ requests = <<>>
      /\ conn = "open" /\ answers' = <<>>
  BY <1>1, ResumedFacts
<1>4. pc = "starting"
  BY <1>3 DEF KindsAt, IInv, Types, PCs, QueryKinds
<1>5. Wire' /\ Match'
  <2>1. op.kind \in KindsAt'
    BY <1>1, <1>2, <1>4 DEF KindsAt
  <2>2. requests' = <<op>>
    BY <1>1, <1>3, SeqFacts
  <2> QED
    BY <1>1, <1>2, <1>3, <2>1, <2>2, SentKeeps DEF loop
<1>6. Types'
  BY <1>1 DEF IInv, Types, loop
<1>7. Commits' /\ Outcomes'
  BY <1>1, <1>4, GoesOn DEF Unclear, Over
<1> QED
  BY <1>5, <1>6, <1>7 DEF IInv

LEMMA ResetFailedIInv == ASSUME IInv, ResetFailed PROVE IInv'
<1>1. /\ Resumed({"reset"}) /\ reader' = Null /\ End("conn")
      /\ requests' = <<>> /\ answers' = <<>>
      /\ UNCHANGED <<committed, call, loop>>
  BY DEF ResetFailed, Disconnected
<1>2. reader.kind = "reset" /\ reader.kind \in KindsAt
  BY <1>1, ResumedFacts
<1>3. pc = "starting"
  BY <1>2 DEF KindsAt, IInv, Types, PCs, QueryKinds
<1>4. Wire' /\ Match'
  BY <1>1, AloneKeeps DEF Idle
<1>5. \A d \in committed : d.call # call
  BY <1>3 DEF IInv, Commits, Unclear, Over
<1>6. Types' /\ Commits' /\ Outcomes'
  BY <1>1, <1>3, <1>5, EndKeeps, ErrorFacts DEF loop, Over
<1> QED
  BY <1>4, <1>6 DEF IInv

LEMMA StartDoneIInv == ASSUME IInv, StartDone PROVE IInv'
<1>1. /\ Resumed({"start"}) /\ Read /\ reader' = Null
      /\ UNCHANGED <<committed, call, loop>> /\ requests' = requests
  BY DEF StartDone, server
<1>2. /\ reader.kind = "start" /\ reader.kind \in KindsAt /\ requests = <<>>
      /\ answers' = <<>> /\ Outcome \in {"conn", "retry", "fatal", "ok"}
  BY <1>1, ResumedFacts
<1>3. pc = "starting"
  BY <1>2 DEF KindsAt, IInv, Types, PCs, QueryKinds
<1>4. Wire' /\ Match'
  BY <1>1, <1>2, AloneKeeps DEF Idle
<1>5. CASE Outcome = "ok"
  <2>1. pc' = "block" /\ outcome' = outcome
    BY <1>5 DEF StartDone, Succeeded
  <2>2. Types'
    BY <1>1, <1>3, <2>1 DEF IInv, Types, PCs, loop
  <2>3. Commits' /\ Outcomes'
    BY <1>1, <1>3, <2>1, GoesOn DEF Unclear, Over
  <2> QED
    BY <1>4, <2>2, <2>3 DEF IInv
<1>6. CASE Outcome # "ok"
  <2>1. Outcome \in Errors /\ End(Outcome)
    BY <1>2, <1>6, ErrorFacts DEF StartDone, Succeeded
  <2>2. \A d \in committed : d.call # call
    BY <1>3 DEF IInv, Commits, Unclear, Over
  <2>3. Types' /\ Commits' /\ Outcomes'
    BY <1>1, <1>3, <1>6, <2>1, <2>2, EndKeeps DEF loop, Over
  <2> QED
    BY <1>4, <2>3 DEF IInv
<1> QED
  BY <1>5, <1>6

LEMMA BlockQueryIInv ==
    ASSUME IInv, ~Overlap, NEW kind \in QueryKinds, BlockQuery(kind)
    PROVE  IInv'
<1> DEFINE op == Op(kind, made + 1)
<1>1. /\ pc = "block" /\ conn = "open" /\ ~busy /\ busy' = TRUE
      /\ requests' = Append(requests, op) /\ reader' = op /\ answers' = answers
      /\ UNCHANGED <<conn, committed, outcome, call, pc, loop>>
  BY DEF BlockQuery, Send, OpStarts, server
<1>2. IsOp(op) /\ op.kind = kind /\ op.call = call /\ op.iter = iter
  BY OpFacts
<1> HIDE DEF op
<1>3. Idle
  BY <1>1, RestFacts DEF KindsAt
<1>4. Wire' /\ Match'
  <2>1. op.kind \in KindsAt'
    BY <1>1, <1>2 DEF KindsAt
  <2>2. requests' = <<op>> /\ answers' = <<>>
    BY <1>1, <1>3, SeqFacts DEF Idle
  <2> QED
    BY <1>1, <1>2, <2>1, <2>2, SentKeeps DEF loop
<1>5. Types'
  BY <1>1 DEF IInv, Types, loop
<1>6. Commits' /\ Outcomes'
  BY <1>1, GoesOn DEF Unclear, Over
<1> QED
  BY <1>4, <1>5, <1>6 DEF IInv

LEMMA ParsedIInv == ASSUME IInv, Parsed PROVE IInv'
<1> DEFINE op == [reader EXCEPT !.kind = "fetch"]
<1>1. /\ Resumed({"parse"}) /\ Outcome = "ok" /\ Read
      /\ requests' = Append(requests, op) /\ reader' = op
      /\ UNCHANGED <<conn, committed, outcome, call, pc, loop, busy>>
  BY DEF Parsed, Send, server, block
<1>2. /\ reader.kind = "parse" /\ reader.kind \in KindsAt /\ requests = <<>>
      /\ conn = "open" /\ answers' = <<>>
      /\ IsOp(reader) /\ reader.call = call /\ reader.iter = iter
  BY <1>1, ResumedFacts
<1>3. IsOp(op) /\ op.kind = "fetch" /\ op.call = call /\ op.iter = iter
  BY <1>2 DEF IsOp
<1> HIDE DEF op
<1>4. pc = "block" /\ busy
  BY <1>2 DEF KindsAt, IInv, Types, PCs
<1>5. Wire' /\ Match'
  <2>1. op.kind \in KindsAt'
    BY <1>1, <1>3, <1>4 DEF KindsAt, QueryKinds
  <2>2. requests' = <<op>>
    BY <1>1, <1>2, SeqFacts
  <2> QED
    BY <1>1, <1>2, <1>3, <2>1, <2>2, SentKeeps DEF loop
<1>6. Types'
  BY <1>1 DEF IInv, Types, loop
<1>7. Commits' /\ Outcomes'
  BY <1>1, <1>4, GoesOn DEF Unclear, Over
<1> QED
  BY <1>5, <1>6, <1>7 DEF IInv

LEMMA QueryDoneIInv == ASSUME IInv, QueryDone PROVE IInv'
<1>1. /\ Resumed(QueryKinds) /\ Read /\ reader' = Null /\ requests' = requests
      /\ UNCHANGED <<conn, committed, outcome, call, pc, iter, commitFailed>>
  BY DEF QueryDone, server
<1>2. /\ reader.kind \in QueryKinds \cap KindsAt /\ requests = <<>>
      /\ answers' = <<>> /\ Outcome \in {"conn", "retry", "fatal", "ok"}
  BY <1>1, ResumedFacts
<1>3. pc = "block"
  BY <1>2 DEF KindsAt, IInv, Types, PCs, QueryKinds
<1>4. Wire' /\ Match'
  BY <1>1, <1>2, AloneKeeps DEF Idle
<1>5. failure' \in Errors \cup {"none"}
  BY <1>2, ErrorFacts DEF QueryDone, IInv, Types
<1>6. Types'
  BY <1>1, <1>3, <1>5 DEF IInv, Types
<1>7. Commits' /\ Outcomes'
  BY <1>1, <1>3, GoesOn DEF Unclear, Over
<1> QED
  BY <1>4, <1>6, <1>7 DEF IInv

LEMMA BlockReturnIInv == ASSUME IInv, ~Overlap, BlockReturn PROVE IInv'
<1> DEFINE op == Op("commit", 0)
<1>1. /\ pc = "block" /\ conn = "open" /\ ~busy /\ pc' = "committing"
      /\ requests' = Append(requests, op) /\ reader' = op /\ answers' = answers
      /\ UNCHANGED <<conn, committed, outcome, call, loop>>
  BY DEF BlockReturn, Send, server, loop
<1>2. IsOp(op) /\ op.kind = "commit" /\ op.call = call /\ op.iter = iter
  BY OpFacts
<1> HIDE DEF op
<1>3. Idle
  BY <1>1, RestFacts DEF KindsAt
<1>4. requests' = <<op>> /\ answers' = <<>>
  BY <1>1, <1>3, SeqFacts DEF Idle
<1>5. Wire' /\ Match'
  <2>1. op.kind \in KindsAt'
    BY <1>1, <1>2 DEF KindsAt
  <2> QED
    BY <1>1, <1>2, <1>4, <2>1, SentKeeps DEF loop
<1>6. Types'
  BY <1>1 DEF IInv, Types, PCs, loop
<1>7. Commits' /\ Outcomes'
  <2>1. ~Confirmed'
    BY <1>4 DEF Confirmed
  <2>2. ~Unclear
    BY <1>1 DEF Unclear, Over
  <2> QED
    BY <1>1, <2>1, <2>2, GoesOn DEF Over
<1> QED
  BY <1>5, <1>6, <1>7 DEF IInv

LEMMA BlockThrowIInv ==
    ASSUME IInv, ~Overlap, NEW e \in Errors, BlockThrow(e)
    PROVE  IInv'
<1> DEFINE op == Op("rollback", 0)
<1>1. /\ pc = "block" /\ conn = "open" /\ ~busy /\ pc' = "rollback"
      /\ requests' = Append(requests, op) /\ reader' = op /\ answers' = answers
      /\ failure' = e
      /\ UNCHANGED <<conn, committed, outcome, call, iter, commitFailed>>
  BY DEF BlockThrow, Send, server
<1>2. IsOp(op) /\ op.kind = "rollback" /\ op.call = call /\ op.iter = iter
  BY OpFacts
<1> HIDE DEF op
<1>3. Idle
  BY <1>1, RestFacts DEF KindsAt
<1>4. requests' = <<op>> /\ answers' = <<>>
  BY <1>1, <1>3, SeqFacts DEF Idle
<1>5. Wire' /\ Match'
  <2>1. op.kind \in KindsAt'
    BY <1>1, <1>2 DEF KindsAt
  <2> QED
    BY <1>1, <1>2, <1>4, <2>1, SentKeeps
<1>6. Types'
  BY <1>1, ErrorFacts DEF IInv, Types, PCs
<1>7. Commits' /\ Outcomes'
  BY <1>1, GoesOn DEF Unclear, Over
<1> QED
  BY <1>5, <1>6, <1>7 DEF IInv

LEMMA BlockAbortedIInv == ASSUME IInv, BlockAborted PROVE IInv'
<1>1. /\ pc = "block" /\ conn # "open" /\ pc' = "caught" /\ reader' = Null
      /\ failure' \in {"conn", "fatal"}
      /\ requests' = requests /\ answers' = answers
      /\ UNCHANGED <<committed, outcome, call, iter, commitFailed>>
  BY DEF BlockAborted, wire, server
<1>2. Wire' /\ Match'
  <2>1. Idle
    BY <1>1 DEF IInv, Wire
  <2> QED
    BY <1>1, <2>1, AloneKeeps DEF Idle
<1>3. Types'
  BY <1>1, ErrorFacts DEF IInv, Types, PCs
<1>4. Commits' /\ Outcomes'
  BY <1>1, GoesOn DEF Unclear, Over
<1> QED
  BY <1>2, <1>3, <1>4 DEF IInv

LEMMA CommitDoneIInv == ASSUME IInv, CommitDone PROVE IInv'
<1>1. /\ Resumed({"commit"}) /\ Read /\ reader' = Null /\ requests' = requests
      /\ UNCHANGED <<conn, committed, call, iter>>
  BY DEF CommitDone, server
<1>2. /\ reader.kind = "commit" /\ reader.kind \in KindsAt /\ requests = <<>>
      /\ answers' = <<>> /\ Outcome \in {"conn", "retry", "fatal", "ok"}
      /\ conn # "open" => Outcome = "conn"
      /\ conn = "open" =>
            Answered /\ Outcome # "conn" /\ (Outcome = "ok" <=> Head(answers).body = "complete")
  BY <1>1, ResumedFacts
<1>3. pc = "committing"
  BY <1>2 DEF KindsAt, IInv, Types, PCs, QueryKinds
<1>4. Wire' /\ Match'
  BY <1>1, <1>2, AloneKeeps DEF Idle
<1>5. CASE Outcome = "ok"
  <2>1. End("ok") /\ UNCHANGED <<commitFailed, failure>>
    BY <1>5 DEF CommitDone, Succeeded
  <2>2. conn = "open" /\ Answered /\ Head(answers).body = "complete"
    BY <1>2, <1>5
  <2>3. answers # <<>>
    BY <2>2, SeqFacts DEF Answered
  <2>4. \E d \in committed : d.call = call /\ d.iter = iter
    BY <1>3, <2>2, <2>3 DEF IInv, Commits, Confirmed
  <2>5. Types' /\ Commits' /\ Outcomes'
    BY <1>1, <1>3, <2>1, <2>4, EndKeeps DEF Over
  <2> QED
    BY <1>4, <2>5 DEF IInv
<1>6. CASE Outcome # "ok"
  <2>1. Outcome \in {"conn", "retry", "fatal"}
    BY <1>2, <1>6
  <2>2. /\ pc' = "caught" /\ commitFailed' = TRUE /\ failure' = Outcome
        /\ outcome' = outcome
    BY <1>6, <2>1 DEF CommitDone, Succeeded
  <2>3. Types'
    BY <1>1, <1>3, <2>1, <2>2, ErrorFacts DEF IInv, Types, PCs
  <2>4. ~Unclear' => ~Unclear
    <3> SUFFICES ASSUME ~Unclear' PROVE ~Unclear
      OBVIOUS
    <3>1. Outcome # "conn"
      BY <2>2 DEF Unclear
    <3>2. conn = "open" /\ ~Confirmed
      BY <1>2, <1>6, <3>1 DEF Confirmed
    <3> QED
      BY <1>3, <3>2 DEF Unclear, Over
  <2>5. Commits' /\ Outcomes'
    BY <1>1, <1>3, <2>2, <2>4, GoesOn DEF Over
  <2> QED
    BY <1>4, <2>3, <2>5 DEF IInv
<1> QED
  BY <1>5, <1>6

LEMMA RollbackDoneIInv == ASSUME IInv, RollbackDone PROVE IInv'
<1>1. /\ Resumed({"rollback"}) /\ Read /\ reader' = Null /\ requests' = requests
      /\ UNCHANGED <<committed, call, loop>>
  BY DEF RollbackDone, server
<1>2. /\ reader.kind = "rollback" /\ reader.kind \in KindsAt /\ requests = <<>>
      /\ answers' = <<>> /\ Outcome # "unexpected"
  BY <1>1, ResumedFacts
<1>3. pc = "rollback"
  BY <1>2 DEF KindsAt, IInv, Types, PCs, QueryKinds
<1>4. pc' = "caught" /\ outcome' = outcome
  BY <1>2 DEF RollbackDone
<1>5. Wire' /\ Match'
  BY <1>1, <1>2, AloneKeeps DEF Idle
<1>6. failure # "none"
  BY <1>3 DEF IInv, Types
<1>7. Types'
  BY <1>1, <1>3, <1>4, <1>6 DEF IInv, Types, PCs, loop
<1>8. Commits' /\ Outcomes'
  BY <1>1, <1>3, <1>4, GoesOn DEF Unclear, Over
<1> QED
  BY <1>5, <1>7, <1>8 DEF IInv

LEMMA RetryIInv == ASSUME IInv, Retry PROVE IInv'
<1>1. /\ pc = "caught" /\ MayRetry /\ pc' = "connect" /\ iter' = iter + 1
      /\ commitFailed' = FALSE /\ failure' = "none"
      /\ reader' = reader /\ requests' = requests /\ answers' = answers
      /\ UNCHANGED <<committed, outcome, call>>
  BY DEF Retry, wire, server
<1>2. reader = Null /\ Idle
  BY <1>1, RestFacts DEF KindsAt
<1>3. Wire' /\ Match'
  BY <1>1, <1>2, AloneKeeps DEF Idle
<1>4. Types'
  <2>1. /\ iter' \in Nat /\ commitFailed' \in BOOLEAN
        /\ failure' \in Errors \cup {"none"}
    <3>1. iter \in Nat
      BY DEF IInv, Types
    <3>2. iter' = iter + 1 /\ commitFailed' = FALSE /\ failure' = "none"
      BY <1>1
    <3>3. iter' \in Nat
      BY <3>1, <3>2
    <3> QED
      BY <3>2, <3>3
  <2>2. call # Null
    BY <1>1 DEF IInv, Types
  <2>3. pc' \in PCs /\ pc' # "free" /\ pc' \notin {"rollback", "caught"}
    BY <1>1 DEF PCs
  <2> QED
    BY <1>1, <2>1, <2>2, <2>3 DEF IInv, Types
<1>5. ~Unclear
  BY <1>1 DEF MayRetry, Unclear, Over
<1>6. Commits' /\ Outcomes'
  BY <1>1, <1>5, GoesOn DEF Over
<1> QED
  BY <1>3, <1>4, <1>6 DEF IInv

LEMMA GiveUpIInv == ASSUME IInv, GiveUp PROVE IInv'
<1>1. /\ pc = "caught" /\ End(failure)
      /\ reader' = reader /\ requests' = requests /\ answers' = answers
      /\ UNCHANGED <<committed, call, loop>>
  BY DEF GiveUp, wire, server
<1>2. reader = Null /\ Idle
  BY <1>1, RestFacts DEF KindsAt
<1>3. Wire' /\ Match'
  BY <1>1, <1>2, AloneKeeps DEF Idle
<1>4. failure \in Errors
  BY <1>1 DEF IInv, Types
<1>5. ~(failure = "conn" /\ commitFailed) => \A d \in committed : d.call # call
  BY <1>1 DEF IInv, Commits, Unclear, Over
<1>6. failure # "ok"
  BY <1>4, ErrorFacts
<1>7. Types' /\ Commits' /\ Outcomes'
  BY <1>1, <1>4, <1>5, <1>6, EndKeeps DEF loop, Over
<1> QED
  BY <1>3, <1>7 DEF IInv

LEMMA ReleaseIInv == ASSUME IInv, Release PROVE IInv'
<1> DEFINE op == Op("cleanup", 0)
<1>1. /\ pc = "ended" /\ answers' = answers
      /\ UNCHANGED <<conn, committed, outcome, loop>>
  BY DEF Release, server
<1>2. reader = Null /\ Idle
  BY <1>1, RestFacts DEF KindsAt
<1>3. call \in Calls /\ outcome[call].how # "running"
  BY <1>1 DEF IInv, Types, Commits
<1>4. CASE conn = "open" /\ NeedsReset
  <2>1. /\ requests' = Append(requests, op) /\ reader' = op /\ pc' = "cleanup"
        /\ call' = call
    BY <1>4 DEF Release, Send
  <2>2. IsOp(op) /\ op.kind = "cleanup" /\ op.call = call /\ op.iter = iter
    BY OpFacts
  <2> HIDE DEF op
  <2>3. requests' = <<op>> /\ answers' = <<>>
    BY <1>1, <1>2, <2>1, SeqFacts DEF Idle
  <2>4. op.kind \in KindsAt'
    BY <2>1, <2>2 DEF KindsAt
  <2>5. Wire' /\ Match'
    BY <1>1, <1>4, <2>1, <2>2, <2>3, <2>4, SentKeeps DEF loop
  <2>6. Types'
    BY <1>1, <1>3, <2>1 DEF IInv, Types, PCs, loop
  <2>7. Commits'
    BY <1>1, <1>3, <2>1 DEF IInv, Commits, Unclear, Over
  <2>8. Outcomes'
    BY <1>1 DEF IInv, Outcomes, CommittedOnce, ResolvedIsCommitted,
                RejectedIsRolledBack
  <2> QED
    BY <2>5, <2>6, <2>7, <2>8 DEF IInv
<1>5. CASE ~(conn = "open" /\ NeedsReset)
  <2>1. call' = Null /\ pc' = "free" /\ UNCHANGED <<requests, reader>>
    BY <1>5 DEF Release, Free
  <2>2. Wire' /\ Match'
    BY <1>1, <1>2, <2>1, AloneKeeps DEF Idle
  <2> QED
    BY <1>1, <1>3, <2>1, <2>2, FreedKeeps, TransactionAssumption
<1> QED
  BY <1>4, <1>5

LEMMA CleanupDoneIInv == ASSUME IInv, CleanupDone PROVE IInv'
<1>1. /\ Resumed({"cleanup"}) /\ Read /\ reader' = Null /\ requests' = requests
      /\ call' = Null /\ pc' = "free" /\ UNCHANGED <<committed, outcome, loop>>
  BY DEF CleanupDone, Free, server
<1>2. reader.kind = "cleanup" /\ reader.kind \in KindsAt /\ requests = <<>> /\ answers' = <<>>
  BY <1>1, ResumedFacts
<1>3. pc = "cleanup"
  BY <1>2 DEF KindsAt, IInv, Types, PCs, QueryKinds
<1>4. call \in Calls /\ outcome[call].how # "running"
  BY <1>3 DEF IInv, Types, Commits
<1>5. Wire' /\ Match'
  BY <1>1, <1>2, AloneKeeps DEF Idle
<1> QED
  BY <1>1, <1>4, <1>5, FreedKeeps, TransactionAssumption

LEMMA CleanupFailedIInv == ASSUME IInv, CleanupFailed PROVE IInv'
<1>1. /\ Resumed({"cleanup"}) /\ reader' = Null /\ requests' = <<>> /\ answers' = <<>>
      /\ call' = Null /\ pc' = "free" /\ UNCHANGED <<committed, outcome, loop>>
  BY DEF CleanupFailed, Disconnected, Free
<1>2. reader.kind = "cleanup" /\ reader.kind \in KindsAt
  BY <1>1, ResumedFacts
<1>3. pc = "cleanup"
  BY <1>2 DEF KindsAt, IInv, Types, PCs, QueryKinds
<1>4. call \in Calls /\ outcome[call].how # "running"
  BY <1>3 DEF IInv, Types, Commits
<1>5. Wire' /\ Match'
  BY <1>1, AloneKeeps DEF Idle
<1> QED
  BY <1>1, <1>4, <1>5, FreedKeeps, TransactionAssumption

-----------------------------------------------------------------------------
(* The steps of the server, and the loss of the connection.                *)

LEMMA ConnLostIInv == ASSUME IInv, ConnLost PROVE IInv'
<1>1. /\ conn' = "lost" /\ requests' = <<>> /\ answers' = <<>>
      /\ reader' = reader /\ UNCHANGED <<committed, outcome, call, pc, loop, busy>>
  BY DEF ConnLost, Disconnected, block
<1>2. Types'
  BY <1>1 DEF IInv, Types, loop
<1>3. Wire'
  BY <1>1 DEF Wire, Idle
<1>4. Match'
  BY <1>1 DEF IInv, Match, KindsAt, Idle, loop, IsOp
<1>5. Commits'
  <2>1. ~Unclear' => ~Unclear
    BY <1>1 DEF Unclear, Over, ConnLost, loop
  <2>2. ~Confirmed'
    BY <1>1 DEF Confirmed
  <2> QED
    BY <1>1, <2>1, <2>2 DEF IInv, Commits
<1>6. Outcomes'
  BY <1>1 DEF IInv, Outcomes, CommittedOnce, ResolvedIsCommitted,
              RejectedIsRolledBack
<1> QED
  BY <1>2, <1>3, <1>4, <1>5, <1>6 DEF IInv

\* The server handles a request: it is the reader's.
LEMMA RequestFacts ==
    ASSUME IInv, NEW K, Requested(K)
    PROVE  /\ requests = <<reader>> /\ answers = <<>> /\ conn = "open"
           /\ Head(requests) = reader /\ Tail(requests) = <<>>
           /\ IsOp(reader) /\ reader.kind \in K \cap KindsAt
           /\ reader.call = call /\ reader.iter = iter
           /\ pc # "free" /\ ~Confirmed
<1>1. requests # <<>> /\ Head(requests).kind \in K
  BY DEF Requested
<1>2. conn = "open" /\ Asked
  BY <1>1 DEF IInv, Wire, Idle, Answered
<1>3. Head(requests) = reader /\ Tail(requests) = <<>>
  BY <1>2, SeqFacts DEF Asked
<1>4. /\ IsOp(reader) /\ reader.kind \in KindsAt
      /\ reader.call = call /\ reader.iter = iter
  BY <1>1 DEF IInv, Match, Idle
<1>5. pc # "free"
  BY <1>4 DEF KindsAt
<1> QED
  BY <1>1, <1>2, <1>3, <1>4, <1>5 DEF Asked, Confirmed

\* What the steps of the server have in common.
LEMMA AnswerKeeps ==
    ASSUME IInv, NEW K, Requested(K), NEW body \in Expected(reader.kind), NEW x,
           Answer(body, x)
    PROVE  /\ Types' /\ Wire' /\ Match'
           /\ UNCHANGED <<conn, outcome, call, pc, iter, commitFailed, failure>>
           /\ Confirmed' <=> body = "complete"
           /\ Unclear' <=> Unclear \/ (pc = "committing" /\ body = "complete")
<1> DEFINE a == [to |-> Head(requests), body |-> body, status |-> x]
<1>1. /\ requests = <<reader>> /\ answers = <<>> /\ conn = "open"
      /\ Head(requests) = reader /\ Tail(requests) = <<>>
      /\ IsOp(reader) /\ reader.kind \in KindsAt
      /\ reader.call = call /\ reader.iter = iter /\ ~Confirmed
  BY RequestFacts
<1>2. /\ requests' = Tail(requests) /\ answers' = Append(answers, a)
      /\ UNCHANGED <<conn, reader, outcome, call, pc, iter, commitFailed, failure, busy>>
  BY DEF Answer, loop, block
<1>3. a.to = reader /\ a.body = body
  BY <1>1
<1> HIDE DEF a
<1>4. requests' = <<>> /\ answers' = <<a>> /\ Head(answers') = a /\ answers' # <<>>
  BY <1>1, <1>2, SeqFacts
<1>5. Types'
  BY <1>2 DEF IInv, Types
<1>6. Wire'
  <2>1. Answered'
    BY <1>2, <1>3, <1>4 DEF Answered, Expected
  <2> QED
    BY <1>1, <1>2, <2>1 DEF Wire
<1>7. Match'
  BY <1>1, <1>2 DEF Match, KindsAt, IsOp
<1>8. Confirmed' <=> body = "complete"
  BY <1>3, <1>4 DEF Confirmed
<1>9. Unclear' <=> Unclear \/ (pc = "committing" /\ body = "complete")
  BY <1>1, <1>2, <1>8 DEF Unclear
<1> QED
  BY <1>2, <1>5, <1>6, <1>7, <1>8, <1>9

\* An answer that does not say that COMMIT has succeeded.
LEMMA AnswerIInv ==
    ASSUME IInv, NEW K, Requested(K), NEW body \in Expected(reader.kind), NEW x,
           Answer(body, x), committed' = committed,
           reader.kind = "commit" => body # "complete"
    PROVE  IInv'
<1>1. /\ Types' /\ Wire' /\ Match'
      /\ UNCHANGED <<outcome, call, pc, iter>>
      /\ Confirmed' <=> body = "complete"
      /\ Unclear' <=> Unclear \/ (pc = "committing" /\ body = "complete")
  BY AnswerKeeps
<1>2. pc = "committing" => body # "complete"
  BY RequestFacts DEF KindsAt
<1>3. Commits'
  BY <1>1, <1>2 DEF IInv, Commits
<1>4. Outcomes'
  BY <1>1 DEF IInv, Outcomes, CommittedOnce, ResolvedIsCommitted,
              RejectedIsRolledBack
<1> QED
  BY <1>1, <1>3, <1>4 DEF IInv

LEMMA ServerErrorIInv == ASSUME IInv, ServerError PROVE IInv'
<1> DEFINE K == Kinds \ {"reset", "rollback", "cleanup"}
<1>1. PICK body \in {"retry", "fatal"} : \E x : Answer(body, x)
  BY DEF ServerError
<1>2. Requested(K) /\ committed' = committed
  BY DEF ServerError
<1>3. body \in Expected(reader.kind)
  BY DEF Expected
<1> HIDE DEF K
<1> QED
  BY <1>1, <1>2, <1>3, AnswerIInv

LEMMA ServerStartIInv == ASSUME IInv, ServerStart PROVE IInv'
<1>1. Requested({"start"}) /\ Answer("complete", "intrans") /\ committed' = committed
  BY DEF ServerStart
<1>2. reader.kind = "start"
  BY <1>1, RequestFacts
<1>3. "complete" \in Expected(reader.kind)
  BY <1>2 DEF Expected
<1> QED
  BY <1>1, <1>2, <1>3, AnswerIInv

LEMMA ServerParseIInv == ASSUME IInv, ServerParse PROVE IInv'
<1>1. Requested({"parse"}) /\ Answer("prepared", xact) /\ committed' = committed
  BY DEF ServerParse
<1>2. reader.kind = "parse"
  BY <1>1, RequestFacts
<1>3. "prepared" \in Expected(reader.kind)
  BY <1>2 DEF Expected
<1> QED
  BY <1>1, <1>2, <1>3, AnswerIInv

LEMMA ServerExecuteIInv == ASSUME IInv, ServerExecute PROVE IInv'
<1> DEFINE K == {"execute", "fetch"}
<1>1. Requested(K) /\ committed' = committed
  BY DEF ServerExecute
<1>2. PICK body \in IF Requested({"fetch"}) THEN {"complete", "rows"} ELSE {"complete"} :
          Answer(body, xact)
  BY DEF ServerExecute
<1>3. reader.kind \in K /\ Head(requests) = reader
  BY <1>1, RequestFacts
<1>4. body \in Expected(reader.kind)
  BY <1>2, <1>3 DEF Expected, Requested
<1> QED
  BY <1>1, <1>2, <1>3, <1>4, AnswerIInv

LEMMA ServerRollbackIInv == ASSUME IInv, ServerRollback PROVE IInv'
<1> DEFINE K == {"reset", "rollback", "cleanup"}
<1>1. Requested(K) /\ committed' = committed
  BY DEF ServerRollback
<1>2. PICK body \in {"complete", "fatal"} : Answer(body, "idle")
  BY DEF ServerRollback
<1>3. reader.kind \in K
  BY <1>1, RequestFacts
<1>4. body \in Expected(reader.kind)
  BY <1>2, <1>3 DEF Expected
<1> QED
  BY <1>1, <1>2, <1>3, <1>4, AnswerIInv

LEMMA ServerCommitIInv == ASSUME IInv, ServerCommit PROVE IInv'
<1> DEFINE r == [call |-> Head(requests).call, iter |-> Head(requests).iter, work |-> work]
<1>1. /\ Requested({"commit"}) /\ Answer("complete", "idle")
      /\ committed' = committed \cup {r}
  BY DEF ServerCommit
<1>2. /\ reader.kind = "commit" /\ reader.kind \in KindsAt /\ Head(requests) = reader
      /\ reader.call = call /\ reader.iter = iter
      /\ conn = "open" /\ ~Confirmed /\ pc # "free"
  BY <1>1, RequestFacts
<1>3. r.call = call /\ r.iter = iter
  BY <1>2
<1> HIDE DEF r
<1>4. pc = "committing"
  BY <1>2 DEF KindsAt, IInv, Types, PCs, QueryKinds
<1>5. "complete" \in Expected(reader.kind)
  BY <1>2 DEF Expected
<1>6. /\ Types' /\ Wire' /\ Match'
      /\ UNCHANGED <<conn, outcome, call, pc, iter, commitFailed, failure>>
      /\ Unclear'
  BY <1>1, <1>4, <1>5, AnswerKeeps
<1>7. (\A d \in committed : d.call # call) /\ outcome[call] = Running /\ call \in Calls
  BY <1>2, <1>4 DEF IInv, Commits, Unclear, Over, Types
<1>8. Commits'
  <2>1. \A c \in Calls : outcome'[c].how = "running" /\ c # call' =>
            \A d \in committed' : d.call # c
    BY <1>1, <1>3, <1>6 DEF IInv, Commits
  <2>2. \E d \in committed' : d.call = call' /\ d.iter = iter'
    BY <1>1, <1>3, <1>6
  <2>3. pc' = "committing" /\ outcome'[call'] = Running
    BY <1>4, <1>6, <1>7
  <2> QED
    BY <1>6, <2>1, <2>2, <2>3 DEF Commits
<1>9. Outcomes'
  <2>1. CommittedOnce'
    BY <1>1, <1>3, <1>7 DEF IInv, Outcomes, CommittedOnce
  <2>2. ResolvedIsCommitted'
    BY <1>1, <1>6 DEF IInv, Outcomes, ResolvedIsCommitted
  <2>3. RejectedIsRolledBack'
    <3>1. outcome[call].how \notin Errors
      BY <1>7, ErrorFacts DEF Running
    <3> QED
      BY <1>1, <1>3, <1>6, <3>1 DEF IInv, Outcomes, RejectedIsRolledBack
  <2> QED
    BY <2>1, <2>2, <2>3 DEF Outcomes
<1> QED
  BY <1>6, <1>8, <1>9 DEF IInv

-----------------------------------------------------------------------------
(* The theorems.                                                           *)

LEMMA StutterIInv == ASSUME IInv, UNCHANGED vars PROVE IInv'
<1>1. UNCHANGED <<conn, reader, requests, answers, committed, call, pc, iter,
                  commitFailed, failure, busy, outcome>>
  BY DEF vars
<1>2. Types' /\ Wire' /\ Match'
  BY <1>1 DEF IInv, Types, Wire, Idle, Asked, Answered, Match, KindsAt, IsOp
<1>3. Commits'
  BY <1>1 DEF IInv, Commits, Unclear, Over, Confirmed
<1>4. Outcomes'
  BY <1>1 DEF IInv, Outcomes, CommittedOnce, ResolvedIsCommitted,
              RejectedIsRolledBack
<1> QED
  BY <1>2, <1>3, <1>4 DEF IInv

LEMMA ClientIInv == ASSUME IInv, ~Overlap, Client PROVE IInv'
<1>1. \A e \in Errors : ConnectFail(e) => IInv'
  BY ConnectFailIInv
<1>2. \A e \in Errors : BlockThrow(e) => IInv'
  BY BlockThrowIInv
<1>3. /\ (StartTransaction => IInv') /\ (Connect => IInv') /\ (ResetDone => IInv')
      /\ (ResetFailed => IInv') /\ (StartDone => IInv') /\ (Parsed => IInv')
  BY StartTransactionIInv, ConnectIInv, ResetDoneIInv, ResetFailedIInv,
     StartDoneIInv, ParsedIInv
<1>4. /\ (QueryDone => IInv') /\ (BlockAborted => IInv') /\ (BlockReturn => IInv')
      /\ (CommitDone => IInv') /\ (RollbackDone => IInv')
  BY QueryDoneIInv, BlockAbortedIInv, BlockReturnIInv, CommitDoneIInv,
     RollbackDoneIInv
<1>5. /\ (Retry => IInv') /\ (GiveUp => IInv') /\ (Release => IInv')
      /\ (CleanupDone => IInv') /\ (CleanupFailed => IInv')
  BY RetryIInv, GiveUpIInv, ReleaseIInv, CleanupDoneIInv, CleanupFailedIInv
<1> QED
  BY <1>1, <1>2, <1>3, <1>4, <1>5 DEF Client

LEMMA ServerIInv == ASSUME IInv, Server PROVE IInv'
BY ServerErrorIInv, ServerStartIInv, ServerParseIInv, ServerExecuteIInv,
   ServerCommitIInv, ServerRollbackIInv DEF Server

LEMMA NextIInv == ASSUME IInv, ~Overlap, [Next]_vars PROVE IInv'
<1>1. ASSUME NEW c \in Calls, Call(c) PROVE IInv'
  BY <1>1, CallIInv, TransactionAssumption
<1>2. ASSUME NEW kind \in QueryKinds, BlockQuery(kind) PROVE IInv'
  BY <1>2, BlockQueryIInv
<1>3. CASE Client
  BY <1>3, ClientIInv
<1>4. CASE Server
  BY <1>4, ServerIInv
<1>5. CASE ConnLost
  BY <1>5, ConnLostIInv
<1>6. CASE AllDone \/ UNCHANGED vars
  BY <1>6, StutterIInv DEF AllDone
<1> QED
  BY <1>1, <1>2, <1>3, <1>4, <1>5, <1>6 DEF Next

\* The inductive invariant holds in every reachable state when no block ends
\* with a query in progress.
THEOREM Invariance == ASSUME ~Overlap PROVE Spec => []IInv
<1>1. Init => IInv
  BY InitIInv
<1>2. IInv /\ [Next]_vars => IInv'
  BY NextIInv
<1> QED
  BY <1>1, <1>2, PTL DEF Spec

\* The retry loop never commits a block twice, whatever fails and however often
\* it tries (transaction() of ClientConnectionHolder): an attempt is repeated
\* only when its COMMIT is known to have failed.
THEOREM AtMostOneCommit == ASSUME ~Overlap PROVE Spec => []CommittedOnce
<1>1. IInv => CommittedOnce
  BY DEF IInv, Outcomes
<1> QED
  BY <1>1, Invariance, PTL

\* The attempt whose value transaction() returns is the one that committed.
THEOREM ResolvedCommits == ASSUME ~Overlap PROVE Spec => []ResolvedIsCommitted
<1>1. IInv => ResolvedIsCommitted
  BY DEF IInv, Outcomes
<1> QED
  BY <1>1, Invariance, PTL

\* A rejected call of transaction() has committed nothing, unless the
\* connection was lost while COMMIT was in progress.
THEOREM RejectedCommitsNothing == ASSUME ~Overlap PROVE Spec => []RejectedIsRolledBack
<1>1. IInv => RejectedIsRolledBack
  BY DEF IInv, Outcomes
<1> QED
  BY <1>1, Invariance, PTL

\* With one waiter for the messages of a connection, every operation still
\* reads the answer to its own request (execute() and fetch() of RawConnection).
THEOREM AnswersMatch == ASSUME ~Overlap PROVE Spec => []AnswerIsOwn
<1>1. IInv => AnswerIsOwn
  BY DEF IInv, Wire, Idle, Asked, Answered, AnswerIsOwn
<1> QED
  BY <1>1, Invariance, PTL

-----------------------------------------------------------------------------
(* The session of the server, on the same condition.                       *)
(*                                                                         *)
(* The argument: once an answer has been read, the client's status is the  *)
(* state of the server's session (Known), an answer tells what its request *)
(* did to the session (Told), so that a block runs in a transaction and a  *)
(* holder is free without one (Placed).  The open transaction then holds   *)
(* the block's successful queries and the one whose answer is unread       *)
(* (Accounted).                                                            *)

Ends == {"reset", "cleanup"}

Known ==
    /\ {status, xact} \subseteq {"idle", "intrans", "inerror"}
    /\ conn # "open" => xact = "idle"
    /\ conn = "open" /\ answers = <<>> => status = xact
    /\ xact # "intrans" => work = {}

Told ==
    answers # <<>> =>
        LET a == Head(answers) IN
        /\ a.status = xact
        /\ a.body \in {"retry", "fatal"} => xact # "intrans"
        /\ a.body = "complete" /\ reader.kind \in Ends => xact = "idle"
        /\ a.body = "complete" /\ reader.kind = "start" =>
               xact = "intrans" /\ work = {}

Placed ==
    conn = "open" =>
        /\ pc = "free" => xact = "idle"
        /\ pc = "block" => xact # "idle"

\* The query that has been executed and whose answer is unread.
Unread ==
    IF answers # <<>> /\ reader.kind \in {"execute", "fetch"} THEN {reader} ELSE {}

Accounted ==
    conn = "open" /\ xact = "intrans" /\ pc \in {"block", "committing"} =>
        work = done \cup Unread

Session == Known /\ Told /\ Placed /\ Accounted /\ NothingStray

-----------------------------------------------------------------------------
(* What steps have in common.                                              *)

LEMMA InitSession == Init => Session
BY DEF Init, Session, Known, Told, Placed, Accounted, NothingStray

\* The call goes on, or another one begins, while nothing is on its way.
LEMMA RestKeeps ==
    ASSUME IInv, Session, KindsAt = {}, UNCHANGED <<conn, status, answers, server>>,
           Placed', Accounted'
    PROVE  Session'
<1>1. answers = <<>>
  BY RestFacts DEF Idle
<1> QED
  BY <1>1 DEF Session, Known, Told, NothingStray, server

\* An operation has read its answer, or has seen that the connection is lost.
LEMMA ReadKeeps ==
    ASSUME IInv, Session, NEW K, Resumed(K), Read, UNCHANGED <<conn, server>>,
           Placed', Accounted'
    PROVE  Session'
<1>1. /\ answers' = <<>>
      /\ conn # "open" => Outcome = "conn"
      /\ conn = "open" => Answered /\ Outcome \in {"retry", "fatal", "ok"}
  BY ResumedFacts
<1>2. CASE conn # "open"
  <2>1. status' = status
    BY <1>1, <1>2 DEF Read
  <2> QED
    BY <1>1, <1>2, <2>1 DEF Session, Known, Told, NothingStray, server
<1>3. CASE conn = "open"
  <2>1. answers # <<>>
    BY <1>1, <1>3, SeqFacts DEF Answered
  <2>2. status' = xact
    BY <1>1, <1>3, <2>1 DEF Read, Session, Told
  <2> QED
    BY <1>1, <1>3, <2>2 DEF Session, Known, Told, NothingStray, server
<1> QED
  BY <1>2, <1>3

\* The connection is gone.
LEMMA LostKeeps ==
    ASSUME Session, Disconnected, UNCHANGED <<status, stray>>
    PROVE  Session'
BY DEF Disconnected, Session, Known, Told, Placed, Accounted, NothingStray

\* The server's answer leaves the session in state x.
LEMMA AnswerFacts ==
    ASSUME IInv, Session, NEW K, Requested(K), NEW body, NEW x, Answer(body, x)
    PROVE  /\ answers = <<>> /\ conn = "open" /\ xact' = x
           /\ answers' # <<>>
           /\ Head(answers').body = body /\ Head(answers').status = x
           /\ reader.kind \in K \cap KindsAt /\ Head(requests) = reader
           /\ UNCHANGED <<conn, status, reader, pc, done>>
<1> DEFINE a == [to |-> Head(requests), body |-> body, status |-> x]
<1>1. /\ answers = <<>> /\ conn = "open" /\ reader.kind \in K \cap KindsAt
      /\ Head(requests) = reader
  BY RequestFacts
<1>2. /\ answers' = Append(answers, a) /\ xact' = x
      /\ UNCHANGED <<conn, status, reader, pc, done>>
  BY DEF Answer, block
<1>3. a.body = body /\ a.status = x
  OBVIOUS
<1> HIDE DEF a
<1> QED
  BY <1>1, <1>2, <1>3, SeqFacts

-----------------------------------------------------------------------------
(* The steps of the call.                                                  *)

LEMMA CallSession ==
    ASSUME IInv, Session, NEW c \in Calls, Call(c) PROVE Session'
<1>1. pc = "free" /\ pc' = "connect" /\ UNCHANGED <<conn, status, answers, server>>
  BY DEF Call, wire
<1>2. KindsAt = {} /\ Placed' /\ Accounted'
  BY <1>1 DEF KindsAt, Placed, Accounted
<1> QED
  BY <1>1, <1>2, RestKeeps

LEMMA StartTransactionSession == ASSUME IInv, Session, StartTransaction PROVE Session'
<1>1. pc = "connect" /\ pc' = "starting" /\ UNCHANGED <<conn, status, answers, server>>
  BY DEF StartTransaction
<1>2. KindsAt = {} /\ Placed' /\ Accounted'
  BY <1>1 DEF KindsAt, Placed, Accounted
<1> QED
  BY <1>1, <1>2, RestKeeps

\* A new connection has a new session.
LEMMA ConnectSession == ASSUME IInv, Session, Connect PROVE Session'
<1>1. /\ conn # "open" /\ conn' = "open" /\ status' = "idle" /\ answers' = <<>>
      /\ pc' = "starting" /\ UNCHANGED <<xact, work, stray>>
  BY DEF Connect, server
<1> QED
  BY <1>1 DEF Session, Known, Told, Placed, Accounted, NothingStray

LEMMA ConnectFailSession ==
    ASSUME IInv, Session, NEW e \in Errors, ConnectFail(e) PROVE Session'
<1>1. pc = "connect" /\ pc' = "ended" /\ UNCHANGED <<conn, status, answers, server>>
  BY DEF ConnectFail, End, wire
<1>2. KindsAt = {} /\ Placed' /\ Accounted'
  BY <1>1 DEF KindsAt, Placed, Accounted
<1> QED
  BY <1>1, <1>2, RestKeeps

LEMMA ResetDoneSession == ASSUME IInv, Session, ResetDone PROVE Session'
<1>1. Resumed({"reset"}) /\ Read /\ UNCHANGED <<conn, server, pc>>
  BY DEF ResetDone
<1>2. reader.kind = "reset" /\ reader.kind \in KindsAt
  BY <1>1, ResumedFacts
<1>3. pc = "starting"
  BY <1>2 DEF KindsAt, IInv, Types, PCs, QueryKinds
<1>4. Placed' /\ Accounted'
  BY <1>1, <1>3 DEF Placed, Accounted
<1> QED
  BY <1>1, <1>4, ReadKeeps

\* START TRANSACTION has succeeded: the block begins with nothing done.
LEMMA StartDoneSession == ASSUME IInv, Session, StartDone PROVE Session'
<1>1. Resumed({"start"}) /\ Read /\ UNCHANGED <<conn, server>>
  BY DEF StartDone
<1>2. /\ reader.kind = "start" /\ answers' = <<>>
      /\ conn # "open" => Outcome = "conn"
      /\ conn = "open" => Answered
  BY <1>1, ResumedFacts
<1>3. CASE conn = "open" /\ Outcome = "ok"
  <2>1. pc' = "block" /\ done' = {}
    BY <1>3 DEF StartDone, Succeeded
  <2>2. answers # <<>>
    BY <1>2, <1>3, SeqFacts DEF Answered
  <2>3. Head(answers).body = "complete"
    BY <1>2, <1>3, ErrorFacts DEF Answered, Expected, Outcome
  <2>4. xact = "intrans" /\ work = {}
    BY <1>2, <2>2, <2>3 DEF Session, Told
  <2>5. Placed' /\ Accounted'
    BY <1>1, <1>2, <2>1, <2>4 DEF Placed, Accounted, Unread, server
  <2> QED
    BY <1>1, <2>5, ReadKeeps
<1>4. CASE Outcome # "ok"
  <2>1. pc' = "ended"
    BY <1>4 DEF StartDone, Succeeded, End
  <2>2. Placed' /\ Accounted'
    BY <2>1 DEF Placed, Accounted
  <2> QED
    BY <1>1, <2>2, ReadKeeps
<1>5. conn # "open" => Outcome # "ok"
  BY <1>2
<1> QED
  BY <1>3, <1>4, <1>5

LEMMA BlockQuerySession ==
    ASSUME IInv, Session, ~Overlap, NEW kind \in QueryKinds, BlockQuery(kind)
    PROVE  Session'
<1>1. /\ pc = "block" /\ ~busy
      /\ UNCHANGED <<conn, status, answers, server, pc, done>>
  BY DEF BlockQuery
<1>2. KindsAt = {}
  BY <1>1 DEF KindsAt
<1>3. answers = <<>>
  BY <1>2, RestFacts DEF Idle
<1>4. Placed' /\ Accounted'
  BY <1>1, <1>3 DEF Session, Placed, Accounted, Unread, server
<1> QED
  BY <1>1, <1>2, <1>4, RestKeeps

LEMMA ParsedSession == ASSUME IInv, Session, Parsed PROVE Session'
<1>1. Resumed({"parse"}) /\ Read /\ UNCHANGED <<conn, server, pc, done>>
  BY DEF Parsed, block
<1>2. reader.kind = "parse" /\ answers' = <<>>
  BY <1>1, ResumedFacts
<1>3. Placed' /\ Accounted'
  BY <1>1, <1>2 DEF Session, Placed, Accounted, Unread, server
<1> QED
  BY <1>1, <1>3, ReadKeeps

\* A query that has succeeded is one of those that the block has done; after
\* one that has failed the transaction is in error.
LEMMA QueryDoneSession == ASSUME IInv, Session, QueryDone PROVE Session'
<1>1. /\ Resumed(QueryKinds) /\ Read /\ UNCHANGED <<conn, server, pc>>
      /\ ~(reader.kind = "parse" /\ Outcome = "ok")
  BY DEF QueryDone
<1>2. /\ reader.kind \in QueryKinds /\ answers' = <<>>
      /\ reader.call = call /\ reader.iter = iter
      /\ conn = "open" => Answered /\ Outcome \in {"retry", "fatal", "ok"}
  BY <1>1, ResumedFacts
<1>3. done' = IF Outcome = "ok" THEN done \cup {reader} ELSE done
  BY <1>2 DEF QueryDone
<1>4. Placed'
  BY <1>1 DEF Session, Placed, server
<1>5. Accounted'
  <2> SUFFICES ASSUME conn = "open", xact = "intrans", pc \in {"block", "committing"}
               PROVE  work' = done'
    BY <1>1, <1>2 DEF Accounted, Unread, server
  <2>1. answers # <<>>
    BY <1>2, SeqFacts DEF Answered
  <2>2. Outcome = "ok"
    BY <1>2, <2>1, ErrorFacts DEF Session, Told, Outcome
  <2>3. reader.kind \in {"execute", "fetch"}
    BY <1>1, <1>2, <2>2 DEF QueryKinds
  <2> QED
    BY <1>1, <1>3, <2>1, <2>2, <2>3 DEF Session, Accounted, Unread, server
<1> QED
  BY <1>1, <1>4, <1>5, ReadKeeps

LEMMA BlockReturnSession == ASSUME IInv, Session, ~Overlap, BlockReturn PROVE Session'
<1>1. /\ pc = "block" /\ ~busy /\ pc' = "committing"
      /\ UNCHANGED <<conn, status, answers, server, done>>
  BY DEF BlockReturn, block
<1>2. KindsAt = {}
  BY <1>1 DEF KindsAt
<1>3. answers = <<>>
  BY <1>2, RestFacts DEF Idle
<1>4. Placed' /\ Accounted'
  BY <1>1, <1>3 DEF Session, Placed, Accounted, Unread, server
<1> QED
  BY <1>1, <1>2, <1>4, RestKeeps

LEMMA BlockThrowSession ==
    ASSUME IInv, Session, ~Overlap, NEW e \in Errors, BlockThrow(e)
    PROVE  Session'
<1>1. /\ pc = "block" /\ ~busy /\ pc' = "rollback"
      /\ UNCHANGED <<conn, status, answers, server>>
  BY DEF BlockThrow
<1>2. KindsAt = {} /\ Placed' /\ Accounted'
  BY <1>1 DEF KindsAt, Placed, Accounted
<1> QED
  BY <1>1, <1>2, RestKeeps

LEMMA BlockAbortedSession == ASSUME IInv, Session, BlockAborted PROVE Session'
<1>1. /\ conn # "open" /\ pc' = "caught" /\ UNCHANGED <<conn, status, answers, server>>
  BY DEF BlockAborted, wire
<1>2. answers = <<>>
  BY <1>1 DEF IInv, Wire, Idle
<1> QED
  BY <1>1, <1>2 DEF Session, Known, Told, Placed, Accounted, NothingStray, server

LEMMA CommitDoneSession == ASSUME IInv, Session, CommitDone PROVE Session'
<1>1. Resumed({"commit"}) /\ Read /\ UNCHANGED <<conn, server>>
  BY DEF CommitDone
<1>2. pc' \in {"caught", "ended"}
  BY DEF CommitDone, End
<1>3. Placed' /\ Accounted'
  BY <1>2 DEF Placed, Accounted
<1> QED
  BY <1>1, <1>3, ReadKeeps

LEMMA RollbackDoneSession == ASSUME IInv, Session, RollbackDone PROVE Session'
<1>1. Resumed({"rollback"}) /\ Read /\ UNCHANGED <<conn, server>>
  BY DEF RollbackDone
<1>2. pc' \in {"caught", "ended"}
  BY DEF RollbackDone, End
<1>3. Placed' /\ Accounted'
  BY <1>2 DEF Placed, Accounted
<1> QED
  BY <1>1, <1>3, ReadKeeps

LEMMA RetrySession == ASSUME IInv, Session, Retry PROVE Session'
<1>1. pc = "caught" /\ pc' = "connect" /\ UNCHANGED <<conn, status, answers, server>>
  BY DEF Retry, wire
<1>2. KindsAt = {} /\ Placed' /\ Accounted'
  BY <1>1 DEF KindsAt, Placed, Accounted
<1> QED
  BY <1>1, <1>2, RestKeeps

LEMMA GiveUpSession == ASSUME IInv, Session, GiveUp PROVE Session'
<1>1. pc = "caught" /\ pc' = "ended" /\ UNCHANGED <<conn, status, answers, server>>
  BY DEF GiveUp, End, wire
<1>2. KindsAt = {} /\ Placed' /\ Accounted'
  BY <1>1 DEF KindsAt, Placed, Accounted
<1> QED
  BY <1>1, <1>2, RestKeeps

\* The holder is free at once only if the client knows the session to be idle.
LEMMA ReleaseSession == ASSUME IInv, Session, Release PROVE Session'
<1>1. pc = "ended" /\ UNCHANGED <<conn, status, answers, server>>
  BY DEF Release
<1>2. KindsAt = {}
  BY <1>1 DEF KindsAt
<1>3. answers = <<>>
  BY <1>2, RestFacts DEF Idle
<1>4. pc' = "cleanup" \/ (pc' = "free" /\ (conn = "open" => status = "idle"))
  BY DEF Release, Free, NeedsReset
<1>5. Placed' /\ Accounted'
  BY <1>1, <1>3, <1>4 DEF Session, Known, Placed, Accounted, server
<1> QED
  BY <1>1, <1>2, <1>5, RestKeeps

LEMMA CleanupDoneSession == ASSUME IInv, Session, CleanupDone PROVE Session'
<1>1. /\ Resumed({"cleanup"}) /\ Outcome = "ok" /\ Read /\ pc' = "free"
      /\ UNCHANGED <<conn, server>>
  BY DEF CleanupDone, Free
<1>2. /\ reader.kind = "cleanup"
      /\ conn # "open" => Outcome = "conn"
      /\ conn = "open" => Answered
  BY <1>1, ResumedFacts
<1>3. conn = "open" /\ answers # <<>>
  BY <1>1, <1>2, SeqFacts DEF Answered
<1>4. Head(answers).body = "complete"
  BY <1>1, <1>2, <1>3, ErrorFacts DEF Answered, Expected, Outcome
<1>5. xact = "idle"
  BY <1>2, <1>3, <1>4 DEF Session, Told, Ends
<1>6. Placed' /\ Accounted'
  BY <1>1, <1>5 DEF Placed, Accounted, server
<1> QED
  BY <1>1, <1>6, ReadKeeps

-----------------------------------------------------------------------------
(* The steps of the server.                                                *)

\* An error ends the transaction, or leaves it in error.
LEMMA ServerErrorSession == ASSUME IInv, Session, ServerError PROVE Session'
<1> DEFINE K == Kinds \ {"reset", "rollback", "cleanup"}
<1>1. Requested(K) /\ work' = {} /\ stray' = stray
  BY DEF ServerError
<1>2. PICK body \in {"retry", "fatal"}, x \in {"idle", "inerror"} :
          /\ Answer(body, x)
          /\ x = "idle" => xact = "idle" \/ Requested({"commit"})
  BY DEF ServerError
<1>3. /\ answers = <<>> /\ conn = "open" /\ xact' = x /\ answers' # <<>>
      /\ Head(answers').body = body /\ Head(answers').status = x
      /\ reader.kind \in KindsAt /\ Head(requests) = reader
      /\ UNCHANGED <<conn, status, reader, pc, done>>
  BY <1>1, <1>2, AnswerFacts
<1>4. pc = "free" => FALSE
  BY <1>3 DEF KindsAt
<1>5. pc = "block" => reader.kind # "commit"
  BY <1>3 DEF KindsAt, QueryKinds
<1>6. Placed'
  BY <1>2, <1>3, <1>4, <1>5 DEF Session, Placed, Requested
<1> QED
  BY <1>1, <1>3, <1>6 DEF Session, Known, Told, Accounted, NothingStray

LEMMA ServerStartSession == ASSUME IInv, Session, ServerStart PROVE Session'
<1>1. /\ Requested({"start"}) /\ xact = "idle" /\ Answer("complete", "intrans")
      /\ UNCHANGED <<work, stray>>
  BY DEF ServerStart
<1>2. /\ answers = <<>> /\ conn = "open" /\ xact' = "intrans" /\ answers' # <<>>
      /\ Head(answers').body = "complete" /\ Head(answers').status = "intrans"
      /\ reader.kind = "start" /\ reader.kind \in KindsAt
      /\ UNCHANGED <<conn, status, reader, pc, done>>
  BY <1>1, AnswerFacts
<1>3. pc = "starting"
  BY <1>2 DEF KindsAt, IInv, Types, PCs, QueryKinds
<1> QED
  BY <1>1, <1>2, <1>3 DEF Session, Known, Told, Placed, Accounted, NothingStray, Ends

LEMMA ServerParseSession == ASSUME IInv, Session, ServerParse PROVE Session'
<1>1. /\ Requested({"parse"}) /\ Answer("prepared", xact) /\ UNCHANGED <<work, stray>>
  BY DEF ServerParse
<1>2. /\ answers = <<>> /\ conn = "open" /\ xact' = xact /\ answers' # <<>>
      /\ Head(answers').body = "prepared" /\ Head(answers').status = xact
      /\ reader.kind = "parse"
      /\ UNCHANGED <<conn, status, reader, pc, done>>
  BY <1>1, AnswerFacts
<1> QED
  BY <1>1, <1>2 DEF Session, Known, Told, Placed, Accounted, Unread, NothingStray, Ends

\* A query of a block is executed in the block's transaction.
LEMMA ServerExecuteSession == ASSUME IInv, Session, ServerExecute PROVE Session'
<1> DEFINE K == {"execute", "fetch"}
<1>1. Requested(K) /\ xact # "inerror"
  BY DEF ServerExecute
<1>2. PICK body \in {"complete", "rows"} : Answer(body, xact)
  BY DEF ServerExecute
<1>3. /\ answers = <<>> /\ conn = "open" /\ xact' = xact /\ answers' # <<>>
      /\ Head(answers').body = body /\ Head(answers').status = xact
      /\ reader.kind \in K /\ reader.kind \in KindsAt /\ Head(requests) = reader
      /\ UNCHANGED <<conn, status, reader, pc, done>>
  BY <1>1, <1>2, AnswerFacts
<1>4. pc = "block"
  BY <1>3 DEF KindsAt, IInv, Types, PCs
<1>5. xact = "intrans"
  BY <1>1, <1>3, <1>4 DEF Session, Known, Placed
<1>6. work' = work \cup {reader} /\ stray' = stray
  BY <1>3, <1>5 DEF ServerExecute
<1>7. Accounted'
  BY <1>3, <1>4, <1>5, <1>6 DEF Session, Accounted, Unread
<1>8. Told'
  BY <1>3, <1>5, <1>6 DEF Told, Ends
<1> QED
  BY <1>3, <1>4, <1>5, <1>6, <1>7, <1>8 DEF Session, Known, Placed, NothingStray

LEMMA ServerCommitSession == ASSUME IInv, Session, ServerCommit PROVE Session'
<1>1. /\ Requested({"commit"}) /\ Answer("complete", "idle")
      /\ work' = {} /\ stray' = stray
  BY DEF ServerCommit
<1>2. /\ answers = <<>> /\ conn = "open" /\ xact' = "idle" /\ answers' # <<>>
      /\ Head(answers').body = "complete" /\ Head(answers').status = "idle"
      /\ reader.kind = "commit" /\ reader.kind \in KindsAt
      /\ UNCHANGED <<conn, status, reader, pc, done>>
  BY <1>1, AnswerFacts
<1>3. pc = "committing"
  BY <1>2 DEF KindsAt, IInv, Types, PCs, QueryKinds
<1> QED
  BY <1>1, <1>2, <1>3 DEF Session, Known, Told, Placed, Accounted, NothingStray

LEMMA ServerRollbackSession == ASSUME IInv, Session, ServerRollback PROVE Session'
<1> DEFINE K == {"reset", "rollback", "cleanup"}
<1>1. Requested(K) /\ work' = {} /\ stray' = stray
  BY DEF ServerRollback
<1>2. PICK body \in {"complete", "fatal"} : Answer(body, "idle")
  BY DEF ServerRollback
<1>3. /\ answers = <<>> /\ conn = "open" /\ xact' = "idle" /\ answers' # <<>>
      /\ Head(answers').body = body /\ Head(answers').status = "idle"
      /\ reader.kind \in K /\ reader.kind \in KindsAt
      /\ UNCHANGED <<conn, status, reader, pc, done>>
  BY <1>1, <1>2, AnswerFacts
<1>4. pc # "block"
  BY <1>3 DEF KindsAt, QueryKinds
<1> QED
  BY <1>1, <1>3, <1>4 DEF Session, Known, Told, Placed, Accounted, NothingStray

-----------------------------------------------------------------------------
(* The theorems.                                                           *)

LEMMA StutterSession == ASSUME Session, UNCHANGED vars PROVE Session'
<1>1. UNCHANGED <<conn, status, reader, answers, xact, work, stray, pc, done>>
  BY DEF vars
<1> QED
  BY <1>1 DEF Session, Known, Told, Placed, Accounted, Unread, NothingStray

LEMMA ClientSession == ASSUME IInv, Session, ~Overlap, Client PROVE Session'
<1>1. \A e \in Errors : ConnectFail(e) => Session'
  BY ConnectFailSession
<1>2. \A e \in Errors : BlockThrow(e) => Session'
  BY BlockThrowSession
<1>3. /\ (StartTransaction => Session') /\ (Connect => Session')
      /\ (ResetDone => Session') /\ (StartDone => Session') /\ (Parsed => Session')
  BY StartTransactionSession, ConnectSession, ResetDoneSession, StartDoneSession,
     ParsedSession
<1>4. /\ (QueryDone => Session') /\ (BlockAborted => Session')
      /\ (BlockReturn => Session') /\ (CommitDone => Session')
      /\ (RollbackDone => Session')
  BY QueryDoneSession, BlockAbortedSession, BlockReturnSession, CommitDoneSession,
     RollbackDoneSession
<1>5. /\ (Retry => Session') /\ (GiveUp => Session') /\ (Release => Session')
      /\ (CleanupDone => Session')
  BY RetrySession, GiveUpSession, ReleaseSession, CleanupDoneSession
<1>6. (ResetFailed => Session') /\ (CleanupFailed => Session')
  BY LostKeeps DEF ResetFailed, CleanupFailed
<1> QED
  BY <1>1, <1>2, <1>3, <1>4, <1>5, <1>6 DEF Client

LEMMA ServerSession == ASSUME IInv, Session, Server PROVE Session'
BY ServerErrorSession, ServerStartSession, ServerParseSession, ServerExecuteSession,
   ServerCommitSession, ServerRollbackSession DEF Server

LEMMA NextSession ==
    ASSUME IInv, Session, ~Overlap, [Next]_vars PROVE Session'
<1>1. ASSUME NEW c \in Calls, Call(c) PROVE Session'
  BY <1>1, CallSession
<1>2. ASSUME NEW kind \in QueryKinds, BlockQuery(kind) PROVE Session'
  BY <1>2, BlockQuerySession
<1>3. CASE Client
  BY <1>3, ClientSession
<1>4. CASE Server
  BY <1>4, ServerSession
<1>5. CASE ConnLost
  BY <1>5, LostKeeps DEF ConnLost
<1>6. CASE AllDone \/ UNCHANGED vars
  BY <1>6, StutterSession DEF AllDone
<1> QED
  BY <1>1, <1>2, <1>3, <1>4, <1>5, <1>6 DEF Next

\* What the client knows of the session is true in every reachable state when
\* no block ends with a query in progress.
THEOREM SessionInvariance == ASSUME ~Overlap PROVE Spec => [](IInv /\ Session)
<1>1. Init => Session
  BY InitSession
<1>2. IInv /\ Session /\ [Next]_vars => Session'
  BY NextSession
<1>3. Spec => []IInv
  BY Invariance
<1> QED
  BY <1>1, <1>2, <1>3, PTL DEF Spec

\* However a call ends, the holder that release() gives back has a connection
\* without a transaction and without an answer that its next user could take
\* for its own (resetState() of ClientConnectionHolder).
THEOREM ReleasedClean == ASSUME ~Overlap PROVE Spec => []CleanWhenFree
<1>1. IInv /\ Session => CleanWhenFree
  <2> SUFFICES ASSUME IInv, Session, pc = "free", conn = "open"
               PROVE  /\ xact = "idle" /\ status = "idle"
                      /\ wire = <<<<>>, <<>>>> /\ reader = Null
    BY DEF CleanWhenFree
  <2>1. KindsAt = {}
    BY DEF KindsAt
  <2>2. reader = Null /\ Idle
    BY <2>1, RestFacts
  <2>3. xact = "idle" /\ status = "idle"
    BY <2>2 DEF Session, Known, Placed, Idle
  <2> QED
    BY <2>2, <2>3 DEF Idle, wire
<1> QED
  BY <1>1, SessionInvariance, PTL

\* A query of a block is never executed outside of the block's transaction.
THEOREM NoStrayQuery == ASSUME ~Overlap PROVE Spec => []NothingStray
<1>1. IInv /\ Session => NothingStray
  BY DEF Session
<1> QED
  BY <1>1, SessionInvariance, PTL

\* A COMMIT makes permanent what the block's queries did in this attempt:
\* nothing of an earlier attempt or of another call, and nothing is missing.
THEOREM CommitIsExact == ASSUME ~Overlap PROVE Spec => CommitsWhatWasDone
<1> DEFINE Exact == \A d \in committed' \ committed : d.work = done
<1>1. ASSUME IInv, Session, ServerCommit PROVE Exact
  <2>1. /\ Requested({"commit"}) /\ xact = "intrans"
        /\ committed' = committed \cup {[call |-> Head(requests).call,
                                         iter |-> Head(requests).iter, work |-> work]}
    BY <1>1 DEF ServerCommit
  <2>2. /\ answers = <<>> /\ conn = "open" /\ reader.kind = "commit"
        /\ reader.kind \in KindsAt
    BY <1>1, <2>1, RequestFacts
  <2>3. pc = "committing"
    BY <1>1, <2>2 DEF KindsAt, IInv, Types, PCs, QueryKinds
  <2>4. work = done
    BY <1>1, <2>1, <2>2, <2>3 DEF Session, Accounted, Unread
  <2> QED
    BY <2>1, <2>4
<1>2. [Next]_vars => ServerCommit \/ committed' = committed
  BY DEF Next, Call, BlockQuery, Client, StartTransaction, Connect, ConnectFail,
         ResetDone, ResetFailed, StartDone, Parsed, QueryDone, BlockAborted,
         BlockReturn, BlockThrow, CommitDone, RollbackDone, Retry, GiveUp, Release,
         CleanupDone, CleanupFailed, Server, ServerError, ServerStart, ServerParse,
         ServerExecute, ServerRollback, ConnLost, AllDone, server, vars
<1>3. IInv /\ Session /\ [Next]_vars => Exact \/ UNCHANGED vars
  BY <1>1, <1>2
<1> HIDE DEF Exact
<1>4. Spec => [][Exact]_vars
  BY <1>3, SessionInvariance, PTL DEF Spec
<1> QED
  BY <1>4 DEF CommitsWhatWasDone, Exact

-----------------------------------------------------------------------------
(* The types of the variables.                                             *)

Numbered == reader # Null \/ ~Idle => reader.n \in 0..MaxQueries

Bounded ==
    /\ conn \in {"none", "open", "lost"}
    /\ active \in BOOLEAN /\ busy \in BOOLEAN
    /\ made \in 0..MaxQueries
    /\ \E e \in Retryable : iter < Attempts[e]
    /\ work \cup done \subseteq Ops

Bounds == Numbered /\ Bounded

LEMMA InitBounds == Init => Bounds
<1> SUFFICES ASSUME Init PROVE Bounds
  OBVIOUS
<1>1. Numbered
  BY DEF Init, Numbered, Idle
<1>2. \E e \in Retryable : iter < Attempts[e]
  <2>1. "conn" \in Retryable /\ Attempts["conn"] \in Nat \ {0} /\ iter = 0
    BY TransactionAssumption DEF Init, Retryable
  <2> QED
    BY <2>1
<1>3. made \in 0..MaxQueries
  BY TransactionAssumption DEF Init
<1> QED
  BY <1>1, <1>2, <1>3 DEF Init, Bounds, Bounded

\* The operation that is on its way is one of a call.
LEMMA ReaderIsOp ==
    ASSUME IInv, Numbered, reader # Null \/ ~Idle
    PROVE  reader \in Ops
<1>1. /\ IsOp(reader) /\ reader.kind \in KindsAt
      /\ reader.call = call /\ reader.iter = iter
      /\ reader.n \in 0..MaxQueries
  BY DEF IInv, Match, Numbered
<1>2. reader.kind \in Kinds /\ pc # "free"
  BY <1>1 DEF KindsAt, Kinds, QueryKinds, IInv, Types, PCs
<1>3. call \in Calls /\ iter \in Nat
  BY <1>2 DEF IInv, Types
<1> QED
  BY <1>1, <1>2, <1>3 DEF IsOp, Ops

LEMMA ZeroFacts ==
    ASSUME NEW k
    PROVE  Op(k, 0).n \in 0..MaxQueries
<1>1. Op(k, 0).n = 0
  BY DEF Op
<1> QED
  BY <1>1, TransactionAssumption

\* A step that sends nothing while nothing is on its way, or has read.
LEMMA RestNumbered ==
    ASSUME IInv, KindsAt = {}, UNCHANGED <<reader, wire>>
    PROVE  Numbered'
BY RestFacts DEF Numbered, Idle, wire

LEMMA ReadNumbered ==
    ASSUME IInv, NEW K, Resumed(K), Read, reader' = Null, requests' = requests
    PROVE  Numbered'
BY ResumedFacts DEF Numbered, Idle

\* What a step of the call sends is numbered, and its iteration is within the rule.
LEMMA ClientBounds == ASSUME IInv, Bounds, ~Overlap, Client PROVE Bounds'
<1> USE DEF Bounds
<1>1. ASSUME StartTransaction PROVE Bounds'
  BY <1>1, ZeroFacts DEF StartTransaction, Send, Numbered, Bounded, server, loop, block
<1>2. ASSUME Connect PROVE Bounds'
  BY <1>2, ZeroFacts DEF Connect, Numbered, Bounded, server, loop, block
<1>3. ASSUME NEW e \in Errors, ConnectFail(e) PROVE Bounds'
  <2>1. KindsAt = {}
    BY <1>3 DEF ConnectFail, KindsAt
  <2>2. Numbered'
    BY <1>3, <2>1, RestNumbered DEF ConnectFail
  <2> QED
    BY <1>3, <2>2 DEF ConnectFail, Bounded, server, loop, block
<1>4. ASSUME ResetDone PROVE Bounds'
  BY <1>4, ZeroFacts DEF ResetDone, Send, Numbered, Bounded, server, loop, block
<1>5. ASSUME ResetFailed PROVE Bounds'
  BY <1>5 DEF ResetFailed, Disconnected, Numbered, Idle, Bounded, loop, block
<1>6. ASSUME StartDone PROVE Bounds'
  <2>1. Numbered'
    BY <1>6, ReadNumbered DEF StartDone
  <2>2. /\ made' \in 0..MaxQueries /\ done' \subseteq Ops
        /\ active' \in BOOLEAN /\ busy' \in BOOLEAN
    <3>1. /\ made' \in {0, made} /\ done' \in {{}, done}
          /\ active' \in {TRUE, active} /\ busy' \in {FALSE, busy}
      BY <1>6 DEF StartDone, block
    <3>2. active \in BOOLEAN /\ busy \in BOOLEAN /\ made \in 0..MaxQueries /\ done \subseteq Ops
      BY DEF Bounded
    <3>3. 0 \in 0..MaxQueries
      BY TransactionAssumption
    <3>4. active' \in BOOLEAN /\ busy' \in BOOLEAN
      BY <3>1, <3>2
    <3>5. made' \in 0..MaxQueries /\ done' \subseteq Ops
      BY <3>1, <3>2, <3>3
    <3> QED
      BY <3>4, <3>5
  <2> QED
    BY <1>6, <2>1, <2>2 DEF StartDone, Bounded, server, loop
<1>7. ASSUME Parsed PROVE Bounds'
  <2>1. IsOp(reader) /\ reader # Null
    BY <1>7, ResumedFacts DEF Parsed, Resumed
  <2>2. reader'.n = reader.n
    BY <1>7, <2>1 DEF Parsed, Send, IsOp
  <2>3. Numbered'
    BY <2>1, <2>2 DEF Numbered
  <2> QED
    BY <1>7, <2>3 DEF Parsed, Bounded, server, loop, block
<1>8. ASSUME QueryDone PROVE Bounds'
  <2>1. Numbered'
    BY <1>8, ReadNumbered DEF QueryDone
  <2>2. reader \in Ops
    BY <1>8, ReaderIsOp DEF QueryDone, Resumed
  <2>3. done' \subseteq Ops /\ busy' \in BOOLEAN
    BY <1>8, <2>2 DEF QueryDone, Bounded
  <2> QED
    BY <1>8, <2>1, <2>3 DEF QueryDone, Bounded, server
<1>9. ASSUME BlockAborted PROVE Bounds'
  <2>1. Idle
    BY <1>9 DEF BlockAborted, IInv, Wire
  <2>2. Numbered'
    BY <1>9, <2>1 DEF BlockAborted, Numbered, Idle, wire
  <2> QED
    BY <1>9, <2>2 DEF BlockAborted, Bounded, server, block
<1>10. ASSUME BlockReturn PROVE Bounds'
  BY <1>10, ZeroFacts DEF BlockReturn, Send, Numbered, Bounded, server, block
<1>11. ASSUME NEW e \in Errors, BlockThrow(e) PROVE Bounds'
  BY <1>11, ZeroFacts DEF BlockThrow, Send, Numbered, Bounded, server, block
<1>12. ASSUME CommitDone PROVE Bounds'
  <2>1. Numbered'
    BY <1>12, ReadNumbered DEF CommitDone
  <2> QED
    BY <1>12, <2>1 DEF CommitDone, Bounded, server, block
<1>13. ASSUME RollbackDone PROVE Bounds'
  <2>1. Numbered'
    BY <1>13, ReadNumbered DEF RollbackDone
  <2> QED
    BY <1>13, <2>1 DEF RollbackDone, Bounded, server, loop, block
<1>14. ASSUME Retry PROVE Bounds'
  <2>1. KindsAt = {}
    BY <1>14 DEF Retry, KindsAt
  <2>2. Numbered'
    BY <1>14, <2>1, RestNumbered DEF Retry
  <2>3. failure \in Retryable /\ iter' < Attempts[failure]
    BY <1>14 DEF Retry, MayRetry
  <2> QED
    BY <1>14, <2>2, <2>3 DEF Retry, Bounded, server, block
<1>15. ASSUME GiveUp PROVE Bounds'
  <2>1. KindsAt = {}
    BY <1>15 DEF GiveUp, KindsAt
  <2>2. Numbered'
    BY <1>15, <2>1, RestNumbered DEF GiveUp
  <2> QED
    BY <1>15, <2>2 DEF GiveUp, Bounded, server, loop, block
<1>16. ASSUME Release PROVE Bounds'
  <2>1. KindsAt = {}
    BY <1>16 DEF Release, KindsAt
  <2>2. reader' = Op("cleanup", 0) \/ UNCHANGED <<reader, wire>>
    BY <1>16 DEF Release, Send, wire
  <2>3. Numbered'
    BY <2>1, <2>2, RestNumbered, ZeroFacts DEF Numbered
  <2> QED
    BY <1>16, <2>3 DEF Release, Bounded, server, loop, block
<1>17. ASSUME CleanupDone PROVE Bounds'
  <2>1. Numbered'
    BY <1>17, ReadNumbered DEF CleanupDone
  <2> QED
    BY <1>17, <2>1 DEF CleanupDone, Bounded, server, loop, block
<1>18. ASSUME CleanupFailed PROVE Bounds'
  BY <1>18 DEF CleanupFailed, Disconnected, Numbered, Idle, Bounded, loop, block
<1> QED
  BY <1>1, <1>2, <1>3, <1>4, <1>5, <1>6, <1>7, <1>8, <1>9, <1>10, <1>11, <1>12,
     <1>13, <1>14, <1>15, <1>16, <1>17, <1>18 DEF Client

\* The server only adds the reader's query to the transaction.
LEMMA ServerBounds == ASSUME IInv, Bounds, Server PROVE Bounds'
<1>1. requests # <<>> /\ Head(requests) = reader
  <2>1. PICK K \in {Kinds \ {"reset", "rollback", "cleanup"}, {"start"}, {"parse"},
                    {"execute", "fetch"}, {"commit"}, {"reset", "rollback", "cleanup"}} :
            Requested(K)
    BY DEF Server, ServerError, ServerStart, ServerParse, ServerExecute,
           ServerCommit, ServerRollback
  <2> QED
    BY <2>1, RequestFacts DEF Requested
<1>2. reader \in Ops /\ reader.n \in 0..MaxQueries
  BY <1>1, ReaderIsOp DEF Bounds, Numbered, Idle
<1>3. \E body, x : Answer(body, x)
  BY DEF Server, ServerError, ServerStart, ServerParse, ServerExecute, ServerCommit,
         ServerRollback
<1>4. UNCHANGED <<conn, reader, iter, active, busy, made, done>>
  BY <1>3 DEF Answer, loop, block
<1>5. work' \subseteq Ops
  <2>1. work' \in {{}, work, work \cup {reader}}
    BY <1>1 DEF Server, ServerError, ServerStart, ServerParse, ServerExecute,
                ServerCommit, ServerRollback
  <2> QED
    BY <1>2, <2>1 DEF Bounds, Bounded
<1> QED
  BY <1>2, <1>4, <1>5 DEF Bounds, Numbered, Bounded

LEMMA NextBounds == ASSUME IInv, Bounds, ~Overlap, [Next]_vars PROVE Bounds'
<1>1. ASSUME NEW c \in Calls, Call(c) PROVE Bounds'
  <2>1. KindsAt = {}
    BY <1>1 DEF Call, KindsAt
  <2>2. Numbered'
    BY <1>1, <2>1, RestNumbered DEF Call
  <2>3. "conn" \in Retryable /\ iter' < Attempts["conn"]
    BY <1>1, TransactionAssumption DEF Call, Retryable
  <2> QED
    BY <1>1, <2>2, <2>3 DEF Call, Bounds, Bounded, server, block
<1>2. ASSUME NEW kind \in QueryKinds, BlockQuery(kind) PROVE Bounds'
  <2>1. made < MaxQueries /\ made' = made + 1 /\ reader' = Op(kind, made + 1)
    BY <1>2 DEF BlockQuery, Send
  <2>2. made' \in 0..MaxQueries
    BY <2>1, TransactionAssumption DEF Bounds, Bounded
  <2>3. reader'.n = made'
    BY <2>1 DEF Op
  <2> QED
    BY <1>2, <2>2, <2>3
    DEF BlockQuery, OpStarts, Bounds, Numbered, Bounded, server, loop
<1>3. CASE Client
  BY <1>3, ClientBounds
<1>4. CASE Server
  BY <1>4, ServerBounds
<1>5. CASE ConnLost
  <2>1. Numbered'
    BY <1>5 DEF ConnLost, Disconnected, Bounds, Numbered, Idle
  <2> QED
    BY <1>5, <2>1 DEF ConnLost, Disconnected, Bounds, Bounded, loop, block
<1>6. CASE AllDone \/ UNCHANGED vars
  <2>1. UNCHANGED vars
    BY <1>6 DEF AllDone
  <2> QED
    BY <2>1 DEF vars, Bounds, Numbered, Bounded, Idle
<1> QED
  BY <1>1, <1>2, <1>3, <1>4, <1>5, <1>6 DEF Next

\* The types of the variables, and with them the bounds of the retry options:
\* a call makes no more attempts than the rule of its errors allows.
THEOREM TypeCorrect == ASSUME ~Overlap PROVE Spec => []TypeOK
<1>1. IInv /\ Session /\ Bounds => TypeOK
  <2> SUFFICES ASSUME IInv, Session, Bounds PROVE TypeOK
    OBVIOUS
  <2>1. reader \in Ops \cup {Null}
    BY ReaderIsOp DEF Bounds
  <2>2. ~Idle => reader \in Ops
    BY ReaderIsOp DEF Bounds
  <2>3. \A k \in DOMAIN requests : requests[k] \in Ops
    BY <2>2 DEF IInv, Wire, Idle, Asked, Answered
  <2>4. \A k \in DOMAIN answers : answers[k].to \in Ops
    <3>1. CASE answers = <<>>
      BY <3>1
    <3>2. CASE answers # <<>>
      <4>1. Answered /\ reader \in Ops
        BY <2>2, <3>2 DEF IInv, Wire, Idle, Asked
      <4> DEFINE a == Head(answers)
      <4>2. answers = <<a>> /\ a.to \in Ops
        BY <4>1 DEF Answered
      <4> HIDE DEF a
      <4> QED
        BY <4>2
    <3> QED
      BY <3>1, <3>2
  <2> QED
    BY <2>1, <2>3, <2>4
    DEF TypeOK, IInv, Types, PCs, Session, Known, NothingStray, Bounds, Bounded
<1>2. Init => Bounds
  BY InitBounds
<1>3. IInv /\ Bounds /\ [Next]_vars => Bounds'
  BY NextBounds
<1> QED
  BY <1>1, <1>2, <1>3, SessionInvariance, PTL DEF Spec
=============================================================================
