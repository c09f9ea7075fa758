--------------------------- MODULE ConnectProofs ---------------------------
(***************************************************************************)
(* How a connection is made, for any number of attempts and any messages,  *)
(* and with which parameters, for any options, environment and project.    *)
(*                                                                         *)
(* The argument of Connect: the timeout destroys the socket, so that from  *)
(* then on no message arrives and no error of the socket is reported       *)
(* (Destroyed); and from the moment an impostor asks for authentication,   *)
(* connect() stands within _authSasl(), which it leaves only for a proof   *)
(* of the server (Unproved).                                               *)
(*                                                                         *)
(* That of Config: what is known of all parameters is one function; to set *)
(* the parameters of a source is to take the first of what is known and    *)
(* what the source gives (Then), and it makes no difference whether a      *)
(* value is validated before or after it is chosen (ThenThen).  A level is *)
(* two such steps (LevelIs), and Resolve() one, two or three levels.       *)
(***************************************************************************)
EXTENDS Connect, Precedence, LRUProofs

Steps == Awaits \cup {"nonce"}

Destroyed ==
    timedOut => IF pc = "connecting" THEN sock \in {"closing", "closed"}
                ELSE pc # "connected" /\ error # "closed"

Unproved ==
    asked /\ ~genuine =>
        step \in {"nonce", "continue", "final"} /\ pc # "connected"

Socks == {"opening", "open", "closing", "closed"}

Opening == sock = "opening" => step = "conn"

\* The invariant: where connect() and its socket stand, and the parts above.
Attempt == step \in Steps /\ sock \in Socks /\ Opening /\ Destroyed /\ Unproved

-----------------------------------------------------------------------------
(* What steps have in common.                                              *)

\* An attempt that fails is not connected, and has reported its timeout.
LEMMA FailFacts ==
    ASSUME NEW e \in {"closed", "server", "failed"}, NEW out, Fail(e, out)
    PROVE  pc' \in {"backoff", "failed"} /\ timedOut' = out
           /\ (out => error' # "closed")
BY DEF Fail, Thrown

\* The socket has an error, or the timeout destroys it.
LEMMA OnErrorKeeps ==
    ASSUME Attempt, NEW out, OnError(out), sock' = "closing",
           UNCHANGED <<step, genuine, asked>>, pc = "connecting"
    PROVE  Attempt'
<1>1. CASE Fail("closed", out)
  BY <1>1, FailFacts DEF Attempt, Socks, Opening, Destroyed, Unproved
<1>2. CASE UNCHANGED <<pc, error>>
  BY <1>2 DEF Attempt, Socks, Opening, Destroyed, Unproved
<1> QED
  BY <1>1, <1>2 DEF OnError

\* connect() takes a message at a step that the message can be for.
LEMMA TakeKeeps ==
    ASSUME Attempt, pc = "connecting", NEW s \in {"message", "continue", "final"},
           step \in {s, "nonce"}, NEW m, Take(s, m),
           s = "continue" \/ (sock = "open" /\ step = s),
           sock # "opening", genuine \/ s = "continue" \/ m # "proof",
           UNCHANGED <<sock, genuine>>
    PROVE  Attempt'
<1>1. CASE /\ m \in Accepted(s)
           /\ step' = CASE m = "sasl"     -> "nonce"
                        [] m = "continue" -> "final"
                        [] OTHER          -> "message"
           /\ asked' = (asked \/ m = "sasl")
           /\ pc' = IF m = "ready" THEN "connected" ELSE pc
           /\ UNCHANGED <<error, timedOut>>
  <2>2. step' \in Steps
    BY <1>1 DEF Steps, Awaits
  <2>3. Destroyed'
    BY <1>1 DEF Attempt, Destroyed, Accepted
  <2>4. Unproved'
    BY <1>1 DEF Attempt, Unproved, Accepted
  <2>5. Opening'
    BY DEF Opening
  <2> QED
    BY <2>2, <2>3, <2>4, <2>5 DEF Attempt
<1>2. CASE Fail(IF m = "error" THEN "server" ELSE "failed", timedOut) /\ UNCHANGED <<step, asked>>
  <2>1. pc' \in {"backoff", "failed"} /\ (timedOut' => error' # "closed")
    BY <1>2, FailFacts
  <2> QED
    BY <1>2, <2>1 DEF Attempt, Socks, Opening, Destroyed, Unproved
<1> QED
  BY <1>1, <1>2 DEF Take

-----------------------------------------------------------------------------
(* Every step keeps the invariant.                                         *)

LEMMA InitAttempt == Init => Attempt
BY DEF Init, Begun, Attempt, Socks, Steps, Awaits, Opening, Destroyed, Unproved

LEMMA SocketConnectAttempt == ASSUME Attempt, SocketConnect PROVE Attempt'
<1>1. /\ pc = "connecting" /\ sock = "opening" /\ sock' = "open"
      /\ UNCHANGED <<genuine, asked>>
  BY DEF SocketConnect
<1>2. ~timedOut
  BY <1>1 DEF Attempt, Socks, Opening, Destroyed
<1>3. CASE step' = "message" /\ UNCHANGED <<pc, error, timer, timedOut>>
  <2>1. asked => genuine
    BY <1>1 DEF Attempt, Socks, Opening, Unproved
  <2> QED
    BY <1>1, <1>2, <1>3, <2>1 DEF Attempt, Socks, Steps, Awaits, Opening, Destroyed, Unproved
<1>4. CASE Fail("failed", timedOut) /\ UNCHANGED step
  BY <1>1, <1>4, FailFacts DEF Attempt, Socks, Opening, Destroyed, Unproved
<1> QED
  BY <1>3, <1>4 DEF SocketConnect

LEMMA SocketErrorAttempt == ASSUME Attempt, SocketError PROVE Attempt'
BY OnErrorKeeps DEF SocketError

LEMMA TimeoutAttempt == ASSUME Attempt, Timeout PROVE Attempt'
<1>1. /\ pc = "connecting" /\ NotConnected
      /\ UNCHANGED <<step, genuine, asked>>
  BY DEF Timeout, NotConnected
<1>2. CASE sock \in {"opening", "open"}
  BY <1>1, <1>2, OnErrorKeeps DEF Timeout
<1>3. CASE sock \notin {"opening", "open"}
  <2>1. timedOut' /\ UNCHANGED <<sock, pc, error>>
    BY <1>1, <1>3 DEF Timeout
  <2>2. sock \in {"closing", "closed"}
    BY <1>3 DEF Attempt, Socks
  <2> QED
    BY <1>1, <2>1, <2>2 DEF Attempt, Socks, Opening, Destroyed, Unproved
<1> QED
  BY <1>2, <1>3

LEMMA SocketEndAttempt == ASSUME Attempt, SocketEnd PROVE Attempt'
BY DEF SocketEnd, Attempt, Socks, Opening, Destroyed, Unproved

LEMMA SocketCloseAttempt == ASSUME Attempt, SocketClose PROVE Attempt'
BY DEF SocketClose, Attempt, Socks, Opening, Destroyed, Unproved

\* An impostor cannot send the proof.
LEMMA MessageAttempt ==
    ASSUME Attempt, NEW m \in Messages, Message(m) PROVE Attempt'
<1>1. /\ pc = "connecting" /\ sock = "open" /\ step # "conn"
      /\ genuine \/ m # "proof"
      /\ UNCHANGED <<sock, genuine>>
  BY DEF Message
<1>2. CASE step # "nonce" /\ Take(step, m)
  <2>1. step \in {"message", "continue", "final"}
    BY <1>1, <1>2 DEF Attempt, Steps, Awaits
  <2> QED
    BY <1>1, <1>2, <2>1, TakeKeeps
<1>3. CASE UNCHANGED <<pc, error, step, timedOut, asked>>
  BY <1>1, <1>3 DEF Attempt, Socks, Opening, Destroyed, Unproved
<1> QED
  BY <1>2, <1>3 DEF Message

LEMMA NonceAttempt == ASSUME Attempt, Nonce PROVE Attempt'
<1>1. /\ pc = "connecting" /\ step = "nonce" /\ sock # "opening"
      /\ UNCHANGED <<sock, genuine>>
  BY DEF Nonce, Attempt, Opening
<1>2. CASE step' = "continue" /\ UNCHANGED <<pc, error, timedOut, asked>>
  BY <1>1, <1>2 DEF Attempt, Socks, Steps, Awaits, Opening, Destroyed, Unproved
<1>3. CASE inbox # <<>> /\ Take("continue", Head(inbox))
  BY <1>1, <1>3, TakeKeeps DEF Attempt
<1>4. CASE Fail("failed", timedOut) /\ UNCHANGED <<step, asked>>
  BY <1>1, <1>4, FailFacts DEF Attempt, Socks, Opening, Destroyed, Unproved
<1> QED
  BY <1>2, <1>3, <1>4 DEF Nonce

\* The next attempt has a socket and a timer of its own.
LEMMA AgainAttempt == ASSUME Attempt, Again PROVE Attempt'
BY DEF Again, Begun, Attempt, Socks, Steps, Awaits, Opening, Destroyed, Unproved

LEMMA DeadlineAttempt == ASSUME Attempt, Deadline PROVE Attempt'
BY DEF Deadline, attempt, Attempt, Socks, Opening, Destroyed, Unproved

LEMMA NextAttempt == ASSUME Attempt, [Next]_vars PROVE Attempt'
<1>1. CASE UNCHANGED vars
  BY <1>1 DEF vars, Attempt, Socks, Opening, Destroyed, Unproved
<1>2. CASE Next
  BY <1>1, <1>2, SocketConnectAttempt, SocketErrorAttempt, TimeoutAttempt,
     SocketEndAttempt, SocketCloseAttempt, MessageAttempt, NonceAttempt,
     AgainAttempt, DeadlineAttempt DEF Next, Local, Rest
<1> QED
  BY <1>1, <1>2

-----------------------------------------------------------------------------
(* The theorems about the connection.                                      *)

\* An attempt that ran into its timeout never yields a connection, and is
\* never reported as the error of the socket that the timeout destroyed,
\* which would be retried as a closed connection (connectWithTimeout() in
\* src/rawConn.ts).
THEOREM TimeoutReported == Spec => []TimeoutIsReported
<1>1. Init => Attempt
  BY InitAttempt
<1>2. Attempt /\ [Next]_vars => Attempt'
  BY NextAttempt
<1>3. Attempt => TimeoutIsReported
  BY DEF Attempt, Destroyed, TimeoutIsReported
<1> QED
  BY <1>1, <1>2, <1>3, PTL DEF Spec

\* Whatever a server that does not know the password sends, and when, it is
\* not connected to if it asked for authentication (_authSasl() in
\* src/rawConn.ts).
THEOREM ServerProved == Spec => []ServerIsProved
<1>1. Init => Attempt
  BY InitAttempt
<1>2. Attempt /\ [Next]_vars => Attempt'
  BY NextAttempt
<1>3. Attempt => ServerIsProved
  BY DEF Attempt, Unproved, ServerIsProved
<1> QED
  BY <1>1, <1>2, <1>3, PTL DEF Spec

-----------------------------------------------------------------------------
(* Configuration, the inputs: a value is one that its parameter can have.  *)

\* All strings: the provers do not know that a literal is in STRING.
Strings == STRING \cup Modes \cup {"insecure_dev_mode", "default"}

Texts    == [from : Strings, ok : BOOLEAN]
Settings == [from : Strings, mode : Strings]

ValuesOf(p) == IF p = "tlsSecurity" THEN Settings ELSE Texts

Configs == {v \in [Params -> Texts \cup Settings \cup {None}] :
                \A p \in Params : v[p] \in ValuesOf(p) \cup {None}}

IsPart(part, p) ==
    \/ part.form = "absent"
    \/ part.form \in DsnForms \ {"absent"} /\ part.value \in ValuesOf(p)

IsDsn(dsn) == \A p \in Params : IsPart(dsn.parts[p], p)

IsCredentials(c) ==
    /\ c.values \in Configs /\ c.cert \in Texts \cup {None}
    /\ c.verify \in BOOLEAN \cup {None} /\ c.from \in Strings

IsLevel(level) ==
    /\ level.dsn # None => IsDsn(level.dsn)
    /\ \A form \in CredentialForms :
           level.credentials[form] # None => IsCredentials(level.credentials[form])
    /\ level.values \in Configs
    /\ level.caFile \in Texts \cup {None}

IsEnv(env) ==
    /\ IsLevel(env) /\ env.linked \in BOOLEAN
    /\ env = [dsn |-> env.dsn, credentials |-> env.credentials, values |-> env.values,
              caFile |-> env.caFile, linked |-> env.linked]

IsInput(i) ==
    /\ IsLevel(i.options) /\ IsEnv(i.env)
    /\ i.project # None => IsLevel(i.project)
    /\ i.client \in Strings \cup {None}

\* None and Failed are none of the values.
Distinct ==
    /\ None # Failed
    /\ {None, Failed} \cap (Strings \cup BOOLEAN \cup Texts \cup Settings) = {}
    /\ Failed \notin Configs

-----------------------------------------------------------------------------
(* One parameter.                                                          *)

\* What a parameter can be: a value, none, or an error.
Maybe(p) == ValuesOf(p) \cup {None, Failed}

\* A mode that is asked for, and what a client makes of it.
LEMMA ModeFacts ==
    ASSUME Distinct, NEW mode \in Strings, NEW client
    PROVE  /\ SecurityMode(mode, client) \in Modes \cup {Failed}
           /\ client = "strict" => SecurityMode(mode, client) \in {"strict", Failed}
           /\ SecurityMode(mode, client) = Failed <=>
                  \/ client \notin {None, "default", "strict", "insecure_dev_mode"}
                  \/ mode \notin Modes
                  \/ client = "strict" /\ mode \in {"insecure", "no_host_verification"}
           /\ client # "strict" /\ mode # "default" => SecurityMode(mode, client) \in {mode, Failed}
           /\ client = "insecure_dev_mode" /\ mode = "default" => SecurityMode(mode, client) = "insecure"
           /\ client = "strict" /\ mode = "default" => SecurityMode(mode, client) = "strict"
           /\ client \in {None, "default"} /\ mode = "default" => SecurityMode(mode, client) = "default"
<1>1. Failed \notin Strings /\ None \notin Strings /\ None # Failed
  BY DEF Distinct
<1>7. /\ Failed # "insecure" /\ Failed # "no_host_verification" /\ Failed # "strict" /\ Failed # "default"
      /\ None # "insecure_dev_mode" /\ None # "strict"
  BY <1>1 DEF Strings, Modes
<1>2. CASE mode \notin Modes
  <2>1. SecurityMode(mode, client) = Failed
    BY <1>2 DEF SecurityMode
  <2>2. mode # "default"
    BY <1>2 DEF Modes
  <2> QED
    BY <1>2, <2>1, <2>2
<1>3. CASE mode \in Modes /\ client = "insecure_dev_mode"
  BY <1>7, <1>3 DEF SecurityMode, Modes
<1>4. CASE mode \in Modes /\ client = "strict"
  BY <1>7, <1>4 DEF SecurityMode, Modes
<1>5. CASE mode \in Modes /\ client \in {None, "default"}
  BY <1>7, <1>5 DEF SecurityMode, Modes
<1>6. CASE mode \in Modes /\ client \notin {None, "default", "strict", "insecure_dev_mode"}
  BY <1>7, <1>6 DEF SecurityMode, Modes
<1> QED
  BY <1>2, <1>3, <1>4, <1>5, <1>6

\* A value is validated to a value of the same parameter, or refused.
LEMMA ValidatedFacts ==
    ASSUME Distinct, NEW p \in Params, NEW v \in ValuesOf(p), NEW client
    PROVE  /\ Validated(p, v, client) \in ValuesOf(p) \cup {Failed}
           /\ v # None /\ v # Failed
           /\ Validated(p, v, client) # None
<1>1. v # None /\ v # Failed /\ None \notin ValuesOf(p) \cup {Failed}
  BY DEF Distinct, ValuesOf
<1>2. CASE p # "tlsSecurity"
  BY <1>1, <1>2 DEF Validated, ValuesOf
<1>3. CASE p = "tlsSecurity"
  <2>1. PICK mode : mode = SecurityMode(v.mode, client)
    OBVIOUS
  <2>2. v.mode \in Strings /\ v \in Settings
    BY <1>3 DEF ValuesOf, Settings
  <2>3. mode \in Modes \cup {Failed}
    BY <2>1, <2>2, ModeFacts
  <2>4. CASE mode = Failed
    BY <1>1, <1>3, <2>1, <2>4 DEF Validated
  <2>5. CASE mode # Failed
    <3>1. Validated(p, v, client) = [v EXCEPT !.mode = mode]
      BY <1>3, <2>1, <2>5 DEF Validated
    <3>2. [v EXCEPT !.mode = mode] \in Settings
      <4>1. mode \in Strings
        BY <2>3, <2>5 DEF Strings
      <4> QED
        BY <2>2, <4>1 DEF Settings
    <3> QED
      BY <1>1, <1>3, <3>1, <3>2 DEF ValuesOf
  <2> QED
    BY <2>4, <2>5
<1> QED
  BY <1>1, <1>2, <1>3

LEMMA ValidFacts ==
    ASSUME Distinct, NEW p \in Params, NEW v \in Maybe(p), NEW client
    PROVE  /\ Valid(p, v, client) \in Maybe(p)
           /\ (Valid(p, v, client) = None) <=> (v = None)
<1>1. CASE v \in {None, Failed}
  BY <1>1 DEF Valid, Maybe, Distinct
<1>2. CASE v \notin {None, Failed}
  <2>1. v \in ValuesOf(p) /\ Valid(p, v, client) = Validated(p, v, client)
    BY <1>2 DEF Valid, Maybe
  <2> QED
    BY <2>1, ValidatedFacts, <1>2 DEF Maybe
<1> QED
  BY <1>1, <1>2

\* It does not matter whether values are validated before or after the first of
\* them is chosen.
LEMMA ValidFirst ==
    ASSUME Distinct, NEW p \in Params, NEW v \in Maybe(p), NEW w \in Maybe(p), NEW client
    PROVE  /\ FirstOf(v, w) \in Maybe(p)
           /\ Valid(p, FirstOf(v, w), client) = FirstOf(Valid(p, v, client), Valid(p, w, client))
BY ValidFacts DEF FirstOf

-----------------------------------------------------------------------------
(* All parameters of a configuration.                                      *)

\* What each parameter is, or an error when one of them is one.
Collected(f) == IF \E p \in Params : f[p] = Failed THEN Failed ELSE f

\* What each parameter may be.
Collections == {f \in [Params -> Texts \cup Settings \cup {None, Failed}] :
                    \A p \in Params : f[p] \in Maybe(p)}

LEMMA CollectedFacts ==
    ASSUME Distinct, NEW f \in Collections
    PROVE  /\ Collected(f) = Failed <=> \E p \in Params : f[p] = Failed
           /\ Collected(f) # Failed => Collected(f) = f /\ f \in Configs
<1>1. ASSUME ~\E p \in Params : f[p] = Failed
      PROVE  f \in Configs /\ f # Failed /\ Collected(f) = f
  <2>1. \A p \in Params : f[p] \in ValuesOf(p) \cup {None} /\ f[p] \in Texts \cup Settings \cup {None}
    BY <1>1 DEF Collections, Maybe
  <2>2. f \in [Params -> Texts \cup Settings \cup {None}]
    BY <2>1 DEF Collections
  <2>3. f \in Configs
    BY <2>1, <2>2 DEF Configs
  <2> QED
    BY <1>1, <2>3 DEF Distinct, Collected
<1> QED
  BY <1>1 DEF Collected

\* What is known of the parameters, and then of those that are given after it.
Then(f, g, client) == [p \in Params |-> FirstOf(f[p], Valid(p, g[p], client))]

LEMMA ThenFacts ==
    ASSUME Distinct, NEW f \in Collections, NEW g \in Collections, NEW client
    PROVE  /\ Then(f, g, client) \in Collections
           /\ \A p \in Params : f[p] = Failed => Then(f, g, client)[p] = Failed
<1>1. \A p \in Params : f[p] \in Maybe(p) /\ g[p] \in Maybe(p)
  BY DEF Collections
<1>2. \A p \in Params : Valid(p, g[p], client) \in Maybe(p)
  BY <1>1, ValidFacts
<1>3. \A p \in Params : Then(f, g, client)[p] = FirstOf(f[p], Valid(p, g[p], client))
  BY DEF Then
<1>4. \A p \in Params : Then(f, g, client)[p] \in Maybe(p)
  BY <1>1, <1>2, <1>3 DEF FirstOf
<1>5. \A p \in Params : Maybe(p) \subseteq Texts \cup Settings \cup {None, Failed}
  BY DEF Maybe, ValuesOf
<1>6. Then(f, g, client) \in [Params -> Texts \cup Settings \cup {None, Failed}]
  <2>1. Then(f, g, client) = [p \in Params |-> Then(f, g, client)[p]]
    BY DEF Then
  <2> QED
    BY <1>4, <1>5, <2>1
<1> QED
  BY <1>3, <1>4, <1>6 DEF Collections, FirstOf, Distinct

\* _setParam() on parameters that are known as far as f says.
LEMMA SetParamIs ==
    ASSUME Distinct, NEW f \in Collections, Collected(f) # Failed, NEW p \in Params,
           NEW v \in ValuesOf(p) \cup {None}, NEW client
    PROVE  LET w == FirstOf(f[p], Valid(p, v, client))
               set == SetParam(Collected(f), p, v, client)
           IN  /\ set = Failed <=> w = Failed
               /\ set # Failed => set[p] = w /\ set = [f EXCEPT ![p] = w]
<1>1. Collected(f) = f /\ f \in Configs /\ f # Failed /\ f[p] # Failed
  BY CollectedFacts
<1>2. CASE f[p] # None
  <2>1. SetParam(Collected(f), p, v, client) = f
    BY <1>1, <1>2 DEF SetParam, Sets
  <2>2. f = [f EXCEPT ![p] = f[p]]
    BY DEF Collections
  <2> QED
    BY <1>1, <1>2, <2>1, <2>2 DEF FirstOf
<1>3. CASE f[p] = None /\ v = None
  <2>1. SetParam(Collected(f), p, v, client) = f
    BY <1>1, <1>3 DEF SetParam, Sets
  <2>2. f = [f EXCEPT ![p] = f[p]]
    BY DEF Collections
  <2> QED
    BY <1>1, <1>3, <2>1, <2>2 DEF FirstOf, Valid, Distinct
<1>4. CASE f[p] = None /\ v # None
  <2>1. PICK w : w = Validated(p, v, client)
    OBVIOUS
  <2>2. /\ w \in ValuesOf(p) \cup {Failed} /\ w # None
        /\ Valid(p, v, client) = w /\ FirstOf(f[p], w) = w
    BY <1>4, <2>1, ValidatedFacts DEF Valid, FirstOf
  <2>3. SetParam(Collected(f), p, v, client) = IF w = Failed THEN Failed ELSE [f EXCEPT ![p] = w]
    BY <1>1, <1>4, <2>1 DEF SetParam, Sets
  <2>4. w # Failed => [f EXCEPT ![p] = w] \in Configs /\ [f EXCEPT ![p] = w][p] = w
    BY <1>1, <2>2 DEF Configs, ValuesOf
  <2> QED
    BY <2>2, <2>3, <2>4 DEF Distinct
<1> QED
  BY <1>2, <1>3, <1>4

LEMMA SetParamsIs ==
    ASSUME Distinct, NEW f \in Collections, NEW values \in Configs, NEW client
    PROVE  SetParams(Collected(f), values, client) = Collected(Then(f, values, client))
<1> DEFINE config  == Collected(f)
           each(p) == SetParam(config, p, values[p], client)
           w(p)    == FirstOf(f[p], Valid(p, values[p], client))
<1>1. CASE config = Failed
  <2>1. PICK p \in Params : f[p] = Failed
    BY <1>1, CollectedFacts
  <2>2. w(p) = Failed /\ Then(f, values, client)[p] = Failed
    BY <2>1 DEF FirstOf, Then, Distinct
  <2>3. Collected(Then(f, values, client)) = Failed
    BY <2>2 DEF Collected
  <2> QED
    BY <1>1, <2>3 DEF SetParams
<1>2. CASE config # Failed
  <2>1. \A p \in Params : values[p] \in ValuesOf(p) \cup {None}
    BY DEF Configs
  <2>2. \A p \in Params : each(p) = Failed <=> w(p) = Failed
    BY <1>2, <2>1, SetParamIs
  <2>3. \A p \in Params : each(p) # Failed => each(p)[p] = w(p)
    BY <1>2, <2>1, SetParamIs
  <2>4. SetParams(config, values, client) =
           IF \E p \in Params : each(p) = Failed THEN Failed ELSE [p \in Params |-> each(p)[p]]
    BY <1>2 DEF SetParams
  <2>5. Then(f, values, client) = [p \in Params |-> w(p)]
    BY DEF Then
  <2> HIDE DEF each, w
  <2>6. CASE \E p \in Params : w(p) = Failed
    BY <2>2, <2>4, <2>5, <2>6 DEF Collected
  <2>7. CASE \A p \in Params : w(p) # Failed
    <3>1. [p \in Params |-> each(p)[p]] = [p \in Params |-> w(p)]
      BY <2>2, <2>3, <2>7
    <3> QED
      BY <2>2, <2>4, <2>5, <2>7, <3>1 DEF Collected
  <2> QED
    BY <2>6, <2>7
<1> QED
  BY <1>1, <1>2

-----------------------------------------------------------------------------
(* One level.                                                              *)

\* What a part of a DSN gives is a value of its parameter.
LEMMA InDsnFacts ==
    ASSUME Distinct, NEW dsn, IsDsn(dsn), NEW p \in Params
    PROVE  InDsn(dsn, p) \in Maybe(p)
<1>1. IsPart(dsn.parts[p], p)
  BY DEF IsDsn
<1> QED
  BY <1>1 DEF IsPart, InDsn, Maybe

\* handleDSNPart() takes what the part gives, when it is not given twice.
LEMMA DsnPartIs ==
    ASSUME Distinct, NEW f \in Collections, Collected(f) # Failed, NEW p \in Params,
           NEW dsn, IsDsn(dsn), dsn.parts[p].form # "twice", NEW client
    PROVE  LET w == FirstOf(f[p], Valid(p, InDsn(dsn, p), client))
               set == DsnPart(Collected(f), p, dsn.parts[p], client)
           IN  /\ set = Failed <=> w = Failed
               /\ set # Failed => set[p] = w
<1>1. Collected(f) = f /\ f # Failed /\ f[p] # Failed
  BY CollectedFacts
<1>2. IsPart(dsn.parts[p], p)
  BY DEF IsDsn
<1>3. CASE dsn.parts[p].form = "missing"
  <2>1. InDsn(dsn, p) = Failed /\ Valid(p, InDsn(dsn, p), client) = Failed
    BY <1>3 DEF InDsn, Valid
  <2>2. DsnPart(Collected(f), p, dsn.parts[p], client) = IF f[p] = None THEN Failed ELSE f
    BY <1>1, <1>3 DEF DsnPart
  <2> QED
    BY <1>1, <2>1, <2>2 DEF FirstOf
<1>4. CASE dsn.parts[p].form # "missing"
  <2>1. PICK v : v = InDsn(dsn, p)
    OBVIOUS
  <2>2. v \in ValuesOf(p) \cup {None}
    BY <1>2, <1>4, <2>1 DEF IsPart, InDsn
  <2>3. DsnPart(Collected(f), p, dsn.parts[p], client) = SetParam(Collected(f), p, v, client)
    BY <1>1, <1>4, <2>1 DEF DsnPart, InDsn
  <2> QED
    BY <2>1, <2>2, <2>3, SetParamIs
<1> QED
  BY <1>3, <1>4

LEMMA ParseDSNIs ==
    ASSUME Distinct, NEW f \in Collections, NEW dsn, IsDsn(dsn), NEW client
    PROVE  ParseDSN(Collected(f), dsn, client) =
               IF ~dsn.ok \/ \E p \in Params : dsn.parts[p].form = "twice" THEN Failed
               ELSE Collected(Then(f, [p \in Params |-> InDsn(dsn, p)], client))
<1> DEFINE config  == Collected(f)
           each(p) == DsnPart(config, p, dsn.parts[p], client)
           g       == [p \in Params |-> InDsn(dsn, p)]
           w(p)    == FirstOf(f[p], Valid(p, InDsn(dsn, p), client))
<1>1. ParseDSN(config, dsn, client) =
         IF config = Failed \/ ~dsn.ok \/ \E p \in Params : each(p) = Failed THEN Failed
         ELSE [p \in Params |-> each(p)[p]]
  BY DEF ParseDSN
<1>2. Then(f, g, client) = [p \in Params |-> w(p)]
  BY DEF Then
<1>3. CASE ~dsn.ok
  BY <1>1, <1>3
<1>4. CASE \E p \in Params : dsn.parts[p].form = "twice"
  <2>1. \A p \in Params : dsn.parts[p].form = "twice" => each(p) = Failed
    BY DEF DsnPart
  <2> QED
    BY <1>1, <1>4, <2>1
<1>5. CASE config = Failed
  <2>1. PICK p \in Params : f[p] = Failed
    BY <1>5, CollectedFacts
  <2>2. w(p) = Failed
    BY <2>1 DEF FirstOf, Distinct
  <2>3. Collected(Then(f, g, client)) = Failed
    BY <1>2, <2>2 DEF Collected
  <2> QED
    BY <1>1, <1>5, <2>3
<1>6. CASE config # Failed /\ dsn.ok /\ \A p \in Params : dsn.parts[p].form # "twice"
  <2>2. \A p \in Params : each(p) = Failed <=> w(p) = Failed
    BY <1>6, DsnPartIs
  <2>3. \A p \in Params : each(p) # Failed => each(p)[p] = w(p)
    BY <1>6, DsnPartIs
  <2> HIDE DEF each, w
  <2>4. CASE \E p \in Params : w(p) = Failed
    BY <1>1, <1>2, <1>6, <2>2, <2>4 DEF Collected
  <2>5. CASE \A p \in Params : w(p) # Failed
    <3>1. [p \in Params |-> each(p)[p]] = [p \in Params |-> w(p)]
      BY <2>2, <2>3, <2>5
    <3> QED
      BY <1>1, <1>2, <1>6, <2>2, <2>5, <3>1 DEF Collected
  <2> QED
    BY <2>4, <2>5
<1> QED
  BY <1>3, <1>4, <1>5, <1>6

\* What credentials give, when they are not refused.
LEMMA CredentialsGive ==
    ASSUME Distinct, NEW c, IsCredentials(c)
    PROVE  LET g == [p \in Params |-> InCredentials(c, p)]
           IN  g \in Configs /\ ValidateCredentials(c) \in {g, Failed}
<1> DEFINE g == [p \in Params |-> InCredentials(c, p)]
           mode == VerifyMode(c.verify)
<1>1. c.verify # None => mode \in Strings
  <2>1. c.verify = TRUE => mode = "strict"
    BY DEF VerifyMode, IsCredentials, Distinct
  <2>2. c.verify = FALSE => mode = "no_host_verification"
    BY DEF VerifyMode, IsCredentials, Distinct
  <2> QED
    BY <2>1, <2>2 DEF IsCredentials, Strings, Modes
<1>2. c.verify = None => mode = None
  BY DEF VerifyMode, Distinct
<1>3. c.verify # None => mode # None
  BY <1>1 DEF Distinct
<1> HIDE DEF mode
<1>4. [from |-> c.from, mode |-> mode] \in Settings \/ c.verify = None
  BY <1>1 DEF Settings, IsCredentials
<1>5. \A p \in Params : c.values[p] \in ValuesOf(p) \cup {None}
  BY DEF IsCredentials, Configs
<1>6. ASSUME NEW p \in Params
      PROVE  InCredentials(c, p) \in ValuesOf(p) \cup {None}
  <2>1. CASE p = "tlsCA"
    BY <1>5, <2>1 DEF InCredentials, FirstOf, IsCredentials, ValuesOf
  <2>2. CASE p = "tlsSecurity"
    <3>1. InCredentials(c, p) = FirstOf(c.values["tlsSecurity"],
                     IF c.verify = None THEN None ELSE [from |-> c.from, mode |-> mode])
      BY <2>2 DEF InCredentials, mode
    <3> QED
      BY <1>4, <1>5, <2>2, <3>1 DEF FirstOf, ValuesOf
  <2>3. CASE p # "tlsCA" /\ p # "tlsSecurity"
    BY <1>5, <2>3 DEF InCredentials
  <2> QED
    BY <2>1, <2>2, <2>3
<1>7. g \in Configs
  BY <1>6 DEF Configs, ValuesOf
<1>8. ValidateCredentials(c) # Failed => ValidateCredentials(c) = g
  <2> DEFINE h == [c.values EXCEPT
                     !["tlsCA"] = IF c.cert # None THEN c.cert ELSE @,
                     !["tlsSecurity"] = IF @ # None \/ mode = None THEN @
                                        ELSE [from |-> c.from, mode |-> mode]]
  <2>1. ValidateCredentials(c) # Failed => ValidateCredentials(c) = h
    BY DEF ValidateCredentials, mode
  <2>2. c.values = [p \in Params |-> c.values[p]]
    BY DEF IsCredentials, Configs
  <2>3. "tlsCA" \in Params /\ "tlsSecurity" \in Params
    BY DEF Params, Plain
  <2>4. h["tlsCA"] = g["tlsCA"]
    BY <2>2, <2>3 DEF InCredentials, FirstOf
  <2>5. h["tlsSecurity"] = g["tlsSecurity"]
    BY <1>2, <1>3, <2>2, <2>3 DEF InCredentials, FirstOf, mode
  <2>6. \A p \in Params : p # "tlsCA" /\ p # "tlsSecurity" => h[p] = g[p]
    BY <2>2 DEF InCredentials
  <2>7. h = [p \in Params |-> h[p]]
    BY <2>2
  <2> QED
    BY <2>1, <2>4, <2>5, <2>6, <2>7
<1> QED
  BY <1>7, <1>8

\* A level whose places of the server are not too many has at most one.
LEMMA Places ==
    ASSUME NEW level
    PROVE  \/ Cardinality(Compounds(level)) > 1
           \/ Compounds(level) \in {{}, {"dsn"}, {"hostport"}}
           \/ \E form \in CredentialForms : Compounds(level) = {form}
<1> DEFINE places == CredentialForms \cup {"dsn", "hostport"}
<1>1. Compounds(level) \subseteq places /\ IsFiniteSet(places)
  <2>1. Compounds(level) \subseteq places
    BY DEF Compounds
  <2>2. /\ IsFiniteSet({"credentials"}) /\ IsFiniteSet({"credentialsFile"}) /\ IsFiniteSet({"instanceName"})
        /\ IsFiniteSet({"dsn"}) /\ IsFiniteSet({"hostport"})
    BY FS_Singleton
  <2>3. places = {"credentials"} \cup ({"credentialsFile"} \cup ({"instanceName"} \cup ({"dsn"} \cup {"hostport"})))
    BY DEF CredentialForms
  <2> HIDE DEF places
  <2> QED
    BY <2>1, <2>2, <2>3, FS_Union
<1>2. IsFiniteSet(Compounds(level))
  BY <1>1, FS_Subset
<1>3. ASSUME NEW a \in Compounds(level), NEW b \in Compounds(level), a # b
      PROVE  Cardinality(Compounds(level)) > 1
  <2>1. IsFiniteSet({a}) /\ Cardinality({a}) = 1 /\ {a} \cup {b} = {a, b} /\ b \notin {a}
    BY <1>3, FS_Singleton
  <2>2. IsFiniteSet({a, b}) /\ Cardinality({a, b}) = 2
    BY <2>1, FS_AddElement
  <2>3. {a, b} \subseteq Compounds(level)
    OBVIOUS
  <2> QED
    BY <1>2, <2>2, <2>3, FS_Subset, FS_CardinalityType
<1>4. ASSUME NEW a \in Compounds(level), Compounds(level) = {a}
      PROVE  \/ Compounds(level) \in {{}, {"dsn"}, {"hostport"}}
             \/ \E form \in CredentialForms : Compounds(level) = {form}
  BY <1>1, <1>4
<1> QED
  BY <1>3, <1>4

\* The credentials of a level.
LEMMA HeldIs ==
    ASSUME NEW level
    PROVE  /\ Held(level) # None <=> \E form \in CredentialForms : level.credentials[form] # None
           /\ Held(level) # None =>
                  \E form \in CredentialForms : Held(level) = level.credentials[form]
BY Zenon DEF Held

LEMMA HeldFacts ==
    ASSUME NEW level, IsLevel(level), Held(level) # None
    PROVE  IsCredentials(Held(level))
<1>1. PICK form \in CredentialForms : Held(level) = level.credentials[form]
  BY HeldIs
<1> QED
  BY <1>1 DEF IsLevel

\* They are those that are read, when they are given once.
LEMMA ReadIs ==
    ASSUME NEW level, NEW form \in CredentialForms, Compounds(level) = {form}
    PROVE  ReadCredentials(level) = Held(level) /\ Held(level) # None
<1>1. /\ level.credentials[form] # None
      /\ \A other \in CredentialForms : other # form => level.credentials[other] = None
  <2>1. \A other \in CredentialForms : other \notin {"dsn", "hostport"}
    BY DEF CredentialForms
  <2>2. \A other \in CredentialForms : other \in Compounds(level) <=> level.credentials[other] # None
    BY <2>1 DEF Compounds
  <2> QED
    BY <2>2
<1>2. Held(level) = level.credentials[form] /\ Held(level) # None
  <2>1. Held(level) # None
    BY <1>1, HeldIs
  <2>2. PICK other \in CredentialForms : Held(level) = level.credentials[other]
    BY <2>1, HeldIs
  <2> QED
    BY <1>1, <2>1, <2>2
<1>3. ReadCredentials(level) = level.credentials[form]
  BY <1>1 DEF ReadCredentials, CredentialForms
<1> QED
  BY <1>1, <1>2, <1>3

\* To know one thing and then another is to know the first of the two.
LEMMA ThenThen ==
    ASSUME Distinct, NEW f \in Collections, NEW g \in Collections, NEW h \in Collections, NEW client
    PROVE  /\ [p \in Params |-> FirstOf(g[p], h[p])] \in Collections
           /\ Then(Then(f, g, client), h, client) = Then(f, [p \in Params |-> FirstOf(g[p], h[p])], client)
<1> DEFINE gh == [p \in Params |-> FirstOf(g[p], h[p])]
<1>1. \A p \in Params : f[p] \in Maybe(p) /\ g[p] \in Maybe(p) /\ h[p] \in Maybe(p)
  BY DEF Collections
<1>2. ASSUME NEW p \in Params
      PROVE  /\ gh[p] \in Maybe(p)
             /\ FirstOf(FirstOf(f[p], Valid(p, g[p], client)), Valid(p, h[p], client)) =
                   FirstOf(f[p], Valid(p, gh[p], client))
  <2>1. Valid(p, gh[p], client) = FirstOf(Valid(p, g[p], client), Valid(p, h[p], client))
        /\ gh[p] \in Maybe(p)
    BY <1>1, ValidFirst
  <2> QED
    BY <2>1 DEF FirstOf
<1>3. gh \in Collections
  <2>1. \A p \in Params : Maybe(p) \subseteq Texts \cup Settings \cup {None, Failed}
    BY DEF Maybe, ValuesOf
  <2>2. gh \in [Params -> Texts \cup Settings \cup {None, Failed}]
    BY <1>2, <2>1
  <2> HIDE DEF gh
  <2> QED
    BY <1>2, <2>2 DEF Collections
<1> QED
  BY <1>2, <1>3 DEF Then

LEMMA ConfigsCollected == ASSUME Distinct PROVE Configs \subseteq Collections
BY DEF Configs, Collections, Maybe

\* What a level gives on its own, elsewhere, and together.
OwnOf(level)  == [p \in Params |-> Own(level, p)]
ElseOf(level) == [p \in Params |-> Elsewhere(level, p)]
AllOf(level)  == [p \in Params |-> Gives(level, p)]

LEMMA OwnFacts ==
    ASSUME Distinct, NEW level, IsLevel(level)
    PROVE  /\ OwnOf(level) \in Configs
           /\ OwnOf(level) = [level.values EXCEPT !["host"] = None, !["port"] = None,
                                 !["tlsCA"] = IF @ = None THEN level.caFile ELSE @]
<1> DEFINE own == [level.values EXCEPT !["host"] = None, !["port"] = None,
                                       !["tlsCA"] = IF @ = None THEN level.caFile ELSE @]
<1>1. /\ level.values = [p \in Params |-> level.values[p]]
      /\ \A p \in Params : level.values[p] \in ValuesOf(p) \cup {None}
  BY DEF IsLevel, Configs
<1>2. "host" \in Params /\ "port" \in Params /\ "tlsCA" \in Params /\ "host" # "tlsCA" /\ "port" # "tlsCA"
  BY DEF Params, Plain
<1>3. \A p \in Params : Own(level, p) \in ValuesOf(p) \cup {None}
  BY <1>1, <1>2 DEF Own, FirstOf, IsLevel, ValuesOf
<1>4. OwnOf(level) \in Configs
  BY <1>3 DEF OwnOf, Configs, ValuesOf
<1>5. own["host"] = None /\ own["port"] = None
  BY <1>1, <1>2
<1>6. own["tlsCA"] = FirstOf(level.values["tlsCA"], level.caFile)
  BY <1>1, <1>2 DEF FirstOf
<1>7. \A p \in Params : p \notin {"host", "port", "tlsCA"} => own[p] = level.values[p]
  BY <1>1
<1>8. own = [p \in Params |-> own[p]]
  BY <1>1
<1> HIDE DEF own
<1>9. \A p \in Params : own[p] = Own(level, p)
  BY <1>5, <1>6, <1>7 DEF Own
<1> QED
  BY <1>4, <1>8, <1>9 DEF OwnOf, own

LEMMA ElseFacts ==
    ASSUME Distinct, NEW level, IsLevel(level)
    PROVE  /\ ElseOf(level) \in Collections /\ OwnOf(level) \in Collections
           /\ AllOf(level) = [p \in Params |-> FirstOf(OwnOf(level)[p], ElseOf(level)[p])]
           /\ AllOf(level) \in Collections
<1>1. ASSUME NEW p \in Params
      PROVE  Elsewhere(level, p) \in Maybe(p)
  <2>1. CASE level.dsn # None
    BY <2>1, InDsnFacts DEF Elsewhere, IsLevel
  <2>2. CASE level.dsn = None /\ Held(level) # None
    <3>1. InCredentials(Held(level), p) \in ValuesOf(p) \cup {None}
      BY <2>2, HeldFacts, CredentialsGive DEF Configs
    <3> QED
      BY <2>2, <3>1 DEF Elsewhere, Maybe
  <2>3. CASE level.dsn = None /\ Held(level) = None
    BY <2>3 DEF Elsewhere, Maybe, IsLevel, Configs
  <2> QED
    BY <2>1, <2>2, <2>3
<1>2. ElseOf(level) \in Collections
  <2>1. \A p \in Params : Maybe(p) \subseteq Texts \cup Settings \cup {None, Failed}
    BY DEF Maybe, ValuesOf
  <2> QED
    BY <1>1, <2>1 DEF ElseOf, Collections
<1>3. OwnOf(level) \in Collections
  BY OwnFacts, ConfigsCollected
<1>4. AllOf(level) = [p \in Params |-> FirstOf(OwnOf(level)[p], ElseOf(level)[p])]
  BY DEF AllOf, OwnOf, ElseOf, Gives
<1> QED
  BY <1>2, <1>3, <1>4, ThenThen

\* resolveConfigOptions() on a level.
LEMMA LevelIs ==
    ASSUME Distinct, NEW f \in Collections, NEW level, IsLevel(level), NEW client
    PROVE  ResolveLevel(Collected(f), level, client) =
               IF Wrong(level) THEN Failed ELSE Collected(Then(f, AllOf(level), client))
<1> DEFINE config == Collected(f)
           simple == SetParams(config, OwnOf(level), client)
           known  == Then(f, OwnOf(level), client)
           given  == Compounds(level)
           host   == [p \in Params |-> IF p \in {"host", "port"} THEN level.values[p] ELSE None]
<1>1. simple = Collected(known) /\ known \in Collections
  BY OwnFacts, ElseFacts, SetParamsIs, ThenFacts
<1>2. Then(known, ElseOf(level), client) = Then(f, AllOf(level), client)
  BY ElseFacts, ThenThen
<1>3. CASE (level.values["tlsCA"] # None /\ level.caFile # None) \/ Cardinality(given) > 1
  BY <1>3 DEF ResolveLevel, Wrong
<1>4. CASE /\ ~(level.values["tlsCA"] # None /\ level.caFile # None)
           /\ ~(Cardinality(given) > 1)
  <2> DEFINE result == ResolveLevel(config, level, client)
  <2>1. /\ given = {} => result = simple
        /\ given = {"dsn"} => result = ParseDSN(simple, level.dsn, client)
        /\ given = {"hostport"} =>
              result = IF level.values["host"] # None /\ ~level.values["host"].ok THEN Failed
                       ELSE SetParams(simple, host, client)
        /\ (\E form \in CredentialForms : given = {form}) =>
              result = IF ValidateCredentials(Held(level)) = Failed THEN Failed
                       ELSE SetParams(simple, ValidateCredentials(Held(level)), client)
    <3>1. \A form \in CredentialForms :
              given = {form} => given # {} /\ given # {"dsn"} /\ given # {"hostport"}
      BY DEF CredentialForms
    <3> QED
      BY <1>4, <3>1, OwnFacts, ReadIs DEF ResolveLevel
  <2> HIDE DEF result
  <2>2. Wrong(level) <=> \/ level.dsn # None /\ (~level.dsn.ok \/ \E p \in Params : level.dsn.parts[p].form = "twice")
                         \/ Held(level) # None /\ ValidateCredentials(Held(level)) = Failed
                         \/ level.values["host"] # None /\ ~level.values["host"].ok
    BY <1>4 DEF Wrong
  <2>3. /\ "dsn" \in given <=> level.dsn # None
        /\ (\E form \in CredentialForms : form \in given) <=> Held(level) # None
        /\ "hostport" \in given <=> level.values["host"] # None \/ level.values["port"] # None
    BY HeldIs DEF Compounds, CredentialForms
  <2>4. CASE given = {}
    <3>1. ElseOf(level) = [p \in Params |-> None] /\ ~Wrong(level)
      BY <2>2, <2>3, <2>4 DEF ElseOf, Elsewhere
    <3>2. Then(known, ElseOf(level), client) = known
      BY <1>1, <3>1 DEF Then, FirstOf, Valid, Collections
    <3> QED
      BY <1>1, <1>2, <2>1, <2>4, <3>1, <3>2 DEF result
  <2>5. CASE given = {"dsn"}
    <3>1. /\ level.dsn # None /\ Held(level) = None /\ level.values["host"] = None
          /\ IsDsn(level.dsn)
      BY <2>3, <2>5 DEF IsLevel, CredentialForms
    <3>2. ElseOf(level) = [p \in Params |-> InDsn(level.dsn, p)]
      BY <3>1 DEF ElseOf, Elsewhere
    <3> QED
      BY <1>1, <1>2, <2>1, <2>2, <2>5, <3>1, <3>2, ParseDSNIs DEF result
  <2>6. CASE given = {"hostport"}
    <3>1. level.dsn = None /\ Held(level) = None
      BY <2>3, <2>6 DEF CredentialForms
    <3>2. ElseOf(level) = host /\ host \in Configs
      <4>1. \A p \in Params : level.values[p] \in ValuesOf(p) \cup {None}
        BY DEF IsLevel, Configs
      <4>2. host \in Configs
        BY <4>1 DEF Configs, ValuesOf
      <4> QED
        BY <3>1, <4>2 DEF ElseOf, Elsewhere
    <3>3. SetParams(simple, host, client) = Collected(Then(known, ElseOf(level), client))
      BY <1>1, <3>2, SetParamsIs
    <3> QED
      BY <1>2, <2>1, <2>2, <2>6, <3>1, <3>3 DEF result
  <2>7. CASE \E form \in CredentialForms : given = {form}
    <3>1. /\ level.dsn = None /\ Held(level) # None /\ level.values["host"] = None
          /\ IsCredentials(Held(level))
      BY <2>3, <2>7, HeldFacts DEF CredentialForms
    <3>2. ElseOf(level) = [p \in Params |-> InCredentials(Held(level), p)]
      BY <3>1 DEF ElseOf, Elsewhere
    <3>3. ElseOf(level) \in Configs /\ ValidateCredentials(Held(level)) \in {ElseOf(level), Failed}
      BY <3>1, <3>2, CredentialsGive
    <3>4. SetParams(simple, ElseOf(level), client) = Collected(Then(known, ElseOf(level), client))
      BY <1>1, <3>3, SetParamsIs
    <3> QED
      BY <1>2, <2>1, <2>2, <2>7, <3>1, <3>3, <3>4 DEF result
  <2> QED
    BY <1>4, <2>4, <2>5, <2>6, <2>7, Places
<1> QED
  BY <1>3, <1>4

-----------------------------------------------------------------------------
(* The levels together.                                                    *)

\* A configuration that could not be resolved stays so.
LEMMA StaysFailed ==
    ASSUME Distinct, NEW level, IsLevel(level), NEW client
    PROVE  ResolveLevel(Failed, level, client) = Failed
<1> DEFINE f == [p \in Params |-> Failed]
<1>1. f \in Collections
  BY DEF Collections, Maybe
<1>2. "host" \in Params
  BY DEF Params, Plain
<1>3. Collected(f) = Failed
  BY <1>2 DEF Collected
<1>4. Collected(Then(f, AllOf(level), client)) = Failed
  <2>1. Then(f, AllOf(level), client)["host"] = Failed
    BY <1>2 DEF Then, FirstOf, Distinct
  <2> QED
    BY <1>2, <2>1 DEF Collected
<1> HIDE DEF f
<1> QED
  BY <1>1, <1>3, <1>4, LevelIs

LEMMA EnvFacts ==
    ASSUME Distinct, NEW i, IsInput(i)
    PROVE  IsLevel(Env(i))
<1>1. CASE ~i.env.linked
  BY <1>1 DEF IsInput, IsEnv, Env, WithoutLink
<1>2. CASE i.env.linked
  <2> DEFINE env == i.env
             values == [env.values EXCEPT !["port"] = None]
  <2>1. Env(i) = [env EXCEPT !.values["port"] = None]
    BY <1>2 DEF Env, WithoutLink
  <2>2. env = [dsn |-> env.dsn, credentials |-> env.credentials, values |-> env.values,
               caFile |-> env.caFile, linked |-> env.linked]
    BY DEF IsInput, IsEnv
  <2>3. /\ Env(i).dsn = env.dsn /\ Env(i).credentials = env.credentials
        /\ Env(i).caFile = env.caFile /\ Env(i).values = values
    BY <2>1, <2>2
  <2>4. IsLevel(env)
    BY DEF IsInput, IsEnv
  <2>5. values \in Configs
    BY <2>4 DEF IsLevel, Configs
  <2> QED
    BY <2>3, <2>4, <2>5 DEF IsLevel
<1> QED
  BY <1>1, <1>2

LEMMA LocatedIs == ASSUME NEW level PROVE Located(level) <=> Compounds(level) # {}
BY HeldIs DEF Located, Compounds, CredentialForms

\* The parameters that are known when those of g are given, after the default.
WithDefault(g, p) == IF p = "tlsSecurity" THEN FirstOf(g[p], ByDefault) ELSE g[p]

LEMMA DefaultFacts == ByDefault \in Settings /\ ByDefault.mode = "default"
BY DEF ByDefault, Settings, Strings

LEMMA FinalIs ==
    ASSUME Distinct, NEW g \in Collections, NEW client
    PROVE  LET all == [p \in Params |-> Valid(p, WithDefault(g, p), client)]
           IN  /\ Then(Unresolved, g, client) \in Collections
               /\ all \in Collections
               /\ SetParam(Collected(Then(Unresolved, g, client)), "tlsSecurity", ByDefault, client) = Collected(all)
<1> DEFINE tls == "tlsSecurity"
           f   == Then(Unresolved, g, client)
           all == [p \in Params |-> Valid(p, WithDefault(g, p), client)]
           w   == FirstOf(f[tls], Valid(tls, ByDefault, client))
           set == SetParam(Collected(f), tls, ByDefault, client)
<1>1. tls \in Params /\ ByDefault \in ValuesOf(tls) /\ ByDefault \in Maybe(tls)
  BY DefaultFacts DEF Params, ValuesOf, Maybe
<1>2. Unresolved \in Collections
  BY DEF Unresolved, Collections, Maybe
<1>3. f \in Collections
  BY <1>2, ThenFacts
<1>4. \A p \in Params : g[p] \in Maybe(p) /\ f[p] = Valid(p, g[p], client)
  BY DEF Then, Unresolved, FirstOf, Collections
<1>5. f = [p \in Params |-> f[p]]
  BY DEF Then
<1> HIDE DEF f
<1>6. all = [f EXCEPT ![tls] = w]
  <2>1. all[tls] = w
    BY <1>1, <1>4, ValidFirst DEF WithDefault
  <2>2. \A p \in Params : p # tls => all[p] = f[p]
    BY <1>4 DEF WithDefault
  <2>3. [f EXCEPT ![tls] = w] = [p \in Params |-> IF p = tls THEN w ELSE f[p]]
    BY <1>5
  <2> QED
    BY <1>1, <2>1, <2>2, <2>3
<1>7. all \in Collections
  <2>1. w \in Maybe(tls)
    BY <1>1, <1>4, ValidFacts, ValidFirst
  <2> HIDE DEF all, w
  <2> QED
    BY <1>1, <1>3, <1>6, <2>1 DEF Collections, Maybe, ValuesOf
<1>8. CASE Collected(f) = Failed
  <2>1. set = Failed
    BY <1>8 DEF SetParam
  <2>2. PICK p \in Params : f[p] = Failed
    BY <1>3, <1>8, CollectedFacts
  <2>3. all[p] = Failed
    BY <1>1, <1>5, <1>6, <2>2 DEF FirstOf, Distinct
  <2> HIDE DEF all
  <2> QED
    BY <1>3, <1>7, <2>1, <2>2, <2>3 DEF Collected, all, f
<1>9. CASE Collected(f) # Failed
  <2>1. /\ set = Failed <=> w = Failed
        /\ set # Failed => set = [f EXCEPT ![tls] = w]
    BY <1>1, <1>3, <1>9, SetParamIs
  <2>2. \A p \in Params : f[p] # Failed
    BY <1>3, <1>9, CollectedFacts
  <2>3. all[tls] = w /\ \A p \in Params : p # tls => all[p] = f[p]
    BY <1>1, <1>5, <1>6
  <2> HIDE DEF all, w, set
  <2> QED
    BY <1>1, <1>3, <1>6, <1>7, <2>1, <2>2, <2>3 DEF Collected, all, f, set
<1> QED
  BY <1>3, <1>7, <1>8, <1>9 DEF f

\* What the levels give up to the options, the environment and the project.
UpToOptions(i) == AllOf(i.options)
UpToEnv(i)     == [p \in Params |-> FirstOf(UpToOptions(i)[p], AllOf(Env(i))[p])]
UpToProject(i) == [p \in Params |-> FirstOf(UpToEnv(i)[p], AllOf(i.project)[p])]

AfterOptions(i) == ResolveLevel(Unresolved, i.options, i.client)
AfterEnv(i)     == ResolveLevel(AfterOptions(i), Env(i), i.client)

LEMMA LevelsAre ==
    ASSUME Distinct, NEW i, IsInput(i)
    PROVE  /\ UpToOptions(i) \in Collections /\ UpToEnv(i) \in Collections
           /\ AfterOptions(i) = IF Wrong(i.options) THEN Failed
                                ELSE Collected(Then(Unresolved, UpToOptions(i), i.client))
           /\ AfterEnv(i) = IF Wrong(i.options) \/ Wrong(Env(i)) THEN Failed
                            ELSE Collected(Then(Unresolved, UpToEnv(i), i.client))
           /\ i.project # None =>
                 /\ UpToProject(i) \in Collections
                 /\ ResolveLevel(AfterEnv(i), i.project, i.client) =
                       IF Wrong(i.options) \/ Wrong(Env(i)) \/ Wrong(i.project) THEN Failed
                       ELSE Collected(Then(Unresolved, UpToProject(i), i.client))
<1> DEFINE c == i.client
           n == Unresolved
<1>1. n \in Collections /\ Collected(n) = n
  <2>1. n \in Configs
    BY DEF Unresolved, Configs
  <2> QED
    BY <2>1, ConfigsCollected DEF Unresolved, Collected, Distinct
<1>2. IsLevel(i.options) /\ IsLevel(Env(i)) /\ (i.project # None => IsLevel(i.project))
  BY EnvFacts DEF IsInput
<1>3. /\ AllOf(i.options) \in Collections /\ AllOf(Env(i)) \in Collections
      /\ i.project # None => AllOf(i.project) \in Collections
  BY <1>2, ElseFacts
<1> HIDE DEF n, c
<1>4. AfterOptions(i) = IF Wrong(i.options) THEN Failed ELSE Collected(Then(n, UpToOptions(i), c))
  BY <1>1, <1>2, LevelIs DEF AfterOptions, UpToOptions, n, c
<1>5. /\ UpToEnv(i) \in Collections
      /\ Then(Then(n, UpToOptions(i), c), AllOf(Env(i)), c) = Then(n, UpToEnv(i), c)
  BY <1>1, <1>3, ThenThen DEF UpToEnv, UpToOptions
<1>6. AfterEnv(i) = IF Wrong(i.options) \/ Wrong(Env(i)) THEN Failed ELSE Collected(Then(n, UpToEnv(i), c))
  <2>1. CASE Wrong(i.options)
    BY <1>2, <1>4, <2>1, StaysFailed DEF AfterEnv
  <2>2. CASE ~Wrong(i.options)
    <3>1. Then(n, UpToOptions(i), c) \in Collections
      BY <1>1, <1>3, ThenFacts DEF UpToOptions
    <3>2. AfterEnv(i) = ResolveLevel(Collected(Then(n, UpToOptions(i), c)), Env(i), c)
      BY <1>4, <2>2 DEF AfterEnv, c
    <3> QED
      BY <1>2, <1>5, <2>2, <3>1, <3>2, LevelIs
  <2> QED
    BY <2>1, <2>2
<1>7. ASSUME i.project # None
      PROVE  /\ UpToProject(i) \in Collections
             /\ ResolveLevel(AfterEnv(i), i.project, c) =
                   IF Wrong(i.options) \/ Wrong(Env(i)) \/ Wrong(i.project) THEN Failed
                   ELSE Collected(Then(n, UpToProject(i), c))
  <2>1. /\ UpToProject(i) \in Collections
        /\ Then(Then(n, UpToEnv(i), c), AllOf(i.project), c) = Then(n, UpToProject(i), c)
    BY <1>1, <1>3, <1>5, <1>7, ThenThen DEF UpToProject
  <2>2. CASE Wrong(i.options) \/ Wrong(Env(i))
    BY <1>2, <1>6, <1>7, <2>1, <2>2, StaysFailed
  <2>3. CASE ~(Wrong(i.options) \/ Wrong(Env(i)))
    <3>1. Then(n, UpToEnv(i), c) \in Collections
      BY <1>1, <1>5, ThenFacts
    <3>2. ResolveLevel(AfterEnv(i), i.project, c) =
             ResolveLevel(Collected(Then(n, UpToEnv(i), c)), i.project, c)
      BY <1>6, <2>3
    <3> QED
      BY <1>2, <1>7, <2>1, <2>3, <3>1, <3>2, LevelIs
  <2> QED
    BY <2>1, <2>2, <2>3
<1> QED
  BY <1>3, <1>4, <1>5, <1>6, <1>7 DEF UpToOptions, n, c

\* Where the levels are looked at up to which one.
LEMMA UsedIs ==
    ASSUME NEW i, NEW p \in Params
    PROVE  /\ ~LooksAtEnv(i) => Used(i, p) = WithDefault(UpToOptions(i), p)
           /\ LooksAtEnv(i) /\ ~LooksAtProject(i) => Used(i, p) = WithDefault(UpToEnv(i), p)
           /\ LooksAtProject(i) => Used(i, p) = WithDefault(UpToProject(i), p)
<1>1. /\ UpToOptions(i)[p] = Gives(i.options, p)
      /\ UpToEnv(i)[p] = FirstOf(Gives(i.options, p), Gives(Env(i), p))
      /\ UpToProject(i)[p] = FirstOf(FirstOf(Gives(i.options, p), Gives(Env(i), p)), Gives(i.project, p))
  BY DEF UpToOptions, UpToEnv, UpToProject, AllOf
<1>2. LooksAtProject(i) => LooksAtEnv(i)
  BY DEF LooksAtProject, LooksAtEnv
<1>3. /\ ~LooksAtEnv(i) => FirstGiven(i, p) = UpToOptions(i)[p]
      /\ LooksAtEnv(i) /\ ~LooksAtProject(i) => FirstGiven(i, p) = UpToEnv(i)[p]
      /\ LooksAtProject(i) => FirstGiven(i, p) = UpToProject(i)[p]
  BY <1>1, <1>2 DEF FirstGiven, FirstOf
<1> QED
  BY <1>3 DEF Used, WithDefault

AllUsed(i) == [p \in Params |-> Valid(p, Used(i, p), i.client)]

\* What Resolve() does with the levels.
LEMMA ResolvedIs ==
    ASSUME Distinct, NEW i, IsInput(i)
    PROVE  /\ ~(LooksAtProject(i) /\ i.project = None) => AllUsed(i) \in Collections
           /\ Refused(i) => Resolved(i).config = Failed
           /\ ~Refused(i) => Resolved(i).config = Collected(AllUsed(i))
<1> DEFINE located == IF Compounds(i.options) # {} THEN AfterOptions(i)
                      ELSE IF AfterOptions(i) = Failed \/ Compounds(Env(i)) # {} THEN AfterEnv(i)
                      ELSE IF i.project = None THEN Failed
                      ELSE ResolveLevel(AfterEnv(i), i.project, i.client)
           final(config) == SetParam(config, "tlsSecurity", ByDefault, i.client)
           of(g) == Collected(Then(Unresolved, g, i.client))
<1>1. Resolved(i).config = final(located)
  BY DEF Resolved, Resolve, AfterOptions, AfterEnv, Env, ByDefault
<1>2. final(Failed) = Failed
  BY DEF SetParam
<1>3. /\ LooksAtEnv(i) <=> Compounds(i.options) = {}
      /\ LooksAtProject(i) <=> Compounds(i.options) = {} /\ Compounds(Env(i)) = {}
  BY LocatedIs DEF LooksAtEnv, LooksAtProject
<1>4. CASE ~LooksAtEnv(i)
  <2>1. AllUsed(i) = [p \in Params |-> Valid(p, WithDefault(UpToOptions(i), p), i.client)]
    BY <1>4, UsedIs DEF AllUsed
  <2>2. AllUsed(i) \in Collections /\ final(of(UpToOptions(i))) = Collected(AllUsed(i))
    BY <2>1, LevelsAre, FinalIs
  <2>3. Refused(i) <=> Wrong(i.options)
    BY <1>3, <1>4 DEF Refused
  <2>4. located = IF Wrong(i.options) THEN Failed ELSE of(UpToOptions(i))
    BY <1>3, <1>4, LevelsAre
  <2> HIDE DEF located, final, of
  <2> QED
    BY <1>1, <1>2, <2>2, <2>3, <2>4
<1>5. CASE LooksAtEnv(i) /\ ~LooksAtProject(i)
  <2>1. AllUsed(i) = [p \in Params |-> Valid(p, WithDefault(UpToEnv(i), p), i.client)]
    BY <1>5, UsedIs DEF AllUsed
  <2>2. AllUsed(i) \in Collections /\ final(of(UpToEnv(i))) = Collected(AllUsed(i))
    BY <2>1, LevelsAre, FinalIs
  <2>3. Refused(i) <=> Wrong(i.options) \/ Wrong(Env(i))
    BY <1>5 DEF Refused
  <2>4. located = IF Wrong(i.options) \/ Wrong(Env(i)) THEN Failed ELSE of(UpToEnv(i))
    BY <1>3, <1>5, LevelsAre
  <2> HIDE DEF located, final, of
  <2> QED
    BY <1>1, <1>2, <2>2, <2>3, <2>4
<1>6. CASE LooksAtProject(i) /\ i.project = None
  <2>1. located = Failed
    <3>1. AfterOptions(i) = Failed => AfterEnv(i) = Failed
      BY EnvFacts, StaysFailed DEF AfterEnv
    <3> QED
      BY <1>3, <1>6, <3>1
  <2>2. Refused(i)
    BY <1>6 DEF Refused
  <2> HIDE DEF located, final
  <2> QED
    BY <1>1, <1>2, <1>6, <2>1, <2>2
<1>7. CASE LooksAtProject(i) /\ i.project # None
  <2>1. AllUsed(i) = [p \in Params |-> Valid(p, WithDefault(UpToProject(i), p), i.client)]
    BY <1>7, UsedIs DEF AllUsed
  <2>2. AllUsed(i) \in Collections /\ final(of(UpToProject(i))) = Collected(AllUsed(i))
    BY <1>7, <2>1, LevelsAre, FinalIs
  <2>3. Refused(i) <=> Wrong(i.options) \/ Wrong(Env(i)) \/ Wrong(i.project)
    BY <1>3, <1>7 DEF Refused
  <2>4. located = IF Wrong(i.options) \/ Wrong(Env(i)) \/ Wrong(i.project) THEN Failed ELSE of(UpToProject(i))
    <3>1. AfterOptions(i) = Failed => AfterEnv(i) = Failed
      BY EnvFacts, StaysFailed DEF AfterEnv
    <3>2. IsLevel(i.project)
      BY <1>7 DEF IsInput
    <3>3. AfterEnv(i) = Failed => ResolveLevel(AfterEnv(i), i.project, i.client) = Failed
      BY <3>2, StaysFailed
    <3>4. located = ResolveLevel(AfterEnv(i), i.project, i.client)
      BY <1>3, <1>7, <3>1, <3>3
    <3> QED
      BY <1>7, <3>4, LevelsAre
  <2> HIDE DEF located, final, of
  <2> QED
    BY <1>1, <1>2, <2>2, <2>3, <2>4
<1> QED
  BY <1>4, <1>5, <1>6, <1>7

\* A level that says where the server is, or gives a parameter that is not
\* known, counts as used.
LEMMA UsesIs ==
    ASSUME Distinct, NEW f \in Collections, NEW level, IsLevel(level)
    PROVE  UsesLevel(f, level) <=>
               \/ Located(level)
               \/ \E p \in Params : f[p] = None /\ Gives(level, p) # None
<1>1. CASE Located(level)
  BY <1>1, LocatedIs DEF UsesLevel
<1>2. CASE ~Located(level)
  <2>1. \A p \in Params : Gives(level, p) = Own(level, p)
    BY <1>2 DEF Gives, Elsewhere, Located, FirstOf
  <2>2. /\ \A p \in Params \ {"host", "port"} : p # "tlsCA" => Own(level, p) = level.values[p]
        /\ \A p \in {"host", "port"} : Own(level, p) = None
        /\ Own(level, "tlsCA") = FirstOf(level.values["tlsCA"], level.caFile)
    BY DEF Own
  <2>3. UsesLevel(f, level) <=>
            \/ \E p \in Params \ {"host", "port"} : f[p] = None /\ level.values[p] # None
            \/ f["tlsCA"] = None /\ level.caFile # None
    BY <1>2, LocatedIs DEF UsesLevel, Sets
  <2>4. "tlsCA" \in Params \ {"host", "port"}
    BY DEF Params, Plain
  <2> QED
    BY <1>2, <2>1, <2>2, <2>3, <2>4 DEF FirstOf
<1> QED
  BY <1>1, <1>2

\* For any levels, every parameter has the first value that is given, and there
\* is an error only from a value that is used or a source that is looked at.
LEMMA FirstWinsAlways == ASSUME Distinct, NEW i, IsInput(i) PROVE FirstWins(i)
<1> DEFINE bad == Refused(i) \/ \E p \in Params : Valid(p, Used(i, p), i.client) = Failed
           r == Resolved(i)
<1>1. \A p \in Params : AllUsed(i)[p] = Valid(p, Used(i, p), i.client)
  BY DEF AllUsed
<1>2. ~Refused(i) => AllUsed(i) \in Collections
  BY ResolvedIs DEF Refused
<1>3. bad => r.config = Failed
  BY <1>1, <1>2, ResolvedIs DEF Collected
<1>4. ~bad => r.config = AllUsed(i)
  BY <1>1, <1>2, ResolvedIs DEF Collected
<1>5. r.fromProject <=> LooksAtProject(i)
  BY LocatedIs DEF Resolved, Resolve, LooksAtProject, Env
<1>6. ASSUME ~bad
      PROVE  r.fromEnv <=> /\ LooksAtEnv(i)
                           /\ \/ Located(Env(i))
                              \/ \E p \in Params : Gives(i.options, p) = None /\ Gives(Env(i), p) # None
  <2>1. r.fromEnv <=> LooksAtEnv(i) /\ AfterOptions(i) # Failed /\ UsesLevel(AfterOptions(i), Env(i))
    BY LocatedIs DEF Resolved, Resolve, LooksAtEnv, Env, AfterOptions
  <2> DEFINE f == Then(Unresolved, UpToOptions(i), i.client)
  <2>2. /\ f \in Collections
        /\ \A p \in Params : f[p] = Valid(p, Gives(i.options, p), i.client)
    BY LevelsAre, FinalIs DEF Then, UpToOptions, AllOf, Unresolved, FirstOf
  <2>3. \A p \in Params : f[p] # Failed
    <3>1. SUFFICES ASSUME NEW p \in Params, f[p] = Failed PROVE FALSE
      OBVIOUS
    <3>2. UpToOptions(i)[p] = Gives(i.options, p) /\ UpToOptions(i)[p] \in Maybe(p)
      BY LevelsAre DEF UpToOptions, AllOf, Collections
    <3>3. Gives(i.options, p) # None
      BY <2>2, <3>1, <3>2, ValidFacts DEF Distinct
    <3>4. FirstGiven(i, p) = Gives(i.options, p)
      BY <3>3 DEF FirstGiven
    <3>5. Used(i, p) = Gives(i.options, p)
      BY <3>3, <3>4 DEF Used, FirstOf
    <3> QED
      BY <1>6, <2>2, <3>1, <3>5
  <2>4. AfterOptions(i) = f /\ f # Failed
    <3>1. Collected(f) = f /\ f # Failed
      BY <2>2, <2>3, CollectedFacts
    <3>2. ~Wrong(i.options)
      BY <1>6 DEF Refused
    <3> QED
      BY <3>1, <3>2, LevelsAre
  <2>5. \A p \in Params : f[p] = None <=> Gives(i.options, p) = None
    <3>1. \A p \in Params : Gives(i.options, p) \in Maybe(p)
      BY LevelsAre DEF UpToOptions, AllOf, Collections
    <3> QED
      BY <2>2, <3>1, ValidFacts
  <2> HIDE DEF f
  <2> QED
    BY <2>1, <2>2, <2>4, <2>5, UsesIs, EnvFacts
<1> HIDE DEF r
<1> QED
  BY <1>3, <1>4, <1>5, <1>6 DEF FirstWins, AllUsed, r

-----------------------------------------------------------------------------
(* TLS.                                                                    *)

LEMMA UsedFacts ==
    ASSUME Distinct, NEW i, IsInput(i), ~Refused(i), NEW p \in Params
    PROVE  Used(i, p) \in Maybe(p)
<1>1. /\ UpToOptions(i) \in Collections /\ UpToEnv(i) \in Collections
      /\ LooksAtProject(i) => UpToProject(i) \in Collections
  BY LevelsAre DEF Refused
<1>2. ASSUME NEW g \in Collections
      PROVE  WithDefault(g, p) \in Maybe(p)
  BY DefaultFacts DEF WithDefault, Collections, FirstOf, Maybe, ValuesOf
<1>3. LooksAtProject(i) => LooksAtEnv(i)
  BY DEF LooksAtProject, LooksAtEnv
<1> QED
  BY <1>1, <1>2, <1>3, UsedIs

\* Credentials that are not refused do not contradict themselves.
LEMMA AgreesFacts ==
    ASSUME Distinct, NEW level, IsLevel(level), ~Wrong(level)
    PROVE  Agrees(level)
<1> SUFFICES ASSUME Held(level) # None, Held(level).values["tlsSecurity"] # None
             PROVE  /\ Held(level).verify = TRUE => Held(level).values["tlsSecurity"].mode = "strict"
                    /\ Held(level).verify = FALSE =>
                          Held(level).values["tlsSecurity"].mode \in {"no_host_verification", "insecure"}
  BY DEF Agrees
<1> DEFINE c == Held(level)
           mode == c.values["tlsSecurity"].mode
<1>1. ValidateCredentials(c) # Failed
  BY DEF Wrong
<1>2. c.values["tlsSecurity"] \in Settings
  <2>1. "tlsSecurity" \in Params
    BY DEF Params
  <2> QED
    BY <2>1, HeldFacts DEF IsCredentials, Configs, ValuesOf
<1>3. mode # None
  BY <1>2 DEF Settings, Distinct
<1>4. Agree(c.verify, mode)
  BY <1>1 DEF ValidateCredentials
<1>5. c.verify = TRUE => VerifyMode(c.verify) = "strict" /\ c.verify # None
  BY DEF VerifyMode, Distinct
<1>6. c.verify = FALSE => VerifyMode(c.verify) = "no_host_verification" /\ c.verify # None
  BY DEF VerifyMode, Distinct
<1> QED
  BY <1>3, <1>4, <1>5, <1>6 DEF Agree

\* What is checked of a server for the mode that is resolved.
LEMMA TlsIs ==
    ASSUME NEW config, NEW mode, mode = config["tlsSecurity"].mode
    PROVE  /\ mode = "strict" => TlsOptions(config).chain /\ TlsOptions(config).hostname
           /\ mode = "no_host_verification" => TlsOptions(config).chain /\ ~TlsOptions(config).hostname
           /\ mode = "insecure" => ~TlsOptions(config).chain /\ ~TlsOptions(config).hostname
           /\ mode = "default" => /\ TlsOptions(config).chain
                                  /\ TlsOptions(config).hostname <=> config["tlsCA"] = None
BY DEF TlsOptions, EffectiveSecurity

\* For any levels, no combination of modes, credentials and certificates makes a
\* client check less of its server than was asked for.
LEMMA TlsSoundAlways == ASSUME Distinct, NEW i, IsInput(i) PROVE TlsSound(i)
<1> DEFINE config  == Resolved(i).config
           v       == Used(i, "tlsSecurity")
           allowed == /\ i.client \in {None, "default", "strict", "insecure_dev_mode"}
                      /\ Asked(i) \in Modes
                      /\ ~(i.client = "strict" /\ Asked(i) \in {"insecure", "no_host_verification"})
           failed(p) == Valid(p, Used(i, p), i.client) = Failed
<1>1. /\ config = Failed => Refused(i) \/ \E p \in Params : failed(p)
      /\ config # Failed => /\ ~Refused(i) /\ \A p \in Params : ~failed(p)
                            /\ config = AllUsed(i)
  <2>1. AllUsed(i) # Failed \/ Refused(i) \/ \E p \in Params : failed(p)
    <3>1. ~Refused(i) => AllUsed(i) \in Collections
      BY ResolvedIs DEF Refused
    <3>2. Collected(AllUsed(i)) # Failed => AllUsed(i) # Failed
      BY DEF Collected
    <3>3. (\A p \in Params : ~failed(p)) => (~Refused(i) => AllUsed(i) # Failed)
      <4>1. \A p \in Params : AllUsed(i)[p] = Valid(p, Used(i, p), i.client)
        BY DEF AllUsed
      <4> QED
        BY <3>1, <3>2, <4>1, CollectedFacts
    <3> QED
      BY <3>3
  <2> QED
    BY <2>1, FirstWinsAlways DEF FirstWins, AllUsed
<1>2. "tlsSecurity" \in Params /\ "tlsCA" \in Params /\ "tlsSecurity" \notin Plain
  BY DEF Params, Plain
<1>3. ASSUME ~Refused(i), v # Failed
      PROVE  /\ v \in Settings /\ v.mode = Asked(i) /\ v # None
             /\ Valid("tlsSecurity", v, i.client) = Validated("tlsSecurity", v, i.client)
  <2>1. v # None
    BY DefaultFacts DEF Used, FirstOf, Distinct
  <2> QED
    BY <1>2, <1>3, <2>1, UsedFacts DEF Maybe, ValuesOf, Asked, Valid
<1>4. ASSUME ~Refused(i), v # Failed
      PROVE  allowed <=> SecurityMode(Asked(i), i.client) # Failed
  <2>1. Asked(i) \in Strings
    BY <1>3, <1>4 DEF Settings
  <2> QED
    BY <2>1, ModeFacts
<1>5. ASSUME ~Refused(i), v # Failed
      PROVE  failed("tlsSecurity") <=> SecurityMode(Asked(i), i.client) = Failed
  <2>1. PICK mode : mode = SecurityMode(Asked(i), i.client)
    OBVIOUS
  <2>2. Validated("tlsSecurity", v, i.client) = IF mode = Failed THEN Failed ELSE [v EXCEPT !.mode = mode]
    BY <1>3, <1>5, <2>1 DEF Validated
  <2>3. mode # Failed => [v EXCEPT !.mode = mode] \in Settings
    <3>1. Asked(i) \in Strings
      BY <1>3, <1>5 DEF Settings
    <3>2. mode \in Modes \cup {Failed}
      BY <2>1, <3>1, ModeFacts
    <3> QED
      BY <1>3, <1>5, <3>2 DEF Settings, Strings
  <2>4. Failed \notin Settings
    BY DEF Distinct
  <2> QED
    BY <1>3, <1>5, <2>1, <2>2, <2>3, <2>4
<1>6. CASE config = Failed
  <2>1. CASE Refused(i)
    BY <1>6, <2>1 DEF TlsSound
  <2>2. CASE ~Refused(i)
    <3>1. PICK p \in Params : failed(p)
      BY <1>1, <1>6, <2>2
    <3>2. CASE p = "tlsSecurity"
      <4>1. v = Failed \/ ~allowed
        BY <1>4, <1>5, <2>2, <3>1, <3>2
      <4> QED
        BY <1>2, <1>6, <4>1 DEF TlsSound
    <3>3. CASE p # "tlsSecurity"
      <4>1. Used(i, p) = Failed \/ (Used(i, p) # None /\ ~Used(i, p).ok)
        BY <3>1, <3>3 DEF Valid, Validated, Distinct
      <4>2. p \in Plain
        BY <3>3 DEF Params
      <4> QED
        BY <1>6, <4>1, <4>2 DEF TlsSound
    <3> QED
      BY <3>2, <3>3
  <2> QED
    BY <2>1, <2>2
<1>7. CASE config # Failed
  <2>1. /\ ~Refused(i) /\ config = AllUsed(i)
        /\ ~failed("tlsSecurity") /\ ~failed("tlsCA")
    BY <1>1, <1>2, <1>7
  <2>2. v # Failed
    BY <2>1 DEF Valid
  <2> DEFINE mode == SecurityMode(Asked(i), i.client)
  <2>3. allowed /\ mode # Failed
    BY <1>4, <1>5, <2>1, <2>2
  <2>4. config["tlsSecurity"].mode = mode
    <3>1. config["tlsSecurity"] = Validated("tlsSecurity", v, i.client)
      BY <1>2, <1>3, <2>1, <2>2 DEF AllUsed
    <3>2. config["tlsSecurity"] = [v EXCEPT !.mode = mode]
      BY <1>3, <2>1, <2>2, <2>3, <3>1 DEF Validated
    <3> QED
      BY <1>3, <2>1, <2>2, <3>2 DEF Settings
  <2>5. config["tlsCA"] = None <=> Used(i, "tlsCA") = None
    BY <1>2, <2>1, UsedFacts, ValidFacts DEF AllUsed
  <2>6. /\ Agrees(i.options)
        /\ LooksAtEnv(i) => Agrees(i.env)
        /\ LooksAtProject(i) => Agrees(i.project)
    <3>1. Agrees(Env(i)) => Agrees(i.env)
      <4>1. Env(i).credentials = i.env.credentials
        BY DEF Env, WithoutLink, IsInput, IsEnv
      <4> QED
        BY <4>1 DEF Agrees, Held
    <3> QED
      BY <2>1, <3>1, AgreesFacts, EnvFacts DEF Refused, IsInput
  <2>7. /\ i.client = "strict" => mode = "strict"
        /\ Asked(i) = "strict" => mode = "strict"
        /\ Asked(i) = "no_host_verification" => mode = "no_host_verification"
        /\ Asked(i) = "insecure" => mode = "insecure"
        /\ Asked(i) = "default" /\ i.client = "insecure_dev_mode" => mode = "insecure"
        /\ Asked(i) = "default" /\ i.client # "strict" /\ i.client # "insecure_dev_mode" => mode = "default"
    <3>1. Asked(i) \in Strings
      BY <1>3, <2>1, <2>2 DEF Settings
    <3> QED
      BY <2>3, <3>1, ModeFacts
  <2> HIDE DEF mode, config
  <2>8. /\ mode = "strict" => TlsOptions(config).chain /\ TlsOptions(config).hostname
        /\ mode = "no_host_verification" => TlsOptions(config).chain /\ ~TlsOptions(config).hostname
        /\ mode = "insecure" => ~TlsOptions(config).chain /\ ~TlsOptions(config).hostname
        /\ mode = "default" => /\ TlsOptions(config).chain
                               /\ TlsOptions(config).hostname <=> config["tlsCA"] = None
    BY <2>4, TlsIs
  <2> QED
    BY <1>7, <2>3, <2>5, <2>6, <2>7, <2>8 DEF TlsSound, config
<1> QED
  BY <1>6, <1>7

-----------------------------------------------------------------------------
(* Directories.                                                            *)

LEMMA GreatestUpTo ==
    ASSUME NEW n \in Nat, NEW T, T \subseteq 0..n, T # {}
    PROVE  \E m \in T : \A k \in T : k <= m
<1> DEFINE U == {n - k : k \in T}
<1>1. U \subseteq Nat /\ U # {}
  <2>1. \A k \in T : n - k \in Nat
    OBVIOUS
  <2> QED
    BY <2>1
<1>2. PICK u \in U : \A w \in U : ~(w < u)
  <2> HIDE DEF U
  <2> QED
    BY <1>1, LeastNat
<1>3. PICK m \in T : u = n - m
  BY <1>2
<1>4. ASSUME NEW k \in T
      PROVE  k <= m
  <2>1. n - k \in U
    OBVIOUS
  <2>2. ~(n - k < n - m)
    BY <1>2, <1>3, <2>1
  <2>3. k \in Int /\ m \in Int
    OBVIOUS
  <2> QED
    BY <2>2, <2>3
<1> QED
  BY <1>4

\* On a way of any length, with any projects and devices, findProjectDir() stops
\* at the closest project on the device of the working directory.
LEMMA ProjectAlways ==
    ASSUME NEW cwd \in Nat, NEW toml, toml \subseteq Nat, NEW dev, None \notin Nat
    PROVE  ProjectSound(cwd, toml, dev)
<1> DEFINE on(d)     == \A e \in d..cwd : dev[e] = dev[cwd]
           passed(d) == \A e \in (d + 1)..cwd : e \notin toml
           found     == {d \in toml \cap 0..cwd : passed(d) /\ on(d)}
           dir       == ProjectDir(cwd, toml, dev)
<1>1. dir = IF found = {} THEN None ELSE CHOOSE d \in found : TRUE
  BY DEF ProjectDir
<1>2. CASE found # {}
  <2>1. dir \in found
    <3> HIDE DEF found, dir
    <3> QED
      BY <1>1, <1>2
  <2>2. dir \in toml /\ dir \in 0..cwd /\ passed(dir) /\ on(dir)
    <3> HIDE DEF dir, passed, on
    <3> QED
      BY <2>1
  <2>3. dir # None
    BY <2>2
  <2>4. ASSUME NEW d \in toml, d <= cwd
        PROVE  d <= dir
    <3> HIDE DEF dir
    <3>1. d \notin (dir + 1)..cwd /\ d \in Int /\ dir \in Int
      BY <2>2
    <3> QED
      BY <2>4, <3>1
  <2> HIDE DEF dir
  <2> QED
    BY <2>2, <2>3, <2>4 DEF ProjectSound, dir
<1>3. CASE found = {}
  <2>1. dir = None
    BY <1>1, <1>3
  <2>2. ASSUME NEW d \in toml, d <= cwd, on(d)
        PROVE  FALSE
    <3> DEFINE T == toml \cap 0..cwd
    <3>1. d \in T
      BY <2>2
    <3>2. PICK m \in T : \A k \in T : k <= m
      <4>1. T \subseteq 0..cwd /\ T # {}
        BY <3>1
      <4> HIDE DEF T
      <4> QED
        BY <4>1, GreatestUpTo
    <3>3. d <= m /\ m \in Int /\ d \in Int
      BY <3>1, <3>2
    <3>4. on(m)
      BY <2>2, <3>3
    <3>5. passed(m)
      <4>1. SUFFICES ASSUME NEW e \in (m + 1)..cwd, e \in toml PROVE FALSE
        OBVIOUS
      <4>2. e \in T /\ e > m
        BY <3>3, <4>1
      <4> QED
        BY <3>2, <3>3, <4>2
    <3>6. m \in found
      BY <3>4, <3>5
    <3> QED
      BY <1>3, <3>6
  <2> QED
    BY <2>1, <2>2 DEF ProjectSound
<1> QED
  BY <1>2, <1>3

-----------------------------------------------------------------------------
(* The theorems about the configuration.                                   *)

\* A case with levels, or with a way to the root of a file system.
IsCase ==
    /\ case.of = "parameters" => IsInput(case.input)
    /\ case.of = "project" => case.input.cwd \in Nat /\ case.input.toml \subseteq Nat

\* Whatever the options, the environment, the project and the client's security
\* are, every parameter has the first value that is given, and an error comes
\* only from a value that is used or a source that is looked at; and the project
\* is the closest one (conUtils.ts).
THEOREM FirstSource ==
    ASSUME Distinct, None \notin Nat, IsCase PROVE FirstSourceWins
BY FirstWinsAlways, ProjectAlways DEF IsCase, FirstSourceWins

\* Whatever they are, the certificate and the name of the server are checked as
\* far as was asked for, and never less for a strict client (conUtils.ts,
\* credentials.ts).
THEOREM SecurityIsKept == ASSUME Distinct, IsCase PROVE SecurityKept
BY TlsSoundAlways DEF IsCase, SecurityKept
=============================================================================
