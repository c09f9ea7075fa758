------------------------------ MODULE Connect ------------------------------
(***************************************************************************)
(* How a connection is made: the reconnect loop (src/retry.ts), one        *)
(* attempt with its timeout and the handshake (src/rawConn.ts).            *)
(*                                                                         *)
(* Each attempt has a socket of its own.  An action is one event and all   *)
(* that runs before the next one: the callback, and the continuations of   *)
(* connect(), connectWithTimeout() and retryingConnect() that it resumes.  *)
(* A socket that is destroyed with an error emits it at once, and "close"  *)
(* later.                                                                  *)
(***************************************************************************)
EXTENDS Naturals, Sequences

VARIABLES
    pc,        \* retryingConnect(): connecting, backoff, connected or failed
    expired,   \* whether maxTime has passed
    error,     \* what the last attempt failed with
    step,      \* connect(): what it awaits: conn, message, nonce, continue, final
    sock,      \* opening, open, closing or closed
    timer,     \* whether timeoutCb is set
    timedOut,  \* timeoutHappened
    inbox,     \* messages that have arrived and were not taken
    server,    \* what the server has done last
    genuine,   \* whether it knows the password (another one sends anything)
    asked,     \* history: whether it asked for SASL authentication
    missed     \* history: the socket failed or was ended, and nobody is told

attempt == <<step, sock, timer, timedOut, inbox, server, asked, missed>>
vars == <<pc, expired, error, step, sock, timer, timedOut, inbox, server,
          genuine, asked, missed>>

\* connectWithTimeout() begins: a new socket, and a timer.
Begun(s, t, o, i, r, a, m) ==
    /\ s = "conn" /\ o = "opening" /\ t = TRUE
    /\ i = <<>> /\ r = "silent" /\ a = FALSE /\ m = FALSE

Init ==
    /\ pc = "connecting" /\ error = "none"
    /\ expired \in BOOLEAN
    /\ Begun(step, timer, sock, inbox, server, asked, missed)
    /\ timedOut = FALSE
    /\ genuine \in BOOLEAN

-----------------------------------------------------------------------------
(* An attempt fails.                                                       *)

\* SHOULD_RECONNECT and the deadline.
Reconnects(e) == e \in {"closed", "timeout"} /\ ~expired

\* Faulty variant: an error of the socket is always reported as such.
AsThrown(e, out) == e

\* The catch of connectWithTimeout().
Thrown(e, out) == IF out /\ e = "closed" THEN "timeout" ELSE e

\* connect() throws e: "closed" is an error of the socket in the wrapping of
\* _onError(), "server" one that the server sent, "failed" any other.  None of
\* them has the code that would choose another class or clear text.
Fail(e, out) ==
    /\ error' = Thrown(e, out)
    /\ pc' = IF Reconnects(Thrown(e, out)) THEN "backoff" ELSE "failed"
    /\ timer' = FALSE
    /\ timedOut' = out

Awaits == {"conn", "message", "continue", "final"}

\* _onError(): the waiter that connect() awaits is rejected; connect() awaits
\* none while the nonce is made.
OnError(out) ==
    \/ step \in Awaits /\ Fail("closed", out) /\ UNCHANGED missed
    \/ /\ step = "nonce"
       /\ missed' = TRUE /\ timedOut' = out /\ timer' = (timer /\ ~out)
       /\ UNCHANGED <<pc, error>>

-----------------------------------------------------------------------------
(* The socket and the timer.                                               *)

SocketError ==
    /\ pc = "connecting" /\ sock \in {"opening", "open"}
    /\ sock' = "closing"
    /\ OnError(timedOut)
    /\ UNCHANGED <<expired, step, inbox, server, genuine, asked>>

\* Faulty variant: the timeout asks whether the socket is connected.
SocketNotConnected == step = "conn"

NotConnected == pc = "connecting"

\* timeoutCb.  destroy() does nothing to a socket that is closing or closed.
Timeout ==
    /\ pc = "connecting" /\ timer
    /\ IF NotConnected /\ sock \in {"opening", "open"}
       THEN sock' = "closing" /\ OnError(TRUE)
       ELSE /\ timer' = FALSE /\ timedOut' = NotConnected
            /\ UNCHANGED <<sock, pc, error, missed>>
    /\ UNCHANGED <<expired, step, inbox, server, genuine, asked>>

\* The server ends the connection, without an error.
SocketEnd ==
    /\ pc = "connecting" /\ sock = "open"
    /\ sock' = "closing" /\ missed' = TRUE
    /\ UNCHANGED <<pc, expired, error, step, timer, timedOut, inbox, server,
                   genuine, asked>>

\* _onClose() returns early: the connection is not connected yet.
SocketClose ==
    /\ pc = "connecting" /\ sock = "closing"
    /\ sock' = "closed"
    /\ UNCHANGED <<pc, expired, error, step, timer, timedOut, inbox, server,
                   genuine, asked, missed>>

\* _onConnect(): connect() checks the protocol, sends the handshake and waits.
SocketConnect ==
    /\ pc = "connecting" /\ sock = "opening"
    /\ sock' = "open"
    /\ \/ /\ step' = "message" /\ server' = "greeted"
          /\ UNCHANGED <<pc, error, timer, timedOut>>
       \/ Fail("failed", timedOut) /\ UNCHANGED <<step, server>>
    /\ UNCHANGED <<expired, inbox, genuine, asked, missed>>

-----------------------------------------------------------------------------
(* The handshake.                                                          *)

\* The others (settings, logs, the secret key) change nothing here.
Messages == {"version", "badversion", "sasl", "badauth", "continue", "proof",
             "badproof", "ok", "ready", "error"}

\* What a genuine server may say after what it has said, or read, last.
Says(s) ==
    CASE s = "silent"   -> {}
      [] s = "greeted"  -> {"version", "badversion", "sasl", "badauth", "ok", "error"}
      [] s = "version"  -> {"sasl", "badauth", "ok", "error"}
      [] s = "first"    -> {"continue", "error"}
      [] s = "response" -> {"proof", "error"}
      [] s = "proof"    -> {"ok", "error"}
      [] s = "ok"       -> {"ready", "error"}
      [] OTHER          -> {"error"}

\* Faulty variant: the server's signature is not compared.
AnySignature(s) ==
    CASE s = "message"  -> {"version", "sasl", "ok", "ready"}
      [] s = "continue" -> {"continue"}
      [] s = "final"    -> {"proof", "badproof"}

\* The messages that connect(), _authSasl() and _ensureMessage() go on after.
Accepted(s) ==
    CASE s = "message"  -> {"version", "sasl", "ok", "ready"}
      [] s = "continue" -> {"continue"}
      [] s = "final"    -> {"proof"}

\* connect() takes message m while it stands at s.  A server that is ready may
\* speak a version that asks for TLS, where the socket has none.
Take(s, m) ==
    \/ /\ m \in Accepted(s)
       /\ step' = CASE m = "sasl"     -> "nonce"
                    [] m = "continue" -> "final"
                    [] OTHER          -> "message"
       /\ server' = IF m = "continue" THEN "response" ELSE m
       /\ asked' = (asked \/ m = "sasl")
       /\ IF m = "ready"
          THEN pc' = "connected" /\ timer' = FALSE
          ELSE UNCHANGED <<pc, timer>>
       /\ UNCHANGED <<error, timedOut>>
    \/ /\ m \notin Accepted(s) \/ m = "ready"
       /\ Fail(IF m = "error" THEN "server" ELSE "failed", timedOut)
       /\ UNCHANGED <<step, server, asked>>

\* A message arrives and connect() takes it, or it is kept.
Message(m) ==
    /\ pc = "connecting" /\ sock = "open" /\ step # "conn"
    /\ m \in IF genuine THEN Says(server) ELSE Messages \ {"proof"}
    /\ \/ step # "nonce" /\ Take(step, m) /\ UNCHANGED inbox
       \/ /\ step = "nonce" /\ inbox = <<>> /\ inbox' = <<m>>
          /\ UNCHANGED <<pc, error, step, timer, timedOut, server, asked>>
    /\ UNCHANGED <<expired, sock, genuine, missed>>

\* The nonce is made, or cannot be.  Writing to a socket that is closed does
\* nothing.
Nonce ==
    /\ pc = "connecting" /\ step = "nonce"
    /\ \/ /\ inbox = <<>>
          /\ step' = "continue"
          /\ server' = IF sock = "open" THEN "first" ELSE server
          /\ UNCHANGED <<pc, error, timer, timedOut, asked>>
       \/ inbox # <<>> /\ Take("continue", Head(inbox))
       \/ Fail("failed", timedOut) /\ UNCHANGED <<step, server, asked>>
    /\ inbox' = <<>>
    /\ UNCHANGED <<expired, sock, genuine, missed>>

-----------------------------------------------------------------------------
(* The reconnect loop.                                                     *)

\* The sleep between two attempts has elapsed.
Again ==
    /\ pc = "backoff"
    /\ pc' = "connecting"
    /\ Begun(step', timer', sock', inbox', server', asked', missed')
    /\ timedOut' = FALSE
    /\ UNCHANGED <<expired, error, genuine>>

Deadline ==
    /\ pc \in {"connecting", "backoff"} /\ ~expired
    /\ expired' = TRUE
    /\ UNCHANGED <<pc, error, attempt, genuine>>

\* retryingConnect() has ended, or waits for a socket that is closed.
Rest ==
    /\ pc \in {"connected", "failed"} \/ missed
    /\ UNCHANGED vars

Local == SocketClose \/ Timeout \/ Nonce \/ Again

Next ==
    \/ SocketConnect \/ SocketError \/ SocketEnd
    \/ \E m \in Messages : Message(m)
    \/ Deadline
    \/ Local
    \/ Rest

Spec == Init /\ [][Next]_vars

\* Timers fire, callbacks run.  Neither the server nor the network owes an
\* answer.
FairSpec == Spec /\ WF_vars(Local) /\ WF_vars(Deadline)

-----------------------------------------------------------------------------
(* Properties.                                                             *)

Trying == pc \in {"connecting", "backoff"}

\* Whatever the server and the network do, retryingConnect() ends when it has
\* a timeout (connectWithTimeout(), the deadline), unless its socket failed or
\* was ended when nobody was told.
EndsUnlessMissed == Trying ~> (~Trying \/ missed)

\* An attempt that ran into the timeout never yields a connection, and never
\* fails with the error of the socket that the timeout destroyed.
TimeoutIsReported ==
    timedOut /\ pc # "connecting" => pc # "connected" /\ error # "closed"

\* A server that asks for SASL authentication and does not know the password
\* is not connected to, whatever it sends and when.
ServerIsProved == pc = "connected" /\ asked => genuine
=============================================================================
