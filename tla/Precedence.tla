---------------------------- MODULE Precedence ----------------------------
(***************************************************************************)
(* What the resolution of the parameters promises: a parameter is taken    *)
(* from the first source that gives it, and no combination of sources      *)
(* makes a client check less of its server than was asked for.             *)
(*                                                                         *)
(* Config sets one parameter after the other, in the order of the code;    *)
(* here each of them is looked up on its own, among all that was given: an *)
(* input is [options, env, project, client].                               *)
(***************************************************************************)
EXTENDS Config, Cases

FirstOf(a, b) == IF a # None THEN a ELSE b

-----------------------------------------------------------------------------
(* What a level gives.                                                     *)

\* On its own; a host and a port are a source that says where the server is.
Own(level, p) ==
    CASE p \in {"host", "port"} -> None
      [] p = "tlsCA" -> FirstOf(level.values["tlsCA"], level.caFile)
      [] OTHER -> level.values[p]

\* In a DSN: Failed is a part of which the variable or the file is missing.
InDsn(dsn, p) ==
    CASE dsn.parts[p].form = "absent" -> None
      [] dsn.parts[p].form = "missing" -> Failed
      [] OTHER -> dsn.parts[p].value

\* In credentials, which may say by tls_verify_hostname what is checked.
InCredentials(c, p) ==
    CASE p = "tlsCA" -> FirstOf(c.cert, c.values["tlsCA"])
      [] p = "tlsSecurity" ->
             FirstOf(c.values["tlsSecurity"],
                     IF c.verify = None THEN None ELSE [from |-> c.from, mode |-> VerifyMode(c.verify)])
      [] OTHER -> c.values[p]

\* A level that is not refused holds one set of credentials.
Held(level) ==
    IF \E form \in CredentialForms : level.credentials[form] # None
    THEN level.credentials[CHOOSE form \in CredentialForms : level.credentials[form] # None]
    ELSE None

Located(level) ==
    level.dsn # None \/ Held(level) # None
        \/ level.values["host"] # None \/ level.values["port"] # None

\* By what says where the server is.
Elsewhere(level, p) ==
    IF level.dsn # None THEN InDsn(level.dsn, p)
    ELSE IF Held(level) # None THEN InCredentials(Held(level), p)
    ELSE IF p \in {"host", "port"} THEN level.values[p] ELSE None

Gives(level, p) == FirstOf(Own(level, p), Elsewhere(level, p))

\* A level that is refused whatever the others give: it has two certificates,
\* two places of the server, or one that is no place.
Wrong(level) ==
    \/ level.values["tlsCA"] # None /\ level.caFile # None
    \/ Cardinality(Compounds(level)) > 1
    \/ level.dsn # None /\ (~level.dsn.ok \/ \E p \in Params : level.dsn.parts[p].form = "twice")
    \/ Held(level) # None /\ ValidateCredentials(Held(level)) = Failed
    \/ level.values["host"] # None /\ ~level.values["host"].ok

-----------------------------------------------------------------------------
(* What the levels give together.                                          *)

Env(i) == WithoutLink(i.env)

\* The levels that are looked at, up to the first that says where the server is.
LooksAtEnv(i)     == ~Located(i.options)
LooksAtProject(i) == ~Located(i.options) /\ ~Located(Env(i))

\* The first value of p that is given, as it was given.
FirstGiven(i, p) ==
    IF ~LooksAtEnv(i) \/ Gives(i.options, p) # None THEN Gives(i.options, p)
    ELSE IF ~LooksAtProject(i) \/ Gives(Env(i), p) # None THEN Gives(Env(i), p)
    ELSE Gives(i.project, p)

ByDefault == [from |-> "default", mode |-> "default"]

Used(i, p) == IF p = "tlsSecurity" THEN FirstOf(FirstGiven(i, p), ByDefault) ELSE FirstGiven(i, p)

\* What the validator of p makes of a value.
Valid(p, v, client) == IF v \in {None, Failed} THEN v ELSE Validated(p, v, client)

\* A source that is looked at is refused, or there is none.
Refused(i) ==
    \/ Wrong(i.options)
    \/ LooksAtEnv(i) /\ Wrong(Env(i))
    \/ LooksAtProject(i) /\ (i.project = None \/ Wrong(i.project))

Resolved(i) == Resolve(i.options, i.env, i.project, i.client)

\* Every parameter has the first value that is given, and there is an error only
\* from a value that is used or a source that is looked at; the client knows
\* which levels its parameters are from.
FirstWins(i) ==
    \A r \in {Resolved(i)} :
        IF Refused(i) \/ \E p \in Params : Valid(p, Used(i, p), i.client) = Failed
        THEN r.config = Failed
        ELSE /\ r.config = [p \in Params |-> Valid(p, Used(i, p), i.client)]
             /\ r.fromProject <=> LooksAtProject(i)
             /\ r.fromEnv <=> /\ LooksAtEnv(i)
                              /\ \/ Located(Env(i))
                                 \/ \E p \in Params : Gives(i.options, p) = None /\ Gives(Env(i), p) # None

-----------------------------------------------------------------------------
(* TLS.                                                                    *)

Asked(i) == Used(i, "tlsSecurity").mode

\* Credentials do not contradict themselves.
Agrees(level) ==
    Held(level) # None =>
        LET security == Held(level).values["tlsSecurity"]
            verify   == Held(level).verify
        IN  security # None =>
                /\ verify = TRUE => security.mode = "strict"
                /\ verify = FALSE => security.mode \in {"no_host_verification", "insecure"}

\* Less is checked of a server than by default only when that was asked for, in
\* development mode when nothing was asked for, or when there is a certificate
\* to check it with; never when the client is to be strict.  Only a mode that
\* does not exist, or that a strict client does not take, is refused for itself.
TlsSound(i) ==
    LET allowed == /\ i.client \in {None, "default", "strict", "insecure_dev_mode"}
                   /\ Asked(i) \in Modes
                   /\ ~(i.client = "strict" /\ Asked(i) \in {"insecure", "no_host_verification"})
    IN  \A config \in {Resolved(i).config} :
            IF config = Failed
            THEN \/ Refused(i)
                 \/ \E p \in Params : Used(i, p) = Failed
                 \/ \E p \in Plain : Used(i, p) # None /\ ~Used(i, p).ok
                 \/ ~allowed
            ELSE LET tls == TlsOptions(config)
                     ca  == Used(i, "tlsCA") # None
                 IN  /\ allowed
                     /\ Agrees(i.options)
                     /\ LooksAtEnv(i) => Agrees(i.env)
                     /\ LooksAtProject(i) => Agrees(i.project)
                     /\ i.client = "strict" => tls.chain /\ tls.hostname
                     /\ Asked(i) = "strict" => tls.chain /\ tls.hostname
                     /\ Asked(i) = "no_host_verification" => tls.chain /\ ~tls.hostname
                     /\ Asked(i) = "insecure" => ~tls.chain /\ ~tls.hostname
                     /\ Asked(i) = "default" /\ i.client # "strict" =>
                           /\ tls.chain <=> i.client # "insecure_dev_mode"
                           /\ tls.hostname <=> tls.chain /\ ~ca

-----------------------------------------------------------------------------
(* Directories.                                                            *)

\* The project is the closest one on the way up to the mount point.
ProjectSound(cwd, toml, dev) ==
    LET found == ProjectDir(cwd, toml, dev)
        on(d) == \A e \in d..cwd : dev[e] = dev[cwd]
    IN  IF found = None THEN \A d \in toml : d <= cwd => ~on(d)
        ELSE /\ found \in toml /\ found <= cwd /\ on(found)
             /\ \A d \in toml : d <= cwd => d <= found

-----------------------------------------------------------------------------
\* A parameter is taken from the first source that gives it (conUtils.ts).
FirstSourceWins ==
    /\ case.of = "parameters" => FirstWins(case.input)
    /\ case.of = "project" => ProjectSound(case.input.cwd, case.input.toml, case.input.dev)

\* No combination of modes, credentials and certificates makes a client check
\* less of its server than was asked for (conUtils.ts, credentials.ts).
SecurityKept == case.of = "parameters" => TlsSound(case.input)
=============================================================================
