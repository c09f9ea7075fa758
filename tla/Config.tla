------------------------------ MODULE Config ------------------------------
(***************************************************************************)
(* How the parameters of a connection are resolved (src/conUtils.ts,       *)
(* src/credentials.ts): from the options of a call, from the environment,  *)
(* and from the instance that a project is linked to.                      *)
(*                                                                         *)
(* A value is [from, ok]: where it was given, and whether its validator    *)
(* accepts it; one of tlsSecurity is [from, mode].  None is a parameter    *)
(* that is not given, Failed is what resolves to an error.                 *)
(***************************************************************************)
EXTENDS Naturals, Sequences, FiniteSets

CONSTANTS None, Failed

Plain  == {"host", "port", "database", "user", "password", "tlsCA"}
Params == Plain \cup {"tlsSecurity"}
Modes  == {"insecure", "no_host_verification", "strict", "default"}

Unresolved == [p \in Params |-> None]

-----------------------------------------------------------------------------
(* ResolvedConnectConfig: a parameter is set once.                         *)

\* Faulty variant: insecure_dev_mode overrides what was given.
DevModeAlways(mode, client) ==
    CASE client = "insecure_dev_mode" -> "insecure"
      [] client = "strict" -> IF mode \in {"insecure", "no_host_verification"} THEN Failed ELSE "strict"
      [] client \in {None, "default"} -> mode
      [] OTHER -> Failed

\* The validator of tlsSecurity, given EDGEDB_CLIENT_SECURITY.
SecurityMode(mode, client) ==
    IF mode \notin Modes THEN Failed
    ELSE
    CASE client = "insecure_dev_mode" -> IF mode = "default" THEN "insecure" ELSE mode
      [] client = "strict" ->
             IF mode \in {"insecure", "no_host_verification"} THEN Failed ELSE "strict"
      [] client \in {None, "default"} -> mode
      [] OTHER -> Failed

Validated(p, v, client) ==
    IF p # "tlsSecurity" THEN IF v.ok THEN v ELSE Failed
    ELSE LET mode == SecurityMode(v.mode, client)
         IN  IF mode = Failed THEN Failed ELSE [v EXCEPT !.mode = mode]

\* Faulty variant: what is given later wins.
LastWins(config, p, v) == v # None

\* _setParam() sets what has not been set.
Sets(config, p, v) == config[p] = None /\ v # None

SetParam(config, p, v, client) ==
    IF config = Failed \/ ~Sets(config, p, v) THEN config
    ELSE LET valid == Validated(p, v, client)
         IN  IF valid = Failed THEN Failed ELSE [config EXCEPT ![p] = valid]

\* Parameters are set in an order; it only matters to which error is thrown.
SetParams(config, values, client) ==
    LET each == [p \in Params |-> SetParam(config, p, values[p], client)]
    IN  IF config = Failed \/ \E p \in Params : each[p] = Failed THEN Failed
        ELSE [p \in Params |-> each[p][p]]

\* The getter tlsSecurity, of a configuration that is resolved.
EffectiveSecurity(config) ==
    IF config["tlsSecurity"].mode # "default" THEN config["tlsSecurity"].mode
    ELSE IF config["tlsCA"] # None THEN "no_host_verification" ELSE "strict"

\* tlsOptions: what of the server's certificate is checked.
TlsOptions(config) ==
    [chain |-> EffectiveSecurity(config) # "insecure",
     hostname |-> EffectiveSecurity(config) = "strict"]

-----------------------------------------------------------------------------
(* Where the parameters are taken from together.                           *)

\* A part of a DSN: in the URL, or ?part=, ?part_env=, ?part_file=; "twice" is
\* more than one of them, "missing" a variable or file that does not exist.
DsnForms == {"absent", "url", "query", "env", "file", "missing", "twice"}

\* handleDSNPart(): a part that is missing is not looked for when its
\* parameter is set.
DsnPart(config, p, part, client) ==
    IF config = Failed \/ part.form = "twice" THEN Failed
    ELSE IF part.form = "missing" THEN IF config[p] = None THEN Failed ELSE config
    ELSE SetParam(config, p, IF part.form = "absent" THEN None ELSE part.value, client)

\* parseDSNIntoConfig().
ParseDSN(config, dsn, client) ==
    LET each == [p \in Params |-> DsnPart(config, p, dsn.parts[p], client)]
    IN  IF config = Failed \/ ~dsn.ok \/ \E p \in Params : each[p] = Failed THEN Failed
        ELSE [p \in Params |-> each[p][p]]

\* What tls_verify_hostname stands for.
VerifyMode(verify) ==
    CASE verify = None -> None
      [] verify = TRUE -> "strict"
      [] verify = FALSE -> "no_host_verification"

\* Faulty variant: tls_verify_hostname is not compared.
AgreeAlways(verify, security) == TRUE

Agree(verify, security) ==
    \/ verify = None \/ security = None \/ VerifyMode(verify) = security
    \/ VerifyMode(verify) = "no_host_verification" /\ security = "insecure"

\* validateCredentials(): the parameters that credentials give, or Failed.
ValidateCredentials(creds) ==
    LET security == creds.values["tlsSecurity"]
        verified == VerifyMode(creds.verify)
    IN  IF \/ creds.values["user"] = None
           \/ creds.values["port"] # None /\ ~creds.values["port"].ok
           \/ creds.values["tlsCA"] # None /\ creds.cert # None /\ creds.cert # creds.values["tlsCA"]
           \/ security # None /\ security.mode \notin Modes
           \/ ~Agree(creds.verify, IF security = None THEN None ELSE security.mode)
        THEN Failed
        ELSE [creds.values EXCEPT
                 !["tlsCA"] = IF creds.cert # None THEN creds.cert ELSE @,
                 !["tlsSecurity"] = IF @ # None \/ verified = None THEN @
                                    ELSE [from |-> creds.from, mode |-> verified]]

\* How a level gives credentials: their text, the file they are in, or the name
\* of the instance they are of.
CredentialForms == {"credentials", "credentialsFile", "instanceName"}

\* The sources of which one level may give one only; host and port are one.
Compounds(level) ==
    {form \in CredentialForms : level.credentials[form] # None} \cup
    (IF level.dsn # None THEN {"dsn"} ELSE {}) \cup
    (IF level.values["host"] # None \/ level.values["port"] # None THEN {"hostport"} ELSE {})

\* The credentials that a level leads to: those given as a text, else those of
\* the file, else those of the instance.
ReadCredentials(level) ==
    IF level.credentials["credentials"] # None THEN level.credentials["credentials"]
    ELSE IF level.credentials["credentialsFile"] # None THEN level.credentials["credentialsFile"]
    ELSE level.credentials["instanceName"]

\* resolveConfigOptions() on the options of one level: a record [dsn,
\* credentials, values, caFile], where credentials[form] are those that are
\* given in that form.
ResolveLevel(config, level, client) ==
    LET own    == [level.values EXCEPT !["host"] = None, !["port"] = None,
                                       !["tlsCA"] = IF @ = None THEN level.caFile ELSE @]
        simple == SetParams(config, own, client)
        given  == Compounds(level)
    IN  IF (level.values["tlsCA"] # None /\ level.caFile # None) \/ Cardinality(given) > 1 THEN Failed
        ELSE
        CASE given = {} -> simple
          [] given = {"dsn"} -> ParseDSN(simple, level.dsn, client)
          [] given = {"hostport"} ->
                 IF level.values["host"] # None /\ ~level.values["host"].ok THEN Failed
                 ELSE SetParams(simple, [p \in Params |-> IF p \in {"host", "port"}
                                                          THEN level.values[p] ELSE None], client)
          [] \E form \in CredentialForms : given = {form} ->
                 LET values == ValidateCredentials(ReadCredentials(level))
                 IN  IF values = Failed THEN Failed ELSE SetParams(simple, values, client)

\* anyOptionsUsed.
UsesLevel(config, level) ==
    \/ Compounds(level) # {}
    \/ \E p \in Params \ {"host", "port"} : Sets(config, p, level.values[p])
    \/ Sets(config, "tlsCA", level.caFile)

\* EDGEDB_PORT in the form of docker's --link is ignored.
WithoutLink(env) == IF env.linked THEN [env EXCEPT !.values["port"] = None] ELSE env

\* parseConnectDsnAndArgs(): the options, then the environment, then the
\* project's instance, until one of them says where the server is.
Resolve(options, env, project, client) ==
    LET first   == ResolveLevel(Unresolved, options, client)
        second  == ResolveLevel(first, WithoutLink(env), client)
        done1   == Compounds(options) # {}
        done2   == Compounds(WithoutLink(env)) # {}
        located == IF done1 THEN first
                   ELSE IF first = Failed \/ done2 THEN second
                   ELSE IF project = None THEN Failed
                   ELSE ResolveLevel(second, project, client)
    IN  [config |-> SetParam(located, "tlsSecurity", [from |-> "default", mode |-> "default"], client),
         fromEnv |-> ~done1 /\ first # Failed /\ UsesLevel(first, WithoutLink(env)),
         fromProject |-> ~done1 /\ ~done2]

-----------------------------------------------------------------------------
(* Directories.                                                            *)

\* findProjectDir(): the directories 0..cwd lead from the root to the working
\* directory; toml are those with an edgedb.toml, dev[d] is a device.  The walk
\* upwards ends with the first project or the last directory of the device.
ProjectDir(cwd, toml, dev) ==
    LET passed(d) == \A e \in (d + 1)..cwd : e \notin toml
        reached(d) == \A e \in d..cwd : dev[e] = dev[cwd]
        found == {d \in toml \cap 0..cwd : passed(d) /\ reached(d)}
    IN  IF found = {} THEN None ELSE CHOOSE d \in found : TRUE

\* searchConfigDir(): the file in the configuration directory, else the one in
\* the directory of old if it exists.
SearchConfigDir(existing) ==
    IF "new" \in existing \/ "old" \notin existing THEN "new" ELSE "old"
=============================================================================
