----------------------------- MODULE MCConfig -----------------------------
(* Bounded inputs for the resolution of connection parameters.             *)
EXTENDS Precedence

Text(from, ok) == [from |-> from, ok |-> ok]
Mode(from, mode) == [from |-> from, mode |-> mode]
NoValues == [p \in Params |-> None]
NoParts  == [p \in Params |-> [form |-> "absent"]]
Part(form, value) == [form |-> form, value |-> value]
NoCredentials == [form \in CredentialForms |-> None]
NoLevel == [dsn |-> None, credentials |-> NoCredentials, values |-> NoValues, caFile |-> None]

\* A level as it is in the environment, where docker may have set the port.
InEnv(level, linked) ==
    [dsn |-> level.dsn, credentials |-> level.credentials, values |-> level.values,
     caFile |-> level.caFile, linked |-> linked]

-----------------------------------------------------------------------------
(* Where a user and a host are taken from.                                 *)

\* The DSNs give the user in some form, or a bad one.
DsnSources == {"dsn absent", "dsn url", "dsn env", "dsn missing", "dsn twice", "dsn bad"}
\* The forms in which a source gives credentials; a text is given by an option only.
FormsOf(source) ==
    CASE source \in {"credentials", "noUser"} -> {"credentials"} [] source = "instance" -> {"instanceName"}
      [] source \in {"file", "both"} -> {"credentialsFile"}
      [] source = "forms" -> {"credentialsFile", "instanceName"} [] OTHER -> {}
EnvSources == {"none", "hostport", "portonly", "badhost", "both", "instance", "file", "forms"} \cup DsnSources
Sources == EnvSources \cup {"credentials", "noUser"}
FormOf(source) ==
    CASE source = "dsn absent" -> "absent" [] source = "dsn env" -> "env"
      [] source = "dsn missing" -> "missing" [] source = "dsn twice" -> "twice" [] OTHER -> "url"
Owns    == {"absent", "given", "bad"}

\* The credentials of a level, the DSN of one, and the level itself.
CredentialsOf(name, user) ==
    [values |-> [NoValues EXCEPT !["host"] = Text(name, TRUE), !["user"] = IF user THEN Text(name, TRUE) ELSE None],
     cert |-> None, verify |-> None, from |-> name]
DsnOf(name, source) ==
    [ok |-> TRUE,
     parts |-> [NoParts EXCEPT !["host"] = Part("url", Text(name, TRUE)),
                               !["user"] = Part(FormOf(source), Text(name, source # "dsn bad"))]]
LevelOf(name, own, source) ==
    [dsn |-> IF source \in DsnSources \cup {"both"} THEN DsnOf(name, source) ELSE None,
     credentials |-> [form \in CredentialForms |->
                         IF form \in FormsOf(source) THEN CredentialsOf(name, source # "noUser") ELSE None],
     values |-> [NoValues EXCEPT
                    !["user"] = IF own = "absent" THEN None ELSE Text(name, own = "given"),
                    !["host"] = IF source \in {"hostport", "badhost"} THEN Text(name, source # "badhost") ELSE None,
                    !["port"] = IF source = "portonly" THEN Text(name, TRUE) ELSE None],
     caFile |-> None]

SourcesOf(own1, source1, own2, source2, linked, project) ==
    [options |-> LevelOf("options", own1, source1),
     env |-> InEnv(LevelOf("env", own2, source2), linked),
     project |-> IF project THEN LevelOf("project", "absent", "instance") ELSE None,
     client |-> None]

-----------------------------------------------------------------------------
(* TLS.                                                                    *)

Clients == {None, "default", "strict", "insecure_dev_mode"}
MaybeMode == {None} \cup Modes \cup {"unknown"}

\* The options give a mode and a certificate, the environment has a DSN with a
\* mode or credentials with a mode, a certificate and tls_verify_hostname.
SecurityInputs ==
    [client : Clients \cup {"unknown"}, own : MaybeMode, ca : {"none", "text", "file", "both"},
     in : {"dsn"}, mode : MaybeMode, verify : {None}, cert : {FALSE}]
    \cup [client : Clients, own : MaybeMode, ca : {"none", "text"},
          in : {"credentials"}, mode : MaybeMode, verify : {None, TRUE, FALSE}, cert : BOOLEAN]

SecurityOf(s) ==
    LET own  == IF s.own = None THEN None ELSE Mode("options", s.own)
        mode == IF s.mode = None THEN None ELSE Mode("env", s.mode)
        text == Text("options", TRUE)
    IN  [options |-> [NoLevel EXCEPT !.values = [NoValues EXCEPT !["tlsSecurity"] = own,
                                                                !["tlsCA"] = IF s.ca \in {"text", "both"} THEN text ELSE None],
                                     !.caFile = IF s.ca \in {"file", "both"} THEN text ELSE None],
         env |-> InEnv(
             [NoLevel EXCEPT
                 !.dsn = IF s.in # "dsn" THEN None
                         ELSE [ok |-> TRUE,
                               parts |-> [NoParts EXCEPT !["tlsSecurity"] = IF mode = None THEN [form |-> "absent"]
                                                                            ELSE Part("query", mode)]],
                 !.credentials["credentialsFile"] =
                                 IF s.in = "dsn" THEN None
                                 ELSE [values |-> [NoValues EXCEPT !["user"] = Text("env", TRUE), !["tlsSecurity"] = mode],
                                       cert |-> IF s.cert THEN Text("env", TRUE) ELSE None,
                                       verify |-> s.verify, from |-> "env"]], FALSE),
         project |-> None, client |-> s.client]
=============================================================================
