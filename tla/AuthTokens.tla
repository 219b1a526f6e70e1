----------------------------- MODULE AuthTokens ------------------------------
(***************************************************************************)
(* The tokens POST /oauth/token issues, and who is let in with them.  The  *)
(* REST and the gRPC server are two processes.  Each loads the settings    *)
(* when it starts, refuses to start on ones that strict startup forbids,   *)
(* and keeps in memory the one token that is active; only the REST process *)
(* issues tokens.  Tokens are signed and carry their expiry in whole       *)
(* seconds; the clock here runs in fractions of one.  A request changes    *)
(* nothing: whether it is let in is an operator of the state.              *)
(***************************************************************************)
EXTENDS Integers, Sequences

CONSTANTS
    Configs,         \* the settings the configuration may hold
    Scopes,          \* the scopes clients ask for, as sets of names
    TicksPerSecond,
    MaxClock,        \* bound on the clock, in ticks
    MaxTokens,       \* bound on the tokens issued
    Down             \* the process does not run

Processes == {"rest", "grpc"}
Areas     == {"entities", "tasks", "objects"}

\* AppSettings, where they bear on access.  secret: "unset" or the signing secret;
\* statics: there are static tokens; certs: the TLS files exist; ttl in seconds;
\* prefix: where build_app mounts the routes.
Settings == [auth_mode: {"none", "static", "oauth-dev"}, statics: BOOLEAN,
             token_mode: {"strict", "compat_static"}, ttl: Int, secret: STRING,
             scope_mode: {"informational", "locked"}, sandbox: BOOLEAN,
             grpc_sandbox: {"legacy_bearer", "strict_separate"}, strict: BOOLEAN,
             audit: BOOLEAN, tls: {"insecure", "self-signed", "provided"}, certs: BOOLEAN,
             prefix: {"/api/v1", "/compat/v1"}]

ASSUME AuthAssumption ==
    /\ Configs \subseteq Settings /\ Down \notin Settings
    /\ Scopes \subseteq SUBSET STRING
    /\ TicksPerSecond \in Nat \ {0} /\ MaxClock \in Nat /\ MaxTokens \in Nat

\* True of any literal; the provers do not know it.
ASSUME LiteralsAssumption == Areas \union {"derived"} \subseteq STRING

\* A signed token; its jti is its place in `tokens`.  made, lasts: when it was
\* issued, in ticks, and the expires_in its client was told.
Token == [key: STRING, exp: Nat, scope: SUBSET STRING, made: Nat, lasts: Nat]

VARIABLES
    config,     \* the configuration file and environment as they are now
    settings,   \* per process, the settings it has loaded
    active,     \* per process, _active_jti; 0 for None
    tokens,     \* the signed tokens issued
    mine,       \* those the present REST process issued (history)
    clock

authVars == <<config, settings, active, tokens, mine, clock>>

Init ==
    /\ config \in Configs
    /\ settings = [p \in Processes |-> Down]
    /\ active = [p \in Processes |-> 0]
    /\ tokens = <<>>
    /\ mine = {}
    /\ clock = 0

-----------------------------------------------------------------------------
\* validate_strict_startup()
StrictlyValid(c) ==
    /\ c.auth_mode # "none"
    /\ c.statics
    /\ c.sandbox
    /\ c.audit
    /\ c.grpc_sandbox = "strict_separate"
    /\ c.scope_mode = "informational"
    /\ c.token_mode = "strict"
    /\ c.auth_mode = "oauth-dev" => c.ttl > 0 /\ c.secret # "unset"

\* bind_server(): a TLS port needs its files.
PortBound(c) == c.tls = "insecure" \/ c.certs

\* build_store_bundle(), which both servers call, and serve().
Starts(p, c) ==
    /\ c.strict => StrictlyValid(c)
    /\ p = "grpc" => PortBound(c)

\* A process loads the settings as they are; no token of it is active.
Start(p) ==
    /\ settings[p] = Down /\ Starts(p, config)
    /\ settings' = [settings EXCEPT ![p] = config]
    /\ active' = [active EXCEPT ![p] = 0]
    /\ mine' = IF p = "rest" THEN {} ELSE mine
    /\ UNCHANGED <<config, tokens, clock>>

Stop(p) ==
    /\ settings[p] # Down
    /\ settings' = [settings EXCEPT ![p] = Down]
    /\ UNCHANGED <<config, active, tokens, mine, clock>>

Edit(c) ==
    /\ config' = c
    /\ UNCHANGED <<settings, active, tokens, mine, clock>>

Tick ==
    /\ clock < MaxClock
    /\ clock' = clock + 1
    /\ UNCHANGED <<config, settings, active, tokens, mine>>

\* int(timestamp())
Seconds(ticks) == ticks \div TicksPerSecond

\* Mutant: the configured length is taken as it is.
LastsAsSet(c) == c.ttl

Lasts(c) == IF c.ttl < 1 THEN 1 ELSE c.ttl

\* _resolve_secret()
Key(c) == IF c.secret = "unset" THEN "derived" ELSE c.secret

Expiry(c) == Seconds(clock + Lasts(c) * TicksPerSecond)

DefaultScope == {"entities", "tasks", "objects"}

\* Mutant: the token issued is not noted as the active one.
IssueUnnoted(asked) ==
    /\ settings["rest"] # Down
    /\ Len(tokens) < MaxTokens
    /\ LET c == settings["rest"]
       IN  /\ c.auth_mode = "oauth-dev"
           /\ c.token_mode = "strict"
           /\ asked # {} => c.scope_mode # "locked"
           /\ tokens' = Append(tokens,
                [key |-> Key(c), exp |-> Expiry(c), made |-> clock, lasts |-> Lasts(c),
                 scope |-> IF asked = {} THEN DefaultScope ELSE asked])
    /\ mine' = mine \union {Len(tokens) + 1}
    /\ UNCHANGED <<config, settings, active, clock>>

\* get_token() and issue_token() with client credentials, in oauth-dev mode and
\* with signed tokens; asked: the scope parameter, if there is one.  In the other
\* modes the route hands out a static token and nothing changes.
IssueToken(asked) ==
    /\ settings["rest"] # Down
    /\ Len(tokens) < MaxTokens
    /\ LET c == settings["rest"]
       IN  /\ c.auth_mode = "oauth-dev"
           /\ c.token_mode = "strict"
           /\ asked # {} => c.scope_mode # "locked"
           /\ tokens' = Append(tokens,
                [key |-> Key(c), exp |-> Expiry(c), made |-> clock, lasts |-> Lasts(c),
                 scope |-> IF asked = {} THEN DefaultScope ELSE asked])
    /\ active' = [active EXCEPT !["rest"] = Len(tokens) + 1]
    /\ mine' = mine \union {Len(tokens) + 1}
    /\ UNCHANGED <<config, settings, clock>>

Next ==
    \/ \E p \in Processes : Start(p) \/ Stop(p)
    \/ \E c \in Configs : Edit(c)
    \/ \E asked \in Scopes \union {{}} : IssueToken(asked)
    \/ Tick

Spec == Init /\ [][Next]_authVars

-----------------------------------------------------------------------------
(* Who is let in.  A credential is a signed token, by its jti, or one of:  *)

Missing == 0
Static  == -1   \* a static token
Garbage == -2

Credentials == {Missing, Static, Garbage} \union DOMAIN tokens

\* Mutant: a token is never too old.
AgelessClaims(p, cred) ==
    /\ cred \in DOMAIN tokens
    /\ tokens[cred].key = Key(settings[p])
    /\ settings[p].token_mode = "strict" => active[p] \in {0, cred}

\* token_claims()
ValidClaims(p, cred) ==
    /\ cred \in DOMAIN tokens
    /\ tokens[cred].key = Key(settings[p])
    /\ tokens[cred].exp > Seconds(clock)
    /\ settings[p].token_mode = "strict" => active[p] \in {0, cred}

scope_allows(scope, area) == scope \intersect {area, "*", "all"} # {}

IsStatic(p, cred) == settings[p].statics /\ cred = Static

\* required_scope_for_rest_path() names an area under the one prefix it knows;
\* required_scope_for_grpc_method() does for every method of the two services.
ScopeRequired(p) == p = "rest" => settings[p].prefix = "/api/v1"

\* A signed token, with the scope of the area where one is required.
Allows(p, cred, area) ==
    /\ settings[p].auth_mode = "oauth-dev"
    /\ ValidClaims(p, cred)
    /\ ScopeRequired(p) => scope_allows(tokens[cred].scope, area)

RestRequests == [sandbox: BOOLEAN, api_key: {Missing, Static, Garbage}, bearer: Credentials]

\* require_auth()
RestAccepts(area, r) ==
    \/ settings["rest"].auth_mode = "none"
    \/ /\ settings["rest"].sandbox => r.sandbox
       /\ \/ IsStatic("rest", r.api_key)
          \/ IsStatic("rest", r.bearer)
          \/ Allows("rest", r.bearer, area)

\* Metadata of a call: what the keys name, in the order sent.
Entries  == [key: {"authorization", "sandbox-authorization", "x-api-key"}, cred: Credentials \ {Missing}]
           \union [key: {"x-sandbox"}, cred: {Garbage}]
Metadata == {<<>>} \union {<<e>> : e \in Entries} \union {<<e, f>> : e \in Entries, f \in Entries}

\* The keys bearer_token_from_metadata() takes a token from.
NamesToken(key) ==
    \/ key \in {"authorization", "x-api-key"}
    \/ key = "sandbox-authorization" /\ settings["grpc"].grpc_sandbox = "legacy_bearer"

\* bearer_token_from_metadata(): the first entry that names one.
BearerOf(md) ==
    LET named == {i \in DOMAIN md : NamesToken(md[i].key)}
    IN  IF named = {} THEN Missing
        ELSE md[CHOOSE i \in named : \A j \in named : i <= j].cred

\* Mutant: only the header that may carry a token names the sandbox.
SandboxByToken(md) == \E i \in DOMAIN md : md[i].key = "sandbox-authorization"

has_required_sandbox_metadata(md) ==
    \E i \in DOMAIN md : md[i].key \in {"x-sandbox", "sandbox-authorization"}

\* intercept_service()
GrpcAccepts(area, md) ==
    \/ settings["grpc"].auth_mode = "none"
    \/ /\ settings["grpc"].sandbox => has_required_sandbox_metadata(md)
       /\ \/ IsStatic("grpc", BearerOf(md))
          \/ Allows("grpc", BearerOf(md), area)

-----------------------------------------------------------------------------
\* Every variable has its type.
AuthTypeOK ==
    /\ config \in Configs
    /\ settings \in [Processes -> Configs \union {Down}]
    /\ active \in [Processes -> {0} \union DOMAIN tokens]
    /\ tokens \in Seq(Token)
    /\ mine \subseteq DOMAIN tokens
    /\ clock \in 0..MaxClock

Up(p) == settings[p] # Down

\* A right to enter: a static token, or one this deployment's secret signed, in the
\* time its client was told and, where a scope is required, for the areas it was.
Entitled(p, cred, area) ==
    \/ cred = Static /\ settings[p].statics
    \/ /\ cred \in DOMAIN tokens
       /\ tokens[cred].key = Key(settings[p])
       /\ clock < tokens[cred].made + tokens[cred].lasts * TicksPerSecond
       /\ ScopeRequired(p) => scope_allows(tokens[cred].scope, area)

OpenTo(p) == settings[p].auth_mode = "none" /\ ~settings[p].strict

\* Whoever is let in is entitled to it by a credential sent for the purpose, and
\* has named a sandbox where one is wanted; only a server that is not strict is
\* open to all.  Under strict_separate the sandbox header is no credential.  Under
\* another prefix than /api/v1 the REST server takes a token for any area.
AcceptedWasEntitled == \A area \in Areas :
    /\ Up("rest") => \A r \in RestRequests : RestAccepts(area, r) =>
          \/ OpenTo("rest")
          \/ /\ settings["rest"].strict \/ settings["rest"].sandbox => r.sandbox
             /\ \E cred \in {r.api_key, r.bearer} : Entitled("rest", cred, area)
    /\ Up("grpc") => \A md \in Metadata : GrpcAccepts(area, md) =>
          \/ OpenTo("grpc")
          \/ /\ settings["grpc"].strict \/ settings["grpc"].sandbox =>
                    has_required_sandbox_metadata(md)
             /\ \E i \in DOMAIN md :
                   /\ Entitled("grpc", md[i].cred, area)
                   /\ settings["grpc"].grpc_sandbox = "strict_separate" =>
                          md[i].key # "sandbox-authorization"

BearerOnly(cred) == [sandbox |-> TRUE, api_key |-> Missing, bearer |-> cred]

Newest == Len(tokens)

Rotates == Up("rest") /\ settings["rest"].auth_mode = "oauth-dev"
                      /\ settings["rest"].token_mode = "strict"

\* The newest token is accepted until the last second of the time its client was
\* told, after restarts too; no older one is by a process that has issued one itself.
NewestTokenServes == Rotates =>
    \A t \in DOMAIN tokens : \A area \in tokens[t].scope \intersect Areas :
        LET age == clock - tokens[t].made
            serves == RestAccepts(area, BearerOnly(t))
        IN  /\ (tokens[t].key = Key(settings["rest"]) /\ t = Newest
                  /\ age <= (tokens[t].lasts - 1) * TicksPerSecond) => serves
            /\ (serves /\ mine # {}) => t = Newest

\* Under the same settings the two servers let in the same bearers, with two
\* exceptions.  The gRPC server, where no token is ever issued, takes the signed
\* ones a newer one has superseded until they expire.  The REST server, where its
\* prefix is not /api/v1, takes tokens whose scope lacks the area.
FrontsAgree == (Up("rest") /\ Up("grpc") /\ settings["rest"] = settings["grpc"]) =>
    \A area \in {"entities", "tasks"}, cred \in Credentials :
        LET rest == RestAccepts(area, BearerOnly(cred))
            md   == <<[key |-> "x-sandbox", cred |-> Garbage]>> \o
                    (IF cred = Missing THEN <<>> ELSE <<[key |-> "authorization", cred |-> cred]>>)
            grpc == GrpcAccepts(area, md)
        IN  /\ rest /\ ~grpc => /\ cred \in DOMAIN tokens
                                /\ settings["rest"].prefix # "/api/v1"
                                /\ ~scope_allows(tokens[cred].scope, area)
            /\ grpc /\ ~rest => cred \in DOMAIN tokens /\ cred < Newest
=============================================================================
