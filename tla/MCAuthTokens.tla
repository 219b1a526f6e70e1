---------------------------- MODULE MCAuthTokens -----------------------------
(* Instances of AuthTokens for TLC. *)
EXTENDS AuthTokens

Strict == [auth_mode |-> "oauth-dev", statics |-> TRUE, token_mode |-> "strict", ttl |-> 2,
           secret |-> "s1", scope_mode |-> "informational", sandbox |-> TRUE,
           grpc_sandbox |-> "strict_separate", strict |-> TRUE, audit |-> TRUE,
           tls |-> "provided", certs |-> TRUE, prefix |-> "/api/v1"]

\* A strict deployment; the same with another secret and under another prefix, or left
\* open; a lax one that signs with a secret derived from its static tokens and issues
\* tokens of no positive length; and one that hands out static tokens.
MCConfigs ==
    {Strict,
     [Strict EXCEPT !.secret = "s2", !.prefix = "/compat/v1"],
     [Strict EXCEPT !.auth_mode = "none"],
     [Strict EXCEPT !.strict = FALSE, !.secret = "unset", !.ttl = -1, !.sandbox = FALSE,
                    !.grpc_sandbox = "legacy_bearer", !.scope_mode = "locked", !.certs = FALSE],
     [Strict EXCEPT !.strict = FALSE, !.token_mode = "compat_static", !.tls = "insecure"]}

MCScopes == {{"tasks"}}
=============================================================================
