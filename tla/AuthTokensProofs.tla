--------------------------- MODULE AuthTokensProofs ---------------------------
(***************************************************************************)
(* Theorems about AuthTokens, for any configurations, scopes, bounds and   *)
(* fineness of the clock.                                                  *)
(***************************************************************************)
EXTENDS AuthTokens, TLAPS

\* A process runs on settings it was allowed to start with.
RunsAsAllowed == \A p \in Processes : Up(p) => Starts(p, settings[p])

\* A token's expiry is the end of the time its client was told, cut to a second.
ExpiryTold == \A t \in DOMAIN tokens :
    tokens[t].exp = Seconds(tokens[t].made + tokens[t].lasts * TicksPerSecond)

Inv == AuthTypeOK /\ RunsAsAllowed /\ ExpiryTold

-----------------------------------------------------------------------------
(* Whole seconds. *)

\* A later second is a later tick.
LEMMA LaterSecond ==
    ASSUME NEW a \in Int, NEW b \in Int, Seconds(a) > Seconds(b)
    PROVE  a > b
<1> DEFINE n == TicksPerSecond
           q == a \div n
           r == b \div n
<1>1. n \in Int /\ n > 0
  BY AuthAssumption
<1>2. q \in Int /\ r \in Int /\ q >= r + 1
  BY <1>1 DEF Seconds
<1>3. a >= n * q /\ b < n * r + n
  BY <1>1
<1>4. n * q >= n * (r + 1)
  BY <1>1, <1>2
<1>5. n * (r + 1) = n * r + n
  BY <1>1, <1>2
<1> QED
  BY <1>1, <1>2, <1>3, <1>4, <1>5

\* The seconds of a natural number of ticks are a natural number.
LEMMA SecondsNat ==
    ASSUME NEW a \in Nat
    PROVE  Seconds(a) \in Nat
BY AuthAssumption DEF Seconds

\* The length told to a client is positive.
LEMMA LastsNat ==
    ASSUME NEW c \in Settings
    PROVE  Lasts(c) \in Nat
BY DEF Lasts, Settings

-----------------------------------------------------------------------------
(* The invariant. *)

\* No process runs and no token is issued at first.
LEMMA InitInv == Init => Inv
<1> SUFFICES ASSUME Init PROVE Inv
  OBVIOUS
<1>1. AuthTypeOK
  BY AuthAssumption DEF Init, AuthTypeOK, Processes
<1>2. RunsAsAllowed
  BY DEF Init, RunsAsAllowed, Up
<1>3. ExpiryTold
  BY DEF Init, ExpiryTold
<1> QED
  BY <1>1, <1>2, <1>3 DEF Inv

\* A server that starts has settings that let it.
LEMMA StartInv ==
    ASSUME Inv, NEW p \in Processes, Start(p)
    PROVE  Inv'
<1>1. AuthTypeOK'
  <2>1. settings' \in [Processes -> Configs \union {Down}] /\ active' \in [Processes -> {0} \union DOMAIN tokens]
    BY DEF Inv, AuthTypeOK, Start
  <2>2. mine' \subseteq DOMAIN tokens
    BY DEF Inv, AuthTypeOK, Start
  <2> QED
    BY <2>1, <2>2 DEF Inv, AuthTypeOK, Start
<1>2. RunsAsAllowed'
  <2> SUFFICES ASSUME NEW q \in Processes, Up(q)'
               PROVE  Starts(q, settings'[q])
    BY DEF RunsAsAllowed, Starts, StrictlyValid, PortBound
  <2>1. CASE q = p
    BY <2>1 DEF Start, Inv, AuthTypeOK
  <2>2. CASE q # p
    <3>1. settings'[q] = settings[q]
      BY <2>2 DEF Start, Inv, AuthTypeOK
    <3> QED
      BY <3>1 DEF Inv, RunsAsAllowed, Up
  <2> QED
    BY <2>1, <2>2
<1>3. ExpiryTold'
  BY DEF Inv, ExpiryTold, Start
<1> QED
  BY <1>1, <1>2, <1>3 DEF Inv

\* A server that stops leaves the other one and the tokens as they were.
LEMMA StopInv ==
    ASSUME Inv, NEW p \in Processes, Stop(p)
    PROVE  Inv'
<1>1. AuthTypeOK'
  BY DEF Inv, AuthTypeOK, Stop
<1>2. RunsAsAllowed'
  <2> SUFFICES ASSUME NEW q \in Processes, Up(q)'
               PROVE  Starts(q, settings'[q])
    BY DEF RunsAsAllowed, Starts, StrictlyValid, PortBound
  <2>1. settings'[q] = settings[q]
    BY DEF Stop, Inv, AuthTypeOK, Up
  <2> QED
    BY <2>1 DEF Inv, RunsAsAllowed, Up
<1>3. ExpiryTold'
  BY DEF Inv, ExpiryTold, Stop
<1> QED
  BY <1>1, <1>2, <1>3 DEF Inv

\* A new token's expiry is made of the time and length it is issued with.
LEMMA IssueInv ==
    ASSUME Inv, NEW asked \in Scopes \union {{}}, IssueToken(asked)
    PROVE  Inv'
<1> DEFINE c == settings["rest"]
           t == [key |-> Key(c), exp |-> Expiry(c), made |-> clock, lasts |-> Lasts(c),
                 scope |-> IF asked = {} THEN DefaultScope ELSE asked]
<1>1. c \in Settings
  BY AuthAssumption DEF IssueToken, Inv, AuthTypeOK, Processes
<1>2. tokens' = Append(tokens, t) /\ tokens \in Seq(Token) /\ clock \in Nat
  BY AuthAssumption DEF IssueToken, Inv, AuthTypeOK
<1>3. t \in Token
  <2>1. Key(c) \in STRING
    <3>1. c.secret \in STRING
      BY <1>1 DEF Settings
    <3>2. CASE c.secret = "unset"
      BY <3>2, LiteralsAssumption DEF Key
    <3>3. CASE c.secret # "unset"
      BY <3>1, <3>3 DEF Key
    <3> QED
      BY <3>2, <3>3
  <2>2. Lasts(c) \in Nat
    BY <1>1, LastsNat
  <2>3. clock + Lasts(c) * TicksPerSecond \in Nat
    BY <1>2, <2>2, AuthAssumption
  <2>4. Expiry(c) \in Nat
    BY <2>3, SecondsNat DEF Expiry
  <2>5. (IF asked = {} THEN DefaultScope ELSE asked) \in SUBSET STRING
    <3>1. CASE asked = {}
      BY <3>1, LiteralsAssumption DEF DefaultScope, Areas
    <3>2. CASE asked # {}
      BY <3>2, AuthAssumption
    <3> QED
      BY <3>1, <3>2
  <2> QED
    BY <1>2, <2>1, <2>2, <2>4, <2>5 DEF Token
<1>4. tokens' \in Seq(Token) /\ Len(tokens') = Len(tokens) + 1
  BY <1>2, <1>3
<1>5. DOMAIN tokens \subseteq DOMAIN tokens' /\ Len(tokens) + 1 \in DOMAIN tokens'
  BY <1>2, <1>4
<1>6. AuthTypeOK'
  <2>1. active' \in [Processes -> {0} \union DOMAIN tokens']
    BY <1>5 DEF IssueToken, Inv, AuthTypeOK
  <2>2. mine' \subseteq DOMAIN tokens'
    BY <1>5 DEF IssueToken, Inv, AuthTypeOK
  <2> QED
    BY <1>4, <2>1, <2>2 DEF IssueToken, Inv, AuthTypeOK
<1>7. RunsAsAllowed'
  BY DEF Inv, RunsAsAllowed, IssueToken, Up, Starts, StrictlyValid, PortBound
<1>8. ExpiryTold'
  <2> SUFFICES ASSUME NEW i \in DOMAIN tokens'
               PROVE  tokens'[i].exp = Seconds(tokens'[i].made + tokens'[i].lasts * TicksPerSecond)
    BY DEF ExpiryTold, Seconds
  <2>1. CASE i \in DOMAIN tokens
    <3>1. tokens'[i] = tokens[i]
      BY <1>2, <2>1
    <3> QED
      BY <2>1, <3>1 DEF Inv, ExpiryTold
  <2>2. CASE i \notin DOMAIN tokens
    <3>1. tokens'[i] = t
      BY <1>2, <2>2
    <3> QED
      BY <3>1 DEF Expiry
  <2> QED
    BY <2>1, <2>2
<1> QED
  BY <1>6, <1>7, <1>8 DEF Inv

\* Neither an edit of the settings on disk nor the clock touches a process or a token.
LEMMA QuietInv ==
    ASSUME Inv, AuthTypeOK', UNCHANGED <<settings, tokens>>
    PROVE  Inv'
<1>1. RunsAsAllowed'
  BY DEF Inv, RunsAsAllowed, Up, Starts, StrictlyValid, PortBound
<1>2. ExpiryTold'
  BY DEF Inv, ExpiryTold, Seconds
<1> QED
  BY <1>1, <1>2 DEF Inv

\* Every step keeps the invariant.
LEMMA StepInv == Inv /\ [Next]_authVars => Inv'
<1> SUFFICES ASSUME Inv, [Next]_authVars PROVE Inv'
  OBVIOUS
<1>1. ASSUME NEW p \in Processes, Start(p) PROVE Inv'
  BY <1>1, StartInv
<1>2. ASSUME NEW p \in Processes, Stop(p) PROVE Inv'
  BY <1>2, StopInv
<1>3. ASSUME NEW c \in Configs, Edit(c) PROVE Inv'
  <2>1. AuthTypeOK'
    BY <1>3 DEF Inv, AuthTypeOK, Edit
  <2> QED
    BY <1>3, <2>1, QuietInv DEF Edit
<1>4. ASSUME NEW asked \in Scopes \union {{}}, IssueToken(asked) PROVE Inv'
  BY <1>4, IssueInv
<1>5. CASE Tick
  <2>1. AuthTypeOK'
    BY <1>5, AuthAssumption DEF Inv, AuthTypeOK, Tick
  <2> QED
    BY <1>5, <2>1, QuietInv DEF Tick
<1>6. CASE UNCHANGED authVars
  <2>1. AuthTypeOK'
    BY <1>6 DEF Inv, AuthTypeOK, authVars
  <2> QED
    BY <1>6, <2>1, QuietInv DEF authVars
<1> QED
  BY <1>1, <1>2, <1>3, <1>4, <1>5, <1>6 DEF Next

\* The invariant holds in every reachable state of the two servers.
THEOREM Invariance == Spec => []Inv
BY InitInv, StepInv, PTL DEF Spec

\* Every variable has its type (AuthTypeOK).
THEOREM TypeCorrect == Spec => []AuthTypeOK
<1>1. Inv => AuthTypeOK
  BY DEF Inv
<1> QED
  BY <1>1, Invariance, PTL

-----------------------------------------------------------------------------
(* Who is let in. *)

\* A token that is valid is in the time its client was told, and a static one is
\* no signed one.
LEMMA AllowedIsEntitled ==
    ASSUME Inv, NEW p \in Processes, NEW area, NEW cred, Allows(p, cred, area)
    PROVE  Entitled(p, cred, area)
<1>1. /\ cred \in DOMAIN tokens /\ tokens[cred].key = Key(settings[p])
      /\ tokens[cred].exp > Seconds(clock)
      /\ ScopeRequired(p) => scope_allows(tokens[cred].scope, area)
  BY DEF Allows, ValidClaims
<1> DEFINE end == tokens[cred].made + tokens[cred].lasts * TicksPerSecond
<1>2. tokens[cred].exp = Seconds(end)
  BY <1>1 DEF Inv, ExpiryTold
<1>3. tokens[cred] \in Token
  BY <1>1 DEF Inv, AuthTypeOK
<1>4. end \in Int /\ clock \in Int
  <2>1. tokens[cred].made \in Nat /\ tokens[cred].lasts \in Nat
    BY <1>3 DEF Token
  <2>2. clock \in Int
    BY AuthAssumption DEF Inv, AuthTypeOK
  <2> QED
    BY <2>1, <2>2, AuthAssumption
<1>5. end > clock
  <2> HIDE DEF end
  <2> QED
    BY <1>1, <1>2, <1>4, LaterSecond
<1> QED
  BY <1>1, <1>4, <1>5 DEF Entitled

\* A server that runs strictly has an authentication mode and asks for the sandbox.
LEMMA StrictServer ==
    ASSUME Inv, NEW p \in Processes, Up(p), settings[p].strict
    PROVE  settings[p].auth_mode # "none" /\ settings[p].sandbox
BY DEF Inv, RunsAsAllowed, Starts, StrictlyValid

\* Whoever require_auth lets in holds a credential meant for it.
LEMMA RestEntitled ==
    ASSUME Inv, Up("rest"), NEW area \in Areas, NEW r \in RestRequests, RestAccepts(area, r),
           ~OpenTo("rest")
    PROVE  /\ settings["rest"].strict \/ settings["rest"].sandbox => r.sandbox
           /\ \E cred \in {r.api_key, r.bearer} : Entitled("rest", cred, area)
<1>0. "rest" \in Processes
  BY DEF Processes
<1>1. settings["rest"].auth_mode # "none"
  BY <1>0, StrictServer DEF OpenTo
<1>2. /\ settings["rest"].sandbox => r.sandbox
      /\ \/ IsStatic("rest", r.api_key)
         \/ IsStatic("rest", r.bearer)
         \/ Allows("rest", r.bearer, area)
  BY <1>1 DEF RestAccepts
<1>3. settings["rest"].strict \/ settings["rest"].sandbox => r.sandbox
  BY <1>0, <1>2, StrictServer
<1>4. ASSUME NEW cred, IsStatic("rest", cred) PROVE Entitled("rest", cred, area)
  BY <1>4 DEF IsStatic, Entitled
<1>5. Allows("rest", r.bearer, area) => Entitled("rest", r.bearer, area)
  BY <1>0, AllowedIsEntitled
<1> QED
  BY <1>2, <1>3, <1>4, <1>5

\* The token a call is judged by is that of an entry whose key may name one.
LEMMA BearerNamed ==
    ASSUME NEW md \in Metadata, BearerOf(md) # Missing
    PROVE  \E i \in DOMAIN md : md[i].cred = BearerOf(md) /\ NamesToken(md[i].key)
<1> DEFINE named == {i \in DOMAIN md : NamesToken(md[i].key)}
           first == CHOOSE i \in named : \A j \in named : i <= j
<1>1. named # {} /\ BearerOf(md) = md[first].cred
  BY DEF BearerOf
<1>2. DOMAIN md \subseteq 1..2
  BY DEF Metadata
<1>3. \E i \in named : \A j \in named : i <= j
  <2>1. CASE 1 \in named
    BY <1>2, <2>1
  <2>2. CASE 1 \notin named
    BY <1>1, <1>2, <2>2
  <2> QED
    BY <2>1, <2>2
<1>4. first \in named
  <2> HIDE DEF named
  <2> QED
    BY <1>3
<1> QED
  BY <1>1, <1>4

\* Whoever AuthInterceptor lets in holds a credential meant for it, in a header
\* that may carry it.
LEMMA GrpcEntitled ==
    ASSUME Inv, Up("grpc"), NEW area \in Areas, NEW md \in Metadata, GrpcAccepts(area, md),
           ~OpenTo("grpc")
    PROVE  /\ settings["grpc"].strict \/ settings["grpc"].sandbox =>
                    has_required_sandbox_metadata(md)
           /\ \E i \in DOMAIN md :
                   /\ Entitled("grpc", md[i].cred, area)
                   /\ settings["grpc"].grpc_sandbox = "strict_separate" =>
                          md[i].key # "sandbox-authorization"
<1> DEFINE cred == BearerOf(md)
<1>0. "grpc" \in Processes
  BY DEF Processes
<1>1. settings["grpc"].auth_mode # "none"
  BY <1>0, StrictServer DEF OpenTo
<1>2. /\ settings["grpc"].sandbox => has_required_sandbox_metadata(md)
      /\ IsStatic("grpc", cred) \/ Allows("grpc", cred, area)
  BY <1>1 DEF GrpcAccepts
<1>3. settings["grpc"].strict \/ settings["grpc"].sandbox => has_required_sandbox_metadata(md)
  BY <1>0, <1>2, StrictServer
<1>4. Entitled("grpc", cred, area)
  <2>1. CASE IsStatic("grpc", cred)
    BY <2>1 DEF IsStatic, Entitled
  <2>2. CASE Allows("grpc", cred, area)
    BY <1>0, <2>2, AllowedIsEntitled
  <2> QED
    BY <1>2, <2>1, <2>2
<1>5. cred # Missing
  <2>1. 0 \notin DOMAIN tokens
    BY DEF Inv, AuthTypeOK
  <2> QED
    BY <1>2, <2>1 DEF IsStatic, Allows, ValidClaims, Missing, Static
<1>6. PICK i \in DOMAIN md : md[i].cred = cred /\ NamesToken(md[i].key)
  BY <1>5, BearerNamed
<1>7. settings["grpc"].grpc_sandbox = "strict_separate" => md[i].key # "sandbox-authorization"
  BY <1>6 DEF NamesToken
<1> QED
  BY <1>3, <1>4, <1>6, <1>7

\* Whoever is let in, at whatever time and after whatever restarts, is entitled to
\* it (AcceptedWasEntitled): the checks of require_auth and AuthInterceptor.
THEOREM AcceptedWasEntitledAlways == Spec => []AcceptedWasEntitled
<1>1. Inv => AcceptedWasEntitled
  BY RestEntitled, GrpcEntitled DEF AcceptedWasEntitled
<1> QED
  BY <1>1, Invariance, PTL


-----------------------------------------------------------------------------
(* Which token is active.                                                  *)

\* The REST server holds active the newest token if it has issued any since it
\* started, and the gRPC server never holds one.
ActiveIsNewest ==
    /\ active["grpc"] = 0
    /\ active["rest"] = IF mine = {} THEN 0 ELSE Newest

\* No token is active at first, or after a start, and an issue makes the new one active.
LEMMA StepKeepsActive == AuthTypeOK /\ ActiveIsNewest /\ [Next]_authVars => ActiveIsNewest'
<1> SUFFICES ASSUME AuthTypeOK, ActiveIsNewest, [Next]_authVars
             PROVE  ActiveIsNewest'
  OBVIOUS
<1>1. active \in [Processes -> {0} \union DOMAIN tokens] /\ {"rest", "grpc"} = Processes
  BY DEF AuthTypeOK, Processes
<1>2. ASSUME NEW p \in Processes, Start(p)
      PROVE  ActiveIsNewest'
  BY <1>1, <1>2 DEF ActiveIsNewest, Newest, Start
<1>3. ASSUME NEW p \in Processes, Stop(p)
      PROVE  ActiveIsNewest'
  BY <1>3 DEF ActiveIsNewest, Newest, Stop
<1>4. ASSUME NEW asked, IssueToken(asked)
      PROVE  ActiveIsNewest'
  <2>1. /\ active'["grpc"] = active["grpc"]
        /\ active'["rest"] = Len(tokens) + 1
        /\ mine' # {}
    BY <1>1, <1>4 DEF IssueToken
  <2>2. Len(tokens') = Len(tokens) + 1
    BY <1>4 DEF IssueToken, AuthTypeOK
  <2>3. QED BY <2>1, <2>2 DEF ActiveIsNewest, Newest
<1>5. CASE UNCHANGED <<active, tokens, mine>>
  BY <1>5 DEF ActiveIsNewest, Newest
<1> QED
  BY <1>2, <1>3, <1>4, <1>5 DEF Next, Edit, Tick, authVars

\* The active tokens are as ActiveIsNewest says in every reachable state.
LEMMA ActiveInvariance == Spec => []ActiveIsNewest
<1>1. Init => ActiveIsNewest
  BY DEF Init, ActiveIsNewest, Processes
<1> QED
  BY <1>1, StepKeepsActive, TypeCorrect, PTL DEF Spec

\* With at least a second left of what its client was told, a token has not expired.
LEMMA NotYetExpired ==
    ASSUME Inv, NEW t \in DOMAIN tokens,
           clock - tokens[t].made <= (tokens[t].lasts - 1) * TicksPerSecond
    PROVE  tokens[t].exp > Seconds(clock)
<1> DEFINE n == TicksPerSecond
           made == tokens[t].made
           lasts == tokens[t].lasts
           end == made + lasts * n
<1>1. n \in Nat /\ n > 0 /\ clock \in Nat /\ made \in Nat /\ lasts \in Nat
  <2>1. tokens[t] \in Token
    BY DEF Inv, AuthTypeOK
  <2>2. made \in Nat /\ lasts \in Nat
    BY <2>1 DEF Token
  <2> QED BY <2>2, AuthAssumption DEF Inv, AuthTypeOK
<1>2. tokens[t].exp = end \div n
  BY DEF Inv, ExpiryTold, Seconds
<1>3. clock - made <= (lasts - 1) * n /\ (lasts - 1) * n = lasts * n - n
  BY <1>1
<1>4. lasts * n \in Nat
  BY <1>1
<1>5. clock + n <= end /\ end \in Nat
  BY <1>1, <1>3, <1>4
<1> HIDE DEF end, n
<1>6. end \div n > clock \div n
  <2> DEFINE q == end \div n
             r == clock \div n
  <2>1. q \in Int /\ r \in Int /\ end < n * q + n /\ n * r <= clock
    BY <1>1, <1>5
  <2>2. n * r + n < n * q + n
    BY <1>1, <1>5, <2>1
  <2>3. ~(q <= r)
    <3>1. q <= r => n * q <= n * r
      BY <1>1, <2>1
    <3> QED BY <1>1, <2>1, <2>2, <3>1
  <2> QED BY <2>1, <2>3
<1> QED
  BY <1>2, <1>6 DEF Seconds, n

\* What require_auth makes of a bearer and nothing else.
LEMMA RestBearer ==
    ASSUME Inv, NEW cred \in Credentials, NEW area
    PROVE  RestAccepts(area, BearerOnly(cred)) <=>
              \/ settings["rest"].auth_mode = "none"
              \/ IsStatic("rest", cred)
              \/ Allows("rest", cred, area)
BY DEF RestAccepts, BearerOnly, IsStatic, Missing, Static

\* The newest token serves until the last second of the time its client was told, and
\* no older one does once the process has issued one (NewestTokenServes).
THEOREM NewestTokenServesAlways == Spec => []NewestTokenServes
<1>1. Inv /\ ActiveIsNewest => NewestTokenServes
  <2> SUFFICES ASSUME Inv, ActiveIsNewest, Rotates,
                      NEW t \in DOMAIN tokens, NEW area \in tokens[t].scope \intersect Areas
               PROVE  LET serves == RestAccepts(area, BearerOnly(t))
                      IN  /\ (tokens[t].key = Key(settings["rest"]) /\ t = Newest
                                /\ clock - tokens[t].made <= (tokens[t].lasts - 1) * TicksPerSecond)
                                 => serves
                          /\ (serves /\ mine # {}) => t = Newest
    BY DEF NewestTokenServes
  <2>1. settings["rest"].auth_mode = "oauth-dev" /\ settings["rest"].token_mode = "strict"
    BY DEF Rotates
  <2>2. t \in Nat \ {0} /\ Newest \in Nat /\ (mine # {} => Newest # 0)
    BY DEF Inv, AuthTypeOK, Newest
  <2>3. RestAccepts(area, BearerOnly(t)) <=> Allows("rest", t, area)
    BY <2>1, <2>2, RestBearer DEF Credentials, IsStatic, Static
  <2>4. scope_allows(tokens[t].scope, area)
    BY DEF scope_allows
  <2>5. Allows("rest", t, area) <=> /\ tokens[t].key = Key(settings["rest"])
                                    /\ tokens[t].exp > Seconds(clock)
                                    /\ active["rest"] \in {0, t}
    BY <2>1, <2>4 DEF Allows, ValidClaims
  <2> QED
    BY <2>2, <2>3, <2>5, NotYetExpired DEF ActiveIsNewest
<1> QED
  BY <1>1, Invariance, ActiveInvariance, PTL

\* Under the same settings the two servers let in the same bearers, but for the signed
\* tokens a newer one has superseded, which the gRPC server takes, and those for other
\* areas, which the REST server takes under another prefix (FrontsAgree).
THEOREM FrontsAgreeAlways == Spec => []FrontsAgree
<1>1. Inv /\ ActiveIsNewest => FrontsAgree
  <2> SUFFICES ASSUME Inv, ActiveIsNewest, settings["rest"] = settings["grpc"],
                      NEW area, NEW cred \in Credentials
               PROVE  LET rest == RestAccepts(area, BearerOnly(cred))
                          md   == <<[key |-> "x-sandbox", cred |-> Garbage]>> \o
                                  (IF cred = Missing THEN <<>>
                                   ELSE <<[key |-> "authorization", cred |-> cred]>>)
                          grpc == GrpcAccepts(area, md)
                      IN  /\ rest /\ ~grpc => /\ cred \in DOMAIN tokens
                                              /\ settings["rest"].prefix # "/api/v1"
                                              /\ ~scope_allows(tokens[cred].scope, area)
                          /\ grpc /\ ~rest => cred \in DOMAIN tokens /\ cred < Newest
    BY DEF FrontsAgree
  <2> DEFINE sandbox == [key |-> "x-sandbox", cred |-> Garbage]
             bearer  == [key |-> "authorization", cred |-> cred]
             md      == <<sandbox>> \o (IF cred = Missing THEN <<>> ELSE <<bearer>>)
             c       == settings["rest"]
  <2>1. tokens \in Seq(Token) /\ 0 \notin DOMAIN tokens /\ Newest \in Nat
        /\ \A t \in DOMAIN tokens : t \in Nat /\ t <= Newest
    BY DEF Inv, AuthTypeOK, Newest
  <2>2. BearerOf(md) = cred /\ has_required_sandbox_metadata(md)
    <3>1. CASE cred = Missing
      <4>1. md = <<sandbox>> /\ DOMAIN md = {1} /\ md[1].key = "x-sandbox"
        BY <3>1
      <4>2. {i \in DOMAIN md : NamesToken(md[i].key)} = {}
        BY <4>1 DEF NamesToken
      <4> QED
        BY <3>1, <4>1, <4>2 DEF BearerOf, has_required_sandbox_metadata
    <3>2. CASE cred # Missing
      <4>1. /\ md \in Seq({sandbox, bearer}) /\ Len(md) = 2
            /\ md[1] = sandbox /\ md[2] = bearer
        <5>1. md = <<sandbox>> \o <<bearer>>
          BY <3>2
        <5>2. <<sandbox>> \in Seq({sandbox, bearer}) /\ <<bearer>> \in Seq({sandbox, bearer})
          OBVIOUS
        <5> HIDE DEF sandbox, bearer, md
        <5> QED BY <5>1, <5>2
      <4>2. /\ DOMAIN md = {1, 2} /\ md[1].key = "x-sandbox"
            /\ md[2].key = "authorization" /\ md[2].cred = cred
        <5>1. DOMAIN md = 1..2
          <6> HIDE DEF sandbox, bearer, md
          <6> QED BY <4>1
        <5>2. sandbox.key = "x-sandbox" /\ bearer.key = "authorization" /\ bearer.cred = cred
          OBVIOUS
        <5> HIDE DEF sandbox, bearer, md
        <5> QED BY <4>1, <5>1, <5>2
      <4>3. {i \in DOMAIN md : NamesToken(md[i].key)} = {2}
        BY <4>2 DEF NamesToken
      <4>4. (CHOOSE i \in {2} : \A j \in {2} : i <= j) = 2
        OBVIOUS
      <4> QED
        <5> HIDE DEF sandbox, bearer, md
        <5>1. has_required_sandbox_metadata(md)
          BY <4>2 DEF has_required_sandbox_metadata
        <5>2. BearerOf(md) = md[CHOOSE i \in {2} : \A j \in {2} : i <= j].cred
          BY <4>3 DEF BearerOf
        <5> QED
          BY <4>2, <4>4, <5>1, <5>2
    <3> QED
      BY <3>1, <3>2
  <2>3. RestAccepts(area, BearerOnly(cred)) <=>
           c.auth_mode = "none" \/ IsStatic("rest", cred) \/ Allows("rest", cred, area)
    BY RestBearer
  <2>4. GrpcAccepts(area, md) <=>
           c.auth_mode = "none" \/ IsStatic("grpc", cred) \/ Allows("grpc", cred, area)
    BY <2>2 DEF GrpcAccepts
  <2>5. IsStatic("rest", cred) <=> IsStatic("grpc", cred)
    BY DEF IsStatic
  <2>6. Allows("rest", cred, area) /\ ~Allows("grpc", cred, area)
           => /\ cred \in DOMAIN tokens
              /\ c.prefix # "/api/v1"
              /\ ~scope_allows(tokens[cred].scope, area)
    BY DEF Allows, ScopeRequired, ValidClaims, ActiveIsNewest
  <2>7. Allows("grpc", cred, area) /\ ~Allows("rest", cred, area)
           => cred \in DOMAIN tokens /\ active["rest"] \notin {0, cred}
    BY DEF Allows, ScopeRequired, ValidClaims
  <2>8. active["rest"] \in {0, Newest}
    BY DEF ActiveIsNewest
  <2> HIDE DEF md
  <2>9. /\ RestAccepts(area, BearerOnly(cred)) /\ ~GrpcAccepts(area, md)
              => /\ cred \in DOMAIN tokens
                 /\ c.prefix # "/api/v1"
                 /\ ~scope_allows(tokens[cred].scope, area)
        /\ GrpcAccepts(area, md) /\ ~RestAccepts(area, BearerOnly(cred))
              => cred \in DOMAIN tokens /\ cred < Newest
    BY <2>1, <2>3, <2>4, <2>5, <2>6, <2>7, <2>8
  <2> QED
    BY <2>9 DEF md
<1> QED
  BY <1>1, Invariance, ActiveInvariance, PTL
=============================================================================
