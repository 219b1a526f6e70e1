----------------------------- MODULE CertScripts -----------------------------
(***************************************************************************)
(* What `zorn-cert run` does for each fixture, as a script of steps that   *)
(* CertRun executes.  A fixture is a client program that is built, run     *)
(* against a server started for it, and judged on the surfaces of the API  *)
(* it is to exercise.  The payloads it sends are left out; kept are the    *)
(* order of the steps, which surfaces each answer decides, and what the    *)
(* runner does when a step fails.                                          *)
(***************************************************************************)
EXTENDS Integers, Sequences

(* The steps.  how: what a failure does to the run.  "fail", "blocked" and *)
(* "missing" end it with that result, all surfaces listed accordingly;     *)
(* "raise" leaves the runner by an exception; "note" marks an issue.       *)

Need(how)    == <<[op |-> "need", how |-> how]>>     \* tools or files are there
Command(how) == <<[op |-> "command", how |-> how, timed |-> TRUE]>>  \* run_command(), a request
Patient(how) == <<[op |-> "command", how |-> how, timed |-> FALSE]>> \* without a deadline
Spawn(p)     == <<[op |-> "spawn", proc |-> p]>>     \* a process in the background
Stop(p)      == <<[op |-> "stop", proc |-> p]>>
Try          == <<[op |-> "try"]>>                   \* from here the `finally` runs
Drive        == <<[op |-> "drive"]>>                 \* the fixture's driver program
Doomed(how)  == <<[op |-> "doomed", how |-> how]>>   \* a Command that cannot succeed
Fallback(S)  == <<[op |-> "fallback", surfaces |-> S]>>

\* Waits for procs to answer.  When one of them exits, or at the deadline, giveup
\* is stopped and the run ends as `late` says; "goon" takes a server that is
\* merely slow.
Await(procs, giveup, late) ==
    <<[op |-> "await", procs |-> procs, giveup |-> giveup, how |-> late]>>

\* Polls until the surfaces of S are seen, and records those that are and are not.
\* safe: an exception is another attempt.
Watch(S, safe) == <<[op |-> "watch", surfaces |-> S, safe |-> safe]>>

\* One unguarded exchange, and the surfaces recorded from its answer.
Check(S) == <<[op |-> "check", surfaces |-> S]>>

CheckEach(checks) == [i \in 1..Len(checks) |-> Check(checks[i])[1]]

\* ensure_python_venv() and pip.
PythonSetup == Patient("raise") \o Command("fail")

\* openssl makes the certificate.
Certificate == Patient("raise")

StartHttps == Certificate \o Spawn("server") \o Await({"server"}, <<"server">>, "raise") \o Try
StartHttp  == Spawn("server") \o Await({"server"}, <<"server">>, "raise") \o Try

\* start_dual_transport_zorn_server()
StartRest == Spawn("rest") \o Await({"rest"}, <<>>, "goon")
StartGrpc == Spawn("grpc") \o Await({"rest", "grpc"}, <<"rest", "grpc">>, "raise")
StartDual == Certificate \o StartRest \o StartGrpc \o Try

\* start_http_insecure_grpc_zorn_server(): the same, without certificates.
StartInsecureRest == StartRest
StartInsecureDual == StartInsecureRest \o StartGrpc \o Try

Single == <<"server">>
Dual   == <<"rest", "grpc">>   \* stop_dual_transport_zorn_server()

Auth       == {"auth.oauth_client_credentials", "auth.bearer_token", "transport.rest_json"}
GrpcAuth   == {"auth.grpc_bearer_metadata", "transport.grpc_protobuf"}
Header     == {"auth.sandbox_header"}
Overrides  == {"entities.overrides.apply", "entities.overrides.clear"}
EntityRead == {"entities.publish", "entities.get"}
EntityPush == {"entities.stream_sse", "entities.long_poll"}
TaskCore   == {"tasks.create", "tasks.get", "tasks.update_status"}
Listen     == {"tasks.listen_as_agent"}
Query      == {"tasks.query", "tasks.cancel"}
Objects    == {"objects.upload", "objects.metadata", "objects.list", "objects.download",
               "objects.delete"}
Origin     == {"entities.location", "entities.ontology", "entities.provenance"}

-----------------------------------------------------------------------------
(* The driver programs.  given: surfaces noted without a request; checks:  *)
(* the surfaces each answer decides; aborts: a failing request for one of  *)
(* these leaves the program before it writes its notes; inside: the driver *)
(* runs in the runner's own process, and no deadline ends it.              *)

One(s) == <<{s}>>
Covered(checks) == UNION {checks[i] : i \in 1..Len(checks)}

ObjectChecks == One("objects.upload") \o One("objects.metadata") \o One("objects.list")
                \o One("objects.download") \o One("objects.delete")

NoDriver == [given |-> {}, checks |-> <<>>, aborts |-> {}, inside |-> FALSE]

SdkPythonEntities ==
    <<{"auth.oauth_client_credentials"}, {"entities.publish"}, {"entities.get"},
      {"entities.asset"}, {"entities.track"}, {"entities.geo"},
      {"entities.long_poll"}, {"entities.stream_sse"},
      {"entities.overrides.apply"}, {"entities.overrides.clear"}>>

SdkPythonTasks ==
    <<{"tasks.create"}, {"tasks.get"}, {"tasks.query"}, {"tasks.listen_as_agent"},
      {"tasks.update_status"}, {"tasks.cancel"}>>

SdkPythonObjects == ObjectChecks

\* No request is guarded, and the notes are written at the end.
SdkPythonDriver ==
    [given |-> {"auth.bearer_token", "transport.rest_json"} \union Header,
     checks |-> SdkPythonEntities \o SdkPythonTasks \o SdkPythonObjects,
     aborts |-> Covered(SdkPythonEntities \o SdkPythonTasks \o SdkPythonObjects),
     inside |-> FALSE]

SdkGoEntities ==
    <<{"auth.oauth_client_credentials"}, {"entities.publish"}, {"entities.get"}, {"entities.track"},
      {"entities.long_poll"}, {"entities.stream_sse"},
      {"entities.overrides.apply"}, {"entities.overrides.clear"}>>

SdkGoTasks ==
    <<{"tasks.create"}, {"tasks.get"}, {"tasks.query"}, {"tasks.listen_as_agent"},
      {"tasks.update_status"}, {"tasks.cancel"}>>

SdkGoObjects == ObjectChecks

\* Errors are noted, but a metadata answer that failed is nil and its headers are read.
SdkGoDriver ==
    [given |-> {"auth.bearer_token", "transport.rest_json"},
     checks |-> SdkGoEntities \o SdkGoTasks \o SdkGoObjects,
     aborts |-> {"objects.metadata"}, inside |-> FALSE]

SdkJavaScriptEntities ==
    <<{"auth.oauth_client_credentials"}, {"entities.publish"}, {"entities.get"},
      {"entities.long_poll"}, {"entities.stream_sse"}>>

SdkJavaScriptTasks ==
    <<{"tasks.create"}, {"tasks.get"}, {"tasks.query"}, {"tasks.listen_as_agent"},
      {"tasks.update_status"}, {"tasks.cancel"},
      {"objects.upload"}, {"objects.list"}, {"objects.metadata"}, {"objects.download"},
      {"objects.delete"}>>

\* expect() catches every step.
SdkJavaScriptDriver ==
    [given |-> {"auth.bearer_token", "transport.rest_json"} \union Header,
     checks |-> SdkJavaScriptEntities \o SdkJavaScriptTasks,
     aborts |-> {}, inside |-> FALSE]

SdkJavaEntities ==
    <<{"entities.publish"}, {"entities.get"}, {"entities.overrides.apply"},
      {"entities.overrides.clear"}>>

SdkJavaTasks ==
    <<{"tasks.create"}, {"tasks.get"}, {"tasks.query"}, {"tasks.update_status"},
      {"objects.upload"}, {"objects.list"}, {"objects.metadata"}, {"objects.download"},
      {"objects.delete"}>>

SdkJavaDriver ==
    [given |-> Auth, checks |-> SdkJavaEntities \o SdkJavaTasks,
     aborts |-> Covered(SdkJavaEntities \o SdkJavaTasks),
     inside |-> FALSE]

SdkRustEntities == <<{"entities.publish"}, {"entities.get"}, {"entities.grpc_stream"}>>
SdkRustTasks    == <<{"tasks.create"}, {"tasks.update_status"}, {"tasks.listen_as_agent"}>>

SdkRustDriver ==
    [given |-> GrpcAuth, checks |-> SdkRustEntities \o SdkRustTasks,
     aborts |-> Covered(SdkRustEntities \o SdkRustTasks),
     inside |-> FALSE]

\* _run_golden_wire_checks(), and run_schema_proto()'s reading of its results: a
\* wrong answer to any of the seven requests shows in transport.grpc_protobuf.
GoldenDriver ==
    LET wire == "transport.grpc_protobuf"
    IN  [given |-> {"auth.grpc_bearer_metadata"},
         checks |-> <<{wire}, {wire}, {wire, "entities.grpc_stream"}, {wire}, {wire}, {wire},
                      {wire, "tasks.listen_as_agent"}>>,
         aborts |-> {wire}, inside |-> TRUE]
-----------------------------------------------------------------------------
(* What the runners have in common.                                        *)

\* The failures that end a run with a report.
Endings == {"fail", "blocked", "missing"}

IsStep(s) ==
    /\ s.op = "need" => s.how \in Endings \union {"raise"}
    /\ s.op \in {"command", "doomed"} => s.how \in Endings \union {"raise", "note"}
    /\ s.op = "await" => s.how \in Endings \union {"raise", "goon"} /\ s.giveup \in Seq(STRING)
    /\ s.op \in {"spawn", "stop"} => s.proc \in STRING

IsScript(f) ==
    /\ Len(f.script) \in Nat /\ DOMAIN f.script = 1..Len(f.script)
    /\ \A k \in DOMAIN f.script : IsStep(f.script[k])
    /\ f.finally \in Seq(STRING)
    /\ Len(f.driver.checks) \in Nat

Named(q) == {q[i] : i \in DOMAIN q}

\* What was started before the k-th step of a script, and not stopped again.
Running(script, k) ==
    {script[i].proc : i \in {i \in 1..(k - 1) :
        /\ script[i].op = "spawn"
        /\ \A j \in (i + 1)..(k - 1) : script[j].op = "stop" => script[j].proc # script[i].proc}}

Guarded(script, k) == \E i \in 1..(k - 1) : script[i].op = "try"
Finally(f, k) == IF Guarded(f.script, k) THEN Named(f.finally) ELSE {}

EndsAt(s, how) == s.op \in {"need", "command", "doomed", "await"} /\ s.how = how

\* Whichever way a runner comes to its report, it stops what it started.
Tidy(f) ==
    /\ \A k \in DOMAIN f.script, how \in Endings : EndsAt(f.script[k], how) =>
          Running(f.script, k) \subseteq
             Finally(f, k) \union (IF f.script[k].op = "await" THEN Named(f.script[k].giveup) ELSE {})
    /\ Running(f.script, Len(f.script) + 1) \subseteq Finally(f, Len(f.script) + 1)

Notes(s) == s.op \in {"check", "watch"}

\* The surfaces some step or the driver decides.
Decided(f) ==
    (UNION {f.script[k].surfaces : k \in {k \in DOMAIN f.script :
               Notes(f.script[k]) \/ f.script[k].op = "fallback"}})
    \union (UNION {f.driver.checks[i] : i \in 1..Len(f.driver.checks)})

\* No surface is decided twice, but for what a fallback takes back; a run fails as a
\* whole, and the driver runs, before any surface is noted; the driver is the last
\* step; what is noted without a request is decided by none.
Orderly(f) ==
    /\ f.surfaces # {}
    /\ \A j, k \in DOMAIN f.script :
          /\ j < k /\ Notes(f.script[k]) /\ (Notes(f.script[j]) \/ f.script[j].op = "fallback") =>
                f.script[j].surfaces \intersect f.script[k].surfaces = {}
          /\ (EndsAt(f.script[k], "fail") \/ f.script[k].op = "drive") /\ j < k =>
                ~Notes(f.script[j])
    /\ \A k \in DOMAIN f.script : f.script[k].op = "drive" => k = Len(f.script)
    /\ f.driver.given \intersect Decided(f) = {}
=============================================================================
