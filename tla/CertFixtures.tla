----------------------------- MODULE CertFixtures -----------------------------
(***************************************************************************)
(* The fixtures of cert/lattice/fixtures.yaml with the scripts of their    *)
(* runners.  Of a fixture:                                                 *)
(*   surfaces, modes   what fixtures.yaml asks of it and allows            *)
(*   script, finally   the runner; the processes its `finally` stops       *)
(*   exempt            surfaces the runner never counts as missing         *)
(*   judged            a failed surface is not listed as missing too       *)
(*   strict            anything but a pass is "failed", never "partial"    *)
(*   keeps             surfaces that results left in the fixture's own     *)
(*                     files by an earlier run can show                    *)
(***************************************************************************)
EXTENDS CertScripts

Fixture(surfaces, script, finally) ==
    [surfaces |-> surfaces, modes |-> {"strict"}, script |-> script, finally |-> finally,
     driver |-> NoDriver, exempt |-> {}, judged |-> FALSE, strict |-> FALSE, keeps |-> {}]

\* stress: the same code, no runner reads its mode beyond the report.
Stressed(f) == [f EXCEPT !.modes = {"strict", "stress"}]
Driven(f, driver) == [f EXCEPT !.driver = driver]

-----------------------------------------------------------------------------
(* run_python_sample.py *)

SdkPython ==
    Driven(Fixture(Auth \union Header \union EntityRead \union EntityPush \union Overrides
                     \union TaskCore \union Query \union Listen \union Objects,
                   PythonSetup \o StartHttps \o Drive, Single), SdkPythonDriver)

AisRestSurfaces == {"auth.bearer_token", "entities.publish", "entities.stream"} \union Header \union Origin

\* Runs against the server the caller names.
AisRest ==
    [Fixture(AisRestSurfaces,
             Check({"entities.publish"}) \o Check({"entities.readback"} \union Origin)
             \o Check({"entities.stream"}), <<>>)
     EXCEPT !.exempt = Header \union {"auth.bearer_token"}]

ArkSurfaces == Origin \union {"auth.bearer_token", "entities.publish", "entities.velocity_enu",
                              "entities.attitude", "entities.health", "entities.task_catalog"}

\* The publisher is not in the `finally`.
ArkMavlink ==
    Stressed(Fixture(ArkSurfaces,
                     PythonSetup \o StartHttps \o Spawn("publisher") \o Watch(ArkSurfaces, FALSE)
                     \o Stop("publisher"), Single))

DragonSurfaces == {"auth.bearer_token", "entities.publish", "entities.relationships",
                   "entities.classification", "entities.health"}

DragonSync ==
    Stressed(Fixture(DragonSurfaces,
                     PythonSetup \o StartHttps \o Command("fail") \o Watch(DragonSurfaces, FALSE),
                     Single))

AlfredSurfaces == {"entities.publish", "entities.stream", "entities.override", "tasks.create",
                   "local_mock"}

AlfredScript == PythonSetup \o StartHttps \o Check(AlfredSurfaces)

\* The result file stays in the clone and is read whatever the program's exit
\* code; only entities.publish asks for exit code 0.
Alfred ==
    [Fixture(AlfredSurfaces, AlfredScript, Single)
     EXCEPT !.modes = {"stress"}, !.keeps = AlfredSurfaces \ {"entities.publish"}]

DeepProveSurfaces == {"entities.publish", "entities.stream", "entities.override",
                      "tasks.listen_as_agent", "tasks.update_status"}

DeepProveStart == PythonSetup \o StartHttps \o Command("raise")

DeepProveWatch ==
    Spawn("asset") \o Watch({}, TRUE) \o Spawn("arbiter") \o Spawn("track")
    \o Watch(DeepProveSurfaces, TRUE) \o Command("note")
    \o Stop("track") \o Stop("arbiter") \o Stop("asset")
    \o Fallback({"tasks.listen_as_agent", "tasks.update_status"})

\* Missing proof files and exceptions in the logs are the issue.
DeepProve ==
    [Stressed(Fixture(DeepProveSurfaces, DeepProveStart \o DeepProveWatch,
                      <<"track", "arbiter", "asset", "server">>)) EXCEPT !.strict = TRUE]

Thumbnail ==
    LET linked == {"objects.thumbnail_linkage", "entities.publish"}
    IN  Fixture({"objects.upload", "objects.metadata"} \union linked,
                PythonSetup \o StartHttps \o Command("fail") \o Command("note")
                \o Check({"objects.upload", "objects.metadata"}) \o Check(linked)
                \o Command("note") \o Command("raise"), Single)

AutoReconSurfaces == {"entities.publish", "entities.stream", "entities.override", "tasks.create",
                      "tasks.listen_as_agent", "tasks.update_status"}

AutoRecon ==
    Fixture(AutoReconSurfaces,
            PythonSetup \o StartHttps \o Command("raise")
            \o Spawn("arbiter") \o Spawn("asset") \o Spawn("track")
            \o Watch(AutoReconSurfaces, FALSE),
            <<"track", "asset", "arbiter", "server">>)

AisGrpcSurfaces == {"auth.grpc_bearer_metadata", "entities.publish"} \union Origin

\* The sample is not in the `finally`.
AisGrpc ==
    [Fixture(AisGrpcSurfaces,
             Command("fail") \o StartDual \o Command("raise") \o Spawn("sample")
             \o Watch(AisGrpcSurfaces, FALSE) \o Stop("sample"), Dual) EXCEPT !.strict = TRUE]

-----------------------------------------------------------------------------
(* run_go_sample.py *)

SdkGo ==
    Driven(Fixture(Auth \union EntityRead \union EntityPush \union Overrides
                     \union TaskCore \union Query \union Listen \union Objects,
                   Command("fail") \o Command("fail") \o StartHttp \o Drive, Single), SdkGoDriver)

GoObjects ==
    [Fixture({"auth.bearer_token"} \union Objects,
             Command("fail") \o StartHttp \o Check(Objects), Single)
     EXCEPT !.exempt = {"auth.bearer_token"}]

MavenSurfaces == {"auth.oauth_client_credentials", "entities.grpc_stream", "entities.publish",
                  "ui.websocket", "ui.cesium"}

MavenSetup == Command("fail") \o StartInsecureDual \o Command("raise")

\* Neither program is in the `finally`.
MavenRun ==
    Spawn("ingest") \o Await({"ingest"}, <<"ingest">>, "fail") \o Spawn("ws")
    \o Watch(MavenSurfaces, FALSE) \o Stop("ws") \o Stop("ingest")

Maven == Stressed(Fixture(MavenSurfaces, MavenSetup \o MavenRun, Dual))

-----------------------------------------------------------------------------
(* run_java_sample.py *)

JavaBridgeSurfaces == {"auth.bearer_token", "entities.publish", "entities.transponder_codes", "ui.sse"}

\* All three processes are started before the `try`.
JavaBridgeStart ==
    Need("blocked") \o Command("fail") \o Spawn("server") \o Spawn("opensky") \o Spawn("app") \o Try

\* The database at port 8080 outlives the run.
JavaBridge ==
    [Stressed(Fixture(JavaBridgeSurfaces,
                      JavaBridgeStart \o Watch({}, TRUE) \o Command("raise") \o Command("raise")
                      \o Check(JavaBridgeSurfaces),
                      <<"app", "opensky", "server">>))
     EXCEPT !.judged = TRUE, !.keeps = {"entities.publish", "entities.transponder_codes"}]

SdkJava ==
    [Driven(Fixture(Auth \union EntityRead \union Overrides \union TaskCore \union Objects,
                    Command("blocked") \o Need("blocked") \o StartHttp \o Drive, Single), SdkJavaDriver)
     EXCEPT !.strict = TRUE, !.judged = TRUE]

-----------------------------------------------------------------------------
(* run_node_sample.py *)

SdkJavaScript ==
    [Driven(Fixture(Auth \union Header \union EntityRead \union EntityPush \union TaskCore
                      \union Query \union Objects,
                    Need("fail") \o Command("fail") \o Command("fail") \o StartHttp \o Drive, Single),
            SdkJavaScriptDriver) EXCEPT !.strict = TRUE, !.judged = TRUE]

VisualizerSurfaces == {"auth.bearer_token", "entities.stream", "ui.map_visualizer"}

VisualizerStart ==
    Command("fail") \o StartDual
    \o Spawn("proxy") \o Await({"proxy"}, <<>>, "raise")
    \o Spawn("bridge") \o Await({"bridge"}, <<>>, "raise")
    \o Spawn("vite") \o Await({"vite"}, <<>>, "raise")

\* _run_node_visualizer_transport_check()
VisualizerCheck == Check(VisualizerSurfaces)

Visualizer ==
    [Fixture(VisualizerSurfaces, VisualizerStart \o Command("raise") \o VisualizerCheck,
             <<"vite", "bridge", "proxy", "rest", "grpc">>) EXCEPT !.strict = TRUE]

-----------------------------------------------------------------------------
(* run_contract_fixture.py *)

SchemaProto(surfaces) ==
    [Driven(Fixture(surfaces,
                    Need("missing") \o Need("blocked") \o Need("fail") \o Command("raise")
                    \o StartInsecureDual \o Drive, Dual), GoldenDriver) EXCEPT !.judged = TRUE]

DescriptorCheck  == SchemaProto({"transport.grpc_protobuf", "entities.grpc_stream", "tasks.listen_as_agent"})
GenerationMatrix == SchemaProto({"transport.grpc_protobuf", "auth.grpc_bearer_metadata", "entities.grpc_stream"})

SpecEntities ==
    <<{"auth.oauth_client_credentials"}, {"entities.publish", "auth.bearer_token"}, {"entities.get"},
      {"entities.overrides.apply"}, {"entities.overrides.clear"},
      {"entities.long_poll"}, {"entities.stream_sse"}>>

SpecTasks ==
    <<{"tasks.create"}, {"tasks.get"}, {"tasks.query"}, {"tasks.listen_as_agent"}, {"tasks.stream"},
      {"tasks.stream_as_agent"}, {"tasks.update_status"}, {"tasks.cancel"}>>

SpecObjects ==
    <<{"objects.upload"}, {"objects.metadata"}, {"objects.list"}, {"objects.download"},
      {"objects.delete"}>>

\* _run_spec_rest_flow(); transport.rest_json is recorded with the first answer.
SpecFlow(surfaces) ==
    [Fixture(surfaces,
             Need("missing") \o StartHttp \o CheckEach(SpecEntities \o SpecTasks \o SpecObjects), Single)
     EXCEPT !.judged = TRUE, !.driver.given = {"transport.rest_json"}]

SpecRest == SpecFlow(Auth \union EntityRead \union Overrides \union EntityPush \union TaskCore
                     \union Query \union Listen \union {"tasks.stream", "tasks.stream_as_agent"}
                     \union Objects)
PostmanRest == SpecFlow(Auth \union EntityRead \union (Objects \ {"objects.list"})
                        \union {"tasks.create", "tasks.update_status"})

GrpcSurfaces == GrpcAuth \union EntityRead \union {"entities.grpc_stream", "tasks.create"}
                \union Listen \union {"tasks.update_status"}

\* The driver's source is a plain string that doubles its braces as an f-string
\* would, so it does not compile: the build always fails.
SdkCppSetup == Need("blocked") \o Need("blocked") \o StartInsecureDual
SdkCpp ==
    [Fixture(GrpcSurfaces, SdkCppSetup \o Doomed("fail"), Dual) EXCEPT !.judged = TRUE]

SdkRust ==
    [Driven(Fixture(GrpcSurfaces, Need("blocked") \o StartInsecureDual \o Drive, Dual), SdkRustDriver)
     EXCEPT !.judged = TRUE]

-----------------------------------------------------------------------------
\* A reference_only fixture has no runner.
Reference == Fixture({"ui.map_visualizer"}, <<>>, <<>>)

FixturesYaml ==
    {SdkPython, AisRest, ArkMavlink, DragonSync, Alfred, DeepProve, Thumbnail, AutoRecon,
     AisGrpc, SdkGo, GoObjects, Maven, JavaBridge, SdkJava, SdkJavaScript, Visualizer,
     DescriptorCheck, GenerationMatrix, SpecRest, PostmanRest, SdkCpp, SdkRust, Reference}
=============================================================================
