------------------------------- MODULE CertRun -------------------------------
(***************************************************************************)
(* `zorn-cert run <fixture>`: the certification harness clones a fixture,  *)
(* starts servers and the fixture's own processes, drives or watches them, *)
(* judges the surfaces and writes a report, as the fixture's script says.  *)
(* One process does it all, step after step; what runs beside it are the   *)
(* programs it started, whose answers, exits and silences are choices      *)
(* here.  A run that leaves its runner by an exception writes no report.   *)
(*                                                                         *)
(* Bounds: MaxRuns runs one after the other, MaxFaults failures over all   *)
(* of them, MaxProbes unsuccessful polls before a deadline, and at most    *)
(* MaxWrong surfaces, or all of them, wrong in one answer.                 *)
(***************************************************************************)
EXTENDS CertScripts, FiniteSets

CONSTANTS Fixtures,   \* the fixtures, as CertFixtures writes them
          MaxRuns, MaxFaults, MaxProbes, MaxWrong,
          None        \* no report yet

ASSUME CertBounds ==
    /\ {MaxRuns, MaxFaults, MaxProbes, MaxWrong} \subseteq Nat
    /\ None \notin [result : STRING]

\* True of every fixture of cert/lattice/fixtures.yaml.
ASSUME FixturesAssumption == \A f \in Fixtures : IsScript(f) /\ Tidy(f) /\ Orderly(f)

VARIABLES
    fixture,   \* the fixture under test
    runs,      \* runs begun
    clone,     \* "none", "unpinned" (checkout failed) or "pinned"
    kept,      \* surfaces that files of earlier runs can still show
    procs,     \* processes alive, [run, name]
    job,       \* where the runner is in its script, and its report so far
    report,    \* the report on disk, with the truth about the run it is of
    faults

vars == <<fixture, runs, clone, kept, procs, job, report, faults>>

Modes   == {"strict", "stress"}
Results == {"pass", "partial", "failed", "blocked", "missing"}

\* base_report(); right and wrong are what the programs really answered.
BaseReport ==
    [phase |-> "idle", pc |-> 1, dpc |-> 1, waited |-> 0, guarded |-> FALSE, raised |-> FALSE,
     issue |-> FALSE, todo |-> <<>>, result |-> "missing",
     passed |-> {}, failed |-> {}, missing |-> {}, right |-> {}, wrong |-> {}]

-----------------------------------------------------------------------------
(* Beginning a run. *)

Cloned(outcome) ==
    IF clone # "none" THEN clone' = clone /\ outcome = "ok"
    ELSE CASE outcome = "ok"          -> clone' = "pinned"
           [] outcome = "no checkout" -> clone' = "unpinned"
           [] outcome = "no clone"    -> clone' = "none"

Charge(failing) ==
    /\ failing => faults < MaxFaults
    /\ faults' = IF failing THEN faults + 1 ELSE faults

\* A directory left by a clone that could not check out its commit counts as cloned.
run_fixture(mode, outcome) ==
    /\ job.phase = "idle" /\ runs < MaxRuns
    /\ Cloned(outcome)
    /\ Charge(outcome # "ok")
    /\ runs' = runs + 1
    /\ job' = IF outcome = "ok" /\ mode \in fixture.modes /\ fixture.script # <<>>
              THEN [BaseReport EXCEPT !.phase = "run"] ELSE BaseReport
    /\ UNCHANGED <<fixture, kept, procs, report>>

-----------------------------------------------------------------------------
(* Stepping through the script. *)

AtStep(op) == job.phase = "run" /\ job.pc <= Len(fixture.script) /\ fixture.script[job.pc].op = op
Step       == fixture.script[job.pc]
Advance(j)   == [j EXCEPT !.pc = @ + 1, !.waited = 0]

Cleanup == IF job.guarded THEN fixture.finally ELSE <<>>

\* Mutant: an exception is reported as a result
ThrowReported(j, stops) ==
    [j EXCEPT !.phase = "unwind", !.result = "raise", !.todo = stops \o Cleanup]

Throw(j, stops) ==
    [j EXCEPT !.phase = "unwind", !.raised = TRUE, !.todo = stops \o Cleanup]

\* The run ends as `how` says.
GiveUp(how, stops) ==
    IF how = "raise" THEN Throw(job, stops)
    ELSE [job EXCEPT !.phase = "unwind", !.todo = stops \o Cleanup,
                     !.result = IF how = "fail" THEN "failed" ELSE how,
                     !.failed = IF how = "fail" THEN fixture.surfaces ELSE {},
                     !.missing = IF how = "fail" THEN {} ELSE fixture.surfaces]

Still == UNCHANGED <<fixture, runs, clone, report>>

Prerequisites ==
    /\ AtStep("need")
    /\ \/ job' = Advance(job) /\ Charge(FALSE)
       \/ job' = GiveUp(Step.how, <<>>) /\ Charge(TRUE)
    /\ UNCHANGED <<kept, procs>> /\ Still

\* run_command() comes back with an exit code, or raises at its timeout if it has one.
run_command ==
    /\ AtStep("command") \/ AtStep("doomed")
    /\ \/ AtStep("command") /\ job' = Advance(job) /\ Charge(FALSE)
       \/ /\ Step.how = "note"
          /\ job' = Advance([job EXCEPT !.issue = TRUE]) /\ Charge(TRUE)
       \/ /\ Step.how # "note"
          /\ job' = GiveUp(Step.how, <<>>) /\ Charge(AtStep("command"))
       \/ job' = Throw(job, <<>>) /\ Charge(TRUE)
    /\ UNCHANGED <<kept, procs>> /\ Still

EnterTry ==
    /\ AtStep("try")
    /\ job' = Advance([job EXCEPT !.guarded = TRUE])
    /\ Charge(FALSE) /\ UNCHANGED <<kept, procs>> /\ Still

start_process ==
    /\ AtStep("spawn")
    /\ \/ /\ procs' = procs \union {[run |-> runs, name |-> Step.proc]}
          /\ job' = Advance(job) /\ Charge(FALSE)
       \/ /\ job' = Throw(job, <<>>) /\ Charge(TRUE)
          /\ UNCHANGED procs
    /\ UNCHANGED kept /\ Still

\* _terminate_process() ends the process; reading its last output may still raise.
Terminated(p) == procs' = procs \ {[run |-> runs, name |-> p]}

stop_process ==
    /\ AtStep("stop")
    /\ Terminated(Step.proc)
    /\ \/ job' = Advance(job) /\ Charge(FALSE)
       \/ job' = Throw(job, <<>>) /\ Charge(TRUE)
    /\ UNCHANGED kept /\ Still

-----------------------------------------------------------------------------
(* Waiting. *)

\* Mutant: a wait has no deadline
NeverExpires == FALSE

Expired == job.waited = MaxProbes

Probed == [job EXCEPT !.waited = (@ + 1) % (MaxProbes + 1)]

\* The readiness loop of a server or process the script started.
AwaitReady ==
    /\ AtStep("await")
    /\ \/ /\ \A p \in Step.procs : [run |-> runs, name |-> p] \in procs   \* answers
          /\ job' = Advance(job) /\ Charge(FALSE) /\ UNCHANGED procs
       \/ /\ ~Expired                                                     \* not yet
          /\ job' = Probed /\ Charge(FALSE) /\ UNCHANGED procs
       \/ \E p \in Step.procs :                                           \* exits
             /\ procs' = procs \ {[run |-> runs, name |-> p]}
             /\ job' = GiveUp(IF Step.how = "goon" THEN "raise" ELSE Step.how, Step.giveup)
             /\ Charge(TRUE)
       \/ /\ Expired                                                      \* too late
          /\ job' = IF Step.how = "goon" THEN Advance(job) ELSE GiveUp(Step.how, Step.giveup)
          /\ Charge(TRUE) /\ UNCHANGED procs
    /\ UNCHANGED kept /\ Still

\* What one answer can have wrong of the surfaces it decides.
Wrongs(S) == {U \in SUBSET S : U # {} /\ (U = S \/ Cardinality(U) <= MaxWrong)}

\* What an earlier run left may be taken for an answer.
Shown(U) == {U, U \ kept}

\* _record()
Record(S, bad, U) ==
    /\ job' = Advance([job EXCEPT !.passed = @ \union (S \ bad), !.failed = @ \union bad,
                                !.right = @ \union (S \ U), !.wrong = @ \union U])
    /\ kept' = kept \union (fixture.keeps \intersect (S \ U))

Recorded(S) ==
    \/ Record(S, {}, {}) /\ Charge(FALSE)
    \/ \E U \in Wrongs(S) : \E bad \in Shown(U) : Record(S, bad, U) /\ Charge(TRUE)

\* A request that gets no answer at all (http_json() passes it on) leaves the runner.
CheckAnswer ==
    /\ AtStep("check")
    /\ \/ Recorded(Step.surfaces)
       \/ job' = Throw(job, <<>>) /\ Charge(TRUE) /\ UNCHANGED kept
    /\ UNCHANGED procs /\ Still

WatchSurfaces ==
    /\ AtStep("watch")
    /\ \/ Record(Step.surfaces, {}, {}) /\ Charge(FALSE)
       \/ ~Expired /\ job' = Probed /\ Charge(FALSE) /\ UNCHANGED kept
       \/ Expired /\ Recorded(Step.surfaces)
       \/ ~Step.safe /\ job' = Throw(job, <<>>) /\ Charge(TRUE) /\ UNCHANGED kept
    /\ UNCHANGED procs /\ Still

\* The logs tell that the sample fell back to a simulated task.
FallbackDetected ==
    /\ AtStep("fallback")
    /\ \/ job' = Advance(job) /\ Charge(FALSE)
       \/ /\ job' = Advance([job EXCEPT
                      !.failed = @ \union Step.surfaces, !.passed = @ \ Step.surfaces,
                      !.wrong = @ \union Step.surfaces, !.right = @ \ Step.surfaces])
          /\ Charge(TRUE)
    /\ UNCHANGED <<kept, procs>> /\ Still

-----------------------------------------------------------------------------
(* The driver program. *)

InDriver == AtStep("drive") /\ job.dpc <= Len(fixture.driver.checks)
Asked    == fixture.driver.checks[job.dpc]

DriverAsks ==
    /\ InDriver
    /\ \/ job' = [job EXCEPT !.dpc = @ + 1, !.right = @ \union Asked] /\ Charge(FALSE)
       \/ job' = [job EXCEPT !.dpc = @ + 1, !.wrong = @ \union Asked] /\ Charge(TRUE)
    /\ UNCHANGED <<kept, procs>> /\ Still

\* The program does not build or start, or a request throws: its notes are lost
\* and its exit code is not 0.  A driver inside the runner takes the runner along,
\* and so does the timeout of run_command().
DriverDies ==
    /\ InDriver /\ Charge(TRUE)
    /\ \/ /\ ~fixture.driver.inside
          /\ job.dpc = 1 \/ Asked \intersect fixture.driver.aborts # {}
          /\ job' = Advance([job EXCEPT !.failed = fixture.surfaces, !.wrong = @ \union Asked])
       \/ job' = Throw(job, <<>>)
    /\ UNCHANGED <<kept, procs>> /\ Still

DriverEnds ==
    /\ AtStep("drive") /\ ~InDriver
    /\ job' = Advance([job EXCEPT !.passed = job.right \ job.wrong, !.failed = job.wrong])
    /\ Charge(FALSE) /\ UNCHANGED <<kept, procs>> /\ Still

-----------------------------------------------------------------------------
(* The verdict, the `finally` and the report. *)

\* The driver's notes are lost with its program.
Lost       == /\ fixture.driver # NoDriver /\ ~fixture.driver.inside
              /\ job.failed = fixture.surfaces
NowPassed  == job.passed \union (IF Lost THEN {} ELSE fixture.driver.given)
Judged     == IF fixture.judged THEN job.failed ELSE {}
NowMissing == fixture.surfaces \ (NowPassed \union fixture.exempt \union Judged)

\* Mutant: a run fails by what is missing alone
PassUnlessMissing ==
    IF NowMissing = {} /\ ~job.issue THEN "pass"
    ELSE IF fixture.strict THEN "failed" ELSE "partial"

Verdict ==
    IF job.failed # {} THEN "failed"
    ELSE IF NowMissing = {} /\ ~job.issue THEN "pass"
    ELSE IF fixture.strict THEN "failed" ELSE "partial"

\* Mutant: a runner that comes to its end skips the `finally`
SettleWithoutFinally ==
    /\ job.phase = "run" /\ job.pc > Len(fixture.script)
    /\ job' = [job EXCEPT !.phase = "unwind", !.result = Verdict,
                          !.passed = NowPassed, !.missing = NowMissing]
    /\ Charge(FALSE) /\ UNCHANGED <<kept, procs>> /\ Still

Settle ==
    /\ job.phase = "run" /\ job.pc > Len(fixture.script)
    /\ job' = [job EXCEPT !.phase = "unwind", !.todo = Cleanup, !.result = Verdict,
                          !.passed = NowPassed, !.missing = NowMissing]
    /\ Charge(FALSE) /\ UNCHANGED <<kept, procs>> /\ Still

\* A stop that raises leaves the rest of the `finally` undone.
UnwindOne ==
    /\ job.phase = "unwind" /\ job.todo # <<>>
    /\ Terminated(Head(job.todo))
    /\ \/ job' = [job EXCEPT !.todo = Tail(@)] /\ Charge(FALSE)
       \/ job' = [job EXCEPT !.todo = <<>>, !.raised = TRUE] /\ Charge(TRUE)
    /\ UNCHANGED kept /\ Still

WriteReport ==
    /\ job.phase = "unwind" /\ job.todo = <<>>
    /\ job' = BaseReport
    /\ report' = IF job.raised THEN report
                 ELSE [run |-> runs, result |-> job.result, passed |-> job.passed,
                       failed |-> job.failed, missing |-> job.missing,
                       right |-> job.right, wrong |-> job.wrong]
    /\ Charge(FALSE) /\ UNCHANGED <<fixture, runs, clone, kept, procs>>

-----------------------------------------------------------------------------
Init ==
    /\ fixture \in Fixtures
    /\ runs = 0 /\ clone = "none" /\ kept = {} /\ procs = {}
    /\ job = BaseReport /\ report = None /\ faults = 0

Begin == \E mode \in Modes, outcome \in {"ok", "no clone", "no checkout"} :
            run_fixture(mode, outcome)

Work ==
    \/ Prerequisites \/ run_command \/ EnterTry \/ start_process \/ stop_process
    \/ AwaitReady \/ CheckAnswer \/ WatchSurfaces \/ FallbackDetected
    \/ DriverAsks \/ DriverDies \/ DriverEnds
    \/ Settle \/ UnwindOne \/ WriteReport

\* Every run over: the user has had enough.
Done == job.phase = "idle" /\ runs = MaxRuns /\ UNCHANGED vars

Next == Begin \/ Work \/ Done

\* The runner waits without a deadline: for python -m venv, for openssl, or in
\* asyncio.run() for the driver's gRPC calls.
Unlimited == \/ AtStep("command") /\ ~Step.timed
             \/ InDriver /\ fixture.driver.inside

\* The runner is one sequential process; only a wait without a deadline may hold it.
\* Nor is git clone, in run_fixture, sure to end: a run begins here when it has.
Spec == Init /\ [][Next]_vars /\ WF_vars(Work /\ ~Unlimited)

-----------------------------------------------------------------------------
\* Types of the variables.
CertTypeOK ==
    /\ fixture \in Fixtures /\ runs \in 0..MaxRuns /\ faults \in 0..MaxFaults
    /\ clone \in {"none", "unpinned", "pinned"} /\ kept \subseteq fixture.keeps
    /\ \A p \in procs : p.run \in 1..runs
    /\ job.phase \in {"idle", "run", "unwind"} /\ job.waited \in 0..MaxProbes
    /\ report # None => report.result \in Results

Entitled == report.right \union fixture.driver.given
            \union (IF report.run > 1 THEN fixture.keeps ELSE {})

\* A report tells what its run saw.  "pass" means that every surface asked of the
\* fixture, but for those its runner exempts, was noted and none failed.  A surface
\* counts as passed only if it was answered right in that run, is noted without a
\* request, or is one that files of an earlier run can show.  A surface answered
\* wrong is never passed by, and none is lost between the three lists.
ReportTellsRun ==
    report # None =>
      /\ report.result = "pass" =>
            report.failed = {} /\ fixture.surfaces \ fixture.exempt \subseteq report.passed
      /\ report.passed \subseteq Entitled
      /\ report.passed \intersect report.failed = {}
      /\ report.result \in {"pass", "partial"} =>
            report.wrong \subseteq (IF report.run > 1 THEN fixture.keeps ELSE {})
      /\ fixture.surfaces \ fixture.exempt
            \subseteq report.passed \union report.failed \union report.missing

\* A run whose report is on disk has no process left: whichever way its runner
\* returned, the servers and programs it started are stopped.  (A run that ends
\* with an exception may leave some: the publisher of ark-mavlink, for one.)
ReportedRunsLeaveNothing ==
    report # None /\ job.phase = "idle" => \A p \in procs : p.run # report.run

\* Every run comes to an end, whatever its servers and programs do, if it is not for
\* ever in a wait that has no deadline.
RunEnds == []<>~Unlimited => (job.phase # "idle" ~> job.phase = "idle")
=============================================================================
