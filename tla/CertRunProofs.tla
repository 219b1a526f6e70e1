---------------------------- MODULE CertRunProofs ----------------------------
(***************************************************************************)
(* Proofs about CertRun, for any fixtures whose runners are what           *)
(* FixturesAssumption says, any bounds and any failures.                   *)
(***************************************************************************)
EXTENDS CertRun, SequenceTheorems, TLAPS

Script == fixture.script

\* The runner's local state is well formed, and each process is known by its run.
Fields == {"phase", "pc", "dpc", "waited", "guarded", "raised", "issue", "todo", "result",
           "passed", "failed", "missing", "right", "wrong"}

RunnerOK ==
    /\ DOMAIN job = Fields
    /\ job.dpc \in Nat \ {0}
    /\ job.todo \in Seq(STRING)
    /\ procs \subseteq [run : Nat, name : STRING]
    /\ job.phase = "run" =>
          /\ job.pc \in 1..(Len(Script) + 1)
          /\ job.guarded <=> Guarded(Script, job.pc)
          /\ ~job.raised
    /\ job.phase = "unwind" /\ ~job.raised => job.result \in Results
    /\ job.phase # "idle" => runs >= 1

\* What the runner still knows how to stop.
Reachable == IF job.phase = "run" THEN Running(Script, job.pc) ELSE Named(job.todo)

ProgramsKnown ==
    (job.phase # "idle" /\ ~job.raised) =>
        \A p \in procs : p.run = runs => p.name \in Reachable

\* The run of the report is over, and so are its programs.
ReportedIsGone == report # None =>
    /\ report.run \in Nat /\ report.run <= runs
    /\ job.phase # "idle" => report.run < runs
    /\ \A p \in procs : p.run # report.run

\* What files of an earlier run can show.
Shows == IF runs > 1 THEN fixture.keeps ELSE {}

\* The surfaces a step from the k-th on notes.
Ahead(k) == UNION {Script[j].surfaces : j \in {j \in DOMAIN Script : j >= k /\ Notes(Script[j])}}

NoneNoted(k) == \A j \in DOMAIN Script : j < k => ~Notes(Script[j])

\* The notes of a runner on its way.
NotesOK == job.phase = "run" =>
    /\ job.passed \subseteq job.right \union Shows
    /\ job.passed \intersect job.failed = {}
    /\ \/ job.failed # {}
       \/ job.wrong \subseteq Shows
       \/ job.pc <= Len(Script) /\ Script[job.pc].op = "drive"
    /\ job.wrong \subseteq Decided(fixture)
    /\ \/ job.failed \subseteq Decided(fixture)
       \/ job.pc > Len(Script) /\ job.failed = fixture.surfaces /\ ~fixture.driver.inside
    /\ (job.passed \union job.failed) \intersect Ahead(job.pc) = {}
    /\ job.pc <= Len(Script) /\ NoneNoted(job.pc) => job.passed = {}
    /\ runs = 1 => kept \intersect Ahead(job.pc) = {}

KeptIsOld == runs = 0 => kept = {}

\* What the report of r's run may say.
Tells(r, shows) ==
    /\ r.result = "pass" => r.failed = {} /\ fixture.surfaces \ fixture.exempt \subseteq r.passed
    /\ r.passed \subseteq r.right \union fixture.driver.given \union shows
    /\ r.passed \intersect r.failed = {}
    /\ r.result \in {"pass", "partial"} => r.wrong \subseteq shows
    /\ fixture.surfaces \ fixture.exempt \subseteq r.passed \union r.failed \union r.missing

VerdictOK == (job.phase = "unwind" /\ ~job.raised) => Tells(job, Shows)

RunInv == /\ CertTypeOK
          /\ RunnerOK
          /\ ProgramsKnown
          /\ ReportedIsGone
          /\ NotesOK
          /\ KeptIsOld
          /\ VerdictOK
          /\ ReportTellsRun

-----------------------------------------------------------------------------
(* What the pieces of an action make of the runner's state.                *)

\* The runner of the fixture is what FixturesAssumption says.
LEMMA FixtureFacts ==
    ASSUME CertTypeOK
    PROVE  IsScript(fixture) /\ Tidy(fixture) /\ Orderly(fixture)
BY FixturesAssumption DEF CertTypeOK

\* Going on to the next step changes nothing else.
LEMMA AdvanceEffect ==
    ASSUME NEW j, DOMAIN j = Fields
    PROVE  /\ DOMAIN Advance(j) = Fields
           /\ Advance(j).pc = j.pc + 1 /\ Advance(j).waited = 0
           /\ Advance(j).phase = j.phase /\ Advance(j).dpc = j.dpc
           /\ Advance(j).guarded = j.guarded /\ Advance(j).raised = j.raised
           /\ Advance(j).issue = j.issue /\ Advance(j).todo = j.todo
           /\ Advance(j).result = j.result /\ Advance(j).missing = j.missing
           /\ Advance(j).passed = j.passed /\ Advance(j).failed = j.failed
           /\ Advance(j).right = j.right /\ Advance(j).wrong = j.wrong
BY DEF Advance, Fields

\* An exception leaves what is to be stopped.
LEMMA ThrowEffect ==
    ASSUME NEW j, DOMAIN j = Fields, NEW stops
    PROVE  /\ DOMAIN Throw(j, stops) = Fields
           /\ Throw(j, stops).phase = "unwind" /\ Throw(j, stops).raised = TRUE
           /\ Throw(j, stops).todo = stops \o Cleanup
           /\ Throw(j, stops).pc = j.pc /\ Throw(j, stops).dpc = j.dpc
           /\ Throw(j, stops).waited = j.waited /\ Throw(j, stops).guarded = j.guarded
           /\ Throw(j, stops).issue = j.issue /\ Throw(j, stops).result = j.result
           /\ Throw(j, stops).passed = j.passed /\ Throw(j, stops).failed = j.failed
           /\ Throw(j, stops).right = j.right /\ Throw(j, stops).wrong = j.wrong
           /\ Throw(j, stops).missing = j.missing
BY DEF Throw, Fields

\* Giving up leaves what is to be stopped, and a result with its lists.
LEMMA GiveUpEffect ==
    ASSUME RunnerOK, NEW how \in Endings, NEW stops
    PROVE  LET g == GiveUp(how, stops)
           IN  /\ DOMAIN g = Fields
               /\ g.phase = "unwind" /\ g.raised = job.raised /\ g.todo = stops \o Cleanup
               /\ g.dpc = job.dpc /\ g.waited = job.waited
               /\ g.result = (IF how = "fail" THEN "failed" ELSE how)
               /\ g.failed = (IF how = "fail" THEN fixture.surfaces ELSE {})
               /\ g.missing = (IF how = "fail" THEN {} ELSE fixture.surfaces)
               /\ g.passed = job.passed /\ g.right = job.right /\ g.wrong = job.wrong
BY DEF GiveUp, Endings, RunnerOK, Fields

\* What the `finally` is to stop is a list of names.
LEMMA CleanupIsList ==
    ASSUME CertTypeOK
    PROVE  Cleanup \in Seq(STRING)
<1>1. fixture.finally \in Seq(STRING)
  BY FixtureFacts DEF IsScript
<1>2. <<>> \in Seq(STRING)
  OBVIOUS
<1>3. QED BY <1>1, <1>2 DEF Cleanup

\* Failures are counted up to their bound.
LEMMA ChargeCounts ==
    ASSUME CertTypeOK, NEW failing \in BOOLEAN, Charge(failing)
    PROVE  faults' \in 0..MaxFaults
BY CertBounds DEF CertTypeOK, Charge

\* A probe more is still within the deadline.
LEMMA ProbedInTime ==
    ASSUME CertTypeOK, RunnerOK, ~Expired
    PROVE  /\ DOMAIN Probed = Fields
           /\ Probed.waited \in 0..MaxProbes /\ Probed.waited = job.waited + 1
           /\ Probed.phase = job.phase /\ Probed.pc = job.pc /\ Probed.dpc = job.dpc
           /\ Probed.guarded = job.guarded /\ Probed.raised = job.raised /\ Probed.issue = job.issue
           /\ Probed.todo = job.todo /\ Probed.result = job.result /\ Probed.passed = job.passed
           /\ Probed.failed = job.failed /\ Probed.missing = job.missing /\ Probed.right = job.right
           /\ Probed.wrong = job.wrong
<1>1. job.waited \in 0..MaxProbes /\ job.waited # MaxProbes /\ MaxProbes \in Nat
  BY CertBounds DEF CertTypeOK, Expired
<1>2. \A a, b \in Nat : a < b => a % b = a
  OBVIOUS
<1>3. (job.waited + 1) % (MaxProbes + 1) = job.waited + 1
  BY <1>1, <1>2
<1>4. QED BY <1>1, <1>3 DEF Probed, RunnerOK, Fields

-----------------------------------------------------------------------------
(* The kinds of step.                                                      *)

Under == job.phase = "run" /\ job.pc \in 1..Len(Script) /\ DOMAIN job' = Fields

NotesKept == /\ job'.passed = job.passed /\ job'.failed = job.failed
             /\ job'.right = job.right /\ job'.wrong = job.wrong
             /\ kept' = kept

This(p) == [run |-> runs, name |-> p]

\* The step at hand is done.
Passes ==
    /\ Under /\ job'.phase = "run" /\ job'.pc = job.pc + 1
    /\ job'.waited = 0 /\ job'.dpc = job.dpc /\ job'.todo = job.todo /\ ~job'.raised
    /\ job'.guarded <=> job.guarded \/ Step.op = "try"
    /\ procs' = IF Step.op = "spawn" THEN procs \union {This(Step.proc)}
                ELSE IF Step.op = "stop" THEN procs \ {This(Step.proc)} ELSE procs
    /\ (NotesKept /\ ~Notes(Step) /\ Step.op # "drive") \/ CheckAnswer \/ WatchSurfaces
          \/ FallbackDetected \/ DriverDies \/ DriverEnds

\* The step at hand takes longer.
Lingers ==
    /\ Under /\ job'.phase = "run" /\ job'.pc = job.pc
    /\ job'.waited \in 0..MaxProbes /\ job'.dpc \in Nat \ {0}
    /\ job'.todo = job.todo /\ ~job'.raised /\ (job'.guarded <=> job.guarded)
    /\ procs' = procs
    /\ \/ NotesKept /\ job'.dpc = job.dpc /\ job'.waited = job.waited + 1
       \/ DriverAsks /\ job'.dpc = job.dpc + 1

\* The runner is left by an exception.
Raises ==
    /\ Under /\ job'.phase = "unwind" /\ job'.raised
    /\ job'.waited = job.waited /\ job'.dpc = job.dpc /\ job'.todo \in Seq(STRING)
    /\ procs' \subseteq procs /\ kept' = kept

\* A failure ends the run with a report.
EndsRun(how) ==
    /\ Under /\ EndsAt(Step, how)
    /\ job' = GiveUp(how, IF Step.op = "await" THEN Step.giveup ELSE <<>>)
    /\ procs' \subseteq procs /\ kept' = kept

Kind == Passes \/ Lingers \/ Raises \/ \E how \in Endings : EndsRun(how)

\* The step at hand is one of the script.
LEMMA AtStepUnder ==
    ASSUME CertTypeOK, RunnerOK, NEW op, AtStep(op)
    PROVE  /\ job.phase = "run" /\ job.pc \in 1..Len(Script) /\ Script[job.pc].op = op
           /\ Step = Script[job.pc] /\ Step.op = op /\ IsStep(Step)
           /\ Len(Script) \in Nat /\ ~job.raised
<1>1. Len(Script) \in Nat /\ DOMAIN Script = 1..Len(Script)
      /\ \A k \in DOMAIN Script : IsStep(Script[k])
  BY FixtureFacts DEF IsScript, Script
<1>2. job.phase = "run" /\ job.pc <= Len(Script) /\ Script[job.pc].op = op /\ ~job.raised
  BY DEF AtStep, RunnerOK, Script
<1>3. job.pc \in 1..(Len(Script) + 1)
  BY <1>2 DEF RunnerOK
<1>4. job.pc \in 1..Len(Script)
  BY <1>1, <1>2, <1>3
<1>5. QED BY <1>1, <1>2, <1>4 DEF Step, Script

\* An exception, with nothing but programs of the run gone, is one of the kinds.
LEMMA ThrowRaises ==
    ASSUME CertTypeOK, RunnerOK, NEW op, AtStep(op), NEW j, DOMAIN j = Fields,
           j.waited = job.waited, j.dpc = job.dpc,
           NEW stops \in Seq(STRING), job' = Throw(j, stops), procs' \subseteq procs, kept' = kept
    PROVE  Raises
<1>1. stops \o Cleanup \in Seq(STRING)
  BY CleanupIsList
<1>2. job.phase = "run" /\ job.pc \in 1..Len(Script)
  BY AtStepUnder
<1> DEFINE t == Throw(j, stops)
<1>3. /\ DOMAIN t = Fields /\ t.phase = "unwind" /\ t.raised = TRUE
      /\ t.todo = stops \o Cleanup /\ t.waited = j.waited /\ t.dpc = j.dpc
  BY ThrowEffect
<1>4. job' = t
  OBVIOUS
<1> HIDE DEF t
<1>5. QED BY <1>1, <1>2, <1>3, <1>4 DEF Raises, Under

\* So is a failure that a script names.
LEMMA GiveUpEnds ==
    ASSUME CertTypeOK, RunnerOK, NEW op \in {"need", "command", "doomed", "await"}, AtStep(op),
           NEW stops, stops = IF Step.op = "await" THEN Step.giveup ELSE <<>>,
           Step.how \notin {"note", "goon"}, job' = GiveUp(Step.how, stops),
           procs' \subseteq procs, kept' = kept
    PROVE  Raises \/ \E how \in Endings : EndsRun(how)
<1>1. IsStep(Step) /\ Step.op = op /\ job.phase = "run" /\ job.pc \in 1..Len(Script)
  BY AtStepUnder
<1>2. Step.how \in Endings \union {"raise"} /\ stops \in Seq(STRING)
  <2>1. <<>> \in Seq(STRING)
    OBVIOUS
  <2>2. op = "await" => Step.giveup \in Seq(STRING)
    BY <1>1 DEF IsStep
  <2>3. Step.how \in Endings \union {"raise"}
    BY <1>1 DEF IsStep
  <2>4. QED BY <1>1, <2>1, <2>2, <2>3
<1>3. CASE Step.how = "raise"
  <2>1. job' = Throw(job, stops)
    BY <1>3 DEF GiveUp
  <2>2. QED BY <1>2, <2>1, ThrowRaises DEF RunnerOK
<1>4. CASE Step.how \in Endings
  <2>1. DOMAIN job' = Fields
    BY <1>4, GiveUpEffect
  <2>2. EndsAt(Step, Step.how)
    BY <1>1 DEF EndsAt
  <2>3. EndsRun(Step.how)
    BY <1>1, <2>1, <2>2 DEF EndsRun, Under
  <2>4. QED BY <1>4, <2>3
<1>5. QED BY <1>2, <1>3, <1>4

\* Going on is one of the kinds as far as it is not about notes and programs.
LEMMA AdvancePasses ==
    ASSUME CertTypeOK, RunnerOK, NEW op, AtStep(op), NEW j, DOMAIN j = Fields,
           j.phase = job.phase, j.pc = job.pc, j.dpc = job.dpc, j.todo = job.todo,
           j.raised = job.raised, j.guarded <=> job.guarded \/ op = "try", job' = Advance(j)
    PROVE  /\ Under /\ job'.phase = "run" /\ job'.pc = job.pc + 1
           /\ job'.waited = 0 /\ job'.dpc = job.dpc /\ job'.todo = job.todo /\ ~job'.raised
           /\ job'.guarded <=> job.guarded \/ Step.op = "try"
           /\ job'.passed = j.passed /\ job'.failed = j.failed
           /\ job'.right = j.right /\ job'.wrong = j.wrong
           /\ Step.op = op
BY AdvanceEffect, AtStepUnder DEF Under

\* A probe that has no answer yet is one of the kinds.
LEMMA ProbedLingers ==
    ASSUME CertTypeOK, RunnerOK, NEW op, AtStep(op), ~Expired, job' = Probed,
           procs' = procs, kept' = kept
    PROVE  Lingers
<1>1. /\ DOMAIN job' = Fields /\ job'.phase = job.phase
      /\ job'.waited \in 0..MaxProbes /\ job'.waited = job.waited + 1
      /\ job'.pc = job.pc /\ job'.dpc = job.dpc /\ job'.todo = job.todo
      /\ job'.raised = job.raised /\ job'.guarded = job.guarded
      /\ job'.passed = job.passed /\ job'.failed = job.failed
      /\ job'.right = job.right /\ job'.wrong = job.wrong
  BY ProbedInTime
<1>2. job.phase = "run" /\ job.pc \in 1..Len(Script) /\ ~job.raised
  BY AtStepUnder
<1>3. job.dpc \in Nat \ {0}
  BY DEF RunnerOK
<1>4. QED BY <1>1, <1>2, <1>3 DEF Lingers, Under, NotesKept

\* A step without an answer to note is one of the kinds.
LEMMA PlainKind ==
    ASSUME CertTypeOK, RunnerOK,
           Prerequisites \/ run_command \/ EnterTry \/ start_process \/ stop_process \/ AwaitReady
    PROVE  Kind
<1>0. DOMAIN job = Fields /\ <<>> \in Seq(STRING)
  BY DEF RunnerOK
<1>1. CASE Prerequisites
  <2>1. AtStep("need") /\ procs' = procs /\ kept' = kept
    BY <1>1 DEF Prerequisites
  <2>2. Step.op = "need" /\ Step.how \notin {"note", "goon"}
    BY <2>1, AtStepUnder DEF IsStep, Endings
  <2>3. CASE job' = Advance(job)
    <3>1. Passes
      BY <1>0, <2>1, <2>2, <2>3, AdvancePasses DEF Passes, NotesKept, Notes
    <3>2. QED BY <3>1 DEF Kind
  <2>4. CASE job' = GiveUp(Step.how, <<>>)
    BY <2>1, <2>2, <2>4, GiveUpEnds DEF Kind
  <2>5. QED BY <1>1, <2>3, <2>4 DEF Prerequisites
<1>2. CASE run_command
  <2>1. PICK op \in {"command", "doomed"} : AtStep(op)
    BY <1>2 DEF run_command
  <2>2. procs' = procs /\ kept' = kept
    BY <1>2 DEF run_command
  <2>3. Step.op = op /\ Step.how # "goon"
    BY <2>1, AtStepUnder DEF IsStep, Endings
  <2>4. CASE job' = Advance(job)
    <3>1. Passes
      BY <1>0, <2>1, <2>2, <2>3, <2>4, AdvancePasses DEF Passes, NotesKept, Notes
    <3>2. QED BY <3>1 DEF Kind
  <2>5. CASE job' = Advance([job EXCEPT !.issue = TRUE])
    <3> DEFINE j == [job EXCEPT !.issue = TRUE]
    <3>1. /\ DOMAIN j = Fields /\ j.phase = job.phase /\ j.pc = job.pc /\ j.dpc = job.dpc
          /\ j.todo = job.todo /\ j.raised = job.raised /\ j.guarded = job.guarded
          /\ j.passed = job.passed /\ j.failed = job.failed
          /\ j.right = job.right /\ j.wrong = job.wrong
      BY <1>0 DEF Fields
    <3>2. job' = Advance(j)
      BY <2>5
    <3> HIDE DEF j
    <3>3. Passes
      BY <2>1, <2>2, <2>3, <3>1, <3>2, AdvancePasses DEF Passes, NotesKept, Notes
    <3>4. QED BY <3>3 DEF Kind
  <2>6. CASE Step.how # "note" /\ job' = GiveUp(Step.how, <<>>)
    BY <2>1, <2>2, <2>3, <2>6, GiveUpEnds DEF Kind
  <2>7. CASE job' = Throw(job, <<>>)
    BY <1>0, <2>1, <2>2, <2>7, ThrowRaises DEF Kind
  <2>8. QED BY <1>2, <2>4, <2>5, <2>6, <2>7 DEF run_command
<1>3. CASE EnterTry
  <2> DEFINE j == [job EXCEPT !.guarded = TRUE]
  <2>1. AtStep("try") /\ procs' = procs /\ kept' = kept /\ job' = Advance(j)
    BY <1>3 DEF EnterTry
  <2>2. /\ DOMAIN j = Fields /\ j.phase = job.phase /\ j.pc = job.pc /\ j.dpc = job.dpc
        /\ j.todo = job.todo /\ j.raised = job.raised /\ j.guarded = TRUE
        /\ j.passed = job.passed /\ j.failed = job.failed
        /\ j.right = job.right /\ j.wrong = job.wrong
    BY <1>0 DEF Fields
  <2> HIDE DEF j
  <2>3. Passes
    BY <2>1, <2>2, AdvancePasses DEF Passes, NotesKept, Notes
  <2>4. QED BY <2>3 DEF Kind
<1>4. CASE start_process
  <2>1. AtStep("spawn") /\ kept' = kept
    BY <1>4 DEF start_process
  <2>2. CASE job' = Advance(job) /\ procs' = procs \union {This(Step.proc)}
    <3>1. Passes
      BY <1>0, <2>1, <2>2, AdvancePasses DEF Passes, NotesKept, Notes
    <3>2. QED BY <3>1 DEF Kind
  <2>3. CASE job' = Throw(job, <<>>) /\ procs' = procs
    BY <1>0, <2>1, <2>3, ThrowRaises DEF Kind
  <2>4. QED BY <1>4, <2>2, <2>3 DEF start_process, This
<1>5. CASE stop_process
  <2>1. AtStep("stop") /\ kept' = kept /\ procs' = procs \ {This(Step.proc)}
    BY <1>5 DEF stop_process, Terminated, This
  <2>2. CASE job' = Advance(job)
    <3>1. Passes
      BY <1>0, <2>1, <2>2, AdvancePasses DEF Passes, NotesKept, Notes
    <3>2. QED BY <3>1 DEF Kind
  <2>3. CASE job' = Throw(job, <<>>)
    BY <1>0, <2>1, <2>3, ThrowRaises DEF Kind
  <2>4. QED BY <1>5, <2>2, <2>3 DEF stop_process
<1>6. CASE AwaitReady
  <2>1. AtStep("await") /\ kept' = kept /\ procs' \subseteq procs
    BY <1>6 DEF AwaitReady
  <2>2. Step.op = "await" /\ Step.how # "note" /\ Step.giveup \in Seq(STRING)
    BY <2>1, AtStepUnder DEF IsStep, Endings
  <2>3. CASE job' = Advance(job) /\ procs' = procs
    <3>1. Passes
      BY <1>0, <2>1, <2>2, <2>3, AdvancePasses DEF Passes, NotesKept, Notes
    <3>2. QED BY <3>1 DEF Kind
  <2>4. CASE ~Expired /\ job' = Probed /\ procs' = procs
    BY <2>1, <2>4, ProbedLingers DEF Kind
  <2>5. CASE Step.how # "goon" /\ job' = GiveUp(Step.how, Step.giveup)
    BY <2>1, <2>2, <2>5, GiveUpEnds DEF Kind
  <2>6. CASE job' = GiveUp("raise", Step.giveup)
    <3>1. job' = Throw(job, Step.giveup)
      BY <2>6 DEF GiveUp
    <3>2. QED BY <1>0, <2>1, <2>2, <3>1, ThrowRaises DEF Kind
  <2>7. QED BY <1>6, <2>3, <2>4, <2>5, <2>6 DEF AwaitReady
<1>7. QED BY <1>1, <1>2, <1>3, <1>4, <1>5, <1>6

\* What _record() notes of an answer, the step being done.
LEMMA RecordEffect ==
    ASSUME CertTypeOK, RunnerOK, NEW op \in {"check", "watch"}, AtStep(op),
           NEW S, NEW bad, NEW U, Record(S, bad, U)
    PROVE  /\ Under /\ job'.phase = "run" /\ job'.pc = job.pc + 1
           /\ job'.waited = 0 /\ job'.dpc = job.dpc /\ job'.todo = job.todo /\ ~job'.raised
           /\ job'.guarded <=> job.guarded \/ Step.op = "try"
           /\ Step.op = op
           /\ job'.passed = job.passed \union (S \ bad)
           /\ job'.failed = job.failed \union bad
           /\ job'.right = job.right \union (S \ U)
           /\ job'.wrong = job.wrong \union U
           /\ kept' = kept \union (fixture.keeps \intersect (S \ U))
<1> DEFINE j == [job EXCEPT !.passed = @ \union (S \ bad), !.failed = @ \union bad,
                            !.right = @ \union (S \ U), !.wrong = @ \union U]
<1>1. /\ DOMAIN j = Fields /\ j.phase = job.phase /\ j.pc = job.pc /\ j.dpc = job.dpc
      /\ j.todo = job.todo /\ j.raised = job.raised /\ j.guarded = job.guarded
      /\ j.passed = job.passed \union (S \ bad) /\ j.failed = job.failed \union bad
      /\ j.right = job.right \union (S \ U) /\ j.wrong = job.wrong \union U
  BY DEF RunnerOK, Fields
<1>2. job' = Advance(j) /\ kept' = kept \union (fixture.keeps \intersect (S \ U))
  BY DEF Record
<1> HIDE DEF j
<1>3. QED BY <1>1, <1>2, AdvancePasses

\* Every answer is right in all but some surfaces, and what fails is wrong, but for
\* what the files of an earlier run show.
LEMMA RecordedIsRecord ==
    ASSUME NEW S, Recorded(S)
    PROVE  \E U \in SUBSET S : \E bad \in {U, U \ kept} : Record(S, bad, U)
<1>1. CASE Record(S, {}, {})
  BY <1>1
<1>2. CASE \E U \in Wrongs(S) : \E bad \in Shown(U) : Record(S, bad, U)
  BY <1>2 DEF Wrongs, Shown
<1>3. QED BY <1>1, <1>2 DEF Recorded

\* What a step that notes an answer writes down, unless it takes longer or raises.
LEMMA NotingEffect ==
    ASSUME CertTypeOK, RunnerOK, CheckAnswer \/ WatchSurfaces
    PROVE  /\ Notes(Step) /\ procs' = procs
           /\ \/ Lingers /\ NotesKept
              \/ Raises
              \/ Passes /\ \E U \in SUBSET Step.surfaces : \E bad \in {U, U \ kept} :
                              Record(Step.surfaces, bad, U)
<1>0. DOMAIN job = Fields /\ <<>> \in Seq(STRING)
  BY DEF RunnerOK
<1>1. PICK op \in {"check", "watch"} : AtStep(op)
  BY DEF CheckAnswer, WatchSurfaces
<1>2. Notes(Step) /\ procs' = procs /\ Step.op = op
  BY <1>1, AtStepUnder DEF Notes, CheckAnswer, WatchSurfaces
<1>3. ASSUME NEW U, NEW bad, Record(Step.surfaces, bad, U)
      PROVE  Passes
  <2>1. /\ Under /\ job'.phase = "run" /\ job'.pc = job.pc + 1
        /\ job'.waited = 0 /\ job'.dpc = job.dpc /\ job'.todo = job.todo /\ ~job'.raised
        /\ job'.guarded <=> job.guarded \/ Step.op = "try"
    BY <1>1, <1>3, RecordEffect
  <2>2. QED BY <1>2, <2>1 DEF Passes
<1>4. CASE Recorded(Step.surfaces)
  BY <1>2, <1>3, <1>4, RecordedIsRecord
<1>5. CASE Record(Step.surfaces, {}, {})
  BY <1>2, <1>3, <1>5
<1>6. CASE job' = Throw(job, <<>>) /\ kept' = kept
  BY <1>0, <1>1, <1>2, <1>6, ThrowRaises
<1>7. CASE ~Expired /\ job' = Probed /\ kept' = kept
  <2>1. Lingers
    BY <1>1, <1>2, <1>7, ProbedLingers
  <2>2. NotesKept
    BY <1>7, ProbedInTime DEF NotesKept
  <2>3. QED BY <1>2, <2>1, <2>2
<1>8. QED BY <1>4, <1>5, <1>6, <1>7 DEF CheckAnswer, WatchSurfaces

\* What a fallback takes back.
LEMMA FallbackEffect ==
    ASSUME CertTypeOK, RunnerOK, FallbackDetected
    PROVE  /\ Passes /\ Step.op = "fallback" /\ kept' = kept /\ procs' = procs
           /\ \/ NotesKept
              \/ /\ job'.failed = job.failed \union Step.surfaces
                 /\ job'.passed = job.passed \ Step.surfaces
                 /\ job'.wrong = job.wrong \union Step.surfaces
                 /\ job'.right = job.right \ Step.surfaces
<1>1. AtStep("fallback") /\ kept' = kept /\ procs' = procs /\ DOMAIN job = Fields
  BY DEF FallbackDetected, RunnerOK
<1>2. Step.op = "fallback"
  BY <1>1, AtStepUnder
<1>3. CASE job' = Advance(job)
  BY <1>1, <1>2, <1>3, AdvancePasses DEF Passes, NotesKept
<1> DEFINE j == [job EXCEPT !.failed = @ \union Step.surfaces, !.passed = @ \ Step.surfaces,
                            !.wrong = @ \union Step.surfaces, !.right = @ \ Step.surfaces]
<1>4. /\ DOMAIN j = Fields /\ j.phase = job.phase /\ j.pc = job.pc /\ j.dpc = job.dpc
      /\ j.todo = job.todo /\ j.raised = job.raised /\ j.guarded = job.guarded
      /\ j.failed = job.failed \union Step.surfaces /\ j.passed = job.passed \ Step.surfaces
      /\ j.wrong = job.wrong \union Step.surfaces /\ j.right = job.right \ Step.surfaces
  BY <1>1 DEF Fields
<1>5. job' = Advance(job) \/ job' = Advance(j)
  BY DEF FallbackDetected
<1> HIDE DEF j
<1>6. CASE job' = Advance(j)
  BY <1>1, <1>2, <1>4, <1>6, AdvancePasses DEF Passes
<1>7. QED BY <1>3, <1>5, <1>6

\* The answers of a step, or of the driver, decide surfaces of the fixture.
LEMMA DecidedParts ==
    ASSUME NEW f
    PROVE  /\ \A k \in DOMAIN f.script : Notes(f.script[k]) \/ f.script[k].op = "fallback" =>
                 f.script[k].surfaces \subseteq Decided(f)
           /\ \A i \in 1..Len(f.driver.checks) : f.driver.checks[i] \subseteq Decided(f)
<1> DEFINE K == {k \in DOMAIN f.script : Notes(f.script[k]) \/ f.script[k].op = "fallback"}
           A == {f.script[k].surfaces : k \in K}
           B == {f.driver.checks[i] : i \in 1..Len(f.driver.checks)}
<1>1. Decided(f) = (UNION A) \union (UNION B)
  BY DEF Decided
<1>2. \A k \in K : f.script[k].surfaces \in A
  OBVIOUS
<1>3. \A i \in 1..Len(f.driver.checks) : f.driver.checks[i] \in B
  OBVIOUS
<1> HIDE DEF A, B
<1>4. ASSUME NEW X, X \in A \/ X \in B, NEW surface \in X
      PROVE  surface \in Decided(f)
  <2>1. surface \in UNION A \/ surface \in UNION B
    BY <1>4, Zenon
  <2>2. QED BY <1>1, <2>1
<1>5. QED BY <1>2, <1>3, <1>4

\* What the driver asks decides surfaces of the fixture.
LEMMA AskedIsDecided ==
    ASSUME CertTypeOK, RunnerOK, InDriver
    PROVE  Asked \subseteq Decided(fixture)
<1>1. job.dpc \in 1..Len(fixture.driver.checks)
  BY FixtureFacts DEF InDriver, RunnerOK, IsScript
<1>2. QED BY <1>1, DecidedParts DEF Asked

\* What the driver's steps note.
LEMMA DriverEffect ==
    ASSUME CertTypeOK, RunnerOK, DriverAsks \/ DriverDies \/ DriverEnds
    PROVE  /\ Step.op = "drive" /\ procs' = procs /\ kept' = kept
           /\ \/ Lingers /\ job'.passed = job.passed /\ job'.failed = job.failed
                         /\ job'.wrong \subseteq job.wrong \union Decided(fixture)
                         /\ job.right \subseteq job'.right
              \/ Raises
              \/ Passes /\ job'.passed = job.passed /\ job'.failed = fixture.surfaces
                        /\ ~fixture.driver.inside
                        /\ job'.wrong \subseteq job.wrong \union Decided(fixture)
                        /\ job'.right = job.right
              \/ Passes /\ job'.passed = job.right \ job.wrong /\ job'.failed = job.wrong
                        /\ job'.wrong = job.wrong /\ job'.right = job.right
<1>0. DOMAIN job = Fields /\ <<>> \in Seq(STRING)
  BY DEF RunnerOK
<1>1. AtStep("drive") /\ procs' = procs /\ kept' = kept
  BY DEF DriverAsks, DriverDies, DriverEnds, InDriver
<1>2. Step.op = "drive" /\ job.phase = "run" /\ job.pc \in 1..Len(Script) /\ ~job.raised
  BY <1>1, AtStepUnder
<1>3. CASE DriverAsks
  <2>1. Asked \subseteq Decided(fixture)
    BY <1>3, AskedIsDecided DEF DriverAsks
  <2>2. job.waited \in 0..MaxProbes /\ job.dpc + 1 \in Nat \ {0}
    BY DEF CertTypeOK, RunnerOK
  <2>3. /\ DOMAIN job' = Fields /\ job'.phase = "run" /\ job'.pc = job.pc
        /\ job'.waited = job.waited /\ job'.dpc = job.dpc + 1
        /\ job'.todo = job.todo /\ job'.raised = job.raised /\ job'.guarded = job.guarded
        /\ job'.passed = job.passed /\ job'.failed = job.failed
        /\ job'.wrong \subseteq job.wrong \union Asked /\ job.right \subseteq job'.right
    <3>1. CASE job' = [job EXCEPT !.dpc = @ + 1, !.right = @ \union Asked]
      BY <1>0, <1>2, <3>1 DEF Fields
    <3>2. CASE job' = [job EXCEPT !.dpc = @ + 1, !.wrong = @ \union Asked]
      BY <1>0, <1>2, <3>2 DEF Fields
    <3>3. QED BY <1>3, <3>1, <3>2 DEF DriverAsks
  <2>4. Lingers
    BY <1>1, <1>2, <1>3, <2>2, <2>3 DEF Lingers, Under
  <2>5. QED BY <1>1, <1>2, <2>1, <2>3, <2>4
<1>4. CASE DriverDies
  <2> DEFINE j == [job EXCEPT !.failed = fixture.surfaces, !.wrong = @ \union Asked]
  <2>1. Asked \subseteq Decided(fixture)
    BY <1>4, AskedIsDecided DEF DriverDies
  <2>2. /\ DOMAIN j = Fields /\ j.phase = job.phase /\ j.pc = job.pc /\ j.dpc = job.dpc
        /\ j.todo = job.todo /\ j.raised = job.raised /\ j.guarded = job.guarded
        /\ j.passed = job.passed /\ j.failed = fixture.surfaces
        /\ j.wrong = job.wrong \union Asked /\ j.right = job.right
    BY <1>0 DEF Fields
  <2>3. (job' = Advance(j) /\ ~fixture.driver.inside) \/ job' = Throw(job, <<>>)
    BY <1>4 DEF DriverDies
  <2> HIDE DEF j
  <2>4. CASE job' = Throw(job, <<>>)
    BY <1>0, <1>1, <1>2, <2>4, ThrowRaises
  <2>5. CASE job' = Advance(j) /\ ~fixture.driver.inside
    <3>1. /\ Under /\ job'.phase = "run" /\ job'.pc = job.pc + 1
          /\ job'.waited = 0 /\ job'.dpc = job.dpc /\ job'.todo = job.todo /\ ~job'.raised
          /\ job'.guarded <=> job.guarded \/ Step.op = "try"
          /\ job'.passed = j.passed /\ job'.failed = j.failed
          /\ job'.right = j.right /\ job'.wrong = j.wrong
      BY <1>1, <2>2, <2>5, AdvancePasses
    <3>2. Passes
      BY <1>1, <1>2, <1>4, <3>1 DEF Passes
    <3>3. QED BY <1>1, <1>2, <2>1, <2>2, <2>5, <3>1, <3>2
  <2>6. QED BY <2>3, <2>4, <2>5
<1>5. CASE DriverEnds
  <2> DEFINE j == [job EXCEPT !.passed = job.right \ job.wrong, !.failed = job.wrong]
  <2>1. /\ DOMAIN j = Fields /\ j.phase = job.phase /\ j.pc = job.pc /\ j.dpc = job.dpc
        /\ j.todo = job.todo /\ j.raised = job.raised /\ j.guarded = job.guarded
        /\ j.passed = job.right \ job.wrong /\ j.failed = job.wrong
        /\ j.wrong = job.wrong /\ j.right = job.right
    BY <1>0 DEF Fields
  <2>2. job' = Advance(j)
    BY <1>5 DEF DriverEnds
  <2> HIDE DEF j
  <2>3. /\ Under /\ job'.phase = "run" /\ job'.pc = job.pc + 1
        /\ job'.waited = 0 /\ job'.dpc = job.dpc /\ job'.todo = job.todo /\ ~job'.raised
        /\ job'.guarded <=> job.guarded \/ Step.op = "try"
        /\ job'.passed = j.passed /\ job'.failed = j.failed
        /\ job'.right = j.right /\ job'.wrong = j.wrong
    BY <1>1, <2>1, <2>2, AdvancePasses
  <2>4. Passes
    BY <1>1, <1>2, <1>5, <2>3 DEF Passes
  <2>5. QED BY <1>1, <1>2, <2>1, <2>3, <2>4
<1>6. QED BY <1>3, <1>4, <1>5

\* Every step of a script is one of the kinds, and charges its failure.
LEMMA WorkKinds ==
    ASSUME CertTypeOK, RunnerOK, Work
    PROVE  /\ Kind \/ Settle \/ UnwindOne \/ WriteReport
           /\ faults' \in 0..MaxFaults
           /\ Still \/ WriteReport
<1>1. faults' \in 0..MaxFaults
  <2>1. Charge(TRUE) \/ Charge(FALSE) \/ Charge(AtStep("command"))
    BY DEF Work, Prerequisites, run_command, EnterTry, start_process, stop_process, AwaitReady,
           CheckAnswer, WatchSurfaces, Recorded, FallbackDetected, DriverAsks, DriverDies,
           DriverEnds, Settle, UnwindOne, WriteReport
  <2>2. AtStep("command") \in BOOLEAN
    BY DEF AtStep
  <2>3. QED BY <2>1, <2>2, ChargeCounts
<1>2. Still \/ WriteReport
  BY DEF Work, Prerequisites, run_command, EnterTry, start_process, stop_process, AwaitReady,
         CheckAnswer, WatchSurfaces, FallbackDetected, DriverAsks, DriverDies, DriverEnds,
         Settle, UnwindOne
<1>3. CASE Prerequisites \/ run_command \/ EnterTry \/ start_process \/ stop_process \/ AwaitReady
  BY <1>1, <1>2, <1>3, PlainKind
<1>4. CASE CheckAnswer \/ WatchSurfaces
  BY <1>1, <1>2, <1>4, NotingEffect DEF Kind
<1>5. CASE FallbackDetected
  BY <1>1, <1>2, <1>5, FallbackEffect DEF Kind
<1>6. CASE DriverAsks \/ DriverDies \/ DriverEnds
  BY <1>1, <1>2, <1>6, DriverEffect DEF Kind
<1>7. QED BY <1>1, <1>2, <1>3, <1>4, <1>5, <1>6 DEF Work

-----------------------------------------------------------------------------
(* Types, and the shape of the runner's state.                             *)

\* A `try` is behind a step if it was before, or is the step passed.
LEMMA GuardedGrows ==
    ASSUME NEW script, NEW k \in Nat \ {0}
    PROVE  Guarded(script, k + 1) <=> Guarded(script, k) \/ script[k].op = "try"
BY DEF Guarded

\* Only answers that are noted are kept for later runs.
LEMMA KeptGrows ==
    ASSUME CertTypeOK, RunnerOK, Kind
    PROVE  kept' \subseteq fixture.keeps
<1>1. kept \subseteq fixture.keeps
  BY DEF CertTypeOK
<1>2. CASE kept' = kept
  BY <1>1, <1>2
<1>3. CASE CheckAnswer \/ WatchSurfaces
  <2>1. CASE kept' = kept
    BY <1>1, <2>1
  <2>2. CASE \E U, bad : Record(Step.surfaces, bad, U)
    BY <1>1, <2>2 DEF Record
  <2>3. QED BY <1>3, <2>1, <2>2, NotingEffect DEF Lingers, Raises, NotesKept
<1>4. QED BY <1>2, <1>3, FallbackEffect, DriverEffect
          DEF Kind, Passes, Lingers, Raises, EndsRun, NotesKept

\* Each kind of step keeps the types.
LEMMA KindKeepsTypes ==
    ASSUME CertTypeOK, RunnerOK, Kind, Still, faults' \in 0..MaxFaults
    PROVE  CertTypeOK' /\ RunnerOK'
<1>1. /\ fixture' = fixture /\ runs' = runs /\ clone' = clone /\ report' = report
      /\ Script' = Script
  BY DEF Still, Script
<1>2. Under /\ job.phase = "run" /\ job.pc \in 1..Len(Script) /\ DOMAIN job' = Fields
      /\ runs >= 1 /\ runs \in Nat
  BY CertBounds DEF Kind, Passes, Lingers, Raises, EndsRun, Under, RunnerOK, CertTypeOK
<1>3. IsStep(Step) /\ Step = Script[job.pc] /\ Len(Script) \in Nat
  BY <1>2, FixtureFacts DEF IsScript, Step, Script
<1>4. procs' \subseteq [run : Nat, name : STRING] /\ \A p \in procs' : p.run \in 1..runs
  <2>1. procs \subseteq [run : Nat, name : STRING] /\ \A p \in procs : p.run \in 1..runs
    BY DEF RunnerOK, CertTypeOK
  <2>2. CASE procs' \subseteq procs
    BY <2>1, <2>2
  <2>3. CASE Step.op = "spawn" /\ procs' = procs \union {This(Step.proc)}
    <3>1. Step.proc \in STRING
      BY <1>3, <2>3 DEF IsStep
    <3>2. This(Step.proc) \in [run : Nat, name : STRING] /\ This(Step.proc).run = runs
      BY <1>2, <3>1 DEF This
    <3>3. QED BY <1>2, <2>1, <2>3, <3>2
  <2>4. QED BY <2>2, <2>3 DEF Kind, Passes, Lingers, Raises, EndsRun
<1>5. /\ job'.phase \in {"run", "unwind"} /\ job'.waited \in 0..MaxProbes
      /\ job'.dpc \in Nat \ {0} /\ job'.todo \in Seq(STRING)
      /\ job'.phase = "run" => /\ job'.pc \in 1..(Len(Script) + 1)
                               /\ job'.guarded <=> Guarded(Script, job'.pc)
                               /\ ~job'.raised
      /\ job'.phase = "unwind" /\ ~job'.raised => job'.result \in Results
  <2>0. /\ job.waited \in 0..MaxProbes /\ job.dpc \in Nat \ {0} /\ job.todo \in Seq(STRING)
        /\ job.guarded <=> Guarded(Script, job.pc)
        /\ 0 \in 0..MaxProbes /\ job.pc \in Nat \ {0}
    BY <1>2, <1>3, CertBounds DEF RunnerOK, CertTypeOK
  <2>1. CASE Passes
    <3>1. Guarded(Script, job.pc + 1) <=> Guarded(Script, job.pc) \/ Step.op = "try"
      BY <1>3, <2>0, GuardedGrows
    <3>2. job.pc + 1 \in 1..(Len(Script) + 1)
      BY <1>2, <1>3
    <3>3. QED BY <2>0, <2>1, <3>1, <3>2 DEF Passes
  <2>2. CASE Lingers
    <3>1. job.pc \in 1..(Len(Script) + 1)
      BY <1>2, <1>3
    <3>2. QED BY <2>0, <2>2, <3>1 DEF Lingers
  <2>3. CASE Raises
    BY <2>0, <2>3 DEF Raises
  <2>4. ASSUME NEW how \in Endings, EndsRun(how)
        PROVE  /\ job'.phase = "unwind" /\ job'.waited = job.waited /\ job'.dpc = job.dpc
               /\ job'.todo \in Seq(STRING) /\ job'.result \in Results
    <3> DEFINE stops == IF Step.op = "await" THEN Step.giveup ELSE <<>>
    <3>1. stops \in Seq(STRING)
      <4>1. <<>> \in Seq(STRING)
        OBVIOUS
      <4>2. QED BY <1>3, <4>1 DEF IsStep
    <3>2. job' = GiveUp(how, stops)
      BY <2>4 DEF EndsRun
    <3> HIDE DEF stops
    <3>3. stops \o Cleanup \in Seq(STRING)
      BY <3>1, CleanupIsList
    <3> DEFINE g == GiveUp(how, stops)
    <3>4. g.phase = "unwind" /\ g.waited = job.waited
      BY GiveUpEffect
    <3>5. g.dpc = job.dpc /\ g.todo = stops \o Cleanup
      BY DEF GiveUp, Endings, RunnerOK, Fields
    <3>6. g.result = (IF how = "fail" THEN "failed" ELSE how)
      BY GiveUpEffect
    <3> HIDE DEF g
    <3>7. job' = g
      BY <3>2 DEF g
    <3>8. g.result \in Results
      BY <2>4, <3>6 DEF Endings, Results
    <3>9. QED BY <3>3, <3>4, <3>5, <3>7, <3>8
  <2>5. QED BY <2>0, <2>1, <2>2, <2>3, <2>4 DEF Kind
<1>6. CertTypeOK'
  BY <1>1, <1>4, <1>5, KeptGrows DEF CertTypeOK
<1>7. RunnerOK'
  BY <1>1, <1>2, <1>4, <1>5 DEF RunnerOK
<1>8. QED BY <1>6, <1>7

\* The verdict, and what it makes of the runner's state.
LEMMA SettleEffect ==
    ASSUME CertTypeOK, RunnerOK, Settle
    PROVE  /\ DOMAIN job' = Fields /\ job'.phase = "unwind" /\ job'.todo = Cleanup
           /\ job'.waited = job.waited /\ job'.dpc = job.dpc /\ ~job'.raised
           /\ job'.result = Verdict /\ job'.passed = NowPassed /\ job'.missing = NowMissing
           /\ job'.failed = job.failed /\ job'.right = job.right /\ job'.wrong = job.wrong
           /\ job.phase = "run" /\ job.pc = Len(Script) + 1 /\ Len(Script) \in Nat
           /\ procs' = procs /\ kept' = kept
<1>1. Len(Script) \in Nat
  BY FixtureFacts DEF IsScript, Script
<1>2. job.phase = "run" /\ job.pc > Len(Script) /\ job.pc \in 1..(Len(Script) + 1) /\ ~job.raised
  BY DEF Settle, RunnerOK, Script
<1>3. job.pc = Len(Script) + 1
  BY <1>1, <1>2
<1>4. QED BY <1>1, <1>2, <1>3 DEF Settle, RunnerOK, Fields

\* What ends the program at the head of the list leaves in the runner's state.
LEMMA UnwindEffect ==
    ASSUME CertTypeOK, RunnerOK, UnwindOne
    PROVE  /\ DOMAIN job' = Fields /\ job.phase = "unwind" /\ job'.phase = "unwind"
           /\ job'.waited = job.waited /\ job'.dpc = job.dpc /\ job'.result = job.result
           /\ job'.passed = job.passed /\ job'.failed = job.failed /\ job'.missing = job.missing
           /\ job'.right = job.right /\ job'.wrong = job.wrong
           /\ job.todo # <<>> /\ job.todo \in Seq(STRING) /\ job'.todo \in Seq(STRING)
           /\ \/ job'.todo = Tail(job.todo) /\ job'.raised = job.raised
              \/ job'.todo = <<>> /\ job'.raised
           /\ procs' = procs \ {This(Head(job.todo))} /\ kept' = kept
<1>1. job.phase = "unwind" /\ job.todo # <<>> /\ job.todo \in Seq(STRING) /\ DOMAIN job = Fields
  BY DEF UnwindOne, RunnerOK
<1>2. <<>> \in Seq(STRING) /\ Tail(job.todo) \in Seq(STRING)
  <2>1. <<>> \in Seq(STRING)
    OBVIOUS
  <2>2. Tail(job.todo) \in Seq(STRING)
    BY <1>1, HeadTailProperties, Zenon
  <2>3. QED BY <2>1, <2>2
<1>3. procs' = procs \ {This(Head(job.todo))} /\ kept' = kept
  BY DEF UnwindOne, Terminated, This
<1>4. CASE job' = [job EXCEPT !.todo = Tail(@)]
  BY <1>1, <1>2, <1>3, <1>4 DEF Fields
<1>5. CASE job' = [job EXCEPT !.todo = <<>>, !.raised = TRUE]
  BY <1>1, <1>2, <1>3, <1>5 DEF Fields
<1>6. QED BY <1>4, <1>5 DEF UnwindOne

\* A runner that has nothing under way.
LEMMA BaseReportOK ==
    /\ DOMAIN BaseReport = Fields /\ BaseReport.phase = "idle" /\ BaseReport.pc = 1
    /\ BaseReport.dpc = 1 /\ BaseReport.waited = 0 /\ BaseReport.guarded = FALSE
    /\ BaseReport.raised = FALSE /\ BaseReport.todo = <<>> /\ BaseReport.todo \in Seq(STRING)
    /\ BaseReport.passed = {} /\ BaseReport.failed = {} /\ BaseReport.right = {}
    /\ BaseReport.wrong = {}
BY DEF BaseReport, Fields

\* What a run begins with.
LEMMA BeginEffect ==
    ASSUME CertTypeOK, RunnerOK, Begin
    PROVE  /\ DOMAIN job' = Fields /\ job.phase = "idle" /\ job'.phase \in {"idle", "run"}
           /\ job'.pc = 1 /\ job'.dpc = 1 /\ job'.waited = 0 /\ job'.guarded = FALSE
           /\ job'.raised = FALSE /\ job'.todo = <<>>
           /\ job'.passed = {} /\ job'.failed = {} /\ job'.right = {} /\ job'.wrong = {}
           /\ runs < MaxRuns /\ runs' = runs + 1 /\ faults' \in 0..MaxFaults
           /\ clone' \in {"none", "unpinned", "pinned"}
           /\ fixture' = fixture /\ kept' = kept /\ procs' = procs /\ report' = report
<1>1. PICK mode \in Modes, outcome \in {"ok", "no clone", "no checkout"} :
         run_fixture(mode, outcome)
  BY DEF Begin
<1>2. faults' \in 0..MaxFaults
  BY <1>1, ChargeCounts DEF run_fixture
<1>3. clone' \in {"none", "unpinned", "pinned"}
  BY <1>1 DEF run_fixture, Cloned, CertTypeOK
<1>4. job' = BaseReport \/ job' = [BaseReport EXCEPT !.phase = "run"]
  BY <1>1 DEF run_fixture
<1>5. CASE job' = BaseReport
  BY <1>1, <1>2, <1>3, <1>5, BaseReportOK DEF run_fixture
<1>6. CASE job' = [BaseReport EXCEPT !.phase = "run"]
  <2>1. /\ DOMAIN job' = Fields /\ job'.phase = "run" /\ job'.pc = 1 /\ job'.dpc = 1
        /\ job'.waited = 0 /\ job'.guarded = FALSE /\ job'.raised = FALSE /\ job'.todo = <<>>
        /\ job'.passed = {} /\ job'.failed = {} /\ job'.right = {} /\ job'.wrong = {}
    BY <1>6 DEF BaseReport, Fields
  <2>2. QED BY <1>1, <1>2, <1>3, <2>1 DEF run_fixture
<1>7. QED BY <1>4, <1>5, <1>6

\* Each step keeps the types.
LEMMA StepKeepsTypes ==
    ASSUME CertTypeOK, RunnerOK, [Next]_vars
    PROVE  CertTypeOK' /\ RunnerOK'
<1>0. /\ runs \in Nat /\ MaxRuns \in Nat /\ 0 \in 0..MaxProbes
      /\ 1 \in Nat \ {0} /\ <<>> \in Seq(STRING)
  BY CertBounds DEF CertTypeOK
<1>1. CASE Begin
  <2>1. Len(Script) \in Nat
    BY FixtureFacts DEF IsScript, Script
  <2>2. 1 \in 1..(Len(Script) + 1) /\ ~Guarded(Script, 1)
    BY <2>1 DEF Guarded
  <2>3. runs + 1 \in 0..MaxRuns /\ runs + 1 >= 1 /\ \A k \in 1..runs : k \in 1..(runs + 1)
    BY <1>0, <1>1, BeginEffect
  <2>4. CertTypeOK'
    BY <1>0, <1>1, <2>3, BeginEffect DEF CertTypeOK
  <2>5. Script' = Script
    BY <1>1, BeginEffect DEF Script
  <2>6. RunnerOK'
    BY <1>0, <1>1, <2>2, <2>3, <2>5, BeginEffect DEF RunnerOK
  <2>7. QED BY <2>4, <2>6
<1>2. CASE Work /\ Kind /\ Still
  BY <1>2, WorkKinds, KindKeepsTypes
<1>3. CASE Work /\ Settle
  <2>1. faults' \in 0..MaxFaults /\ Still
    BY <1>3, WorkKinds DEF Settle
  <2>2. Verdict \in Results
    BY DEF Verdict, Results
  <2>3. Cleanup \in Seq(STRING)
    BY CleanupIsList
  <2>4. CertTypeOK'
    BY <1>3, <2>1, SettleEffect DEF CertTypeOK, Still
  <2>5. RunnerOK'
    BY <1>3, <2>1, <2>2, <2>3, SettleEffect DEF RunnerOK, Still
  <2>6. QED BY <2>4, <2>5
<1>4. CASE Work /\ UnwindOne
  <2>1. faults' \in 0..MaxFaults /\ Still
    BY <1>4, WorkKinds DEF UnwindOne
  <2>2. CertTypeOK'
    BY <1>4, <2>1, UnwindEffect DEF CertTypeOK, Still
  <2>3. RunnerOK'
    BY <1>4, <2>1, UnwindEffect DEF RunnerOK, Still
  <2>4. QED BY <2>2, <2>3
<1>5. CASE Work /\ WriteReport
  <2>1. faults' \in 0..MaxFaults
    BY <1>5, WorkKinds
  <2>2. /\ job.phase = "unwind" /\ job' = BaseReport /\ fixture' = fixture /\ runs' = runs
        /\ clone' = clone /\ kept' = kept /\ procs' = procs
    BY <1>5 DEF WriteReport
  <2>3. report' # None => report'.result \in Results
    <3>1. CASE job.raised
      BY <1>5, <3>1 DEF WriteReport, CertTypeOK
    <3>2. CASE ~job.raised
      <4>1. report'.result = job.result
        BY <1>5, <3>2 DEF WriteReport
      <4>2. QED BY <2>2, <3>2, <4>1 DEF RunnerOK
    <3>3. QED BY <3>1, <3>2
  <2>4. CertTypeOK'
    BY <1>0, <2>1, <2>2, <2>3, BaseReportOK DEF CertTypeOK
  <2>5. RunnerOK'
    BY <1>0, <2>2, BaseReportOK DEF RunnerOK
  <2>6. QED BY <2>4, <2>5
<1>6. CASE UNCHANGED vars
  BY <1>6 DEF vars, CertTypeOK, RunnerOK, Script
<1>7. Work => (Kind \/ Settle \/ UnwindOne \/ WriteReport) /\ (Still \/ WriteReport)
  BY WorkKinds
<1>8. QED BY <1>1, <1>2, <1>3, <1>4, <1>5, <1>6, <1>7 DEF Next, Done

\* The types hold at the start.
LEMMA InitTypes == Init => CertTypeOK /\ RunnerOK
<1> SUFFICES ASSUME Init PROVE CertTypeOK /\ RunnerOK
  OBVIOUS
<1>1. {MaxRuns, MaxFaults, MaxProbes} \subseteq Nat
  BY CertBounds
<1>2. CertTypeOK
  BY <1>1, BaseReportOK DEF Init, CertTypeOK
<1>3. RunnerOK
  BY BaseReportOK DEF Init, RunnerOK
<1>4. QED BY <1>2, <1>3

\* The variables keep their types, whatever the servers and programs do: a wait stays
\* within its deadline, and a report carries one of the five results.
THEOREM CertTypeCorrect == Spec => []CertTypeOK
<1>1. Init => CertTypeOK /\ RunnerOK
  BY InitTypes
<1>2. (CertTypeOK /\ RunnerOK) /\ [Next]_vars => (CertTypeOK /\ RunnerOK)'
  BY StepKeepsTypes
<1>3. QED BY <1>1, <1>2, PTL DEF Spec

-----------------------------------------------------------------------------
(* The programs a run leaves.                                              *)

\* What two lists name, their concatenation names.
LEMMA NamedConcat ==
    ASSUME NEW a \in Seq(STRING), NEW b \in Seq(STRING)
    PROVE  Named(a) \union Named(b) \subseteq Named(a \o b)
<1>1. /\ DOMAIN (a \o b) = 1..(Len(a) + Len(b)) /\ DOMAIN a = 1..Len(a) /\ DOMAIN b = 1..Len(b)
      /\ Len(a) \in Nat /\ Len(b) \in Nat
      /\ \A i \in 1..Len(a) : (a \o b)[i] = a[i]
      /\ \A i \in 1..Len(b) : (a \o b)[Len(a) + i] = b[i]
  OBVIOUS
<1>2. ASSUME NEW i \in DOMAIN a PROVE a[i] \in Named(a \o b)
  <2>1. i \in DOMAIN (a \o b) /\ (a \o b)[i] = a[i]
    BY <1>1
  <2>2. QED BY <2>1 DEF Named
<1>3. ASSUME NEW i \in DOMAIN b PROVE b[i] \in Named(a \o b)
  <2>1. Len(a) + i \in DOMAIN (a \o b) /\ (a \o b)[Len(a) + i] = b[i]
    BY <1>1
  <2>2. QED BY <2>1 DEF Named
<1>4. QED BY <1>2, <1>3 DEF Named

\* All that a list names but its head, its tail names.
LEMMA NamedTail ==
    ASSUME NEW q \in Seq(STRING), q # <<>>
    PROVE  Named(q) \subseteq {Head(q)} \union Named(Tail(q))
<1>1. /\ Len(Tail(q)) = Len(q) - 1 /\ Tail(q) \in Seq(STRING)
      /\ \A i \in 1..Len(Tail(q)) : Tail(q)[i] = q[i + 1]
  BY HeadTailProperties
<1>2. DOMAIN q = 1..Len(q) /\ DOMAIN Tail(q) = 1..Len(Tail(q)) /\ Len(q) \in Nat /\ Head(q) = q[1]
  BY <1>1
<1>3. ASSUME NEW i \in DOMAIN q PROVE q[i] \in {Head(q)} \union Named(Tail(q))
  <2>1. CASE i = 1
    BY <1>2, <2>1
  <2>2. CASE i # 1
    <3>1. i - 1 \in DOMAIN Tail(q) /\ Tail(q)[i - 1] = q[i]
      BY <1>1, <1>2, <2>2
    <3>2. QED BY <3>1 DEF Named
  <2>3. QED BY <2>1, <2>2
<1>4. QED BY <1>3 DEF Named

\* The `finally` stops what it names once the `try` is entered.
LEMMA CleanupNames ==
    ASSUME CertTypeOK, RunnerOK, job.phase = "run"
    PROVE  Finally(fixture, job.pc) \subseteq Named(Cleanup)
BY DEF RunnerOK, Finally, Cleanup, Script

\* What runs after a step is what ran before it, with what it starts, less what it stops.
LEMMA RunningGrows ==
    ASSUME NEW script, NEW k \in Nat \ {0}, NEW p,
           \/ p \in Running(script, k) /\ (script[k].op = "stop" => script[k].proc # p)
           \/ script[k].op = "spawn" /\ script[k].proc = p
    PROVE  p \in Running(script, k + 1)
<1>1. CASE p \in Running(script, k) /\ (script[k].op = "stop" => script[k].proc # p)
  <2>1. PICK i \in 1..(k - 1) :
           /\ p = script[i].proc /\ script[i].op = "spawn"
           /\ \A j \in (i + 1)..(k - 1) : script[j].op = "stop" => script[j].proc # script[i].proc
    BY <1>1 DEF Running
  <2>2. i \in 1..((k + 1) - 1)
    OBVIOUS
  <2>3. \A j \in (i + 1)..((k + 1) - 1) :
           script[j].op = "stop" => script[j].proc # script[i].proc
    <3>1. \A j \in (i + 1)..((k + 1) - 1) : j \in (i + 1)..(k - 1) \/ j = k
      OBVIOUS
    <3>2. QED BY <1>1, <2>1, <3>1
  <2>4. QED BY <2>1, <2>2, <2>3 DEF Running
<1>2. CASE script[k].op = "spawn" /\ script[k].proc = p
  <2>1. k \in 1..((k + 1) - 1) /\ (k + 1)..((k + 1) - 1) = {}
    OBVIOUS
  <2>2. QED BY <1>2, <2>1 DEF Running
<1>3. QED BY <1>1, <1>2

\* A step of a script leaves no program that the runner does not know how to stop.
LEMMA KindKnowsPrograms ==
    ASSUME CertTypeOK, RunnerOK, ProgramsKnown, ReportedIsGone, Kind, Still
    PROVE  ProgramsKnown' /\ ReportedIsGone'
<1>1. /\ fixture' = fixture /\ runs' = runs /\ report' = report /\ Script' = Script
  BY DEF Still, Script
<1>2. /\ job.phase = "run" /\ job.pc \in 1..Len(Script) /\ ~job.raised /\ Step = Script[job.pc]
      /\ Len(Script) \in Nat /\ job.pc \in Nat \ {0} /\ job.pc \in DOMAIN fixture.script
      /\ Tidy(fixture) /\ IsStep(Step)
  <2>1. job.phase = "run" /\ job.pc \in 1..Len(Script)
    BY DEF Kind, Passes, Lingers, Raises, EndsRun, Under
  <2>2. QED BY <2>1, FixtureFacts DEF IsScript, RunnerOK, Step, Script
<1>3. /\ procs \subseteq [run : Nat, name : STRING]
      /\ \A p \in procs : p.run = runs => p.name \in Running(Script, job.pc)
  BY <1>2 DEF ProgramsKnown, Reachable, RunnerOK
<1>4. ReportedIsGone'
  <2>1. procs' \subseteq procs \union {This(Step.proc)}
    BY DEF Kind, Passes, Lingers, Raises, EndsRun
  <2>2. This(Step.proc).run = runs
    BY DEF This
  <2>3. report # None => report.run < runs /\ report.run \in Nat
    BY <1>2 DEF ReportedIsGone
  <2>4. runs \in Nat
    BY CertBounds DEF CertTypeOK
  <2>5. report # None => report.run # runs /\ report.run <= runs
    BY <2>3, <2>4
  <2>6. QED BY <1>1, <2>1, <2>2, <2>3, <2>5 DEF ReportedIsGone
<1>5. CASE Passes
  <2>1. /\ job'.phase = "run" /\ job'.pc = job.pc + 1
        /\ procs' = IF Step.op = "spawn" THEN procs \union {This(Step.proc)}
                    ELSE IF Step.op = "stop" THEN procs \ {This(Step.proc)} ELSE procs
    BY <1>5 DEF Passes
  <2>2. ASSUME NEW p \in procs', p.run = runs
        PROVE  p.name \in Running(Script, job.pc + 1)
    <3>1. CASE p \in procs
      <4>1. p \in [run : Nat, name : STRING] /\ p.name \in Running(Script, job.pc)
        BY <1>3, <2>2, <3>1
      <4>2. Step.op = "stop" => p # This(Step.proc)
        BY <2>1, <2>2
      <4>3. Step.op = "stop" => Step.proc # p.name
        BY <2>2, <4>1, <4>2 DEF This
      <4>4. QED BY <1>2, <4>1, <4>3, RunningGrows
    <3>2. CASE p \notin procs
      <4>1. Step.op = "spawn" /\ p = This(Step.proc)
        BY <2>1, <2>2, <3>2
      <4>2. p.name = Step.proc
        BY <4>1 DEF This
      <4>3. QED BY <1>2, <4>1, <4>2, RunningGrows
    <3>3. QED BY <3>1, <3>2
  <2>3. QED BY <1>1, <1>4, <2>1, <2>2 DEF ProgramsKnown, Reachable
<1>6. CASE Lingers
  BY <1>1, <1>3, <1>4, <1>6 DEF Lingers, ProgramsKnown, Reachable
<1>7. CASE Raises
  BY <1>4, <1>7 DEF Raises, ProgramsKnown
<1>8. ASSUME NEW how \in Endings, EndsRun(how)
      PROVE  ProgramsKnown'
  <2> DEFINE stops == IF Step.op = "await" THEN Step.giveup ELSE <<>>
  <2>1. stops \in Seq(STRING) /\ Named(stops) = IF Step.op = "await" THEN Named(Step.giveup) ELSE {}
    <3>1. <<>> \in Seq(STRING) /\ Named(<<>>) = {}
      BY DEF Named
    <3>2. QED BY <1>2, <3>1 DEF IsStep
  <2>2. job' = GiveUp(how, stops) /\ EndsAt(Step, how) /\ procs' \subseteq procs
    BY <1>8 DEF EndsRun
  <2> HIDE DEF stops
  <2> DEFINE g == GiveUp(how, stops)
  <2>3. g.phase = "unwind" /\ g.todo = stops \o Cleanup
    BY DEF GiveUp, Endings, RunnerOK, Fields
  <2> HIDE DEF g
  <2>4. job'.phase = "unwind" /\ job'.todo = stops \o Cleanup
    BY <2>2, <2>3 DEF g
  <2>5. Running(Script, job.pc) \subseteq Finally(fixture, job.pc) \union Named(stops)
    BY <1>2, <1>8, <2>1, <2>2 DEF Tidy, Script
  <2>6. Named(stops) \union Named(Cleanup) \subseteq Named(job'.todo)
    BY <2>1, <2>4, CleanupIsList, NamedConcat
  <2>7. Running(Script, job.pc) \subseteq Named(job'.todo)
    BY <1>2, <2>5, <2>6, CleanupNames
  <2>8. QED BY <1>1, <1>3, <2>2, <2>4, <2>7 DEF ProgramsKnown, Reachable
<1>9. QED BY <1>4, <1>5, <1>6, <1>7, <1>8 DEF Kind

\* A runner that comes to its end stops what it knows.
LEMMA SettleKnowsPrograms ==
    ASSUME CertTypeOK, RunnerOK, ProgramsKnown, ReportedIsGone, Settle
    PROVE  ProgramsKnown' /\ ReportedIsGone'
<1>1. /\ job'.phase = "unwind" /\ job'.todo = Cleanup /\ job.phase = "run" /\ ~job.raised
      /\ job.pc = Len(Script) + 1 /\ procs' = procs /\ runs' = runs /\ report' = report
  BY SettleEffect DEF Settle, Still, RunnerOK
<1>2. Running(Script, job.pc) \subseteq Finally(fixture, job.pc)
  BY <1>1, FixtureFacts DEF Tidy, Script
<1>3. Running(Script, job.pc) \subseteq Named(job'.todo)
  BY <1>1, <1>2, CleanupNames
<1>4. ProgramsKnown'
  BY <1>1, <1>3 DEF ProgramsKnown, Reachable
<1>5. ReportedIsGone'
  BY <1>1 DEF ReportedIsGone
<1>6. QED BY <1>4, <1>5

\* Unless an exception cuts it short, the unwinding misses none of the list.
LEMMA UnwindKnowsPrograms ==
    ASSUME CertTypeOK, RunnerOK, ProgramsKnown, ReportedIsGone, UnwindOne
    PROVE  ProgramsKnown' /\ ReportedIsGone'
<1>1. /\ job.phase = "unwind" /\ job'.phase = "unwind" /\ runs' = runs /\ report' = report
      /\ procs' = procs \ {This(Head(job.todo))}
      /\ job.todo # <<>> /\ job.todo \in Seq(STRING)
      /\ (job'.todo = Tail(job.todo) /\ job'.raised = job.raised) \/ job'.raised
  BY UnwindEffect DEF UnwindOne, Still
<1>2. ASSUME ~job'.raised, NEW p \in procs', p.run = runs
      PROVE  p.name \in Named(job'.todo)
  <2>1. ~job.raised /\ job'.todo = Tail(job.todo) /\ p \in procs
    BY <1>1, <1>2
  <2>2. p.name \in Named(job.todo) /\ p \in [run : Nat, name : STRING]
    BY <1>1, <1>2, <2>1 DEF ProgramsKnown, Reachable, RunnerOK
  <2>3. p # This(Head(job.todo))
    BY <1>1, <1>2
  <2>4. p.name # Head(job.todo)
    BY <1>2, <2>2, <2>3 DEF This
  <2>5. QED BY <1>1, <2>1, <2>2, <2>4, NamedTail
<1>3. ProgramsKnown'
  BY <1>1, <1>2 DEF ProgramsKnown, Reachable
<1>4. ReportedIsGone'
  BY <1>1 DEF ReportedIsGone
<1>5. QED BY <1>3, <1>4

\* A report is written when all programs of its run are stopped.
LEMMA ReportKnowsPrograms ==
    ASSUME CertTypeOK, RunnerOK, ProgramsKnown, ReportedIsGone, WriteReport
    PROVE  ProgramsKnown' /\ ReportedIsGone'
<1>1. /\ job.phase = "unwind" /\ job.todo = <<>> /\ job'.phase = "idle"
      /\ runs' = runs /\ procs' = procs /\ runs \in Nat
  BY BaseReportOK, CertBounds DEF WriteReport, CertTypeOK
<1>2. ProgramsKnown'
  BY <1>1 DEF ProgramsKnown
<1>3. CASE job.raised
  BY <1>1, <1>2, <1>3 DEF WriteReport, ReportedIsGone
<1>4. CASE ~job.raised
  <2>1. Named(job.todo) = {}
    BY <1>1 DEF Named
  <2>2. \A p \in procs : p.run # runs
    BY <1>1, <1>4, <2>1 DEF ProgramsKnown, Reachable
  <2>3. report'.run = runs
    BY <1>4 DEF WriteReport
  <2>4. QED BY <1>1, <1>2, <2>2, <2>3 DEF ReportedIsGone
<1>5. QED BY <1>3, <1>4

\* A run begins with none of its programs alive.
LEMMA BeginKnowsPrograms ==
    ASSUME CertTypeOK, RunnerOK, ReportedIsGone, Begin
    PROVE  ProgramsKnown' /\ ReportedIsGone'
<1>0. runs \in Nat
  BY CertBounds DEF CertTypeOK
<1>1. runs' = runs + 1 /\ procs' = procs /\ report' = report /\ runs \in Nat
  BY <1>0, BeginEffect
<1>2. \A p \in procs : p.run # runs + 1
  BY <1>1 DEF CertTypeOK
<1>3. ProgramsKnown'
  BY <1>1, <1>2 DEF ProgramsKnown
<1>4. ReportedIsGone'
  BY <1>1 DEF ReportedIsGone
<1>5. QED BY <1>3, <1>4

\* Each step keeps what is known of the programs.
LEMMA StepKnowsPrograms ==
    ASSUME CertTypeOK, RunnerOK, ProgramsKnown, ReportedIsGone, [Next]_vars
    PROVE  ProgramsKnown' /\ ReportedIsGone'
<1>1. CASE Begin
  BY <1>1, BeginKnowsPrograms
<1>2. CASE Work
  <2>1. CASE Kind /\ Still
    BY <2>1, KindKnowsPrograms
  <2>2. QED BY <1>2, <2>1, WorkKinds, SettleKnowsPrograms, UnwindKnowsPrograms, ReportKnowsPrograms
<1>3. CASE UNCHANGED vars
  BY <1>3 DEF vars, ProgramsKnown, ReportedIsGone, Reachable, Script
<1>4. QED BY <1>1, <1>2, <1>3 DEF Next, Done

\* Whichever way a runner returned, no server or program of a run with a report on disk
\* is left: each failure that ends a run comes with the list of what to stop.
THEOREM ReportedRunsLeaveNothingAlways == Spec => []ReportedRunsLeaveNothing
<1> DEFINE I == CertTypeOK /\ RunnerOK /\ ProgramsKnown /\ ReportedIsGone
<1>1. Init => I
  <2> SUFFICES ASSUME Init PROVE I
    OBVIOUS
  <2>1. job.phase = "idle" /\ report = None
    BY BaseReportOK DEF Init
  <2>2. QED BY <2>1, InitTypes DEF ProgramsKnown, ReportedIsGone
<1>2. I /\ [Next]_vars => I'
  BY StepKeepsTypes, StepKnowsPrograms
<1>3. I => ReportedRunsLeaveNothing
  BY DEF ReportedIsGone, ReportedRunsLeaveNothing
<1>4. QED BY <1>1, <1>2, <1>3, PTL DEF Spec

-----------------------------------------------------------------------------
(* What a runner notes, and its verdict.                                   *)

\* What lies ahead of a step lies ahead of the one before it; what that one notes is
\* ahead of it, decided, and not ahead any more.
LEMMA AheadShrinks ==
    ASSUME CertTypeOK, NEW k \in 1..Len(Script)
    PROVE  /\ Ahead(k + 1) \subseteq Ahead(k)
           /\ Notes(Script[k]) => Script[k].surfaces \subseteq Ahead(k)
           /\ Notes(Script[k]) \/ Script[k].op = "fallback" =>
                 /\ Script[k].surfaces \subseteq Decided(fixture)
                 /\ Script[k].surfaces \intersect Ahead(k + 1) = {}
           /\ k = Len(Script) => Ahead(k + 1) = {}
<1>1. /\ DOMAIN Script = 1..Len(Script) /\ Len(Script) \in Nat /\ k \in DOMAIN Script
      /\ Script = fixture.script
  BY FixtureFacts DEF IsScript, Script
<1> DEFINE K(i) == {j \in DOMAIN Script : j >= i /\ Notes(Script[j])}
           A(i) == {Script[j].surfaces : j \in K(i)}
<1>2. \A i : Ahead(i) = UNION A(i)
  BY DEF Ahead
<1>3. K(k + 1) \subseteq K(k)
  BY <1>1
<1>4. Ahead(k + 1) \subseteq Ahead(k)
  <2>1. A(k + 1) \subseteq A(k)
    BY <1>3
  <2> HIDE DEF A
  <2>2. QED BY <1>2, <2>1
<1>5. Notes(Script[k]) => Script[k].surfaces \subseteq Ahead(k)
  <2>1. Notes(Script[k]) => Script[k].surfaces \in A(k)
    BY <1>1
  <2> HIDE DEF A
  <2>2. ASSUME Notes(Script[k]), NEW surface \in Script[k].surfaces
        PROVE  surface \in UNION A(k)
    BY <2>1, <2>2, Zenon
  <2>3. QED BY <1>2, <2>2
<1>6. Notes(Script[k]) \/ Script[k].op = "fallback" => Script[k].surfaces \subseteq Decided(fixture)
  BY <1>1, DecidedParts
<1>7. ASSUME Notes(Script[k]) \/ Script[k].op = "fallback", NEW surface \in Script[k].surfaces
      PROVE  surface \notin Ahead(k + 1)
  <2>1. SUFFICES ASSUME surface \in Ahead(k + 1) PROVE FALSE
    OBVIOUS
  <2>2. PICK j \in K(k + 1) : surface \in Script[j].surfaces
    <3>1. PICK X \in A(k + 1) : surface \in X
      BY <1>2, <2>1
    <3>2. QED BY <3>1
  <2>3. j \in DOMAIN Script /\ k < j /\ Notes(Script[j])
    BY <1>1, <2>2
  <2>4. Script[k].surfaces \intersect Script[j].surfaces = {}
    BY <1>1, <1>7, <2>3, FixtureFacts DEF Orderly
  <2>5. QED BY <1>7, <2>2, <2>4
<1>8. k = Len(Script) => Ahead(k + 1) = {}
  <2>1. k = Len(Script) => K(k + 1) = {}
    BY <1>1
  <2>2. QED BY <1>2, <2>1
<1>9. QED BY <1>4, <1>5, <1>6, <1>7, <1>8

\* The runner at a step, as the lemmas below need it.
LEMMA KindFrame ==
    ASSUME CertTypeOK, RunnerOK, Kind, Still
    PROVE  /\ fixture' = fixture /\ runs' = runs /\ report' = report /\ Script' = Script
           /\ Shows' = Shows /\ Decided(fixture)' = Decided(fixture) /\ \A k : Ahead(k)' = Ahead(k)
           /\ \A k : NoneNoted(k)' <=> NoneNoted(k)
           /\ job.phase = "run" /\ job.pc \in 1..Len(Script) /\ ~job.raised /\ Len(Script) \in Nat
           /\ Step = Script[job.pc] /\ runs \in Nat /\ runs >= 1
<1>1. job.phase = "run" /\ job.pc \in 1..Len(Script)
  BY DEF Kind, Passes, Lingers, Raises, EndsRun, Under
<1>2. Len(Script) \in Nat
  BY FixtureFacts DEF IsScript, Script
<1>3. runs \in Nat /\ runs >= 1 /\ ~job.raised
  BY <1>1, CertBounds DEF CertTypeOK, RunnerOK
<1>4. QED BY <1>1, <1>2, <1>3 DEF Still, Script, Shows, Ahead, NoneNoted, Decided, Step

\* A step passed without an answer leaves the notes in order.
LEMMA PlainNotes ==
    ASSUME CertTypeOK, RunnerOK, NotesOK, Kind, Still, NotesKept,
           \/ Lingers
           \/ Passes /\ ~Notes(Step) /\ Step.op # "drive"
    PROVE  NotesOK'
<1> USE KindFrame
<1>1. CASE Lingers
  BY <1>1 DEF Lingers, NotesKept, NotesOK
<1>2. CASE Passes /\ ~Notes(Step) /\ Step.op # "drive"
  <2>1. job'.phase = "run" /\ job'.pc = job.pc + 1
    BY <1>2 DEF Passes
  <2>2. Ahead(job.pc + 1) \subseteq Ahead(job.pc)
    BY AheadShrinks
  <2>3. NoneNoted(job.pc + 1) => NoneNoted(job.pc)
    BY DEF NoneNoted
  <2>4. ~(job.pc > Len(Script)) /\ job.pc <= Len(Script)
    OBVIOUS
  <2>5. QED BY <1>2, <2>1, <2>2, <2>3, <2>4 DEF NotesKept, NotesOK
<1>3. QED BY <1>1, <1>2

\* What files of an earlier run show of the surfaces of a step is kept of that run.
LEMMA KeptShows ==
    ASSUME CertTypeOK, RunnerOK, NotesOK, Kind, Still
    PROVE  kept \intersect Ahead(job.pc) \subseteq Shows
<1>1. CASE runs = 1
  BY <1>1, KindFrame DEF NotesOK
<1>2. CASE runs > 1
  BY <1>2 DEF Shows, CertTypeOK
<1>3. QED BY <1>1, <1>2, KindFrame

\* So does a step whose answer is noted.
LEMMA NotingNotes ==
    ASSUME CertTypeOK, RunnerOK, NotesOK, Kind, Still, Notes(Step), Passes, Step.op # "drive",
           NEW U \in SUBSET Step.surfaces, NEW bad \in {U, U \ kept}, NEW op \in {"check", "watch"},
           AtStep(op), Record(Step.surfaces, bad, U)
    PROVE  NotesOK'
<1> DEFINE S == Step.surfaces
<1>0. U \subseteq S /\ bad \subseteq U /\ U \ kept \subseteq bad
  OBVIOUS
<1>1. /\ job'.phase = "run" /\ job'.pc = job.pc + 1
      /\ job'.passed = job.passed \union (S \ bad) /\ job'.failed = job.failed \union bad
      /\ job'.right = job.right \union (S \ U) /\ job'.wrong = job.wrong \union U
      /\ kept' = kept \union (fixture.keeps \intersect (S \ U))
  BY RecordEffect
<1>2. /\ Ahead(job.pc + 1) \subseteq Ahead(job.pc) /\ S \subseteq Ahead(job.pc)
      /\ S \subseteq Decided(fixture) /\ S \intersect Ahead(job.pc + 1) = {}
  BY AheadShrinks, KindFrame
<1>3. U \intersect kept \subseteq Shows
  BY <1>2, KeptShows
<1>4. /\ job.passed \subseteq job.right \union Shows /\ job.passed \intersect job.failed = {}
      /\ job.failed # {} \/ job.wrong \subseteq Shows
      /\ job.wrong \subseteq Decided(fixture) /\ job.failed \subseteq Decided(fixture)
      /\ (job.passed \union job.failed) \intersect Ahead(job.pc) = {}
      /\ runs = 1 => kept \intersect Ahead(job.pc) = {}
  <2>1. ~(job.pc > Len(Script))
    BY KindFrame
  <2>2. QED BY <2>1, KindFrame DEF NotesOK
<1>5. ~NoneNoted(job.pc + 1)
  <2>1. job.pc \in DOMAIN Script
    BY FixtureFacts, KindFrame DEF IsScript, Script
  <2>2. QED BY <2>1, KindFrame DEF NoneNoted
<1> HIDE DEF S
<1>6. job'.passed \subseteq job'.right \union Shows /\ job'.passed \intersect job'.failed = {}
  BY <1>0, <1>1, <1>2, <1>3, <1>4
<1>7. job'.failed # {} \/ job'.wrong \subseteq Shows
  BY <1>0, <1>1, <1>2, <1>3, <1>4
<1>8. job'.wrong \subseteq Decided(fixture) /\ job'.failed \subseteq Decided(fixture)
  BY <1>0, <1>1, <1>2, <1>4
<1>9. (job'.passed \union job'.failed) \intersect Ahead(job'.pc) = {}
  BY <1>0, <1>1, <1>2, <1>4
<1>10. runs = 1 => kept' \intersect Ahead(job'.pc) = {}
  BY <1>1, <1>2, <1>4
<1>11. QED BY <1>1, <1>5, <1>6, <1>7, <1>8, <1>9, <1>10, KindFrame DEF NotesOK

\* So does a fallback found in the logs.
LEMMA FallbackNotes ==
    ASSUME CertTypeOK, RunnerOK, NotesOK, Kind, Still, Passes, Step.op = "fallback", kept' = kept,
           job'.failed = job.failed \union Step.surfaces,
           job'.passed = job.passed \ Step.surfaces,
           job'.wrong = job.wrong \union Step.surfaces,
           job'.right = job.right \ Step.surfaces
    PROVE  NotesOK'
<1> DEFINE S == Step.surfaces
<1>1. job'.phase = "run" /\ job'.pc = job.pc + 1
  BY DEF Passes
<1>2. /\ Ahead(job.pc + 1) \subseteq Ahead(job.pc)
      /\ S \subseteq Decided(fixture) /\ S \intersect Ahead(job.pc + 1) = {}
  BY AheadShrinks, KindFrame
<1>3. /\ job.passed \subseteq job.right \union Shows /\ job.passed \intersect job.failed = {}
      /\ job.failed # {} \/ job.wrong \subseteq Shows
      /\ job.wrong \subseteq Decided(fixture) /\ job.failed \subseteq Decided(fixture)
      /\ (job.passed \union job.failed) \intersect Ahead(job.pc) = {}
      /\ runs = 1 => kept \intersect Ahead(job.pc) = {}
      /\ NoneNoted(job.pc) => job.passed = {}
  <2>1. ~(job.pc > Len(Script)) /\ job.pc <= Len(Script)
    BY KindFrame
  <2>2. QED BY <2>1, KindFrame DEF NotesOK
<1>4. NoneNoted(job.pc + 1) => NoneNoted(job.pc)
  BY KindFrame DEF NoneNoted
<1>5. job'.passed \subseteq job'.right \union Shows /\ job'.passed \intersect job'.failed = {}
  BY <1>3
<1>6. job'.failed # {} \/ job'.wrong \subseteq Shows
  BY <1>3
<1>7. job'.wrong \subseteq Decided(fixture) /\ job'.failed \subseteq Decided(fixture)
  BY <1>2, <1>3
<1>8. (job'.passed \union job'.failed) \intersect Ahead(job'.pc) = {}
  BY <1>1, <1>2, <1>3
<1>9. runs = 1 => kept' \intersect Ahead(job'.pc) = {}
  BY <1>1, <1>2, <1>3
<1>10. NoneNoted(job'.pc) => job'.passed = {}
  BY <1>1, <1>3, <1>4
<1>11. QED BY <1>1, <1>5, <1>6, <1>7, <1>8, <1>9, <1>10, KindFrame DEF NotesOK

\* So does the driver: it is the last step, and nothing is noted before it.
LEMMA DriverNotes ==
    ASSUME CertTypeOK, RunnerOK, NotesOK, Kind, Still, Lingers \/ Passes,
           DriverAsks \/ DriverDies \/ DriverEnds
    PROVE  NotesOK'
<1>1. /\ Step.op = "drive" /\ kept' = kept /\ job.pc \in DOMAIN fixture.script
      /\ Orderly(fixture) /\ job.pc \in 1..Len(Script) /\ job.phase = "run"
  BY DriverEffect, FixtureFacts, KindFrame DEF IsScript, Script
<1>2. job.pc = Len(Script) /\ NoneNoted(job.pc)
  BY <1>1, KindFrame DEF Orderly, Script, NoneNoted
<1>3. Ahead(job.pc + 1) = {}
  BY <1>1, <1>2, AheadShrinks
<1>4. /\ job.passed = {} /\ job.passed \subseteq job.right \union Shows
      /\ job.wrong \subseteq Decided(fixture) /\ job.pc <= Len(Script)
      /\ job.failed \subseteq Decided(fixture)
      /\ (job.passed \union job.failed) \intersect Ahead(job.pc) = {}
      /\ runs = 1 => kept \intersect Ahead(job.pc) = {}
  <2>1. job.pc <= Len(Script) /\ ~(job.pc > Len(Script))
    BY KindFrame
  <2>2. QED BY <1>1, <1>2, <2>1 DEF NotesOK
<1>5. CASE Lingers /\ job'.passed = job.passed /\ job'.failed = job.failed
           /\ job'.wrong \subseteq job.wrong \union Decided(fixture)
           /\ job.right \subseteq job'.right
  <2>1. job'.phase = "run" /\ job'.pc = job.pc
    BY <1>5 DEF Lingers
  <2>2. QED BY <1>1, <1>4, <1>5, <2>1, KindFrame DEF NotesOK
<1>6. CASE Passes /\ job'.passed = job.passed /\ job'.failed = fixture.surfaces
           /\ ~fixture.driver.inside
           /\ job'.wrong \subseteq job.wrong \union Decided(fixture)
           /\ job'.right = job.right
  <2>1. job'.phase = "run" /\ job'.pc = job.pc + 1 /\ job'.pc > Len(Script)
        /\ ~(job'.pc <= Len(Script))
    BY <1>2, <1>6, KindFrame DEF Passes
  <2>2. fixture.surfaces # {}
    BY <1>1 DEF Orderly
  <2>3. QED BY <1>1, <1>3, <1>4, <1>6, <2>1, <2>2, KindFrame DEF NotesOK
<1>7. CASE Passes /\ job'.passed = job.right \ job.wrong /\ job'.failed = job.wrong
           /\ job'.wrong = job.wrong /\ job'.right = job.right
  <2>1. job'.phase = "run" /\ job'.pc = job.pc + 1 /\ ~(job'.pc <= Len(Script))
    BY <1>2, <1>7, KindFrame DEF Passes
  <2>2. QED BY <1>1, <1>3, <1>4, <1>7, <2>1, KindFrame DEF NotesOK
<1>8. ~Raises
  BY DEF Raises, Lingers, Passes
<1>9. QED BY <1>5, <1>6, <1>7, <1>8, DriverEffect

\* Each step of a script leaves the notes in order.
LEMMA KindNotes ==
    ASSUME CertTypeOK, RunnerOK, NotesOK, Kind, Still
    PROVE  NotesOK'
<1>1. CASE CheckAnswer \/ WatchSurfaces
  <2>1. PICK op \in {"check", "watch"} : AtStep(op)
    BY <1>1 DEF CheckAnswer, WatchSurfaces
  <2>2. Step.op = op /\ Notes(Step)
    BY <2>1, AtStepUnder DEF Notes
  <2>3. CASE Lingers /\ NotesKept
    BY <2>3, PlainNotes
  <2>4. CASE Raises
    BY <2>4 DEF Raises, NotesOK
  <2>5. CASE Passes /\ \E U \in SUBSET Step.surfaces : \E bad \in {U, U \ kept} :
                          Record(Step.surfaces, bad, U)
    BY <2>1, <2>2, <2>5, NotingNotes
  <2>6. QED BY <1>1, <2>3, <2>4, <2>5, NotingEffect
<1>2. CASE FallbackDetected
  <2>1. Passes /\ Step.op = "fallback" /\ kept' = kept
    BY <1>2, FallbackEffect
  <2>2. ~Notes(Step) /\ Step.op # "drive"
    BY <2>1 DEF Notes
  <2>3. CASE NotesKept
    BY <2>1, <2>2, <2>3, PlainNotes
  <2>4. CASE ~NotesKept
    BY <1>2, <2>1, <2>4, FallbackEffect, FallbackNotes
  <2>5. QED BY <2>3, <2>4
<1>3. CASE (DriverAsks \/ DriverDies \/ DriverEnds) /\ (Lingers \/ Passes)
  BY <1>3, DriverNotes
<1>4. CASE NotesKept /\ (Lingers \/ (Passes /\ ~Notes(Step) /\ Step.op # "drive"))
  BY <1>4, PlainNotes
<1>5. CASE Raises
  BY <1>5 DEF Raises, NotesOK
<1>6. ASSUME NEW how \in Endings, EndsRun(how)
      PROVE  NotesOK'
  <2>1. job'.phase = "unwind"
    BY <1>6, GiveUpEffect DEF EndsRun
  <2>2. QED BY <2>1 DEF NotesOK
<1>7. CASE Passes
  <2>1. \/ NotesKept /\ ~Notes(Step) /\ Step.op # "drive"
        \/ CheckAnswer \/ WatchSurfaces \/ FallbackDetected \/ DriverDies \/ DriverEnds
    BY <1>7 DEF Passes
  <2>2. QED BY <1>1, <1>2, <1>3, <1>4, <1>7, <2>1, Zenon
<1>8. CASE Lingers
  <2>1. NotesKept \/ DriverAsks
    BY <1>8 DEF Lingers
  <2>2. QED BY <1>3, <1>4, <1>8, <2>1, Zenon
<1>9. QED BY <1>5, <1>6, <1>7, <1>8 DEF Kind

\* A failure that ends a run with a report leaves a report that tells it.
LEMMA KindVerdict ==
    ASSUME CertTypeOK, RunnerOK, NotesOK, Kind, Still
    PROVE  VerdictOK'
<1>1. CASE Passes \/ Lingers \/ Raises
  BY <1>1 DEF Passes, Lingers, Raises, VerdictOK
<1>2. ASSUME NEW how \in Endings, EndsRun(how)
      PROVE  VerdictOK'
  <2>1. /\ job'.passed = job.passed /\ job'.right = job.right /\ job'.wrong = job.wrong
        /\ job'.result = (IF how = "fail" THEN "failed" ELSE how)
        /\ job'.failed = (IF how = "fail" THEN fixture.surfaces ELSE {})
        /\ job'.missing = (IF how = "fail" THEN {} ELSE fixture.surfaces)
    BY <1>2, GiveUpEffect DEF EndsRun
  <2>2. EndsAt(Step, how) /\ job.pc \in DOMAIN fixture.script /\ Orderly(fixture)
    BY <1>2, FixtureFacts, KindFrame DEF EndsRun, IsScript, Script
  <2>3. how = "fail" => NoneNoted(job.pc)
    BY <2>2, KindFrame DEF Orderly, Script, NoneNoted
  <2>4. job.passed \subseteq job.right \union Shows /\ (how = "fail" => job.passed = {})
    <3>1. job.pc <= Len(Script)
      BY KindFrame
    <3>2. QED BY <2>3, <3>1, KindFrame DEF NotesOK
  <2>5. job'.result \notin {"pass", "partial"}
    BY <2>1 DEF Endings
  <2>6. job'.passed \intersect job'.failed = {}
    BY <2>1, <2>4
  <2>7. fixture.surfaces \subseteq job'.failed \union job'.missing
    BY <2>1
  <2>8. QED BY <2>1, <2>4, <2>5, <2>6, <2>7, KindFrame DEF VerdictOK, Tells
<1>3. QED BY <1>1, <1>2 DEF Kind

\* The verdict of a runner that comes to its end tells what it noted.
LEMMA SettleVerdict ==
    ASSUME CertTypeOK, RunnerOK, NotesOK, Settle
    PROVE  VerdictOK'
<1>1. /\ job'.phase = "unwind" /\ job'.result = Verdict /\ job'.passed = NowPassed
      /\ job'.missing = NowMissing /\ job'.failed = job.failed /\ job'.right = job.right
      /\ job'.wrong = job.wrong /\ job.phase = "run" /\ ~(job.pc <= Len(Script))
  BY SettleEffect
<1>2. fixture' = fixture /\ runs' = runs /\ Shows' = Shows
  BY DEF Settle, Still, Shows
<1>3. /\ job.passed \subseteq job.right \union Shows
      /\ job.passed \intersect job.failed = {}
      /\ job.failed # {} \/ job.wrong \subseteq Shows
      /\ \/ job.failed \subseteq Decided(fixture)
         \/ job.failed = fixture.surfaces /\ ~fixture.driver.inside
  BY <1>1 DEF NotesOK
<1>4. NowPassed = job.passed \/ NowPassed = job.passed \union fixture.driver.given
  BY DEF NowPassed
<1>5. NowPassed \subseteq job.right \union fixture.driver.given \union Shows
  BY <1>3, <1>4
<1>6. NowPassed \intersect job.failed = {}
  <2>1. CASE Lost
    BY <1>3, <2>1 DEF NowPassed
  <2>2. CASE ~Lost /\ fixture.driver = NoDriver
    <3>1. NowPassed = job.passed
      BY <2>2 DEF NowPassed, NoDriver
    <3>2. QED BY <1>3, <3>1
  <2>3. CASE ~Lost /\ fixture.driver # NoDriver
    <3>1. job.failed \subseteq Decided(fixture)
      BY <1>3, <2>3 DEF Lost
    <3>2. fixture.driver.given \intersect Decided(fixture) = {}
      BY FixtureFacts DEF Orderly
    <3>3. QED BY <1>3, <1>4, <3>1, <3>2
  <2>4. QED BY <2>1, <2>2, <2>3
<1>7. fixture.surfaces \ fixture.exempt \subseteq NowPassed \union job.failed \union NowMissing
  <2>1. Judged \subseteq job.failed
    BY DEF Judged
  <2>2. QED BY <2>1 DEF NowMissing
<1>8. Verdict \in {"pass", "partial"} => job.failed = {}
  BY DEF Verdict
<1>9. Verdict = "pass" => NowMissing = {}
  BY DEF Verdict
<1>10. QED
  <2>1. Verdict = "pass" =>
           job.failed = {} /\ fixture.surfaces \ fixture.exempt \subseteq NowPassed
    BY <1>7, <1>8, <1>9
  <2>2. Verdict \in {"pass", "partial"} => job.wrong \subseteq Shows
    BY <1>3, <1>8
  <2>3. QED BY <1>1, <1>2, <1>5, <1>6, <1>7, <2>1, <2>2 DEF VerdictOK, Tells

\* Stopping the programs changes nothing of the verdict.
LEMMA UnwindVerdict ==
    ASSUME CertTypeOK, RunnerOK, VerdictOK, UnwindOne
    PROVE  VerdictOK'
<1>1. /\ job.phase = "unwind" /\ job'.result = job.result
      /\ job'.passed = job.passed /\ job'.failed = job.failed /\ job'.missing = job.missing
      /\ job'.right = job.right /\ job'.wrong = job.wrong
      /\ ~job'.raised => ~job.raised
  BY UnwindEffect
<1>2. fixture' = fixture /\ runs' = runs /\ Shows' = Shows
  BY DEF UnwindOne, Still, Shows
<1>3. QED BY <1>1, <1>2 DEF VerdictOK, Tells

\* A report is what its runner made of it.
LEMMA WrittenReport ==
    ASSUME CertTypeOK, RunnerOK, VerdictOK, ReportTellsRun, WriteReport
    PROVE  ReportTellsRun'
<1>1. job.phase = "unwind" /\ fixture' = fixture
  BY DEF WriteReport
<1>2. CASE job.raised
  <2>1. report' = report
    BY <1>2 DEF WriteReport
  <2>2. QED BY <1>1, <2>1 DEF ReportTellsRun, Entitled
<1>3. CASE ~job.raised
  <2>1. /\ report'.run = runs /\ report'.result = job.result /\ report'.passed = job.passed
        /\ report'.failed = job.failed /\ report'.missing = job.missing
        /\ report'.right = job.right /\ report'.wrong = job.wrong
    BY <1>3 DEF WriteReport
  <2>2. Tells(job, Shows)
    BY <1>1, <1>3 DEF VerdictOK
  <2>3. QED BY <1>1, <2>1, <2>2 DEF ReportTellsRun, Entitled, Tells, Shows
<1>4. QED BY <1>2, <1>3

\* A run begins with nothing noted, and the first of all with nothing kept.
LEMMA BeginNotes ==
    ASSUME CertTypeOK, RunnerOK, KeptIsOld, Begin
    PROVE  NotesOK' /\ VerdictOK' /\ KeptIsOld'
<1>1. runs \in Nat
  BY CertBounds DEF CertTypeOK
<1>2. /\ job'.phase \in {"idle", "run"} /\ job'.passed = {} /\ job'.failed = {}
      /\ job'.right = {} /\ job'.wrong = {} /\ runs' = runs + 1 /\ kept' = kept
  BY BeginEffect
<1>3. runs' = 1 => kept' = {}
  BY <1>1, <1>2 DEF KeptIsOld
<1>4. NotesOK'
  BY <1>2, <1>3 DEF NotesOK
<1>5. VerdictOK'
  BY <1>2 DEF VerdictOK
<1>6. KeptIsOld'
  BY <1>1, <1>2 DEF KeptIsOld
<1>7. QED BY <1>4, <1>5, <1>6

\* Each step keeps the notes, the verdict and the report true to the run.
LEMMA StepKeepsNotes ==
    ASSUME CertTypeOK, RunnerOK, NotesOK, KeptIsOld, VerdictOK, ReportTellsRun, [Next]_vars
    PROVE  NotesOK' /\ KeptIsOld' /\ VerdictOK' /\ ReportTellsRun'
<1>1. ASSUME report' = report, fixture' = fixture
      PROVE  ReportTellsRun'
  BY <1>1 DEF ReportTellsRun, Entitled
<1>2. CASE Begin
  BY <1>1, <1>2, BeginEffect, BeginNotes
<1>3. CASE Kind /\ Still
  <2>1. KeptIsOld'
    BY <1>3, KindFrame DEF KeptIsOld
  <2>2. ReportTellsRun'
    BY <1>1, <1>3 DEF Still
  <2>3. QED BY <1>3, <2>1, <2>2, KindNotes, KindVerdict
<1>4. CASE Settle
  <2>1. NotesOK'
    BY <1>4, SettleEffect DEF NotesOK
  <2>2. KeptIsOld' /\ ReportTellsRun'
    BY <1>1, <1>4 DEF Settle, Still, KeptIsOld
  <2>3. QED BY <1>4, <2>1, <2>2, SettleVerdict
<1>5. CASE UnwindOne
  <2>1. NotesOK'
    BY <1>5, UnwindEffect DEF NotesOK
  <2>2. KeptIsOld' /\ ReportTellsRun'
    BY <1>1, <1>5 DEF UnwindOne, Still, KeptIsOld
  <2>3. QED BY <1>5, <2>1, <2>2, UnwindVerdict
<1>6. CASE WriteReport
  <2>1. job'.phase = "idle" /\ runs' = runs /\ kept' = kept
    BY <1>6, BaseReportOK DEF WriteReport
  <2>2. NotesOK' /\ VerdictOK' /\ KeptIsOld'
    BY <2>1 DEF NotesOK, VerdictOK, KeptIsOld
  <2>3. QED BY <1>6, <2>2, WrittenReport
<1>7. CASE UNCHANGED vars
  BY <1>7 DEF vars, NotesOK, KeptIsOld, VerdictOK, ReportTellsRun, Entitled, Tells, Shows, Ahead,
              NoneNoted, Decided, Script
<1>8. CASE Work
  BY <1>3, <1>4, <1>5, <1>6, <1>8, WorkKinds
<1>9. QED BY <1>2, <1>7, <1>8 DEF Next, Done

\* A report tells what its run saw: "pass" means that no surface failed and none asked of
\* the fixture is lacking, nothing is passed that was not answered right, noted without
\* a request or shown by files of an earlier run, nothing answered wrong is passed by.
THEOREM ReportTellsRunAlways == Spec => []ReportTellsRun
<1>1. Init => RunInv
  <2> SUFFICES ASSUME Init PROVE RunInv
    OBVIOUS
  <2>1. job.phase = "idle" /\ report = None /\ kept = {}
    BY BaseReportOK DEF Init
  <2>2. QED BY <2>1, InitTypes DEF RunInv, ProgramsKnown, ReportedIsGone, NotesOK, KeptIsOld,
                                   VerdictOK, ReportTellsRun
<1>2. RunInv /\ [Next]_vars => RunInv'
  BY StepKeepsTypes, StepKnowsPrograms, StepKeepsNotes DEF RunInv
<1>3. RunInv => ReportTellsRun
  BY DEF RunInv
<1>4. QED BY <1>1, <1>2, <1>3, PTL DEF Spec

-----------------------------------------------------------------------------
(* How long a run is.                                                      *)

\* The state j of a runner is nearer the end of its run than k.
Nearer(j, k) ==
    \/ j.phase = "idle"
    \/ j.phase = "unwind" /\ (k.phase = "run" \/ Len(j.todo) < Len(k.todo))
    \/ /\ j.phase = "run" /\ k.phase = "run" /\ k.pc <= Len(fixture.script)
       /\ \/ j.pc > k.pc
          \/ j.pc = k.pc /\ k.dpc < j.dpc /\ k.dpc <= Len(fixture.driver.checks)
          \/ j.pc = k.pc /\ k.dpc = j.dpc /\ k.waited < j.waited /\ j.waited <= MaxProbes

\* Whatever the servers and programs do, each step of a runner brings it nearer the
\* end: it is never back at a step, a request, a poll or a stop it has behind it, so
\* a run is as long as its script, its polls and its `finally` at most.  And a run
\* is the only one, and of one fixture, from beginning to end.
RunDescends ==
    [][job.phase # "idle" => Nearer(job', job) /\ UNCHANGED <<fixture, runs>>]_vars

\* A step of the script brings the runner nearer the end of it.
LEMMA KindDescends ==
    ASSUME CertTypeOK, RunnerOK, Kind
    PROVE  Nearer(job', job)
<1>1. job.phase = "run" /\ job.pc \in 1..Len(Script)
  BY DEF Kind, Passes, Lingers, Raises, EndsRun, Under
<1>2. /\ Len(fixture.script) \in Nat /\ job.pc \in Nat /\ job.pc <= Len(fixture.script)
      /\ job.dpc \in Nat /\ job.waited \in Nat /\ MaxProbes \in Nat
  BY <1>1, FixtureFacts, CertBounds DEF IsScript, Script, RunnerOK, CertTypeOK
<1>3. CASE Passes
  <2>1. job'.phase = "run" /\ job'.pc = job.pc + 1
    BY <1>3 DEF Passes
  <2>2. job'.pc > job.pc
    BY <1>2, <2>1
  <2>3. QED BY <1>1, <1>2, <2>1, <2>2 DEF Nearer
<1>4. CASE Lingers
  <2>1. job'.phase = "run" /\ job'.pc = job.pc /\ job'.waited \in 0..MaxProbes
    BY <1>4 DEF Lingers
  <2>2. CASE job'.dpc = job.dpc /\ job'.waited = job.waited + 1
    <3>1. job.waited < job'.waited /\ job'.waited <= MaxProbes
      BY <1>2, <2>1, <2>2
    <3>2. QED BY <1>1, <1>2, <2>1, <2>2, <3>1 DEF Nearer
  <2>3. CASE DriverAsks /\ job'.dpc = job.dpc + 1
    <3>1. job.dpc <= Len(fixture.driver.checks)
      BY <2>3 DEF DriverAsks, InDriver
    <3>2. job.dpc < job'.dpc
      BY <1>2, <2>3
    <3>3. QED BY <1>1, <1>2, <2>1, <3>1, <3>2 DEF Nearer
  <2>4. QED BY <1>4, <2>2, <2>3 DEF Lingers
<1>5. CASE Raises
  BY <1>1, <1>5 DEF Raises, Nearer
<1>6. ASSUME NEW how \in Endings, EndsRun(how)
      PROVE  Nearer(job', job)
  <2>1. job'.phase = "unwind"
    BY <1>6, GiveUpEffect DEF EndsRun
  <2>2. QED BY <1>1, <2>1 DEF Nearer
<1>7. QED BY <1>3, <1>4, <1>5, <1>6 DEF Kind

\* A stop leaves fewer of them to do.
LEMMA UnwindDescends ==
    ASSUME CertTypeOK, RunnerOK, UnwindOne
    PROVE  Nearer(job', job)
<1>1. job'.phase = "unwind" /\ job.todo \in Seq(STRING) /\ job.todo # <<>>
  BY UnwindEffect
<1>2. job'.todo = Tail(job.todo) \/ job'.todo = <<>>
  BY UnwindEffect
<1>3. Len(job.todo) \in Nat \ {0} /\ Len(<<>>) = 0
  BY <1>1, EmptySeq
<1>4. Len(Tail(job.todo)) = Len(job.todo) - 1
  BY <1>1, HeadTailProperties
<1>5. Len(job'.todo) < Len(job.todo)
  <2>1. CASE job'.todo = Tail(job.todo)
    BY <1>3, <1>4, <2>1
  <2>2. CASE job'.todo = <<>>
    BY <1>3, <2>2
  <2>3. QED BY <1>2, <2>1, <2>2
<1>6. QED BY <1>1, <1>5 DEF Nearer

\* Whatever the servers and programs do, each step of a runner brings it nearer the end of
\* its run, the only one there is: it passes a step of its script, or the driver a
\* request, or it has one poll less left of its deadline, or one stop less to do.
THEOREM RunDescendsAlways == Spec => RunDescends
<1>1. ASSUME CertTypeOK, RunnerOK, [Next]_vars
      PROVE  [job.phase # "idle" => Nearer(job', job) /\ UNCHANGED <<fixture, runs>>]_vars
  <2>1. CASE Begin
    BY <2>1 DEF Begin, run_fixture
  <2>2. CASE Work
    <3>1. UNCHANGED <<fixture, runs>>
      BY <1>1, <2>2, WorkKinds DEF Still, WriteReport
    <3>2. Kind => Nearer(job', job)
      BY <1>1, KindDescends
    <3>3. UnwindOne => Nearer(job', job)
      BY <1>1, UnwindDescends
    <3>4. Settle => Nearer(job', job)
      BY <1>1, SettleEffect DEF Nearer
    <3>5. WriteReport => Nearer(job', job)
      BY BaseReportOK DEF WriteReport, Nearer
    <3>6. Kind \/ Settle \/ UnwindOne \/ WriteReport
      BY <1>1, <2>2, WorkKinds
    <3>7. QED BY <3>1, <3>2, <3>3, <3>4, <3>5, <3>6
  <2>3. QED BY <1>1, <2>1, <2>2 DEF Next, Done
<1>2. Init => CertTypeOK /\ RunnerOK
  BY InitTypes
<1>3. (CertTypeOK /\ RunnerOK) /\ [Next]_vars => (CertTypeOK /\ RunnerOK)'
  BY StepKeepsTypes
<1>4. QED BY <1>1, <1>2, <1>3, PTL DEF Spec, RunDescends
=============================================================================
