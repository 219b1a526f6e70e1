---------------------------- MODULE TaskLifecycle ----------------------------
(***************************************************************************)
(* What the task store promises about each task, without rows, columns,    *)
(* requests in progress or an event log: a task appears once, is changed   *)
(* while it is open, and is never changed again once it is closed; every   *)
(* change raises its status version.                                       *)
(***************************************************************************)
EXTENDS Integers

CONSTANT Tasks

VARIABLES
    phase,      \* "absent", "open" or "closed", per task
    version     \* its statusVersion

vars == <<phase, version>>

Init ==
    /\ phase = [t \in Tasks |-> "absent"]
    /\ version = [t \in Tasks |-> 0]

Create(t) ==
    /\ phase[t] = "absent"
    /\ \E p \in {"open", "closed"} : phase' = [phase EXCEPT ![t] = p]
    /\ version' = [version EXCEPT ![t] = version'[t]]

Raise(t) ==
    /\ version' = [version EXCEPT ![t] = version'[t]]
    /\ version'[t] > version[t]

Advance(t) ==
    /\ phase[t] = "open"
    /\ Raise(t)
    /\ UNCHANGED phase

Close(t) ==
    /\ phase[t] = "open"
    /\ phase' = [phase EXCEPT ![t] = "closed"]
    /\ Raise(t)

Next == \E t \in Tasks : Create(t) \/ Advance(t) \/ Close(t)

Spec == Init /\ [][Next]_vars

(***************************************************************************)
(* The part of the promise that concurrency leaves standing: the phases.   *)
(***************************************************************************)
PhaseInit == phase = [t \in Tasks |-> "absent"]

PhaseStep(t, p, q) == phase[t] = p /\ phase' = [phase EXCEPT ![t] = q]

PhaseNext == \E t \in Tasks :
    \/ PhaseStep(t, "absent", "open")
    \/ PhaseStep(t, "absent", "closed")
    \/ PhaseStep(t, "open", "closed")

PhaseSpec == PhaseInit /\ [][PhaseNext]_phase

=============================================================================
