---------------------------- MODULE MCEntityStreams ----------------------------
(* Instances of EntityStreams for TLC. *)
EXTENDS EntityStreams

\* Publishers send nothing along.
MCSent == {[overrides |-> Absent, base |-> NoBases, is_live |-> Absent]}

=============================================================================
