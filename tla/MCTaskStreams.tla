---------------------------- MODULE MCTaskStreams ----------------------------
(* Instances of TaskStreams for TLC. *)
EXTENDS TaskStreams
=============================================================================
