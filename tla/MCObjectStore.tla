---------------------------- MODULE MCObjectStore ----------------------------
(* Instances of ObjectStore for TLC: an object "a", and one under it. *)
EXTENDS ObjectStore, TLC

MCPaths   == {"a", "a/b"}
MCBeneath == [p \in MCPaths |-> IF p = "a" THEN {"a/b"} ELSE {}]

\* No step reads the last answer.
WithoutAnswer == <<rows, files, dirs, events, worker, raced, causes>>

ThreadSymmetry == Permutations(Threads)
=============================================================================
