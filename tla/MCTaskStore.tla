----------------------------- MODULE MCTaskStore -----------------------------
(* Instances of TaskStore for TLC. *)
EXTENDS TaskStore, TLC

\* REST threads run the same routes and may be exchanged.
RestSymmetry == Permutations(RestWorkers)

=============================================================================
