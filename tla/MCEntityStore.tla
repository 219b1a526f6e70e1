----------------------------- MODULE MCEntityStore -----------------------------
(* Instances of EntityStore for TLC. *)
EXTENDS EntityStore

Nothing == [overrides |-> Absent, base |-> NoBases, is_live |-> Absent]

\* A publisher sends nothing along.
MCSent == {Nothing}

\* It sends nothing along, puts back a map with isLive in it and the is_live it was
\* answered, or makes up a base value as well.
MCSentBases ==
    LET back == [Nothing EXCEPT !.overrides = [NoOverrides EXCEPT !.isLive = FALSE],
                                !.is_live = TRUE]
    IN  {Nothing, back, [back EXCEPT !.base.isLive = TRUE]}

\* Workers run the same requests and may be exchanged.
Symmetry == Permutations(Workers)

\* So may entities.
EntitySymmetry == Permutations(Entities)

=============================================================================
