---------------------------- MODULE EntityRegister ----------------------------
(***************************************************************************)
(* What the entity store promises: of each entity it remembers the newest  *)
(* publication, by the source's own clock when both carry a time, and an   *)
(* entity that is not published again goes out of life once it is due.     *)
(* Operators may set the time it goes by, and nothing else.                *)
(***************************************************************************)
EXTENDS Integers

CONSTANTS
    Entities,
    Times,      \* source update times
    Expiries,   \* expiry times
    Absent,     \* no such time
    Unknown     \* an entity never published

VARIABLES
    known,      \* what is remembered of each entity, and by what it changed last
    clock

Fact == [live: BOOLEAN, time: Times \union {Absent}, expiry: Expiries \union {Absent},
         by: {"publish"}]

Init ==
    /\ known = [e \in Entities |-> Unknown]
    /\ clock = 0

Newer(time, e) ==
    known[e] = Unknown \/ Absent \in {time, known[e].time} \/ time > known[e].time

Publish(e) ==
    /\ known'[e] \in Fact
    /\ Newer(known'[e].time, e)
    /\ known' = [known EXCEPT ![e] = known'[e]]
    /\ UNCHANGED clock

Due(e) == /\ known[e] # Unknown
          /\ known[e].live
          /\ known[e].expiry # Absent
          /\ known[e].expiry <= clock

Expire(due) ==
    /\ \A e \in due : Due(e)
    /\ known' = [e \in Entities |-> IF e \in due THEN [known[e] EXCEPT !.live = FALSE,
                                                                   !.by = "expiry"]
                                                 ELSE known[e]]
    /\ UNCHANGED clock

Amend(e) == \E time \in Times \union {Absent}, by \in {"override", "removal"} :
    /\ known[e] # Unknown
    /\ known' = [known EXCEPT ![e].time = time, ![e].by = by]
    /\ UNCHANGED clock

Tick == clock' = clock + 1 /\ UNCHANGED known

Next ==
    \/ \E e \in Entities : Publish(e) \/ Amend(e)
    \/ \E due \in SUBSET Entities : Expire(due)
    \/ Tick

Spec == Init /\ [][Next]_<<known, clock>>

=============================================================================
