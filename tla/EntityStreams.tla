---------------------------- MODULE EntityStreams ----------------------------
(***************************************************************************)
(* POST /entities/stream and the gRPC StreamEntityComponents: the live     *)
(* entities are swept, read and sent, then a cursor is set to the last     *)
(* event of the stream, then the events after it are polled and sent.      *)
(*                                                                         *)
(* A connection waits for its client between those steps, and requests     *)
(* commit meanwhile.  Connections are workers of their own: their sweep is *)
(* a request like any other, and can fail like one.  Requests are without  *)
(* filters, which only leave things out.                                   *)
(***************************************************************************)
EXTENDS EntityStore

CONSTANTS
    Streams,    \* connections clients may hold
    Untold      \* the client has been told nothing about the entity

ASSUME StreamsAssumption == Streams \subseteq Workers /\ Untold \notin Payload

VARIABLES
    phase,      \* per connection: "closed", "opening", "snapshot" sent, "polling"
    opened,     \* length of the log when the snapshot was read (history)
    start,      \* the cursor when polling began (history)
    cursor,
    known       \* what the client was last told, per entity

streamVars == <<phase, opened, start, cursor, known>>
allVars == <<rows, events, staged, clock, reply, phase, opened, start, cursor, known>>

StreamInit ==
    /\ Init
    /\ phase = [s \in Streams |-> "closed"]
    /\ opened = [s \in Streams |-> 0]
    /\ start = [s \in Streams |-> 0]
    /\ cursor = [s \in Streams |-> 0]
    /\ known = [s \in Streams |-> [e \in Entities |-> Untold]]

-----------------------------------------------------------------------------
\* A client connects; list_live() sweeps first, if anything is due.
Connect(s) ==
    /\ phase[s] = "closed"
    /\ phase' = [phase EXCEPT ![s] = "opening"]
    /\ \/ ReadForSweep(s, Entities)
       \/ /\ \A e \in Entities : ~Due(e)
          /\ UNCHANGED vars
    /\ UNCHANGED <<opened, start, cursor, known>>

FinishSweep(s) ==
    /\ CommitChanges(s)
    /\ UNCHANGED streamVars

\* The sweep fails, and the connection with it.
FailSweep(s) ==
    /\ Rollback(s)
    /\ phase' = [phase EXCEPT ![s] = "closed"]
    /\ UNCHANGED <<opened, start, cursor, known>>

\* list_live() reads, and its entities are sent.
SendSnapshot(s) ==
    /\ phase[s] = "opening"
    /\ staged[s] = Idle
    /\ phase' = [phase EXCEPT ![s] = "snapshot"]
    /\ opened' = [opened EXCEPT ![s] = Len(events)]
    /\ known' = [known EXCEPT ![s] =
                   [e \in Entities |-> IF e \in list_live THEN rows[e].payload ELSE Untold]]
    /\ UNCHANGED <<rows, events, staged, clock, reply, start, cursor>>

TakeCursor(s) ==
    /\ phase[s] = "snapshot"
    /\ phase' = [phase EXCEPT ![s] = "polling"]
    /\ start' = [start EXCEPT ![s] = Len(events)]
    /\ cursor' = [cursor EXCEPT ![s] = Len(events)]
    /\ UNCHANGED <<rows, events, staged, clock, reply, opened, known>>

\* Mutant: the cursor takes in the whole log.
EndOfLog(s) == Len(events)

NextCursor(s) == cursor[s] + 1

\* One row of a poll is sent; the rows of one poll are the next ones of the log.
Send(s) ==
    /\ phase[s] = "polling"
    /\ cursor[s] < Len(events)
    /\ LET row == events[cursor[s] + 1]
       IN  known' = [known EXCEPT ![s][row.entity] = row.payload]
    /\ cursor' = [cursor EXCEPT ![s] = NextCursor(s)]
    /\ UNCHANGED <<rows, events, staged, clock, reply, phase, opened, start>>

\* The client goes away, and may come back; preExistingOnly ends here too.
Disconnect(s) ==
    /\ phase[s] \in {"snapshot", "polling"}
    /\ phase' = [phase EXCEPT ![s] = "closed"]
    /\ opened' = [opened EXCEPT ![s] = 0]
    /\ start' = [start EXCEPT ![s] = 0]
    /\ cursor' = [cursor EXCEPT ![s] = 0]
    /\ known' = [known EXCEPT ![s] = [e \in Entities |-> Untold]]
    /\ UNCHANGED vars

Stream(s) ==
    \/ Connect(s)
    \/ FinishSweep(s)
    \/ FailSweep(s)
    \/ SendSnapshot(s)
    \/ TakeCursor(s)
    \/ Send(s)
    \/ Disconnect(s)

StreamNext ==
    \/ Tick /\ UNCHANGED streamVars
    \/ \E w \in Workers \ Streams : Request(w) /\ UNCHANGED streamVars
    \/ \E s \in Streams : Stream(s)

StreamSpec == StreamInit /\ [][StreamNext]_allVars

-----------------------------------------------------------------------------
\* Every variable has its type.
StreamTypeOK ==
    /\ TypeOK
    /\ phase \in [Streams -> {"closed", "opening", "snapshot", "polling"}]
    /\ opened \in [Streams -> Nat]
    /\ start \in [Streams -> Nat]
    /\ cursor \in [Streams -> Nat]
    /\ known \in [Streams -> [Entities -> Payload \union {Untold}]]

CaughtUp(s) == phase[s] = "polling" /\ cursor[s] = Len(events)

InStep(s, e) ==
    IF rows[e] = NoRow THEN known[s][e] = Untold
    ELSE IF rows[e].sequence > start[s]
         THEN known[s][e] = events[rows[e].sequence].payload
         ELSE known[s][e] \in {rows[e].payload} \union (IF e \in list_live THEN {} ELSE {Untold})

\* A client that has been sent all there is knows every live entity as it is
\* stored, and every changed one as its last event tells it, as long as nothing
\* committed between its snapshot and its cursor.
FollowerInStep == \A s \in Streams :
    CaughtUp(s) /\ opened[s] = start[s] => \A e \in Entities : InStep(s, e)

\* What the certification asks: no update is dropped, however publishers and
\* the stream meet.
NoUpdateDropped == \A s \in Streams :
    CaughtUp(s) => \A e \in Entities : InStep(s, e)

=============================================================================
