-------------------------- MODULE EntityStreamsProofs --------------------------
(***************************************************************************)
(* Proofs about EntityStreams for any number of entities, workers and      *)
(* connections, on top of those about the store they read.                 *)
(***************************************************************************)
EXTENDS EntityStreams, EntityStoreProofs

\* The events about an entity a connection has been sent since it polls.
Polled(s, e) == {i \in DOMAIN events : start[s] < i /\ i <= cursor[s] /\ events[i].entity = e}

\* What is known of an entity is what the last event sent of it told.
LastSent(s, e) == \A i \in Polled(s, e) :
    (\A j \in Polled(s, e) : j <= i) => known[s][e] = events[i].payload

Snapshotted(s) == phase[s] \in {"snapshot", "polling"}

\* An entity not sent since the snapshot is known as stored, or unknown and not
\* live, unless it has changed since the snapshot was read.
FromSnapshot(s, e) ==
    (Snapshotted(s) /\ Polled(s, e) = {}) =>
        IF rows[e] = NoRow THEN known[s][e] = Untold
        ELSE rows[e].sequence <= opened[s] =>
                \/ known[s][e] = rows[e].payload
                \/ known[s][e] = Untold /\ e \notin list_live

CursorsInOrder(s) ==
    /\ opened[s] <= Len(events)
    /\ cursor[s] <= Len(events)
    /\ start[s] <= cursor[s]
    /\ phase[s] # "polling" => start[s] = 0 /\ cursor[s] = 0

ConnectionOK(s) ==
    /\ CursorsInOrder(s)
    /\ \A e \in Entities : LastSent(s, e) /\ FromSnapshot(s, e)

\* A connection prepares writes only for the sweep before its snapshot.
SweepsOpening == \A s \in Streams : staged[s] # Idle => phase[s] = "opening"

StreamInv ==
    /\ Inv
    /\ OwnSequence
    /\ StreamTypeOK
    /\ SweepsOpening
    /\ \A s \in Streams : ConnectionOK(s)

-----------------------------------------------------------------------------
(* Steps of the store, and of connections that only sweep.                 *)

\* What the types say of one connection.
LEMMA ConnectionFacts ==
    ASSUME StreamInv, NEW s \in Streams
    PROVE  /\ DOMAIN events = 1..Len(events) /\ Len(events) \in Nat
           /\ opened[s] \in Nat /\ start[s] \in Nat /\ cursor[s] \in Nat
           /\ ConnectionOK(s) /\ CursorsInOrder(s)
<1>1. events \in Seq(Event)
  BY DEF StreamInv, Inv, TypeOK
<1>2. opened[s] \in Nat /\ start[s] \in Nat /\ cursor[s] \in Nat
  BY DEF StreamInv, StreamTypeOK
<1>3. QED BY <1>1, <1>2 DEF StreamInv, ConnectionOK

\* An entity whose row rests does not come alive with time.
LEMMA DeadStaysDead ==
    ASSUME Inv, [Next]_vars, NEW e \in Entities, rows'[e] = rows[e], e \notin list_live
    PROVE  e \notin list_live'
<1>1. clock \in Nat /\ clock' \in Nat /\ clock <= clock'
  BY ClockMoves
<1>2. rows[e] # NoRow => rows[e].expiry = Absent \/ rows[e].expiry \in Nat
  BY ConstantsAssumption DEF Inv, TypeOK, Row
<1>3. QED BY <1>1, <1>2 DEF list_live

\* A connection that is sent nothing stays true to the store, whatever that does.
LEMMA RestsOverStep ==
    ASSUME StreamInv, [Next]_vars, NEW s \in Streams,
           opened'[s] = opened[s], start'[s] = start[s], cursor'[s] = cursor[s],
           known'[s] = known[s], Snapshotted(s)' <=> Snapshotted(s),
           phase'[s] = "polling" <=> phase[s] = "polling"
    PROVE  ConnectionOK(s)'
<1>1. Inv /\ OwnSequence
  BY DEF StreamInv
<1>2. /\ DOMAIN events = 1..Len(events) /\ Len(events) \in Nat
      /\ DOMAIN events' = 1..Len(events') /\ Len(events') \in Nat
      /\ Len(events) <= Len(events')
      /\ \A i \in DOMAIN events : i \in DOMAIN events' /\ events'[i] = events[i]
      /\ \A e \in Entities :
            \/ rows'[e] = rows[e]
            \/ rows'[e] # NoRow /\ rows'[e].sequence \in Nat /\ rows'[e].sequence > Len(events)
  BY <1>1, StreamGrows
<1>3. opened[s] \in Nat /\ start[s] \in Nat /\ cursor[s] \in Nat /\ ConnectionOK(s) /\ CursorsInOrder(s)
  BY ConnectionFacts
<1>4. CursorsInOrder(s)'
  BY <1>2, <1>3 DEF CursorsInOrder
<1>5. ASSUME NEW e \in Entities
      PROVE  Polled(s, e)' = Polled(s, e)
  <2>1. \A i \in DOMAIN events' : i <= cursor[s] => i \in DOMAIN events
    BY <1>2, <1>3 DEF CursorsInOrder
  <2>2. QED BY <1>2, <2>1 DEF Polled
<1>6. ASSUME NEW e \in Entities
      PROVE  LastSent(s, e)'
  <2> SUFFICES ASSUME NEW i \in Polled(s, e), \A j \in Polled(s, e) : j <= i
               PROVE  known[s][e] = events'[i].payload
    BY <1>5 DEF LastSent
  <2>1. events'[i] = events[i]
    BY <1>2 DEF Polled
  <2>2. QED BY <1>3, <2>1 DEF ConnectionOK, LastSent
<1>7. ASSUME NEW e \in Entities
      PROVE  FromSnapshot(s, e)'
  <2> SUFFICES ASSUME Snapshotted(s), Polled(s, e) = {}
               PROVE  IF rows'[e] = NoRow THEN known[s][e] = Untold
                      ELSE rows'[e].sequence <= opened[s] =>
                              \/ known[s][e] = rows'[e].payload
                              \/ known[s][e] = Untold /\ e \notin list_live'
    BY <1>5 DEF FromSnapshot
  <2>1. IF rows[e] = NoRow THEN known[s][e] = Untold
        ELSE rows[e].sequence <= opened[s] =>
                \/ known[s][e] = rows[e].payload
                \/ known[s][e] = Untold /\ e \notin list_live
    BY <1>3 DEF ConnectionOK, FromSnapshot
  <2>2. CASE rows'[e] = rows[e]
    <3>1. e \notin list_live => e \notin list_live'
      BY <1>1, <2>2, DeadStaysDead
    <3>2. QED BY <2>1, <2>2, <3>1
  <2>3. CASE rows'[e] # NoRow /\ rows'[e].sequence \in Nat /\ rows'[e].sequence > Len(events)
    <3>1. ~(rows'[e].sequence <= opened[s])
      BY <1>2, <1>3, <2>3 DEF CursorsInOrder
    <3>2. QED BY <2>3, <3>1
  <2>4. QED BY <1>2, <2>2, <2>3
<1>8. QED BY <1>4, <1>6, <1>7 DEF ConnectionOK

\* A connection takes the steps of a worker: it sweeps, or rests.
LEMMA StreamStepIsStep ==
    ASSUME [StreamNext]_allVars
    PROVE  [Next]_vars
<1>1. ASSUME NEW s \in Streams, Stream(s)
      PROVE  [Next]_vars
  <2>1. s \in Workers
    BY StreamsAssumption
  <2>2. CASE Connect(s)
    <3>1. ReadForSweep(s, Entities) => Sweep(s)
      BY DEF Sweep
    <3>2. QED BY <2>1, <2>2, <3>1 DEF Connect, Next, Request, vars
  <2>3. CASE FinishSweep(s) \/ FailSweep(s)
    BY <2>1, <2>3 DEF FinishSweep, FailSweep, Next, Request
  <2>4. CASE SendSnapshot(s) \/ TakeCursor(s) \/ Send(s) \/ Disconnect(s)
    BY <2>4 DEF SendSnapshot, TakeCursor, Send, Disconnect, vars
  <2>5. QED BY <1>1, <2>2, <2>3, <2>4 DEF Stream
<1>2. ASSUME NEW w \in Workers \ Streams, Request(w)
      PROVE  [Next]_vars
  BY <1>2 DEF Next
<1>3. CASE Tick
  BY <1>3 DEF Next
<1>4. CASE UNCHANGED allVars
  BY <1>4 DEF allVars, vars
<1>5. QED BY <1>1, <1>2, <1>3, <1>4 DEF StreamNext

\* Store and types under every step.
LEMMA StreamTypesKept ==
    ASSUME StreamInv, [StreamNext]_allVars
    PROVE  Inv' /\ OwnSequence' /\ StreamTypeOK'
<1>1. Inv /\ OwnSequence /\ [Next]_vars
  BY StreamStepIsStep DEF StreamInv
<1>2. Inv' /\ OwnSequence' /\ TypeOK'
  BY <1>1, StreamGrows DEF Inv
<1>3. /\ phase \in [Streams -> {"closed", "opening", "snapshot", "polling"}]
      /\ opened \in [Streams -> Nat]
      /\ start \in [Streams -> Nat]
      /\ cursor \in [Streams -> Nat]
      /\ known \in [Streams -> [Entities -> Payload \union {Untold}]]
      /\ Len(events) \in Nat /\ DOMAIN events = 1..Len(events)
      /\ events \in Seq(Event)
  BY DEF StreamInv, StreamTypeOK, TypeOK
<1>4. CASE UNCHANGED streamVars
  BY <1>2, <1>3, <1>4 DEF streamVars, StreamTypeOK
<1>5. ASSUME NEW s \in Streams, Stream(s)
      PROVE  StreamTypeOK'
  <2>1. CASE Connect(s) \/ FailSweep(s)
    BY <1>2, <1>3, <2>1 DEF Connect, FailSweep, StreamTypeOK
  <2>2. CASE FinishSweep(s)
    BY <1>4, <2>2 DEF FinishSweep
  <2>3. CASE SendSnapshot(s)
    <3>1. [e \in Entities |-> IF e \in list_live THEN rows[e].payload ELSE Untold]
             \in [Entities -> Payload \union {Untold}]
      <4>1. \A e \in list_live : rows[e].payload \in Payload
        BY DEF list_live, StreamInv, Inv, TypeOK, Row
      <4>2. QED BY <4>1
    <3>2. QED BY <1>2, <1>3, <2>3, <3>1 DEF SendSnapshot, StreamTypeOK
  <2>4. CASE TakeCursor(s)
    BY <1>2, <1>3, <2>4 DEF TakeCursor, StreamTypeOK
  <2>5. CASE Send(s)
    <3>1. events[cursor[s] + 1] \in Event
      <4>1. cursor[s] \in Nat /\ cursor[s] < Len(events)
        BY <1>3, <2>5 DEF Send
      <4>2. cursor[s] + 1 \in 1..Len(events)
        BY <1>3, <4>1
      <4>3. QED BY <1>3, <4>2
    <3>2. events[cursor[s] + 1].payload \in Payload /\ events[cursor[s] + 1].entity \in Entities
      BY <3>1 DEF Event
    <3>3. cursor[s] + 1 \in Nat
      BY <1>3
    <3>4. /\ cursor' = [cursor EXCEPT ![s] = cursor[s] + 1]
          /\ known' = [known EXCEPT ![s][events[cursor[s] + 1].entity] = events[cursor[s] + 1].payload]
          /\ UNCHANGED <<phase, opened, start>>
      BY <2>5 DEF Send, NextCursor
    <3>5. known' \in [Streams -> [Entities -> Payload \union {Untold}]]
      BY <1>3, <3>2, <3>4
    <3>6. cursor' \in [Streams -> Nat]
      BY <1>3, <3>3, <3>4
    <3>7. QED BY <1>2, <1>3, <3>4, <3>5, <3>6 DEF StreamTypeOK
  <2>6. CASE Disconnect(s)
    BY <1>2, <1>3, <2>6 DEF Disconnect, StreamTypeOK
  <2>7. QED BY <1>5, <2>1, <2>2, <2>3, <2>4, <2>5, <2>6 DEF Stream
<1>6. QED BY <1>2, <1>4, <1>5 DEF StreamNext, allVars, streamVars

-----------------------------------------------------------------------------
(* Steps that send.                                                        *)

\* The snapshot tells of the live entities as they are stored.
LEMMA SnapshotSent ==
    ASSUME StreamInv, NEW s \in Streams, SendSnapshot(s)
    PROVE  ConnectionOK(s)'
<1>1. /\ UNCHANGED <<rows, events, clock, start, cursor>>
      /\ phase[s] = "opening" /\ phase'[s] = "snapshot"
      /\ opened'[s] = Len(events)
      /\ \A e \in Entities : known'[s][e] = IF e \in list_live THEN rows[e].payload ELSE Untold
  BY DEF SendSnapshot, StreamInv, StreamTypeOK
<1>2. start[s] = 0 /\ cursor[s] = 0 /\ Len(events) \in Nat /\ DOMAIN events = 1..Len(events)
  BY <1>1, ConnectionFacts DEF CursorsInOrder
<1>3. CursorsInOrder(s)'
  BY <1>1, <1>2 DEF CursorsInOrder
<1>4. \A e \in Entities : Polled(s, e)' = {}
  <2>1. \A i \in DOMAIN events : ~(i <= 0)
    BY <1>2
  <2>2. QED BY <1>1, <1>2, <2>1 DEF Polled
<1>5. \A e \in Entities : FromSnapshot(s, e)'
  BY <1>1, <1>4 DEF FromSnapshot, list_live
<1>6. QED BY <1>3, <1>4, <1>5 DEF ConnectionOK, LastSent

\* Polling begins at the end of the stream, with nothing sent.
LEMMA CursorTaken ==
    ASSUME StreamInv, NEW s \in Streams, TakeCursor(s)
    PROVE  ConnectionOK(s)'
<1>1. /\ UNCHANGED <<rows, events, clock, opened, known>>
      /\ phase[s] = "snapshot" /\ phase'[s] = "polling"
      /\ start'[s] = Len(events) /\ cursor'[s] = Len(events)
  BY DEF TakeCursor, StreamInv, StreamTypeOK
<1>2. /\ Len(events) \in Nat /\ DOMAIN events = 1..Len(events) /\ ConnectionOK(s)
      /\ start[s] = 0 /\ cursor[s] = 0 /\ opened[s] <= Len(events)
  BY <1>1, ConnectionFacts DEF CursorsInOrder
<1>3. CursorsInOrder(s)'
  BY <1>1, <1>2 DEF CursorsInOrder
<1>4. \A e \in Entities : Polled(s, e)' = {} /\ Polled(s, e) = {}
  <2>1. \A i \in DOMAIN events : ~(i <= 0) /\ ~(Len(events) < i)
    BY <1>2
  <2>2. QED BY <1>1, <1>2, <2>1 DEF Polled
<1>5. \A e \in Entities : FromSnapshot(s, e)'
  <2>1. list_live' = list_live
    BY <1>1 DEF list_live
  <2>2. QED BY <1>1, <1>2, <1>4, <2>1 DEF ConnectionOK, FromSnapshot, Snapshotted
<1>6. QED BY <1>3, <1>4, <1>5 DEF ConnectionOK, LastSent

\* The next row of a poll is the newest that was sent of its entity.
LEMMA RowSent ==
    ASSUME StreamInv, NEW s \in Streams, Send(s)
    PROVE  ConnectionOK(s)'
<1> DEFINE m == cursor[s] + 1
           u == events[m].entity
<1>1. /\ UNCHANGED <<rows, events, clock, phase, opened, start>>
      /\ phase[s] = "polling" /\ cursor[s] < Len(events)
      /\ cursor' = [cursor EXCEPT ![s] = m]
      /\ known' = [known EXCEPT ![s][u] = events[m].payload]
  BY DEF Send, NextCursor
<1>2. /\ Len(events) \in Nat /\ DOMAIN events = 1..Len(events) /\ ConnectionOK(s)
      /\ start[s] \in Nat /\ cursor[s] \in Nat /\ start[s] <= cursor[s] /\ opened[s] <= Len(events)
  BY ConnectionFacts DEF CursorsInOrder
<1>3. m \in DOMAIN events /\ m \in Nat /\ events[m] \in Event
  <2>1. m \in DOMAIN events /\ m \in Nat
    BY <1>1, <1>2
  <2>2. QED BY <2>1 DEF StreamInv, Inv, TypeOK
<1>4. u \in Entities
  BY <1>3 DEF Event
<1>5. cursor'[s] = m
  BY <1>1 DEF StreamInv, StreamTypeOK
<1>6. known'[s][u] = events[m].payload /\ \A e \in Entities : e # u => known'[s][e] = known[s][e]
  BY <1>1, <1>4 DEF StreamInv, StreamTypeOK
<1>7. CursorsInOrder(s)'
  BY <1>1, <1>2, <1>5 DEF CursorsInOrder
<1>8. \A e \in Entities : Polled(s, e)' = IF e = u THEN Polled(s, e) \union {m} ELSE Polled(s, e)
  <2> SUFFICES ASSUME NEW e \in Entities
               PROVE  Polled(s, e)' = IF e = u THEN Polled(s, e) \union {m} ELSE Polled(s, e)
    OBVIOUS
  <2>1. Polled(s, e)' = {i \in DOMAIN events : start[s] < i /\ i <= m /\ events[i].entity = e}
    BY <1>1, <1>5 DEF Polled
  <2>2. ASSUME NEW i \in DOMAIN events
        PROVE  (start[s] < i /\ i <= m) <=> \/ start[s] < i /\ i <= cursor[s]
                                            \/ i = m
    BY <1>2
  <2>3. QED BY <1>3, <2>1, <2>2 DEF Polled
<1> HIDE DEF m, u
<1>9. ASSUME NEW e \in Entities
      PROVE  LastSent(s, e)'
  <2> SUFFICES ASSUME NEW i \in Polled(s, e)', \A j \in Polled(s, e)' : j <= i
               PROVE  known'[s][e] = events[i].payload
    BY <1>1 DEF LastSent
  <2>1. CASE e = u
    <3>1. \A j \in Polled(s, e) : j \in Nat /\ j < m
      BY <1>2 DEF Polled, m
    <3>2. m \in Polled(s, e)'
      BY <1>8, <2>1
    <3>3. m <= i
      BY <3>2
    <3>4. i \notin Polled(s, e)
      BY <1>3, <3>1, <3>3
    <3>5. i = m
      BY <1>8, <2>1, <3>4
    <3>6. QED BY <1>6, <2>1, <3>5
  <2>2. CASE e # u
    BY <1>2, <1>6, <1>8, <2>2 DEF ConnectionOK, LastSent
  <2>3. QED BY <2>1, <2>2
<1>10. ASSUME NEW e \in Entities
       PROVE  FromSnapshot(s, e)'
  <2>1. CASE e = u
    BY <1>8, <2>1 DEF FromSnapshot
  <2>2. CASE e # u
    <3>1. list_live' = list_live
      BY <1>1 DEF list_live
    <3>2. QED BY <1>1, <1>2, <1>6, <1>8, <2>2, <3>1 DEF ConnectionOK, FromSnapshot, Snapshotted
  <2>3. QED BY <2>1, <2>2
<1>11. QED BY <1>7, <1>9, <1>10 DEF ConnectionOK

\* A connection that is gone has been sent nothing.
LEMMA Disconnected ==
    ASSUME StreamInv, NEW s \in Streams, Disconnect(s)
    PROVE  ConnectionOK(s)'
<1>1. /\ UNCHANGED <<rows, events, clock>>
      /\ phase'[s] = "closed"
      /\ opened'[s] = 0 /\ start'[s] = 0 /\ cursor'[s] = 0
  BY DEF Disconnect, vars, StreamInv, StreamTypeOK
<1>2. Len(events) \in Nat /\ DOMAIN events = 1..Len(events)
  BY ConnectionFacts
<1>3. CursorsInOrder(s)'
  BY <1>1, <1>2 DEF CursorsInOrder
<1>4. \A e \in Entities : Polled(s, e)' = {}
  <2>1. \A i \in DOMAIN events : ~(i <= 0)
    BY <1>2
  <2>2. QED BY <1>1, <2>1 DEF Polled
<1>5. QED BY <1>1, <1>3, <1>4 DEF ConnectionOK, LastSent, FromSnapshot, Snapshotted

-----------------------------------------------------------------------------
(* What clients hold, in every behaviour.                                  *)

\* No connection is open at first.
LEMMA InitStreamInv == StreamInit => StreamInv
<1> SUFFICES ASSUME StreamInit PROVE StreamInv
  OBVIOUS
<1>1. Inv
  BY InitInv DEF StreamInit
<1>2. Len(events) = 0 /\ DOMAIN events = {}
  BY DEF StreamInit, Init
<1>3. OwnSequence
  BY DEF StreamInit, Init, OwnSequence
<1>4. StreamTypeOK
  BY <1>1 DEF StreamInit, StreamTypeOK, Inv
<1>5. SweepsOpening
  BY StreamsAssumption DEF StreamInit, Init, SweepsOpening
<1>6. \A s \in Streams : ConnectionOK(s)
  BY <1>2 DEF StreamInit, ConnectionOK, CursorsInOrder, LastSent, FromSnapshot, Polled, Snapshotted
<1>7. QED BY <1>1, <1>3, <1>4, <1>5, <1>6 DEF StreamInv

\* A connection has done with its sweep when it reads its snapshot.
LEMMA SweepsKept ==
    ASSUME StreamInv, [StreamNext]_allVars
    PROVE  SweepsOpening'
<1>1. Inv /\ SweepsOpening /\ phase \in [Streams -> {"closed", "opening", "snapshot", "polling"}]
      /\ staged \in [Workers -> Seq(Write) \union {Idle}]
  BY DEF StreamInv, StreamTypeOK, TypeOK
<1>2. ASSUME NEW w \in Workers, Request(w), NEW x \in Workers, x # w
      PROVE  staged'[x] = staged[x]
  BY <1>1, <1>2, StepKinds DEF Stages, Drops, Writes
<1>3. ASSUME NEW w \in Workers \ Streams, Request(w), UNCHANGED streamVars
      PROVE  SweepsOpening'
  BY <1>1, <1>2, <1>3, StreamsAssumption DEF SweepsOpening, streamVars
<1>4. CASE UNCHANGED allVars \/ (Tick /\ UNCHANGED streamVars)
  BY <1>1, <1>4 DEF SweepsOpening, allVars, streamVars, Tick
<1>5. ASSUME NEW s \in Streams, Stream(s)
      PROVE  SweepsOpening'
  <2>1. s \in Workers /\ \A x \in Streams : x \in Workers
    BY StreamsAssumption
  <2>2. CASE Connect(s)
    <3>1. \A x \in Streams : x # s => staged'[x] = staged[x]
      BY <1>1, <2>1, <2>2 DEF Connect, ReadForSweep, Stage, vars
    <3>2. QED BY <1>1, <2>2, <3>1 DEF Connect, SweepsOpening
  <2>3. CASE FinishSweep(s) \/ FailSweep(s)
    <3>1. staged' = [staged EXCEPT ![s] = Idle]
      BY <2>3 DEF FinishSweep, FailSweep, CommitChanges, Rollback, Finish
    <3>2. \A x \in Streams : x # s => phase'[x] = phase[x]
      BY <1>1, <2>3 DEF FinishSweep, FailSweep, streamVars
    <3>3. QED BY <1>1, <2>1, <3>1, <3>2 DEF SweepsOpening
  <2>4. CASE SendSnapshot(s) \/ TakeCursor(s) \/ Disconnect(s)
    <3>1. staged[s] = Idle /\ UNCHANGED staged
      BY <1>1, <2>4 DEF SendSnapshot, TakeCursor, Disconnect, SweepsOpening, vars
    <3>2. \A x \in Streams : x # s => phase'[x] = phase[x]
      BY <1>1, <2>4 DEF SendSnapshot, TakeCursor, Disconnect
    <3>3. QED BY <1>1, <3>1, <3>2 DEF SweepsOpening
  <2>5. CASE Send(s)
    BY <1>1, <2>5 DEF Send, SweepsOpening
  <2>6. QED BY <1>5, <2>2, <2>3, <2>4, <2>5 DEF Stream
<1>6. QED BY <1>3, <1>4, <1>5 DEF StreamNext

\* Each action keeps the invariant, whichever process takes it.
LEMMA StepKeepsStreams == StreamInv /\ [StreamNext]_allVars => StreamInv'
<1> SUFFICES ASSUME StreamInv, [StreamNext]_allVars PROVE StreamInv'
  OBVIOUS
<1>1. Inv' /\ OwnSequence' /\ StreamTypeOK' /\ SweepsOpening' /\ SweepsOpening /\ [Next]_vars
  BY StreamTypesKept, SweepsKept, StreamStepIsStep DEF StreamInv
<1>2. CASE UNCHANGED streamVars
  <2>1. \A s \in Streams : ConnectionOK(s)'
    BY <1>1, <1>2, RestsOverStep DEF streamVars, Snapshotted
  <2>2. QED BY <1>1, <2>1 DEF StreamInv
<1>3. ASSUME NEW s \in Streams, Stream(s)
      PROVE  StreamInv'
  <2>1. ASSUME NEW x \in Streams, x # s
        PROVE  ConnectionOK(x)'
    <3>1. /\ opened'[x] = opened[x] /\ start'[x] = start[x] /\ cursor'[x] = cursor[x]
          /\ known'[x] = known[x] /\ phase'[x] = phase[x]
      BY <1>3, <2>1 DEF Stream, Connect, FinishSweep, FailSweep, SendSnapshot, TakeCursor, Send,
                        Disconnect, streamVars, StreamInv, StreamTypeOK
    <3>2. QED BY <1>1, <3>1, RestsOverStep DEF Snapshotted
  <2>2. CASE Connect(s)
    <3>1. /\ UNCHANGED <<opened, start, cursor, known>>
          /\ phase[s] = "closed" /\ phase'[s] = "opening"
      BY <2>2 DEF Connect, StreamInv, StreamTypeOK
    <3>2. QED BY <1>1, <2>1, <3>1, RestsOverStep DEF Snapshotted, StreamInv
  <2>3. CASE FinishSweep(s)
    BY <1>2, <2>3 DEF FinishSweep
  <2>4. CASE FailSweep(s)
    <3>1. /\ UNCHANGED <<opened, start, cursor, known>>
          /\ phase' = [phase EXCEPT ![s] = "closed"]
      BY <2>4 DEF FailSweep
    <3>2. ~Snapshotted(s)
      BY <1>1, <2>4 DEF FailSweep, Rollback, SweepsOpening, Snapshotted
    <3>3. QED BY <1>1, <2>1, <3>1, <3>2, RestsOverStep DEF Snapshotted, StreamInv, StreamTypeOK
  <2>5. CASE SendSnapshot(s) \/ TakeCursor(s) \/ Send(s) \/ Disconnect(s)
    BY <1>1, <2>1, <2>5, SnapshotSent, CursorTaken, RowSent, Disconnected DEF StreamInv
  <2>6. QED BY <1>3, <2>2, <2>3, <2>4, <2>5 DEF Stream
<1>4. QED BY <1>2, <1>3 DEF StreamNext, allVars, streamVars

\* Store, cursors and what clients were told belong together in every behaviour.
THEOREM StreamInvariance == StreamSpec => []StreamInv
BY InitStreamInv, StepKeepsStreams, PTL DEF StreamSpec

\* Store, cursors and what clients were told have their types.
THEOREM StreamTypeCorrect == StreamSpec => []StreamTypeOK
<1>1. StreamInv => StreamTypeOK
  BY DEF StreamInv
<1>2. QED BY <1>1, StreamInvariance, PTL

\* A client that missed nothing between snapshot and cursor knows what is stored.
LEMMA FollowerKnowsRows == StreamInv => FollowerInStep
<1> SUFFICES ASSUME StreamInv, NEW s \in Streams, CaughtUp(s), opened[s] = start[s], NEW e \in Entities
             PROVE  InStep(s, e)
  BY DEF FollowerInStep
<1>1. /\ DOMAIN events = 1..Len(events) /\ Len(events) \in Nat
      /\ start[s] \in Nat /\ cursor[s] = Len(events) /\ ConnectionOK(s) /\ Snapshotted(s)
  BY ConnectionFacts DEF CaughtUp, Snapshotted
<1>2. Inv /\ NoneBeforeCreation /\ StoredWasTold /\ OwnSequence
  BY DEF StreamInv, Inv
<1>3. Polled(s, e) = {i \in DOMAIN events : start[s] < i /\ events[i].entity = e}
  BY <1>1 DEF Polled
<1>4. CASE rows[e] = NoRow
  <2>1. Polled(s, e) = {}
    BY <1>2, <1>3, <1>4 DEF NoneBeforeCreation
  <2>2. QED BY <1>1, <1>4, <2>1 DEF ConnectionOK, FromSnapshot, InStep
<1>5. CASE rows[e] # NoRow
  <2> DEFINE q == rows[e].sequence
  <2>1. /\ q \in DOMAIN events /\ events[q].entity = e
        /\ \A i \in DOMAIN events : events[i].entity = e => i <= q
    BY <1>2, <1>5 DEF StoredWasTold, OwnSequence
  <2> HIDE DEF q
  <2>2. q \in Nat
    BY <1>1, <2>1
  <2>3. CASE q > start[s]
    <3>1. q \in Polled(s, e) /\ \A j \in Polled(s, e) : j <= q
      BY <1>1, <1>3, <2>1, <2>2, <2>3
    <3>2. known[s][e] = events[q].payload
      BY <1>1, <3>1 DEF ConnectionOK, LastSent
    <3>3. QED BY <1>5, <2>3, <3>2 DEF InStep, q
  <2>4. CASE ~(q > start[s])
    <3>1. Polled(s, e) = {} /\ q <= opened[s]
      BY <1>1, <1>3, <2>1, <2>2, <2>4
    <3>2. known[s][e] = rows[e].payload \/ (known[s][e] = Untold /\ e \notin list_live)
      BY <1>1, <1>5, <3>1 DEF ConnectionOK, FromSnapshot, q
    <3>3. QED BY <1>5, <2>4, <3>2 DEF InStep, q
  <2>5. QED BY <2>3, <2>4
<1>6. QED BY <1>4, <1>5

\* A client that has been sent all there is knows every live entity as it is stored
\* and every changed one as its last event tells it, unless something committed
\* between its snapshot and its cursor.
THEOREM FollowerInStepAlways == StreamSpec => []FollowerInStep
BY FollowerKnowsRows, StreamInvariance, PTL

=============================================================================
