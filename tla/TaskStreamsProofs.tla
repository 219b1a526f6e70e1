-------------------------- MODULE TaskStreamsProofs --------------------------
(***************************************************************************)
(* Proofs about TaskStreams for any tasks, agents, workers, connections    *)
(* and bounds, on top of those about the log TaskStore writes.             *)
(***************************************************************************)
EXTENDS TaskStreams, TaskStoreProofs

\* Events a connection may be sent that tell of a task.
Concerns(s, t, i) == Visible(topic[s], i) /\ events[i].task = t

\* Those it has been sent since it polls.
Polled(s, t) == {i \in DOMAIN events : start[s] < i /\ i <= cursor[s] /\ Concerns(s, t, i)}

\* What is known of a task is what the last event sent of it told.
KnownIsLastSent == \A s \in Streams, t \in Tasks : \A i \in Polled(s, t) :
    (\A j \in Polled(s, t) : j <= i) =>
        known[s][t] = [type |-> events[i].type, payload |-> events[i].payload]

\* A task that the snapshot told of was open, with the payload of its last event.
ToldBySnapshot(s, t) ==
    /\ known[s][t].type = IF topic[s].stream = "task" THEN "PREEXISTING" ELSE "ExecuteRequest"
    /\ rows[t] # NoRow
    /\ topic[s].who # Anyone => rows[t].assignee \in {topic[s].who, Anyone}
    /\ \A i \in 1..opened[s] : ~ClosingEvent(i, t)
    /\ \E i \in 1..opened[s] :
          /\ IsTaskEvent(i, t)
          /\ events[i].payload = known[s][t].payload
          /\ \A j \in 1..opened[s] : IsTaskEvent(j, t) => j <= i

\* One it did not tell of, though asked for all, had no events or was over.
LeftBySnapshot(s, t) ==
    (topic[s].preexisting /\ topic[s].who = Anyone) =>
        \A i \in 1..opened[s] : IsTaskEvent(i, t) => \E j \in 1..opened[s] : ClosingEvent(j, t)

KnownIsSnapshot == \A s \in Streams, t \in Tasks :
    (phase[s] # "closed" /\ Polled(s, t) = {}) =>
        IF known[s][t] = Unknown THEN LeftBySnapshot(s, t) ELSE ToldBySnapshot(s, t)

CursorsInOrder == \A s \in Streams :
    /\ start[s] <= cursor[s]
    /\ phase[s] # "polling" => start[s] = 0 /\ cursor[s] = 0
    /\ phase[s] = "closed" => opened[s] = 0

StreamInv == /\ LogInv
             /\ StreamTypeOK
             /\ CursorsInOrder
             /\ KnownIsLastSent
             /\ KnownIsSnapshot

-----------------------------------------------------------------------------
(* The log and its readers.                                                *)

\* What the types say of one connection.
LEMMA ConnectionFacts ==
    ASSUME StreamInv, NEW s \in Streams
    PROVE  /\ DOMAIN events = 1..Len(events) /\ Len(events) \in Nat
           /\ opened[s] \in Nat /\ opened[s] <= Len(events)
           /\ start[s] \in Nat /\ start[s] <= Len(events)
           /\ cursor[s] \in Nat /\ cursor[s] <= Len(events)
           /\ topic[s] \in Topics
<1>1. events \in Seq(Event)
  BY DEF StreamInv, LogInv, Inv, TypeOK
<1>2. opened[s] \in 0..Len(events) /\ start[s] \in 0..Len(events) /\ cursor[s] \in 0..Len(events)
      /\ topic[s] \in Topics
  BY DEF StreamInv, StreamTypeOK
<1>3. DOMAIN events = 1..Len(events) /\ Len(events) \in Nat
  BY <1>1
<1>4. QED BY <1>2, <1>3

\* An event tells something a client can be told.
LEMMA EventTold ==
    ASSUME NEW e \in Event
    PROVE  /\ [type |-> e.type, payload |-> e.payload] \in Told
           /\ e.task \in Tasks
BY DEF Event, Told

\* A row's payload is a payload.
LEMMA RowPayload ==
    ASSUME NEW r \in Row
    PROVE  r.payload \in Payload /\ r.sequence \in Nat
BY DEF Row

\* The cursor a connection starts from is a place in the log, or before it.
LEMMA MaxEventId ==
    ASSUME TypeOK, NEW stream
    PROVE  /\ get_max_event_id(stream) \in Nat
           /\ get_max_event_id(stream) <= Len(events)
<1> DEFINE S == {i \in DOMAIN events : OfStream(i, stream)}
<1>1. events \in Seq(Event) /\ DOMAIN events = 1..Len(events) /\ Len(events) \in Nat
  BY DEF TypeOK
<1>2. CASE S = {}
  BY <1>1, <1>2 DEF get_max_event_id
<1>3. CASE S # {}
  <2>1. S \in SUBSET Nat /\ \A n \in S : n <= Len(events)
    BY <1>1
  <2> HIDE DEF S
  <2>2. \E n \in S : \A m \in S : m <= n
    BY <1>1, <1>3, <2>1, GreatestNumber
  <2>3. get_max_event_id(stream) \in S
    BY <2>2 DEF get_max_event_id, S
  <2>4. QED BY <2>1, <2>3
<1>4. QED BY <1>2, <1>3

\* The row a connection sends next is its first pending one.
LEMMA NextRowIsFirst ==
    ASSUME StreamInv, NEW s \in Streams, Pending(s) # {}
    PROVE  /\ NextRow(s) \in Pending(s)
           /\ \A j \in Pending(s) : NextRow(s) <= j
<1>1. Pending(s) \in SUBSET Nat
  BY ConnectionFacts DEF Pending
<1>2. \E i \in Pending(s) : \A j \in Pending(s) : i <= j
  BY <1>1, LeastNumber
<1>3. QED BY <1>2 DEF NextRow

-----------------------------------------------------------------------------
(* Steps of the task store under the connections.                          *)

\* A request to the store only adds to the log, behind every cursor.
LEMMA StoreStepKeepsStreams ==
    ASSUME StreamInv, [Next]_vars, UNCHANGED streamVars
    PROVE  StreamInv'
<1> USE DEF streamVars
<1>1. LogInv /\ LogInv' /\ Inv
  BY StepKeepsLogInv DEF StreamInv, LogInv
<1>2. /\ DOMAIN events = 1..Len(events) /\ Len(events) \in Nat
      /\ DOMAIN events' = 1..Len(events') /\ Len(events') \in Nat
      /\ Len(events) <= Len(events')
      /\ \A i \in DOMAIN events : i \in DOMAIN events' /\ events'[i] = events[i]
  BY <1>1, LogGrows
<1>3. StreamTypeOK'
  <2>1. TypeOK'
    BY <1>1 DEF LogInv, Inv
  <2>2. \A n \in 0..Len(events) : n \in 0..Len(events')
    BY <1>2
  <2>3. QED BY <2>1, <2>2 DEF StreamInv, StreamTypeOK
<1>4. CursorsInOrder'
  BY DEF StreamInv, CursorsInOrder
<1>5. \A i \in DOMAIN events : \A t \in Tasks :
         /\ ClosingEvent(i, t)' <=> ClosingEvent(i, t)
         /\ IsTaskEvent(i, t)' <=> IsTaskEvent(i, t)
         /\ \A s \in Streams : Concerns(s, t, i)' <=> Concerns(s, t, i)
  BY <1>2 DEF ClosingEvent, IsTaskEvent, Concerns, Visible, OfStream
<1>6. \A s \in Streams, t \in Tasks : Polled(s, t)' = Polled(s, t)
  <2> SUFFICES ASSUME NEW s \in Streams, NEW t \in Tasks
               PROVE  Polled(s, t)' = Polled(s, t)
    OBVIOUS
  <2>1. cursor[s] \in Nat /\ cursor[s] <= Len(events)
    BY ConnectionFacts
  <2>2. \A i \in DOMAIN events' : i <= cursor[s] => i \in DOMAIN events
    BY <1>2, <2>1
  <2>3. QED BY <1>2, <1>5, <2>2 DEF Polled
<1>7. KnownIsLastSent'
  <2> SUFFICES ASSUME NEW s \in Streams, NEW t \in Tasks, NEW i \in Polled(s, t),
                      \A j \in Polled(s, t) : j <= i
               PROVE  known[s][t] = [type |-> events'[i].type, payload |-> events'[i].payload]
    BY <1>6 DEF KnownIsLastSent
  <2>1. events'[i] = events[i]
    BY <1>2 DEF Polled
  <2>2. QED BY <2>1 DEF StreamInv, KnownIsLastSent
<1>8. KnownIsSnapshot'
  <2> SUFFICES ASSUME NEW s \in Streams, NEW t \in Tasks, phase[s] # "closed", Polled(s, t) = {}
               PROVE  IF known[s][t] = Unknown THEN LeftBySnapshot(s, t)' ELSE ToldBySnapshot(s, t)'
    BY <1>6 DEF KnownIsSnapshot
  <2>1. \A i \in 1..opened[s] : i \in DOMAIN events /\ events'[i] = events[i]
    <3>1. opened[s] \in Nat /\ opened[s] <= Len(events)
      BY ConnectionFacts
    <3>2. QED BY <1>2, <3>1
  <2>2. \A i \in 1..opened[s] : /\ ClosingEvent(i, t)' <=> ClosingEvent(i, t)
                                /\ IsTaskEvent(i, t)' <=> IsTaskEvent(i, t)
    BY <1>5, <2>1
  <2>3. CASE known[s][t] = Unknown
    <3>1. LeftBySnapshot(s, t)
      BY <2>3 DEF StreamInv, KnownIsSnapshot
    <3>2. QED BY <2>2, <2>3, <3>1 DEF LeftBySnapshot
  <2>4. CASE known[s][t] # Unknown
    <3>1. ToldBySnapshot(s, t)
      BY <2>4 DEF StreamInv, KnownIsSnapshot
    <3>2. rows'[t] # NoRow /\ rows'[t].assignee = rows[t].assignee
      <4>1. rows[t] # NoRow
        BY <3>1 DEF ToldBySnapshot
      <4>2. CASE UNCHANGED <<rows, events>>
        BY <4>1, <4>2
      <4>3. QED BY <1>1, <4>1, <4>2, WritesOrNot, WriteKeepsRow
    <3>3. QED BY <2>1, <2>2, <2>4, <3>1, <3>2 DEF ToldBySnapshot
  <2>5. QED BY <2>3, <2>4
<1>9. QED BY <1>1, <1>3, <1>4, <1>7, <1>8 DEF StreamInv

-----------------------------------------------------------------------------
(* Steps of a connection.                                                  *)

\* The store does not change under them.
LEMMA StoreRests ==
    ASSUME StreamInv, UNCHANGED <<rows, events, staged, reply>>
    PROVE  LogInv' /\ TypeOK'
<1>1. [Next]_vars
  BY DEF vars
<1>2. LogInv'
  BY <1>1, StepKeepsLogInv DEF StreamInv
<1>3. QED BY <1>2 DEF LogInv, Inv

\* A connection that rests keeps what was said of it.
LEMMA OthersRest ==
    ASSUME StreamInv, UNCHANGED <<rows, events>>, NEW s \in Streams, NEW t \in Tasks,
           phase'[s] = phase[s], topic'[s] = topic[s], opened'[s] = opened[s],
           start'[s] = start[s], cursor'[s] = cursor[s], known'[s][t] = known[s][t]
    PROVE  /\ Polled(s, t)' = Polled(s, t)
           /\ \A i \in Polled(s, t) : (\A j \in Polled(s, t) : j <= i) =>
                known'[s][t] = [type |-> events[i].type, payload |-> events[i].payload]
           /\ (phase'[s] # "closed" /\ Polled(s, t) = {}) =>
                IF known'[s][t] = Unknown THEN LeftBySnapshot(s, t)' ELSE ToldBySnapshot(s, t)'
<1>1. Polled(s, t)' = Polled(s, t)
  BY DEF Polled, Concerns, Visible, OfStream
<1>2. LeftBySnapshot(s, t)' <=> LeftBySnapshot(s, t)
  BY DEF LeftBySnapshot, IsTaskEvent, ClosingEvent
<1>3. ToldBySnapshot(s, t)' <=> ToldBySnapshot(s, t)
  BY DEF ToldBySnapshot, IsTaskEvent, ClosingEvent
<1>4. QED BY <1>1, <1>2, <1>3 DEF StreamInv, KnownIsLastSent, KnownIsSnapshot

\* The snapshot tells of every task that is open and asked for.
LEMMA SnapshotTold ==
    ASSUME LogInv, NEW top \in Topics, NEW t \in Tasks
    PROVE  /\ Snapshot(top)[t] \in Told \union {Unknown}
           /\ Snapshot(top)[t] # Unknown =>
                 /\ Open(t) /\ (top.who # Anyone => rows[t].assignee \in {top.who, Anyone})
                 /\ Snapshot(top)[t].type = IF top.stream = "task" THEN "PREEXISTING" ELSE "ExecuteRequest"
                 /\ Snapshot(top)[t].payload = rows[t].payload
           /\ (Snapshot(top)[t] = Unknown /\ top.preexisting /\ top.who = Anyone) => ~Open(t)
<1> DEFINE told == [type |-> IF top.stream = "task" THEN "PREEXISTING" ELSE "ExecuteRequest",
                    payload |-> rows[t].payload]
<1>1. Snapshot(top)[t] = IF t \in Preexisting(top) THEN told ELSE Unknown
  BY DEF Snapshot
<1>2. CASE t \in Preexisting(top)
  <2>1. Open(t) /\ (top.who # Anyone => rows[t].assignee \in {top.who, Anyone})
    BY <1>2 DEF Preexisting, list_open
  <2>2. rows[t] \in Row
    BY <2>1 DEF Open, LogInv, Inv, TypeOK
  <2>3. told \in Told
    BY <2>2, RowPayload DEF Told
  <2>4. QED BY <1>1, <1>2, <2>1, <2>3, StreamsAssumption
<1>3. CASE t \notin Preexisting(top)
  BY <1>1, <1>3 DEF Preexisting
<1>4. QED BY <1>2, <1>3

\* A connection is told the rows that are stored.
LEMMA ConnectKeepsStreams ==
    ASSUME StreamInv, NEW s \in Streams, Connect(s)
    PROVE  StreamInv'
<1>1. /\ UNCHANGED <<rows, events, staged, reply, topic, start, cursor>>
      /\ phase[s] = "closed"
      /\ known' = [known EXCEPT ![s] = Snapshot(topic[s])]
      /\ phase' = [phase EXCEPT ![s] = "snapshot"]
      /\ opened' = [opened EXCEPT ![s] = Len(events)]
  BY DEF Connect
<1>2. LogInv /\ LogInv' /\ TypeOK'
  BY <1>1, StoreRests DEF StreamInv
<1>3. /\ phase \in [Streams -> {"closed", "snapshot", "polling"}]
      /\ topic \in [Streams -> Topics]
      /\ opened \in [Streams -> 0..Len(events)]
      /\ known \in [Streams -> [Tasks -> Told \union {Unknown}]]
      /\ Len(events) \in 0..Len(events) /\ Len(events) \in Nat /\ DOMAIN events = 1..Len(events)
  BY ConnectionFacts DEF StreamInv, StreamTypeOK
<1>4. StreamTypeOK'
  <2>1. Snapshot(topic[s]) \in [Tasks -> Told \union {Unknown}]
    BY <1>2, <1>3, SnapshotTold DEF Snapshot
  <2>2. QED BY <1>1, <1>2, <1>3, <2>1 DEF StreamInv, StreamTypeOK
<1>5. CursorsInOrder'
  BY <1>1, <1>3 DEF StreamInv, CursorsInOrder
<1>6. \A x \in Streams : x # s =>
         /\ phase'[x] = phase[x] /\ opened'[x] = opened[x] /\ known'[x] = known[x]
  BY <1>1, <1>3
<1>7. \A t \in Tasks : Polled(s, t)' = {}
  <2>1. cursor'[s] = 0
    BY <1>1 DEF StreamInv, CursorsInOrder
  <2>2. \A i \in DOMAIN events' : ~(i <= 0)
    BY <1>1, <1>3
  <2>3. QED BY <2>1, <2>2 DEF Polled
<1>8. KnownIsLastSent'
  BY <1>1, <1>6, <1>7, OthersRest DEF KnownIsLastSent
<1>9. ASSUME NEW t \in Tasks
      PROVE  IF known'[s][t] = Unknown THEN LeftBySnapshot(s, t)' ELSE ToldBySnapshot(s, t)'
  <2>1. known'[s][t] = Snapshot(topic[s])[t] /\ opened'[s] = Len(events) /\ topic[s] \in Topics
    BY <1>1, <1>3
  <2>2. \A i \in 1..Len(events) : i \in DOMAIN events
    BY <1>3
  <2>3. TerminalMatchesLog /\ RowIsLastEvent
    BY <1>2 DEF LogInv, Inv
  <2>4. CASE known'[s][t] = Unknown
    <3> SUFFICES ASSUME topic[s].preexisting, topic[s].who = Anyone,
                        NEW i \in 1..Len(events), IsTaskEvent(i, t)
                 PROVE  \E j \in 1..Len(events) : ClosingEvent(j, t)
      BY <1>1, <2>1, <2>4 DEF LeftBySnapshot, IsTaskEvent, ClosingEvent
    <3>1. rows[t] # NoRow
      BY <2>2, <2>3 DEF RowIsLastEvent
    <3>2. ~Open(t)
      BY <1>2, <2>1, <2>4, SnapshotTold
    <3>3. rows[t].isTerminal
      BY <3>1, <3>2 DEF Open
    <3>4. QED BY <1>3, <2>3, <3>1, <3>3 DEF TerminalMatchesLog
  <2>5. CASE known'[s][t] # Unknown
    <3>1. /\ Open(t)
          /\ topic[s].who # Anyone => rows[t].assignee \in {topic[s].who, Anyone}
          /\ known'[s][t].type = IF topic[s].stream = "task" THEN "PREEXISTING" ELSE "ExecuteRequest"
          /\ known'[s][t].payload = rows[t].payload
      BY <1>2, <2>1, <2>5, SnapshotTold
    <3>2. rows[t] # NoRow /\ ~rows[t].isTerminal
      BY <3>1 DEF Open
    <3>3. \A i \in 1..Len(events) : ~ClosingEvent(i, t)
      BY <2>2, <2>3, <3>2 DEF TerminalMatchesLog
    <3>4. \E i \in 1..Len(events) :
             /\ IsTaskEvent(i, t)
             /\ events[i].payload = rows[t].payload
             /\ \A j \in 1..Len(events) : IsTaskEvent(j, t) => j <= i
      BY <1>3, <2>3, <3>2 DEF RowIsLastEvent
    <3>5. QED BY <1>1, <2>1, <2>5, <3>1, <3>2, <3>3, <3>4 DEF ToldBySnapshot, IsTaskEvent, ClosingEvent
  <2>6. QED BY <2>4, <2>5
<1>10. KnownIsSnapshot'
  <2> SUFFICES ASSUME NEW x \in Streams, NEW t \in Tasks, phase'[x] # "closed", Polled(x, t)' = {}
               PROVE  IF known'[x][t] = Unknown THEN LeftBySnapshot(x, t)' ELSE ToldBySnapshot(x, t)'
    BY DEF KnownIsSnapshot
  <2>1. CASE x = s
    BY <1>9, <2>1
  <2>2. CASE x # s
    BY <1>1, <1>6, <2>2, OthersRest
  <2>3. QED BY <2>1, <2>2
<1>11. QED BY <1>2, <1>4, <1>5, <1>8, <1>10 DEF StreamInv

\* The cursor is set to the end of the log.
LEMMA TakeCursorKeepsStreams ==
    ASSUME StreamInv, NEW s \in Streams, TakeCursor(s)
    PROVE  StreamInv'
<1> DEFINE g == get_max_event_id(topic[s].stream)
<1>1. /\ UNCHANGED <<rows, events, staged, reply, topic, opened, known>>
      /\ phase[s] = "snapshot"
      /\ phase' = [phase EXCEPT ![s] = "polling"]
      /\ cursor' = [cursor EXCEPT ![s] = g]
      /\ start' = [start EXCEPT ![s] = g]
  BY DEF TakeCursor
<1>2. LogInv /\ LogInv' /\ TypeOK' /\ TypeOK
  BY <1>1, StoreRests DEF StreamInv, LogInv, Inv
<1>3. /\ phase \in [Streams -> {"closed", "snapshot", "polling"}]
      /\ start \in [Streams -> 0..Len(events)]
      /\ cursor \in [Streams -> 0..Len(events)]
      /\ Len(events) \in Nat /\ DOMAIN events = 1..Len(events)
  BY ConnectionFacts DEF StreamInv, StreamTypeOK
<1>4. g \in Nat /\ g <= Len(events)
  BY <1>2, MaxEventId
<1> HIDE DEF g
<1>5. StreamTypeOK'
  BY <1>1, <1>2, <1>3, <1>4 DEF StreamInv, StreamTypeOK
<1>6. CursorsInOrder'
  BY <1>1, <1>3, <1>4 DEF StreamInv, CursorsInOrder
<1>7. \A x \in Streams : x # s =>
         /\ phase'[x] = phase[x] /\ start'[x] = start[x] /\ cursor'[x] = cursor[x]
  BY <1>1, <1>3
<1>8. \A t \in Tasks : Polled(s, t)' = {} /\ Polled(s, t) = {}
  <2>1. cursor[s] = 0 /\ cursor'[s] = start'[s] /\ start'[s] \in Nat
    BY <1>1, <1>3, <1>4 DEF StreamInv, CursorsInOrder
  <2>2. \A i \in DOMAIN events : i \in Nat /\ ~(i <= 0)
    BY <1>3
  <2>3. \A i \in DOMAIN events : ~(start'[s] < i /\ i <= cursor'[s])
    BY <2>1, <2>2
  <2>4. QED BY <1>1, <2>1, <2>2, <2>3 DEF Polled
<1>9. KnownIsLastSent'
  BY <1>1, <1>7, <1>8, OthersRest DEF KnownIsLastSent
<1>10. KnownIsSnapshot'
  <2> SUFFICES ASSUME NEW x \in Streams, NEW t \in Tasks, phase'[x] # "closed", Polled(x, t)' = {}
               PROVE  IF known'[x][t] = Unknown THEN LeftBySnapshot(x, t)' ELSE ToldBySnapshot(x, t)'
    BY DEF KnownIsSnapshot
  <2>1. CASE x = s
    <3>1. IF known[s][t] = Unknown THEN LeftBySnapshot(s, t) ELSE ToldBySnapshot(s, t)
      BY <1>1, <1>8 DEF StreamInv, KnownIsSnapshot
    <3>2. QED
      BY <1>1, <2>1, <3>1 DEF LeftBySnapshot, ToldBySnapshot, IsTaskEvent, ClosingEvent
  <2>2. CASE x # s
    BY <1>1, <1>7, <2>2, OthersRest
  <2>3. QED BY <2>1, <2>2
<1>11. QED BY <1>2, <1>5, <1>6, <1>9, <1>10 DEF StreamInv

\* A connection that ends leaves nothing to keep.
LEMMA DisconnectKeepsStreams ==
    ASSUME StreamInv, NEW s \in Streams, Disconnect(s)
    PROVE  StreamInv'
<1>1. /\ UNCHANGED <<rows, events, staged, reply, topic>>
      /\ phase' = [phase EXCEPT ![s] = "closed"]
      /\ opened' = [opened EXCEPT ![s] = 0]
      /\ start' = [start EXCEPT ![s] = 0]
      /\ cursor' = [cursor EXCEPT ![s] = 0]
      /\ known' = [known EXCEPT ![s] = Nothing]
  BY DEF Disconnect
<1>2. LogInv' /\ TypeOK'
  BY <1>1, StoreRests
<1>3. /\ phase \in [Streams -> {"closed", "snapshot", "polling"}]
      /\ opened \in [Streams -> 0..Len(events)]
      /\ start \in [Streams -> 0..Len(events)]
      /\ cursor \in [Streams -> 0..Len(events)]
      /\ known \in [Streams -> [Tasks -> Told \union {Unknown}]]
      /\ 0 \in 0..Len(events) /\ DOMAIN events = 1..Len(events)
  BY ConnectionFacts DEF StreamInv, StreamTypeOK
<1>4. StreamTypeOK'
  <2>1. Nothing \in [Tasks -> Told \union {Unknown}]
    BY DEF Nothing
  <2>2. QED BY <1>1, <1>2, <1>3, <2>1 DEF StreamInv, StreamTypeOK
<1>5. CursorsInOrder'
  BY <1>1, <1>3 DEF StreamInv, CursorsInOrder
<1>6. \A x \in Streams : x # s =>
         /\ phase'[x] = phase[x] /\ opened'[x] = opened[x] /\ known'[x] = known[x]
         /\ start'[x] = start[x] /\ cursor'[x] = cursor[x]
  BY <1>1, <1>3
<1>7. \A t \in Tasks : Polled(s, t)' = {}
  <2>1. cursor'[s] = 0
    BY <1>1, <1>3
  <2>2. \A i \in DOMAIN events' : ~(i <= 0)
    BY <1>1, <1>3
  <2>3. QED BY <2>1, <2>2 DEF Polled
<1>8. KnownIsLastSent'
  BY <1>1, <1>6, <1>7, OthersRest DEF KnownIsLastSent
<1>9. KnownIsSnapshot'
  <2>1. phase'[s] = "closed"
    BY <1>1, <1>3
  <2>2. QED BY <1>1, <1>6, <2>1, OthersRest DEF KnownIsSnapshot
<1>10. QED BY <1>2, <1>4, <1>5, <1>8, <1>9 DEF StreamInv

\* A polled event takes its connection one event further.
LEMMA SendKeepsStreams ==
    ASSUME StreamInv, NEW s \in Streams, Send(s)
    PROVE  StreamInv'
<1> DEFINE m == NextRow(s)
           told == [type |-> events[m].type, payload |-> events[m].payload]
<1>1. /\ UNCHANGED <<rows, events, staged, reply, phase, topic, opened, start>>
      /\ phase[s] = "polling" /\ Pending(s) # {}
      /\ cursor' = [cursor EXCEPT ![s] = m]
      /\ known' = [known EXCEPT ![s][events[m].task] = told]
  BY DEF Send, NextCursor
<1>2. LogInv' /\ TypeOK'
  BY <1>1, StoreRests
<1>3. /\ cursor \in [Streams -> 0..Len(events)]
      /\ known \in [Streams -> [Tasks -> Told \union {Unknown}]]
      /\ Len(events) \in Nat /\ DOMAIN events = 1..Len(events) /\ events \in Seq(Event)
      /\ start[s] \in Nat /\ cursor[s] \in Nat /\ start[s] <= cursor[s]
  BY ConnectionFacts DEF StreamInv, StreamTypeOK, CursorsInOrder, LogInv, Inv, TypeOK
<1>4. /\ m \in DOMAIN events /\ m > cursor[s] /\ Visible(topic[s], m)
      /\ \A j \in DOMAIN events : j > cursor[s] /\ Visible(topic[s], j) => m <= j
  BY <1>1, NextRowIsFirst DEF Pending
<1>5. m \in Nat /\ m <= Len(events) /\ events[m] \in Event
  BY <1>3, <1>4
<1>6. told \in Told /\ events[m].task \in Tasks
  BY <1>5, EventTold
<1> HIDE DEF m, told
<1>7. StreamTypeOK'
  <2>1. known' \in [Streams -> [Tasks -> Told \union {Unknown}]]
    BY <1>1, <1>3, <1>6
  <2>2. cursor' \in [Streams -> 0..Len(events)]
    BY <1>1, <1>3, <1>5
  <2>3. QED BY <1>1, <1>2, <2>1, <2>2 DEF StreamInv, StreamTypeOK
<1>8. CursorsInOrder'
  <2>1. start[s] <= m
    BY <1>3, <1>4, <1>5
  <2>2. QED BY <1>1, <1>3, <2>1 DEF StreamInv, CursorsInOrder
<1>9. \A x \in Streams : x # s => cursor'[x] = cursor[x] /\ known'[x] = known[x]
  BY <1>1, <1>3
<1>10. \A t \in Tasks : Polled(s, t)' = IF t = events[m].task THEN Polled(s, t) \union {m} ELSE Polled(s, t)
  <2> SUFFICES ASSUME NEW t \in Tasks
               PROVE  Polled(s, t)' = IF t = events[m].task THEN Polled(s, t) \union {m} ELSE Polled(s, t)
    OBVIOUS
  <2>1. cursor'[s] = m
    BY <1>1, <1>3
  <2>2. Polled(s, t)' = {i \in DOMAIN events : start[s] < i /\ i <= m /\ Concerns(s, t, i)}
    BY <1>1, <2>1 DEF Polled, Concerns, Visible, OfStream
  <2>3. ASSUME NEW i \in DOMAIN events
        PROVE  (start[s] < i /\ i <= m /\ Concerns(s, t, i)) <=>
                 \/ start[s] < i /\ i <= cursor[s] /\ Concerns(s, t, i)
                 \/ i = m /\ t = events[m].task
    <3>1. i \in Nat
      BY <1>3
    <3>2. i > cursor[s] /\ Concerns(s, t, i) => m <= i
      BY <1>4 DEF Concerns
    <3>3. Concerns(s, t, m) <=> t = events[m].task
      BY <1>4 DEF Concerns
    <3>4. QED BY <1>3, <1>4, <1>5, <3>1, <3>2, <3>3
  <2>4. QED BY <1>4, <2>2, <2>3 DEF Polled
<1>11. known'[s][events[m].task] = told /\ \A t \in Tasks : t # events[m].task => known'[s][t] = known[s][t]
  BY <1>1, <1>3, <1>6
<1>12. KnownIsLastSent'
  <2> SUFFICES ASSUME NEW x \in Streams, NEW t \in Tasks, NEW i \in Polled(x, t)',
                      \A j \in Polled(x, t)' : j <= i
               PROVE  known'[x][t] = [type |-> events[i].type, payload |-> events[i].payload]
    BY <1>1 DEF KnownIsLastSent
  <2>1. CASE x = s /\ t = events[m].task
    <3>1. m \in Polled(s, t)' /\ \A j \in Polled(s, t) : j \in Nat /\ j <= cursor[s]
      BY <1>3, <1>10, <2>1 DEF Polled
    <3>2. i = m
      BY <1>3, <1>4, <1>5, <1>10, <2>1, <3>1
    <3>3. QED BY <1>11, <2>1, <3>2 DEF told
  <2>2. CASE x = s /\ t # events[m].task
    BY <1>10, <1>11, <2>2 DEF StreamInv, KnownIsLastSent
  <2>3. CASE x # s
    BY <1>1, <1>9, <2>3, OthersRest
  <2>4. QED BY <2>1, <2>2, <2>3
<1>13. KnownIsSnapshot'
  <2> SUFFICES ASSUME NEW x \in Streams, NEW t \in Tasks, phase'[x] # "closed", Polled(x, t)' = {}
               PROVE  IF known'[x][t] = Unknown THEN LeftBySnapshot(x, t)' ELSE ToldBySnapshot(x, t)'
    BY DEF KnownIsSnapshot
  <2>1. CASE x = s
    <3>1. t # events[m].task /\ Polled(s, t) = {}
      BY <1>10, <2>1
    <3>2. IF known[s][t] = Unknown THEN LeftBySnapshot(s, t) ELSE ToldBySnapshot(s, t)
      BY <1>1, <3>1 DEF StreamInv, KnownIsSnapshot
    <3>3. QED
      BY <1>1, <1>11, <2>1, <3>1, <3>2 DEF LeftBySnapshot, ToldBySnapshot, IsTaskEvent, ClosingEvent
  <2>2. CASE x # s
    BY <1>1, <1>9, <2>2, OthersRest
  <2>3. QED BY <2>1, <2>2
<1>14. QED BY <1>2, <1>7, <1>8, <1>12, <1>13 DEF StreamInv

-----------------------------------------------------------------------------
(* What clients hold, in every behaviour.                                  *)

\* No connection is open at first.
LEMMA InitStreamInv == StreamInit => StreamInv
<1> SUFFICES ASSUME StreamInit PROVE StreamInv
  OBVIOUS
<1>1. LogInv /\ TypeOK
  BY InitLogInv DEF StreamInit, LogInv, Inv
<1>2. Len(events) = 0 /\ DOMAIN events = {}
  BY DEF StreamInit, Init
<1>3. StreamTypeOK
  <2>1. Nothing \in [Tasks -> Told \union {Unknown}]
    BY DEF Nothing
  <2>2. 0 \in 0..Len(events)
    BY <1>2
  <2>3. QED BY <1>1, <2>1, <2>2 DEF StreamInit, StreamTypeOK
<1>4. CursorsInOrder /\ KnownIsSnapshot
  BY DEF StreamInit, CursorsInOrder, KnownIsSnapshot
<1>5. KnownIsLastSent
  BY <1>2 DEF KnownIsLastSent, Polled
<1>6. QED BY <1>1, <1>3, <1>4, <1>5 DEF StreamInv

\* Each action keeps the invariant, whichever process takes it.
LEMMA StepKeepsStreams == StreamInv /\ [StreamNext]_allVars => StreamInv'
<1> SUFFICES ASSUME StreamInv, [StreamNext]_allVars PROVE StreamInv'
  OBVIOUS
<1>1. CASE Next /\ UNCHANGED streamVars
  BY <1>1, StoreStepKeepsStreams
<1>2. CASE UNCHANGED allVars
  <2>1. [Next]_vars /\ UNCHANGED streamVars
    BY <1>2 DEF allVars, vars, streamVars
  <2>2. QED BY <2>1, StoreStepKeepsStreams
<1>3. ASSUME NEW s \in Streams, Connect(s) \/ TakeCursor(s) \/ Send(s) \/ Disconnect(s)
      PROVE  StreamInv'
  BY <1>3, ConnectKeepsStreams, TakeCursorKeepsStreams, SendKeepsStreams, DisconnectKeepsStreams
<1>4. QED BY <1>1, <1>2, <1>3 DEF StreamNext

\* Log, cursors and what clients were told belong together in every behaviour.
THEOREM StreamInvariance == StreamSpec => []StreamInv
BY InitStreamInv, StepKeepsStreams, PTL DEF StreamSpec

\* Log, cursors and what clients were told have their types.
THEOREM StreamTypeCorrect == StreamSpec => []StreamTypeOK
<1>1. StreamInv => StreamTypeOK
  BY DEF StreamInv
<1>2. QED BY <1>1, StreamInvariance, PTL

\* What is not pending and not in the gap was told by the snapshot or by the polls.
LEMMA BeforeOrPolled ==
    ASSUME StreamInv, NEW s \in Streams, NEW t \in Tasks, CaughtUp(s), ~InGap(s, t),
           NEW i \in DOMAIN events, Concerns(s, t, i)
    PROVE  /\ i \in Nat /\ i <= cursor[s]
           /\ i \in 1..opened[s] \/ i \in Polled(s, t)
<1>1. DOMAIN events = 1..Len(events) /\ Len(events) \in Nat /\ i \in Nat /\ 1 <= i
      /\ opened[s] \in Nat /\ start[s] \in Nat /\ cursor[s] \in Nat
  BY ConnectionFacts
<1>2. ~(i > cursor[s])
  BY DEF CaughtUp, Pending, Concerns
<1>3. ~(opened[s] < i /\ i <= start[s])
  BY DEF InGap, Concerns, Visible
<1>4. QED BY <1>1, <1>2, <1>3 DEF Polled

\* If polls told of a task, it is known as the last event they sent told it.
LEMMA LastPolled ==
    ASSUME StreamInv, NEW s \in Streams, NEW t \in Tasks, Polled(s, t) # {}
    PROVE  \E p \in Polled(s, t) :
              /\ p \in Nat /\ start[s] < p /\ Concerns(s, t, p)
              /\ \A j \in Polled(s, t) : j <= p
              /\ known[s][t] # Unknown
              /\ known[s][t] = [type |-> events[p].type, payload |-> events[p].payload]
<1>1. DOMAIN events = 1..Len(events) /\ Len(events) \in Nat
  BY ConnectionFacts
<1>2. Polled(s, t) \in SUBSET Nat /\ \A n \in Polled(s, t) : n <= Len(events)
  BY <1>1 DEF Polled
<1>3. PICK p \in Polled(s, t) : \A j \in Polled(s, t) : j <= p
  BY <1>1, <1>2, GreatestNumber
<1>4. p \in DOMAIN events /\ p \in Nat /\ start[s] < p /\ Concerns(s, t, p)
  BY <1>2 DEF Polled
<1>5. known[s][t] = [type |-> events[p].type, payload |-> events[p].payload]
  BY <1>3 DEF StreamInv, KnownIsLastSent
<1>6. events[p] \in Event
  BY <1>4 DEF StreamInv, LogInv, Inv, TypeOK
<1>7. known[s][t] # Unknown
  BY <1>5, <1>6, EventTold, StreamsAssumption
<1>8. QED BY <1>3, <1>4, <1>5, <1>7

\* A caught-up client of a task stream that missed nothing in the gap holds the stored
\* payloads.
LEMMA FollowerHoldsRows == StreamInv => FollowerInStep
<1> SUFFICES ASSUME StreamInv, NEW s \in Streams, NEW t \in Tasks, topic[s].stream = "task",
                    CaughtUp(s), ~InGap(s, t), rows[t] # NoRow
             PROVE  IF known[s][t] # Unknown
                    THEN known[s][t].payload = rows[t].payload
                    ELSE /\ rows[t].sequence <= opened[s]
                         /\ topic[s].preexisting => rows[t].isTerminal
  BY DEF FollowerInStep
<1> DEFINE q == rows[t].sequence
<1>1. TerminalMatchesLog /\ RowIsLastEvent
  BY DEF StreamInv, LogInv, Inv
<1>2. /\ q \in DOMAIN events /\ IsTaskEvent(q, t) /\ events[q].payload = rows[t].payload
      /\ \A i \in DOMAIN events : IsTaskEvent(i, t) => i <= q
  BY <1>1 DEF RowIsLastEvent
<1> HIDE DEF q
<1>3. topic[s].who = Anyone
  BY ConnectionFacts DEF Topics
<1>4. \A i \in DOMAIN events : Concerns(s, t, i) <=> IsTaskEvent(i, t)
  BY <1>3 DEF Concerns, Visible, OfStream, IsTaskEvent
<1>5. q \in Nat /\ q <= cursor[s] /\ (q \in 1..opened[s] \/ q \in Polled(s, t))
  BY <1>2, <1>4, BeforeOrPolled
<1>6. DOMAIN events = 1..Len(events) /\ Len(events) \in Nat /\ opened[s] \in Nat
      /\ opened[s] <= Len(events) /\ start[s] \in Nat
  BY ConnectionFacts
<1>7. CASE Polled(s, t) = {}
  <2>1. q \in 1..opened[s] /\ phase[s] # "closed"
    BY <1>5, <1>7 DEF CaughtUp
  <2>2. CASE known[s][t] = Unknown
    <3>1. LeftBySnapshot(s, t)
      BY <1>7, <2>1, <2>2 DEF StreamInv, KnownIsSnapshot
    <3>2. ASSUME topic[s].preexisting
          PROVE  rows[t].isTerminal
      <4>1. PICK j \in 1..opened[s] : ClosingEvent(j, t)
        BY <1>2, <1>3, <2>1, <3>1, <3>2 DEF LeftBySnapshot
      <4>2. j \in DOMAIN events
        BY <1>6
      <4>3. QED BY <1>1, <4>1, <4>2 DEF TerminalMatchesLog
    <3>3. q <= opened[s]
      BY <1>6, <2>1
    <3>4. QED BY <2>2, <3>2, <3>3 DEF q
  <2>3. CASE known[s][t] # Unknown
    <3>1. ToldBySnapshot(s, t)
      BY <1>7, <2>1, <2>3 DEF StreamInv, KnownIsSnapshot
    <3>2. PICK i \in 1..opened[s] :
             /\ IsTaskEvent(i, t)
             /\ events[i].payload = known[s][t].payload
             /\ \A j \in 1..opened[s] : IsTaskEvent(j, t) => j <= i
      BY <3>1 DEF ToldBySnapshot
    <3>3. q <= i
      BY <1>2, <2>1, <3>2
    <3>4. i \in DOMAIN events /\ i \in Nat /\ i <= q
      BY <1>2, <1>6, <3>2
    <3>5. i = q
      BY <1>5, <3>3, <3>4
    <3>6. QED BY <1>2, <2>3, <3>2, <3>5
  <2>4. QED BY <2>2, <2>3
<1>8. CASE Polled(s, t) # {}
  <2>1. PICK p \in Polled(s, t) :
           /\ p \in Nat /\ start[s] < p /\ Concerns(s, t, p)
           /\ \A j \in Polled(s, t) : j <= p
           /\ known[s][t] # Unknown
           /\ known[s][t] = [type |-> events[p].type, payload |-> events[p].payload]
    BY <1>8, LastPolled
  <2>2. p <= q
    BY <1>2, <1>4, <2>1 DEF Polled
  <2>3. q \in Polled(s, t)
    <3>1. start[s] < q
      BY <1>5, <1>6, <2>1, <2>2
    <3>2. QED BY <1>2, <1>4, <1>5, <3>1 DEF Polled
  <2>4. p = q
    BY <1>5, <2>1, <2>2, <2>3
  <2>5. QED BY <1>2, <2>1, <2>4
<1>9. QED BY <1>7, <1>8

\* A caught-up client of an agent stream knows of a cancel if there was one.
LEMMA AgentKnowsCancel == StreamInv => AgentToldOfCancel
<1> SUFFICES ASSUME StreamInv, NEW s \in Streams, NEW t \in Tasks, topic[s].stream = "agent",
                    CaughtUp(s), ~InGap(s, t), known[s][t] # Unknown
             PROVE  /\ topic[s].who # Anyone => rows[t].assignee \in {topic[s].who, Anyone}
                    /\ (\E i \in DOMAIN events :
                          events[i].type = "CancelRequest" /\ events[i].task = t)
                       <=> known[s][t].type = "CancelRequest"
  BY DEF AgentToldOfCancel
<1>1. ToldOfRows /\ ExecuteFirst /\ ClosedBeforeCancel
  BY DEF StreamInv, LogInv
<1>2. DOMAIN events = 1..Len(events) /\ Len(events) \in Nat /\ opened[s] \in Nat
      /\ start[s] \in Nat /\ cursor[s] \in Nat
  BY ConnectionFacts
<1>3. Polled(s, t) = {} => ToldBySnapshot(s, t)
  BY DEF StreamInv, KnownIsSnapshot, CaughtUp
<1>4. topic[s].who # Anyone => rows[t].assignee \in {topic[s].who, Anyone}
  <2>1. CASE Polled(s, t) = {}
    BY <1>3, <2>1 DEF ToldBySnapshot
  <2>2. CASE Polled(s, t) # {}
    <3>1. PICK p \in DOMAIN events : Concerns(s, t, p)
      BY <2>2 DEF Polled
    <3>2. events[p].stream = "agent" /\ events[p].task = t
          /\ (topic[s].who # Anyone => events[p].subject \in {topic[s].who, Anyone})
      BY <3>1 DEF Concerns, Visible, OfStream
    <3>3. events[p].subject = rows[t].assignee
      BY <1>1, <3>2 DEF ToldOfRows
    <3>4. QED BY <3>2, <3>3
  <2>3. QED BY <2>1, <2>2
<1>5. ASSUME NEW c \in DOMAIN events, events[c].type = "CancelRequest", events[c].task = t
      PROVE  Concerns(s, t, c) /\ events[c].stream = "agent"
  <2>1. events[c].stream = "agent" /\ events[c].subject = rows[t].assignee
    BY <1>1, <1>5 DEF ToldOfRows
  <2>2. QED BY <1>4, <1>5, <2>1 DEF Concerns, Visible, OfStream
<1>6. CASE Polled(s, t) = {}
  <2>1. known[s][t].type = "ExecuteRequest" /\ \A i \in 1..opened[s] : ~ClosingEvent(i, t)
    BY <1>3, <1>6 DEF ToldBySnapshot
  <2>2. ASSUME NEW c \in DOMAIN events, events[c].type = "CancelRequest", events[c].task = t
        PROVE  FALSE
    <3>1. c \in 1..opened[s]
      BY <1>5, <1>6, <2>2, BeforeOrPolled
    <3>2. PICK i \in 1..c : ClosingEvent(i, t)
      BY <1>1, <2>2 DEF ClosedBeforeCancel
    <3>3. i \in 1..opened[s]
      BY <1>2, <3>1, <3>2
    <3>4. QED BY <2>1, <3>2, <3>3
  <2>3. QED BY <1>4, <2>1, <2>2
<1>7. CASE Polled(s, t) # {}
  <2>1. PICK p \in Polled(s, t) :
           /\ p \in Nat /\ start[s] < p /\ Concerns(s, t, p)
           /\ \A j \in Polled(s, t) : j <= p
           /\ known[s][t] # Unknown
           /\ known[s][t] = [type |-> events[p].type, payload |-> events[p].payload]
    BY <1>7, LastPolled
  <2>2. p \in DOMAIN events /\ events[p].stream = "agent" /\ events[p].task = t
    BY <2>1 DEF Polled, Concerns, Visible, OfStream
  <2>3. events[p].type \in {"ExecuteRequest", "CancelRequest"} /\ known[s][t].type = events[p].type
    BY <1>1, <2>1, <2>2 DEF ToldOfRows
  <2>4. ASSUME events[p].type = "ExecuteRequest",
               NEW c \in DOMAIN events, events[c].type = "CancelRequest", events[c].task = t
        PROVE  FALSE
    <3>1. Concerns(s, t, c) /\ events[c].stream = "agent"
      BY <1>5, <2>4
    <3>2. c \in Nat /\ c <= cursor[s]
      BY <3>1, BeforeOrPolled
    <3>3. c > p
      BY <1>1, <2>2, <2>4, <3>1 DEF ExecuteFirst
    <3>4. start[s] < c
      BY <1>2, <2>1, <3>2, <3>3
    <3>5. c \in Polled(s, t)
      BY <3>1, <3>2, <3>4 DEF Polled
    <3>6. QED BY <2>1, <3>2, <3>3, <3>5
  <2>5. QED BY <1>4, <2>2, <2>3, <2>4
<1>8. QED BY <1>6, <1>7

\* A client of a task stream that has been sent all there is holds the stored payload
\* of every task it knows, unless a change fell into the gap before its cursor.
THEOREM FollowerInStepAlways == StreamSpec => []FollowerInStep
BY FollowerHoldsRows, StreamInvariance, PTL

\* An agent executing a task that is cancelled is told, unless the cancel fell into the
\* gap, and is never sent a task of another agent.
THEOREM AgentToldOfCancelAlways == StreamSpec => []AgentToldOfCancel
BY AgentKnowsCancel, StreamInvariance, PTL

=============================================================================
