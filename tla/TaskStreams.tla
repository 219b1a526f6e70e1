----------------------------- MODULE TaskStreams -----------------------------
(***************************************************************************)
(* Server streams over the task store: POST /tasks/stream and              *)
(* POST /agent/stream, and the gRPC StreamTasks and ListenAsAgent.         *)
(*                                                                         *)
(* All four are one loop.  The open tasks are read and sent, then a cursor *)
(* is set to the last event of the stream, then the events after the       *)
(* cursor are polled and sent.  The server waits for the client between    *)
(* those steps and requests commit meanwhile: what commits after the       *)
(* snapshot is read and before the cursor is set is never sent.  Requests  *)
(* are without filters, which only leave things out.                       *)
(***************************************************************************)
EXTENDS TaskStore

CONSTANTS
    Streams,    \* connections clients may hold
    Unknown     \* the client has been told nothing about the task

\* What a client was last told about a task.
Told == [type : {"PREEXISTING", "CREATE", "UPDATE", "CANCELED",
                 "ExecuteRequest", "CancelRequest"},
         payload : Payload]

ASSUME StreamsAssumption == Unknown \notin Told

\* What a connection asks for: all tasks, with or without the preexisting ones,
\* or the requests of an agent (Anyone: of every agent).
Topics == [stream : {"task"}, who : {Anyone}, preexisting : BOOLEAN] \union
          [stream : {"agent"}, who : Addressees, preexisting : {TRUE}]

VARIABLES
    phase,      \* per connection: "closed", "snapshot" sent, or "polling"
    topic,
    opened,     \* length of the log when the snapshot was read (history)
    start,      \* the cursor when polling began (history)
    cursor,
    known       \* what the client was last told, per task

streamVars == <<phase, topic, opened, start, cursor, known>>
allVars == <<rows, events, staged, reply, phase, topic, opened, start, cursor, known>>

Nothing == [t \in Tasks |-> Unknown]

StreamInit ==
    /\ Init
    /\ phase = [s \in Streams |-> "closed"]
    /\ topic \in [Streams -> Topics]
    /\ opened = [s \in Streams |-> 0]
    /\ start = [s \in Streams |-> 0]
    /\ cursor = [s \in Streams |-> 0]
    /\ known = [s \in Streams |-> Nothing]

-----------------------------------------------------------------------------
\* Mutant: closed tasks too.
PreexistingAll(top) ==
    {t \in Tasks : /\ top.preexisting
                   /\ rows[t] # NoRow
                   /\ top.who # Anyone => rows[t].assignee \in {top.who, Anyone}}

\* The tasks of a snapshot: a named agent is sent its own open ones and nobody's.
Preexisting(top) ==
    {t \in Tasks : /\ top.preexisting
                   /\ Open(t)
                   /\ top.who # Anyone => t \in list_open(top.who)}

Snapshot(top) ==
    [t \in Tasks |->
        IF t \in Preexisting(top)
        THEN [type |-> IF top.stream = "task" THEN "PREEXISTING" ELSE "ExecuteRequest",
              payload |-> rows[t].payload]
        ELSE Unknown]

\* A client connects, and is sent the snapshot.
Connect(s) ==
    /\ phase[s] = "closed"
    /\ known' = [known EXCEPT ![s] = Snapshot(topic[s])]
    /\ phase' = [phase EXCEPT ![s] = "snapshot"]
    /\ opened' = [opened EXCEPT ![s] = Len(events)]
    /\ UNCHANGED <<rows, events, staged, reply, topic, start, cursor>>

OfStream(i, stream) == events[i].stream = stream

get_max_event_id(stream) ==
    IF \E i \in DOMAIN events : OfStream(i, stream)
    THEN CHOOSE i \in DOMAIN events :
            OfStream(i, stream) /\ \A j \in DOMAIN events : OfStream(j, stream) => j <= i
    ELSE 0

\* The snapshot has been sent.
TakeCursor(s) ==
    /\ phase[s] = "snapshot"
    /\ phase' = [phase EXCEPT ![s] = "polling"]
    /\ cursor' = [cursor EXCEPT ![s] = get_max_event_id(topic[s].stream)]
    /\ start' = [start EXCEPT ![s] = get_max_event_id(topic[s].stream)]
    /\ UNCHANGED <<rows, events, staged, reply, topic, opened, known>>

\* poll_events(): of the stream, and for a named agent only its subjects.
Visible(top, i) ==
    /\ OfStream(i, top.stream)
    /\ top.who # Anyone => events[i].subject \in {top.who, Anyone}

Pending(s) == {i \in DOMAIN events : i > cursor[s] /\ Visible(topic[s], i)}

\* Mutants: the newest row is sent; the cursor takes in the whole log.
NewestRow(s)  == CHOOSE i \in Pending(s) : \A j \in Pending(s) : j <= i
EndOfLog(s)   == Len(events)

NextRow(s)    == CHOOSE i \in Pending(s) : \A j \in Pending(s) : i <= j
NextCursor(s) == NextRow(s)

\* One row of a poll is sent.  The rows of one poll are the next ones of the
\* log, which only grows, so a poll is as good as its rows one at a time.
Send(s) ==
    /\ phase[s] = "polling"
    /\ Pending(s) # {}
    /\ cursor' = [cursor EXCEPT ![s] = NextCursor(s)]
    /\ LET row == events[NextRow(s)]
       IN  known' = [known EXCEPT ![s][row.task] = [type |-> row.type, payload |-> row.payload]]
    /\ UNCHANGED <<rows, events, staged, reply, phase, topic, opened, start>>

\* The client leaves, or the server does.
Disconnect(s) ==
    /\ phase[s] # "closed"
    /\ phase' = [phase EXCEPT ![s] = "closed"]
    /\ opened' = [opened EXCEPT ![s] = 0]
    /\ start' = [start EXCEPT ![s] = 0]
    /\ cursor' = [cursor EXCEPT ![s] = 0]
    /\ known' = [known EXCEPT ![s] = Nothing]
    /\ UNCHANGED <<rows, events, staged, reply, topic>>

StreamNext ==
    \/ Next /\ UNCHANGED streamVars
    \/ \E s \in Streams :
          \/ Connect(s)
          \/ TakeCursor(s)
          \/ Send(s)
          \/ Disconnect(s)

\* The loop runs on: every await is a sleep or a write to a client that reads,
\* or the connection is dropped.
Fairness == \A s \in Streams : WF_allVars(TakeCursor(s)) /\ WF_allVars(Send(s))

StreamSpec == StreamInit /\ [][StreamNext]_allVars /\ Fairness

-----------------------------------------------------------------------------
\* Every variable has its type.
StreamTypeOK ==
    /\ TypeOK
    /\ phase \in [Streams -> {"closed", "snapshot", "polling"}]
    /\ topic \in [Streams -> Topics]
    /\ opened \in [Streams -> 0..Len(events)]
    /\ start \in [Streams -> 0..Len(events)]
    /\ cursor \in [Streams -> 0..Len(events)]
    /\ known \in [Streams -> [Tasks -> Told \union {Unknown}]]

\* Events about t between the reading of the snapshot and the cursor.
InGap(s, t) == \E i \in DOMAIN events :
    /\ opened[s] < i
    /\ i <= start[s]
    /\ OfStream(i, topic[s].stream)
    /\ events[i].task = t

CaughtUp(s) == phase[s] = "polling" /\ Pending(s) = {}

\* A client of a task stream that has been sent all there is holds the stored
\* payload of every task it knows; one it does not know was last changed before
\* the snapshot, and was closed if the client asked for preexisting tasks.  A
\* change in the gap is the only thing that spoils this.
FollowerInStep == \A s \in Streams, t \in Tasks :
    (topic[s].stream = "task" /\ CaughtUp(s) /\ ~InGap(s, t) /\ rows[t] # NoRow) =>
        IF known[s][t] # Unknown
        THEN known[s][t].payload = rows[t].payload
        ELSE /\ rows[t].sequence <= opened[s]
             /\ topic[s].preexisting => rows[t].isTerminal

\* An agent that is executing a task when it is cancelled is told, unless the
\* cancel fell into the gap; and is never sent a task of another agent.
AgentToldOfCancel == \A s \in Streams, t \in Tasks :
    (topic[s].stream = "agent" /\ CaughtUp(s) /\ ~InGap(s, t) /\ known[s][t] # Unknown) =>
        /\ topic[s].who # Anyone => rows[t].assignee \in {topic[s].who, Anyone}
        /\ (\E i \in DOMAIN events :
              events[i].type = "CancelRequest" /\ events[i].task = t)
           <=> known[s][t].type = "CancelRequest"

\* Every event committed while a connection polls is told to its client in its
\* turn, none overtaken by a later one, unless the connection ends.
EachEventTold ==
    \A s \in Streams, i \in 1..MaxEvents :
        (phase[s] = "polling" /\ i \in DOMAIN events /\ i > cursor[s] /\ Visible(topic[s], i))
            ~> \/ phase[s] = "closed"
               \/ /\ i \in DOMAIN events
                  /\ known[s][events[i].task] =
                        [type |-> events[i].type, payload |-> events[i].payload]

=============================================================================
