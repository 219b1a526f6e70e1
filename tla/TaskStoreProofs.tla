--------------------------- MODULE TaskStoreProofs ---------------------------
(***************************************************************************)
(* Proofs about TaskStore for any number of tasks, agents, REST threads    *)
(* and gRPC servers.                                                       *)
(***************************************************************************)
EXTENDS TaskStore, WellFoundedInduction, TLAPS

\* A set of natural numbers has a least element and, below a bound, a greatest one.
LEMMA LeastNumber ==
    ASSUME NEW S \in SUBSET Nat, S # {}
    PROVE  \E n \in S : \A m \in S : n <= m
<1>1. PICK n \in S : \A m \in S : ~ (<<m, n>> \in OpToRel(<, Nat))
  BY WFMin, NatLessThanWellFounded
<1>2. \A m \in S : ~(m < n)
  BY <1>1 DEF OpToRel
<1>3. QED BY <1>2

\* A set of numbers with a bound has a greatest one.
LEMMA GreatestNumber ==
    ASSUME NEW S \in SUBSET Nat, S # {}, NEW b \in Nat, \A n \in S : n <= b
    PROVE  \E n \in S : \A m \in S : m <= n
<1> DEFINE T == {b - n : n \in S}
<1>1. T \in SUBSET Nat /\ T # {}
  <2>1. \A n \in S : b - n \in Nat
    OBVIOUS
  <2>2. QED BY <2>1
<1>2. PICK k \in T : \A m \in T : k <= m
  BY <1>1, LeastNumber
<1>3. PICK n \in S : k = b - n
  OBVIOUS
<1>4. \A m \in S : b - n <= b - m
  BY <1>2, <1>3
<1>5. QED BY <1>4

\* The statuses the front ends put in a row are statuses.
LEMMA StatusesUsed ==
    ASSUME NEW w \in Workers
    PROVE  /\ CreateStatuses(w) \subseteq Statuses
           /\ CreateVersions(w) \subseteq Nat
           /\ UpdateStatuses \subseteq Statuses
           /\ CancelStatuses(w) \subseteq Statuses
BY ConstantsAssumption
   DEF CreateStatuses, CreateVersions, UpdateStatuses, CancelStatuses, Statuses

\* The version arithmetic stays in Nat and always moves past the current version.
LEMMA CurrentVersionGrows ==
    ASSUME NEW p \in Payload
    PROVE  /\ CurrentVersion(p) \in Nat
           /\ CurrentVersion(p) + 1 \in Nat
           /\ CurrentVersion(p) + 1 > p.version
BY DEF Payload, CurrentVersion

\* The version a change computes is above the one it read.
LEMMA NextVersionGrows ==
    ASSUME NEW p \in Payload, NEW e \in Versions \union {Absent}
    PROVE  NextVersion(p, e) \in Nat /\ NextVersion(p, e) > p.version
<1>1. e # Absent => e \in Nat
  BY ConstantsAssumption
<1>2. QED
  BY <1>1, CurrentVersionGrows DEF NextVersion, Payload

-----------------------------------------------------------------------------
(* The event log a commit leaves: the old log, the task's own event, and   *)
(* perhaps an event for an agent.                                          *)

TaskEvent(s) == [stream |-> "task", type |-> s.type, subject |-> s.task,
                 task |-> s.task, payload |-> s.edited.payload]

\* The fields of what a worker holds between its read and its transaction.
LEMMA StagedFields ==
    ASSUME NEW s \in Staged
    PROVE  /\ s.task \in Tasks
           /\ s.type \in {"CREATE", "UPDATE", "CANCELED"}
           /\ s.edited \in Row
           /\ s.type = "CREATE" => s.loaded = NoRow
           /\ s.type # "CREATE" => s.loaded \in Row
BY DEF Staged

\* A transaction's first event goes to the end of the log.
LEMMA TaskLogShape ==
    ASSUME TypeOK, NEW s \in Staged
    PROVE  /\ TaskLog(s) \in Seq(Event)
           /\ TaskLog(s) = Append(events, TaskEvent(s))
           /\ Len(TaskLog(s)) = Len(events) + 1
           /\ \A i \in 1..Len(events) : TaskLog(s)[i] = events[i]
           /\ TaskLog(s)[Len(events) + 1] = TaskEvent(s)
<1>1. TaskEvent(s) \in Event
  BY StagedFields DEF TaskEvent, Event, Row
<1>2. TaskLog(s) = Append(events, TaskEvent(s))
  BY DEF TaskLog, add_event, TaskEvent
<1>3. events \in Seq(Event)
  BY DEF TypeOK
<1>4. QED
  BY <1>1, <1>2, <1>3

\* Whom a request is for, and the event that tells the agent, if it is told.
Addressee(s) == IF s.type = "CREATE" THEN s.edited.assignee ELSE s.loaded.assignee

AgentEvent(s) ==
    [stream |-> "agent", type |-> IF s.type = "CREATE" THEN "ExecuteRequest" ELSE "CancelRequest",
     subject |-> Addressee(s), task |-> s.task, payload |-> s.edited.payload]

Asks(s) == (s.type = "CREATE" /\ ~s.edited.payload.elsewhere) \/ s.type = "CANCELED"

\* A transaction appends the event of its task, then the request to an agent, if it asks one.
LEMMA FullLogShape ==
    ASSUME TypeOK, NEW s \in Staged
    PROVE  /\ FullLog(s) \in Seq(Event)
           /\ Len(FullLog(s)) = IF Asks(s) THEN Len(events) + 2 ELSE Len(events) + 1
           /\ \A i \in 1..Len(events) : FullLog(s)[i] = events[i]
           /\ FullLog(s)[Len(events) + 1] = TaskEvent(s)
           /\ Asks(s) => FullLog(s)[Len(events) + 2] = AgentEvent(s)
<1>1. FullLog(s) = IF Asks(s) THEN Append(TaskLog(s), AgentEvent(s)) ELSE TaskLog(s)
  BY StagedFields DEF FullLog, add_event, Asks, AgentEvent, Addressee
<1>2. CASE ~Asks(s)
  BY <1>1, <1>2, TaskLogShape DEF TypeOK
<1>3. CASE Asks(s)
  <2>1. AgentEvent(s) \in Event
    <3>1. Addressee(s) \in Addressees
      BY StagedFields DEF Addressee, Row
    <3>2. QED BY <3>1, StagedFields DEF AgentEvent, Event, Row
  <2>2. events \in Seq(Event) /\ Len(events) \in Nat
    BY DEF TypeOK
  <2>3. /\ Len(FullLog(s)) = Len(events) + 2
        /\ FullLog(s) \in Seq(Event)
        /\ \A i \in 1..Len(events)+1 : FullLog(s)[i] = TaskLog(s)[i]
        /\ FullLog(s)[Len(events) + 2] = AgentEvent(s)
    BY <1>1, <1>3, <2>1, <2>2, TaskLogShape
  <2>4. QED
    BY <1>3, <2>2, <2>3, TaskLogShape
<1>4. QED BY <1>2, <1>3

-----------------------------------------------------------------------------
(* Type correctness.                                                       *)

\* A request that ends at its read changes nothing but its outcome.
LEMMA AnswerKeepsType ==
    ASSUME TypeOK, NEW outcome \in Outcomes, Answer(outcome)
    PROVE  TypeOK'
BY DEF TypeOK, Answer

\* A request that goes on to its transaction holds what it read and what it will write.
LEMMA StageType ==
    ASSUME TypeOK, NEW w \in Workers, NEW type \in {"CREATE", "UPDATE", "CANCELED"},
           NEW t \in Tasks, NEW edited \in Row, Stage(w, type, t, edited),
           type = "CREATE" <=> rows[t] = NoRow
    PROVE  /\ TypeOK'
           /\ staged'[w] = [task |-> t, type |-> type, loaded |-> rows[t], edited |-> edited]
           /\ \A x \in Workers \ {w} : staged'[x] = staged[x]
<1> DEFINE s == [task |-> t, type |-> type, loaded |-> rows[t], edited |-> edited]
<1>1. s \in Staged
  BY DEF Staged, TypeOK
<1> HIDE DEF s
<1>2. staged' = [staged EXCEPT ![w] = s]
  BY DEF Stage, s
<1>3. staged' \in [Workers -> Staged \union {Idle}]
  BY <1>1, <1>2 DEF TypeOK
<1>4. QED
  BY <1>2, <1>3 DEF Stage, TypeOK, Outcomes, s

\* The row create builds is a row.
LEMMA CreateReadRow ==
    ASSUME NEW w \in Workers, NEW status \in CreateStatuses(w),
           NEW version \in CreateVersions(w), NEW assignee \in Addressees,
           NEW elsewhere \in BOOLEAN
    PROVE  [payload |-> [status |-> status, version |-> version, elsewhere |-> elsewhere],
            status |-> status,
            isTerminal |-> status \in TERMINAL_TASK_STATUSES,
            assignee |-> assignee,
            sequence |-> 0] \in Row
<1>1. (status \in TERMINAL_TASK_STATUSES) \in BOOLEAN
  OBVIOUS
<1>2. status \in Statuses /\ version \in Nat
  BY StatusesUsed
<1>3. QED
  BY <1>1, <1>2 DEF Row, Payload

\* A row as an update or a cancel edits it.
LEMMA EditedRow ==
    ASSUME NEW r \in Row, NEW status \in Statuses, NEW v \in Nat, NEW b \in BOOLEAN
    PROVE  /\ Edited(r, status, v, b) \in Row
           /\ Edited(r, status, v, b).payload.status = status
           /\ Edited(r, status, v, b).payload.version = v
           /\ Edited(r, status, v, b).payload.elsewhere = r.payload.elsewhere
           /\ Edited(r, status, v, b).isTerminal = b
BY DEF Edited, Row, Payload

\* What a transaction writes into a row that is there.
LEMMA FlushRow ==
    ASSUME NEW c \in Row, NEW l \in Row, NEW e \in Row
    PROVE  Flush(c, l, e) \in Row
BY DEF Flush, Row

\* add_event numbers the row it is told of and leaves its other columns.
LEMMA SequencedRow ==
    ASSUME TypeOK, NEW s \in Staged
    PROVE  /\ Sequenced(s) \in Row
           /\ Sequenced(s).sequence = Len(events) + 1
           /\ Sequenced(s).payload = s.edited.payload
           /\ Sequenced(s).status = s.edited.status
           /\ Sequenced(s).isTerminal = s.edited.isTerminal
           /\ Sequenced(s).assignee = s.edited.assignee
<1>1. Len(TaskLog(s)) = Len(events) + 1 /\ Len(events) \in Nat
  BY TaskLogShape DEF TypeOK
<1>2. s.edited \in Row
  BY StagedFields
<1>3. QED
  BY <1>1, <1>2 DEF Sequenced, Row

-----------------------------------------------------------------------------
(* The inductive invariant.                                                *)

\* What a request in flight carries: it was staged from an open row that is
\* still there, it raises the version it read and changes neither the assignee
\* nor whether the task runs elsewhere, and it closes the task exactly when its
\* event will say so.
InFlight(s) ==
    /\ s.edited.isTerminal <=>
          (s.type = "CANCELED" \/ s.edited.payload.status \in TERMINAL_TASK_STATUSES)
    /\ s.type # "CREATE" =>
          /\ rows[s.task] # NoRow
          /\ ~s.loaded.isTerminal
          /\ s.edited.payload.version > s.loaded.payload.version
          /\ s.loaded.assignee = rows[s.task].assignee
          /\ s.edited.payload.elsewhere = rows[s.task].payload.elsewhere

StagedOK == \A w \in Workers : staged[w] # Idle => InFlight(staged[w])

Inv == TypeOK /\ StagedOK /\ TerminalMatchesLog /\ RowIsLastEvent

\* Steps of one kind or another.  A request is answered at its read; it is
\* staged; it is dropped; or it commits row r.
Stages(w) ==
    /\ UNCHANGED <<rows, events>>
    /\ staged' \in [Workers -> Staged \union {Idle}]
    /\ reply' \in Outcomes
    /\ staged'[w] # Idle => InFlight(staged'[w])
    /\ \A x \in Workers \ {w} : staged'[x] = staged[x]

Writes(w, s, r) ==
    /\ staged[w] = s /\ s \in Staged
    /\ staged' = [staged EXCEPT ![w] = Idle]
    /\ reply' \in Outcomes
    /\ rows' = [rows EXCEPT ![s.task] = r]
    /\ events' = FullLog(s)
    /\ r \in Row
    /\ r.sequence = Len(events) + 1
    /\ r.payload = s.edited.payload
    /\ r.isTerminal <=> (s.edited.isTerminal \/ (rows[s.task] # NoRow /\ rows[s.task].isTerminal))
    /\ r.assignee = Addressee(s)
    /\ s.type = "CREATE" <=> rows[s.task] = NoRow

\* A read that goes on keeps what is required of requests in flight.
LEMMA StagingInFlight ==
    ASSUME Inv, NEW w \in Workers, NEW type \in {"CREATE", "UPDATE", "CANCELED"},
           NEW t \in Tasks, NEW edited \in Row, Stage(w, type, t, edited),
           type = "CREATE" <=> rows[t] = NoRow,
           edited.isTerminal <=>
              (type = "CANCELED" \/ edited.payload.status \in TERMINAL_TASK_STATUSES),
           type # "CREATE" =>
              /\ ~rows[t].isTerminal /\ edited.payload.version > rows[t].payload.version
              /\ edited.payload.elsewhere = rows[t].payload.elsewhere
    PROVE  Stages(w)
<1>1. TypeOK
  BY DEF Inv
<1>2. /\ TypeOK'
      /\ staged'[w] = [task |-> t, type |-> type, loaded |-> rows[t], edited |-> edited]
      /\ \A x \in Workers \ {w} : staged'[x] = staged[x]
  BY <1>1, StageType
<1>3. InFlight(staged'[w])
  BY <1>2 DEF InFlight
<1>4. QED
  BY <1>2, <1>3 DEF Stages, Stage, TypeOK

\* create prepares a row for a task it did not find.
LEMMA CreateStages ==
    ASSUME Inv, NEW w \in Workers, Create(w)
    PROVE  Stages(w)
<1>1. PICK t \in Tasks, status \in CreateStatuses(w), version \in CreateVersions(w),
           assignee \in Addressees, elsewhere \in BOOLEAN :
             ReadForCreate(w, t, status, version, assignee, elsewhere)
  BY DEF Create
<1> DEFINE r == [payload |-> [status |-> status, version |-> version, elsewhere |-> elsewhere],
                 status |-> status,
                 isTerminal |-> status \in TERMINAL_TASK_STATUSES,
                 assignee |-> assignee,
                 sequence |-> 0]
<1>2. CASE Answer("AlreadyExists") /\ staged[w] = Idle
  BY <1>2 DEF Stages, Answer, Inv, TypeOK, Outcomes
<1>3. CASE rows[t] = NoRow /\ Stage(w, "CREATE", t, r)
  <2>1. r \in Row
    BY CreateReadRow
  <2>2. r.isTerminal <=> r.payload.status \in TERMINAL_TASK_STATUSES
    OBVIOUS
  <2> HIDE DEF r
  <2>3. QED
    BY <1>3, <2>1, <2>2, StagingInFlight
<1>4. QED
  BY <1>1, <1>2, <1>3 DEF ReadForCreate

\* update_status prepares a change of an open row that raises its version.
LEMMA UpdateStages ==
    ASSUME Inv, NEW w \in Workers, Update(w)
    PROVE  Stages(w)
<1>1. PICK t \in Tasks, status \in UpdateStatuses, expected \in Versions \union {Absent} :
             ReadForUpdate(w, t, status, expected)
  BY DEF Update
<1> DEFINE v == NextVersion(rows[t].payload, expected)
           b == status \in TERMINAL_TASK_STATUSES
           e == Edited(rows[t], status, v, b)
<1>2. CASE staged[w] = Idle /\ \E o \in Outcomes : Answer(o)
  BY <1>2 DEF Stages, Answer, Inv, TypeOK, Outcomes
<1>3. CASE rows[t] # NoRow /\ ~rows[t].isTerminal /\ Stage(w, "UPDATE", t, e)
  <2>1. rows[t] \in Row /\ rows[t].payload \in Payload
    BY <1>3 DEF Inv, TypeOK, Row
  <2>2. v \in Nat /\ v > rows[t].payload.version
    BY <2>1, NextVersionGrows
  <2>3. status \in Statuses /\ b \in BOOLEAN
    BY StatusesUsed
  <2>4. /\ e \in Row
        /\ e.payload.status = status
        /\ e.payload.version = v
        /\ e.payload.elsewhere = rows[t].payload.elsewhere
        /\ e.isTerminal = b
    <3> HIDE DEF v, b
    <3>1. QED BY <2>1, <2>2, <2>3, EditedRow
  <2> HIDE DEF v, e
  <2>5. e.payload.version > rows[t].payload.version
    BY <2>2, <2>4
  <2>6. e.isTerminal <=> e.payload.status \in TERMINAL_TASK_STATUSES
    BY <2>4
  <2>7. QED
    BY <1>3, <2>4, <2>5, <2>6, StagingInFlight
<1>4. QED
  BY <1>1, <1>2, <1>3 DEF ReadForUpdate, Outcomes

\* cancel prepares the closing of an open row.
LEMMA CancelStages ==
    ASSUME Inv, NEW w \in Workers, Cancel(w)
    PROVE  Stages(w)
<1>1. PICK t \in Tasks, status \in CancelStatuses(w) : ReadForCancel(w, t, status)
  BY DEF Cancel
<1> DEFINE v == CurrentVersion(rows[t].payload) + 1
           b == TRUE
           e == Edited(rows[t], status, v, b)
<1>2. CASE staged[w] = Idle /\ \E o \in Outcomes : Answer(o)
  BY <1>2 DEF Stages, Answer, Inv, TypeOK, Outcomes
<1>3. CASE rows[t] # NoRow /\ ~rows[t].isTerminal /\ Stage(w, "CANCELED", t, e)
  <2>1. rows[t] \in Row /\ rows[t].payload \in Payload
    BY <1>3 DEF Inv, TypeOK, Row
  <2>2. v \in Nat /\ v > rows[t].payload.version
    BY <2>1, CurrentVersionGrows
  <2>3. status \in Statuses /\ b \in BOOLEAN
    BY StatusesUsed
  <2>4. /\ e \in Row
        /\ e.payload.version = v
        /\ e.payload.elsewhere = rows[t].payload.elsewhere
        /\ e.isTerminal = b
    <3> HIDE DEF v, b
    <3>1. QED BY <2>1, <2>2, <2>3, EditedRow
  <2> HIDE DEF v, e
  <2>5. e.payload.version > rows[t].payload.version
    BY <2>2, <2>4
  <2>6. QED
    BY <1>3, <2>4, <2>5, StagingInFlight
<1>4. QED
  BY <1>1, <1>2, <1>3 DEF ReadForCancel, Outcomes

\* A rolled back transaction leaves rows and log.
LEMMA RollbackStages ==
    ASSUME Inv, NEW w \in Workers, Rollback(w)
    PROVE  Stages(w)
BY DEF Rollback, Finish, Stages, Inv, TypeOK, Outcomes

\* A commit writes one row and its events, or finds the task created and is dropped.
LEMMA CommitWrites ==
    ASSUME Inv, NEW w \in Workers, CommitCreate(w) \/ CommitChange(w)
    PROVE  Stages(w) \/ \E r \in Row : Writes(w, staged[w], r)
<1> DEFINE s == staged[w]
<1>1. s # Idle /\ s \in Staged /\ InFlight(s)
  BY DEF Inv, TypeOK, StagedOK, CommitCreate, CommitChange
<1>2. /\ s.task \in Tasks
      /\ s.edited \in Row
      /\ Sequenced(s) \in Row
      /\ Sequenced(s).sequence = Len(events) + 1
      /\ Sequenced(s).payload = s.edited.payload
      /\ Sequenced(s).isTerminal = s.edited.isTerminal
      /\ Sequenced(s).assignee = s.edited.assignee
  BY <1>1, StagedFields, SequencedRow DEF Inv
<1>3. CASE CommitCreate(w)
  <2>1. CASE rows[s.task] = NoRow
    <3>1. Writes(w, s, Sequenced(s))
      BY <1>1, <1>2, <1>3, <2>1 DEF CommitCreate, Writes, Finish, Outcomes, Addressee
    <3>2. QED BY <3>1, <1>2
  <2>2. CASE rows[s.task] # NoRow
    BY <1>3, <2>2 DEF CommitCreate, Finish, Stages, Inv, TypeOK, Outcomes
  <2>3. QED BY <2>1, <2>2
<1>4. CASE CommitChange(w)
  <2> DEFINE r == Flush(rows[s.task], s.loaded, Sequenced(s))
  <2>1. /\ s.type # "CREATE"
        /\ rows[s.task] \in Row /\ s.loaded \in Row
        /\ s.loaded.isTerminal = FALSE
        /\ s.edited.payload # s.loaded.payload
        /\ s.edited.isTerminal \in BOOLEAN
        /\ rows[s.task] # NoRow
        /\ s.loaded.assignee = rows[s.task].assignee
    <3>1. s.type # "CREATE" /\ s.loaded \in Row
      BY <1>1, <1>4, StagedFields DEF CommitChange
    <3>2. /\ rows[s.task] # NoRow
          /\ s.loaded.isTerminal = FALSE
          /\ s.loaded.assignee = rows[s.task].assignee
          /\ s.edited.payload.version > s.loaded.payload.version
      BY <1>1, <3>1 DEF InFlight, Row
    <3>3. s.loaded.payload.version \in Nat /\ s.edited.isTerminal \in BOOLEAN
      BY <1>2, <3>1 DEF Row, Payload
    <3>4. s.edited.payload # s.loaded.payload
      BY <3>2, <3>3
    <3>5. rows[s.task] \in Row
      BY <1>2, <3>2 DEF Inv, TypeOK
    <3>6. QED BY <3>1, <3>2, <3>3, <3>4, <3>5
  <2>2. r \in Row
    BY <1>2, <2>1, FlushRow
  <2>3. r.payload = s.edited.payload /\ r.sequence = Len(events) + 1
    BY <1>2, <2>1 DEF Flush
  <2>4. r.isTerminal <=> (s.edited.isTerminal \/ rows[s.task].isTerminal)
    <3>1. r.isTerminal = IF s.edited.isTerminal = FALSE THEN rows[s.task].isTerminal
                                                       ELSE s.edited.isTerminal
      BY <1>2, <2>1 DEF Flush
    <3>2. QED
      BY <2>1, <3>1 DEF Row
  <2>8. r.assignee = Addressee(s)
    BY <2>1 DEF Flush, Addressee
  <2>5. rows' = [rows EXCEPT ![s.task] = r] /\ events' = FullLog(s)
        /\ staged' = [staged EXCEPT ![w] = Idle] /\ reply' \in Outcomes
    BY <1>4 DEF CommitChange, Finish, Outcomes
  <2> HIDE DEF r
  <2>6. Writes(w, s, r)
    BY <1>1, <2>1, <2>2, <2>3, <2>4, <2>5, <2>8 DEF Writes
  <2>7. QED BY <2>2, <2>6
<1>5. QED BY <1>3, <1>4

\* How a write extends the log, seen by the events of each task.
LEMMA WriteExtendsLog ==
    ASSUME Inv, NEW w \in Workers, NEW s, NEW r, Writes(w, s, r)
    PROVE  /\ DOMAIN events = 1..Len(events) /\ Len(events) \in Nat
           /\ events' \in Seq(Event)
           /\ Len(events) + 1 \in DOMAIN events'
           /\ DOMAIN events' \subseteq 1..(Len(events) + 2)
           /\ \A i \in DOMAIN events : i \in DOMAIN events' /\ events'[i] = events[i]
           /\ events'[Len(events) + 1] = TaskEvent(s)
           /\ Len(events) + 2 \in DOMAIN events' <=> Asks(s)
           /\ Asks(s) => events'[Len(events) + 2] = AgentEvent(s)
<1> DEFINE n == Len(events)
           L == FullLog(s)
<1>1. TypeOK /\ s \in Staged /\ events' = L /\ events \in Seq(Event)
  BY DEF Inv, Writes, TypeOK
<1>2. n \in Nat /\ DOMAIN events = 1..n
  BY <1>1
<1>3. /\ L \in Seq(Event)
      /\ Len(L) = IF Asks(s) THEN n + 2 ELSE n + 1
      /\ \A i \in 1..n : L[i] = events[i]
      /\ L[n + 1] = TaskEvent(s)
      /\ Asks(s) => L[n + 2] = AgentEvent(s)
  BY <1>1, FullLogShape
<1> HIDE DEF L, n
<1>4. DOMAIN L = 1..Len(L)
  BY <1>3
<1>5. /\ n + 1 \in DOMAIN L /\ DOMAIN L \subseteq 1..(n + 2)
      /\ \A i \in 1..n : i \in DOMAIN L
      /\ n + 2 \in DOMAIN L <=> Asks(s)
  <2>1. CASE Asks(s)
    BY <1>2, <1>3, <1>4, <2>1
  <2>2. CASE ~Asks(s)
    BY <1>2, <1>3, <1>4, <2>2
  <2>3. QED BY <2>1, <2>2
<1>6. QED
  BY <1>1, <1>2, <1>3, <1>5 DEF n

\* The new log's events about a task: the old ones and, for the task that was
\* written, the new one at the end.
LEMMA WriteTaskEvents ==
    ASSUME Inv, NEW w \in Workers, NEW s, NEW r, Writes(w, s, r), NEW t \in Tasks
    PROVE  \A i \in DOMAIN events' :
              /\ i \in DOMAIN events => (IsTaskEvent(i, t)' <=> IsTaskEvent(i, t))
                                       /\ (ClosingEvent(i, t)' <=> ClosingEvent(i, t))
              /\ i = Len(events) + 1 => (IsTaskEvent(i, t)' <=> t = s.task)
                   /\ (ClosingEvent(i, t)' <=> t = s.task /\ s.edited.isTerminal)
              /\ i \notin DOMAIN events /\ i # Len(events) + 1 => ~IsTaskEvent(i, t)'
<1> SUFFICES ASSUME NEW i \in DOMAIN events'
             PROVE /\ i \in DOMAIN events => (IsTaskEvent(i, t)' <=> IsTaskEvent(i, t))
                                       /\ (ClosingEvent(i, t)' <=> ClosingEvent(i, t))
                   /\ i = Len(events) + 1 => (IsTaskEvent(i, t)' <=> t = s.task)
                        /\ (ClosingEvent(i, t)' <=> t = s.task /\ s.edited.isTerminal)
                   /\ i \notin DOMAIN events /\ i # Len(events) + 1 => ~IsTaskEvent(i, t)'
  OBVIOUS
<1>1. CASE i \in DOMAIN events
  <2>1. events'[i] = events[i] /\ i # Len(events) + 1
    BY <1>1, WriteExtendsLog
  <2>2. QED
    BY <1>1, <2>1 DEF IsTaskEvent, ClosingEvent
<1>2. CASE i = Len(events) + 1
  <2>1. i \notin DOMAIN events /\ events'[i] = TaskEvent(s)
    BY <1>2, WriteExtendsLog
  <2>2. InFlight(s)
    <3>1. NoRow \notin Row /\ Idle \notin Staged
      BY SentinelsAssumption
    <3>2. QED BY <3>1 DEF Inv, StagedOK, Writes
  <2>3. IsTaskEvent(i, t)' <=> t = s.task
    BY <2>1 DEF IsTaskEvent, TaskEvent
  <2>4. ClosingEvent(i, t)' <=> t = s.task /\ s.edited.isTerminal
    BY <2>1, <2>2, <2>3 DEF ClosingEvent, TaskEvent, InFlight
  <2>5. QED BY <1>2, <2>1, <2>3, <2>4
<1>3. CASE i \notin DOMAIN events /\ i # Len(events) + 1
  <2>1. i = Len(events) + 2
    <3>1. PICK n \in Nat : n = Len(events)
      BY WriteExtendsLog
    <3>2. i \in 1..(n + 2) /\ i \notin 1..n /\ i # n + 1
      BY <1>3, <3>1, WriteExtendsLog
    <3>3. QED BY <3>1, <3>2
  <2>3. events'[i].stream = "agent"
    <3>1. events'[i] = AgentEvent(s)
      BY <2>1, WriteExtendsLog
    <3>2. QED BY <3>1 DEF AgentEvent
  <2>2. QED
    BY <1>3, <2>1, <2>3 DEF IsTaskEvent
<1>4. QED BY <1>1, <1>2, <1>3

\* What no write changes in a row that is there.
LEMMA WriteKeepsRow ==
    ASSUME Inv, NEW w \in Workers, NEW s, NEW r, Writes(w, s, r), NEW t \in Tasks,
           rows[t] # NoRow
    PROVE  /\ rows'[t] # NoRow
           /\ rows'[t].assignee = rows[t].assignee
           /\ rows'[t].payload.elsewhere = rows[t].payload.elsewhere
           /\ rows[t].isTerminal => rows'[t].isTerminal
<1>1. NoRow \notin Row /\ Idle \notin Staged
  BY SentinelsAssumption
<1>2. InFlight(s) /\ s \in Staged
  BY <1>1 DEF Inv, StagedOK, Writes
<1>3. CASE t = s.task
  <2>1. rows'[t] = r
    BY <1>3 DEF Writes, Inv, TypeOK
  <2>2. s.type # "CREATE"
    BY <1>3 DEF Writes
  <2>3. r.assignee = rows[t].assignee
    BY <1>2, <1>3, <2>2 DEF Writes, InFlight, Addressee
  <2>4. r.payload.elsewhere = rows[t].payload.elsewhere
    BY <1>2, <1>3, <2>2 DEF Writes, InFlight
  <2>5. rows[t].isTerminal => r.isTerminal
    BY <1>3 DEF Writes
  <2>6. r # NoRow
    BY <1>1 DEF Writes
  <2> QED
    BY <2>1, <2>3, <2>4, <2>5, <2>6
<1>4. CASE t # s.task
  BY <1>4 DEF Writes, Inv, TypeOK
<1>5. QED BY <1>3, <1>4

\* No task is stored, told or in flight when the database is new.
LEMMA InitInv == Init => Inv
<1> SUFFICES ASSUME Init PROVE Inv
  OBVIOUS
<1>1. TypeOK
  BY DEF Init, TypeOK, Outcomes
<1>2. StagedOK
  BY DEF Init, StagedOK
<1>3. DOMAIN events = {}
  BY DEF Init
<1>4. TerminalMatchesLog /\ RowIsLastEvent
  BY <1>3 DEF Init, TerminalMatchesLog, RowIsLastEvent
<1>5. QED BY <1>1, <1>2, <1>4 DEF Inv

\* A step that only stages, answers or drops a request.
LEMMA StagesKeepsInv ==
    ASSUME Inv, NEW w \in Workers, Stages(w)
    PROVE  Inv'
<1>1. TypeOK'
  BY DEF Inv, TypeOK, Stages
<1>2. rows' = rows /\ events' = events
  BY DEF Stages
<1>3. StagedOK'
  <2> SUFFICES ASSUME NEW x \in Workers, staged'[x] # Idle
               PROVE  InFlight(staged[x])'
    BY DEF StagedOK
  <2>1. InFlight(staged'[x])
    BY DEF Stages, Inv, StagedOK
  <2>2. QED BY <1>2, <2>1 DEF InFlight
<1>4. TerminalMatchesLog'
  BY <1>2 DEF Inv, TerminalMatchesLog, ClosingEvent, IsTaskEvent
<1>5. RowIsLastEvent'
  BY <1>2 DEF Inv, RowIsLastEvent, IsTaskEvent
<1>6. QED BY <1>1, <1>3, <1>4, <1>5 DEF Inv

\* A commit keeps the invariant, whatever was committed since its read.
LEMMA WritesKeepsInv ==
    ASSUME Inv, NEW w \in Workers, NEW s, NEW r, Writes(w, s, r)
    PROVE  Inv'
<1> DEFINE n == Len(events)
<1>1. /\ s \in Staged /\ s.task \in Tasks /\ r \in Row
      /\ rows \in [Tasks -> Row \union {NoRow}] /\ rows' = [rows EXCEPT ![s.task] = r]
      /\ staged' = [staged EXCEPT ![w] = Idle]
      /\ r.payload = s.edited.payload /\ r.sequence = n + 1
      /\ r # NoRow
  BY StagedFields, SentinelsAssumption DEF Writes, Inv, TypeOK
<1>2. /\ rows'[s.task] = r
      /\ \A t \in Tasks : t # s.task => rows'[t] = rows[t]
      /\ \A t \in Tasks : rows[t] # NoRow => rows'[t] # NoRow
  BY <1>1
<1>3. TypeOK'
  <2>1. events' \in Seq(Event)
    BY WriteExtendsLog
  <2>2. rows' \in [Tasks -> Row \union {NoRow}]
    BY <1>1
  <2>3. staged' \in [Workers -> Staged \union {Idle}]
    BY <1>1 DEF Inv, TypeOK
  <2>4. reply' \in Outcomes
    BY DEF Writes
  <2>5. QED BY <2>1, <2>2, <2>3, <2>4 DEF TypeOK
<1>4. StagedOK'
  <2> SUFFICES ASSUME NEW x \in Workers, staged'[x] # Idle
               PROVE  InFlight(staged[x])'
    BY DEF StagedOK
  <2>1. staged'[x] = staged[x] /\ staged[x] # Idle
    BY <1>1 DEF Inv, TypeOK
  <2>2. InFlight(staged[x]) /\ staged[x] \in Staged
    BY <2>1 DEF Inv, StagedOK, TypeOK
  <2>3. staged[x].task \in Tasks
    BY <2>2, StagedFields
  <2>4. QED
    BY <1>2, <2>1, <2>2, <2>3, WriteKeepsRow DEF InFlight
<1>5. TerminalMatchesLog'
  <2> SUFFICES ASSUME NEW t \in Tasks, rows'[t] # NoRow
               PROVE  rows'[t].isTerminal <=> \E i \in DOMAIN events' : ClosingEvent(i, t)'
    BY DEF TerminalMatchesLog
  <2>1. (\E i \in DOMAIN events' : ClosingEvent(i, t)') <=>
          \/ \E i \in DOMAIN events : ClosingEvent(i, t)
          \/ t = s.task /\ s.edited.isTerminal
    <3> DEFINE Closed == \E i \in DOMAIN events : ClosingEvent(i, t)
               Closes == t = s.task /\ s.edited.isTerminal
    <3>1. PICK k \in Int : k = n + 1
      BY WriteExtendsLog
    <3>2. k \in DOMAIN events' /\ \A i \in DOMAIN events : i \in DOMAIN events'
      BY <3>1, WriteExtendsLog
    <3>3. \A i \in DOMAIN events' : ClosingEvent(i, t)' => i \in DOMAIN events \/ i = k
      BY <3>1, WriteTaskEvents DEF ClosingEvent
    <3>4. \A i \in DOMAIN events : ClosingEvent(i, t)' <=> ClosingEvent(i, t)
      BY <3>2, WriteTaskEvents
    <3>5. ClosingEvent(k, t)' <=> Closes
      BY <3>1, <3>2, WriteTaskEvents
    <3> HIDE DEF Closes
    <3>6. (\E i \in DOMAIN events' : ClosingEvent(i, t)') => Closed \/ Closes
      BY <3>3, <3>4, <3>5
    <3>7. Closed => \E i \in DOMAIN events' : ClosingEvent(i, t)'
      BY <3>2, <3>4
    <3>8. Closes => \E i \in DOMAIN events' : ClosingEvent(i, t)'
      BY <3>2, <3>5
    <3>9. QED BY <3>6, <3>7, <3>8 DEF Closes
  <2>2. CASE t # s.task
    <3>1. rows'[t] = rows[t]
      BY <1>2, <2>2
    <3>2. rows[t].isTerminal <=> \E i \in DOMAIN events : ClosingEvent(i, t)
      BY <3>1 DEF Inv, TerminalMatchesLog
    <3>3. QED BY <2>1, <2>2, <3>1, <3>2
  <2>3. CASE t = s.task
    <3>1. r.isTerminal <=> (s.edited.isTerminal \/ (rows[t] # NoRow /\ rows[t].isTerminal))
      BY <2>3 DEF Writes
    <3>2. (rows[t] # NoRow /\ rows[t].isTerminal)
             <=> \E i \in DOMAIN events : ClosingEvent(i, t)
      <4>1. CASE rows[t] = NoRow
        BY <4>1 DEF Inv, RowIsLastEvent, ClosingEvent
      <4>2. CASE rows[t] # NoRow
        BY <4>2 DEF Inv, TerminalMatchesLog
      <4>3. QED BY <4>1, <4>2
    <3>3. rows'[t] = r
      BY <1>2, <2>3
    <3>4. QED BY <2>1, <2>3, <3>1, <3>2, <3>3
  <2>4. QED BY <2>2, <2>3
<1>6. RowIsLastEvent'
  <2> DEFINE Last(t) ==
        /\ rows'[t].sequence \in DOMAIN events'
        /\ IsTaskEvent(rows[t].sequence, t)'
        /\ events'[rows'[t].sequence].payload = rows'[t].payload
        /\ \A i \in DOMAIN events' : IsTaskEvent(i, t)' => i <= rows'[t].sequence
  <2>1. ASSUME NEW t \in Tasks, rows'[t] = NoRow
        PROVE  \A i \in DOMAIN events' : ~IsTaskEvent(i, t)'
    <3>1. t # s.task /\ rows[t] = NoRow
      BY <1>1, <1>2, <2>1
    <3>2. \A i \in DOMAIN events : ~IsTaskEvent(i, t)
      BY <3>1 DEF Inv, RowIsLastEvent
    <3>3. QED
      BY <3>1, <3>2, WriteTaskEvents
  <2>2. ASSUME NEW t \in Tasks, rows'[t] # NoRow
        PROVE  Last(t)
    <3>1. CASE t = s.task
      <4>1. rows'[t].sequence = n + 1 /\ rows'[t].payload = s.edited.payload
        BY <1>1, <1>2, <3>1
      <4>2. n + 1 \in DOMAIN events' /\ events'[n + 1] = TaskEvent(s)
            /\ n \in Nat /\ DOMAIN events = 1..n
        BY WriteExtendsLog
      <4>3. IsTaskEvent(rows[t].sequence, t)'
        BY <3>1, <4>1, <4>2 DEF IsTaskEvent, TaskEvent
      <4>4. \A i \in DOMAIN events' : IsTaskEvent(i, t)' => i \in DOMAIN events \/ i = n + 1
        BY WriteTaskEvents
      <4>5. \A i \in DOMAIN events' : IsTaskEvent(i, t)' => i <= n + 1
        BY <4>2, <4>4
      <4>6. events'[rows'[t].sequence].payload = rows'[t].payload
        BY <4>1, <4>2 DEF TaskEvent
      <4>7. QED BY <4>1, <4>2, <4>3, <4>5, <4>6
    <3>2. CASE t # s.task
      <4>1. rows'[t] = rows[t] /\ rows[t] # NoRow
        BY <1>2, <2>2, <3>2
      <4>2. /\ rows[t].sequence \in DOMAIN events
            /\ IsTaskEvent(rows[t].sequence, t)
            /\ events[rows[t].sequence].payload = rows[t].payload
            /\ \A i \in DOMAIN events : IsTaskEvent(i, t) => i <= rows[t].sequence
        BY <4>1 DEF Inv, RowIsLastEvent
      <4>3. \A i \in DOMAIN events : i \in DOMAIN events' /\ events'[i] = events[i]
        BY WriteExtendsLog
      <4>4. \A i \in DOMAIN events' : IsTaskEvent(i, t)' => i \in DOMAIN events /\ IsTaskEvent(i, t)
        BY <3>2, WriteTaskEvents
      <4>5. IsTaskEvent(rows[t].sequence, t)'
        BY <4>1, <4>2, <4>3 DEF IsTaskEvent
      <4>6. QED BY <4>1, <4>2, <4>3, <4>4, <4>5
    <3>3. QED BY <3>1, <3>2
  <2>3. QED BY <2>1, <2>2 DEF RowIsLastEvent
<1>7. QED BY <1>3, <1>4, <1>5, <1>6 DEF Inv

\* Every step keeps the invariant.
LEMMA StepKeepsInv == Inv /\ [Next]_vars => Inv'
<1> SUFFICES ASSUME Inv, [Next]_vars PROVE Inv'
  OBVIOUS
<1>1. CASE UNCHANGED vars
  BY <1>1 DEF vars, Inv, TypeOK, StagedOK, InFlight, TerminalMatchesLog, RowIsLastEvent,
              ClosingEvent, IsTaskEvent
<1>2. ASSUME NEW w \in Workers, Create(w) \/ Update(w) \/ Cancel(w) \/ Rollback(w)
      PROVE  Inv'
  <2>1. Stages(w)
    BY <1>2, CreateStages, UpdateStages, CancelStages, RollbackStages
  <2>2. QED BY <2>1, StagesKeepsInv
<1>3. ASSUME NEW w \in Workers, CommitCreate(w) \/ CommitChange(w)
      PROVE  Inv'
  BY <1>3, CommitWrites, StagesKeepsInv, WritesKeepsInv
<1>4. QED BY <1>1, <1>2, <1>3 DEF Next

\* The invariant of every behaviour, with any number of racing requests.
THEOREM Invariance == Spec => []Inv
BY InitInv, StepKeepsInv, PTL DEF Spec

\* Rows, log and staged requests have their types.
THEOREM TypeCorrect == Spec => []TypeOK
<1>1. Inv => TypeOK
  BY DEF Inv
<1>2. QED BY <1>1, Invariance, PTL

\* A task's row is terminal exactly when its events say so.
THEOREM TerminalMatchesLogAlways == Spec => []TerminalMatchesLog
<1>1. Inv => TerminalMatchesLog
  BY DEF Inv
<1>2. QED BY <1>1, Invariance, PTL

\* The stored payload is the one in the task's last event.
THEOREM RowIsLastEventAlways == Spec => []RowIsLastEvent
<1>1. Inv => RowIsLastEvent
  BY DEF Inv
<1>2. QED BY <1>1, Invariance, PTL

-----------------------------------------------------------------------------
(* The rows implement the abstract phases.                                 *)

\* A commit creates a task, closes it or leaves it in its phase.
LEMMA WritesIsPhaseStep ==
    ASSUME Inv, NEW w \in Workers, NEW s, NEW r, Writes(w, s, r)
    PROVE  [Lifecycle!PhaseNext]_([t \in Tasks |-> Phase(t)])
<1> DEFINE u == s.task
           ph == [t \in Tasks |-> Phase(t)]
           new == IF r.isTerminal THEN "closed" ELSE "open"
<1>1. /\ u \in Tasks /\ r # NoRow
      /\ rows \in [Tasks -> Row \union {NoRow}] /\ rows' = [rows EXCEPT ![u] = r]
  BY StagedFields, SentinelsAssumption DEF Writes, Inv, TypeOK
<1>2. Phase(u)' = new /\ \A t \in Tasks \ {u} : Phase(t)' = Phase(t)
  BY <1>1 DEF Phase
<1>3. ph' = [ph EXCEPT ![u] = new]
  BY <1>1, <1>2
<1>4. Phase(u) = "closed" => new = "closed"
  BY DEF Phase, Writes
<1>5. Phase(u) \in {"absent", "open", "closed"} /\ new \in {"open", "closed"}
  BY DEF Phase
<1> HIDE DEF u, new
<1>6. ph[u] = Phase(u)
  BY <1>1
<1>7. CASE ph[u] = new
  BY <1>3, <1>7
<1>8. CASE ph[u] # new
  <2>1. \/ ph[u] = "absent" /\ new = "open"
        \/ ph[u] = "absent" /\ new = "closed"
        \/ ph[u] = "open" /\ new = "closed"
    BY <1>4, <1>5, <1>6, <1>8
  <2>2. QED
    BY <1>1, <1>3, <2>1 DEF Lifecycle!PhaseNext, Lifecycle!PhaseStep
<1>9. QED BY <1>7, <1>8

\* With any number of racing requests a task appears once, closes at most once
\* and is never reopened.
THEOREM PhasesImplementedAlways == Spec => PhasesImplemented
<1>1. Init => Lifecycle!PhaseInit
  BY DEF Init, Lifecycle!PhaseInit, Phase
<1>2. Inv /\ [Next]_vars => [Lifecycle!PhaseNext]_([t \in Tasks |-> Phase(t)])
  <2> SUFFICES ASSUME Inv, [Next]_vars
               PROVE  [Lifecycle!PhaseNext]_([t \in Tasks |-> Phase(t)])
    OBVIOUS
  <2>1. CASE UNCHANGED rows
    BY <2>1 DEF Phase
  <2>2. ASSUME NEW w \in Workers, CommitCreate(w) \/ CommitChange(w)
        PROVE  [Lifecycle!PhaseNext]_([t \in Tasks |-> Phase(t)])
    BY <2>1, <2>2, CommitWrites, WritesIsPhaseStep DEF Stages
  <2>3. ASSUME NEW w \in Workers, Create(w) \/ Update(w) \/ Cancel(w) \/ Rollback(w)
        PROVE  UNCHANGED rows
    BY <2>3, CreateStages, UpdateStages, CancelStages, RollbackStages DEF Stages
  <2>4. QED BY <2>1, <2>2, <2>3 DEF Next, vars
<1>3. QED BY <1>1, <1>2, Invariance, PTL DEF Spec, PhasesImplemented, Lifecycle!PhaseSpec

-----------------------------------------------------------------------------
\* A write after the end of a task, or one that does not raise its version,
\* comes from a request whose read was out of date.
THEOREM OnlyStaleReadsHarmAlways == Spec => OnlyStaleReadsHarm
<1> DEFINE Harmless == \A w \in Workers, t \in Tasks :
         (Commits(w, t) /\ rows[t] # NoRow /\ staged[w].loaded = rows[t]) =>
            /\ ~rows[t].isTerminal
            /\ rows'[t].payload.version > rows[t].payload.version
<1>1. Inv /\ [Next]_vars => [Harmless]_vars
  <2> SUFFICES ASSUME Inv, Next, NEW w \in Workers, NEW t \in Tasks,
                      Commits(w, t), rows[t] # NoRow, staged[w].loaded = rows[t]
               PROVE  /\ ~rows[t].isTerminal
                      /\ rows'[t].payload.version > rows[t].payload.version
    OBVIOUS
  <2> DEFINE s == staged[w]
  <2>1. s # Idle /\ s.task = t /\ staged'[w] = Idle /\ events' # events
    BY DEF Commits
  <2>2. s \in Staged /\ InFlight(s)
    BY <2>1 DEF Inv, TypeOK, StagedOK
  <2>3. s.type # "CREATE"
    BY <2>2, StagedFields
  <2>4. ~rows[t].isTerminal /\ s.edited.payload.version > rows[t].payload.version
    BY <2>2, <2>3 DEF InFlight
  <2>5. PICK x \in Workers : CommitCreate(x) \/ CommitChange(x)
    <3>1. ASSUME NEW x \in Workers, Create(x) \/ Update(x) \/ Cancel(x) \/ Rollback(x)
          PROVE  FALSE
      BY <2>1, <3>1, CreateStages, UpdateStages, CancelStages, RollbackStages DEF Stages
    <3>2. QED BY <3>1 DEF Next
  <2>6. PICK r \in Row : Writes(x, staged[x], r)
    BY <2>1, <2>5, CommitWrites DEF Stages
  <2>7. x = w
    BY <2>1, <2>6 DEF Writes, Inv, TypeOK
  <2>8. rows'[t] = r /\ r.payload = s.edited.payload
    BY <2>1, <2>6, <2>7 DEF Writes, Inv, TypeOK
  <2>9. QED BY <2>4, <2>8
<1>2. QED BY <1>1, Invariance, PTL DEF Spec, OnlyStaleReadsHarm

-----------------------------------------------------------------------------
(* The order of a task's events, its agent's among them.                   *)

\* Every event is about a task that has a row, and agrees with the row on what no
\* request changes: the assignee, who is the subject of the agent events, and
\* whether the task runs elsewhere.  A task whose agent was told to cancel is over.
ToldOfRows ==
    \A i \in DOMAIN events :
        LET row == rows[events[i].task]
        IN  /\ row # NoRow
            /\ events[i].payload.elsewhere = row.payload.elsewhere
            /\ events[i].stream = "agent" <=> events[i].type \in {"ExecuteRequest", "CancelRequest"}
            /\ events[i].stream = "agent" => events[i].subject = row.assignee
            /\ events[i].type = "CancelRequest" => row.isTerminal

\* Of every task with a row either its agent was asked to execute it, or its CREATE
\* event says that it runs elsewhere.
AskedFirst ==
    \A t \in Tasks : rows[t] # NoRow =>
        \E i \in DOMAIN events :
            /\ events[i].task = t
            /\ \/ events[i].type = "ExecuteRequest"
               \/ events[i].type = "CREATE" /\ events[i].payload.elsewhere

\* An agent is asked to execute a task once, before all else it is told of it.
ExecuteFirst ==
    \A i, j \in DOMAIN events :
        (/\ events[j].type = "ExecuteRequest"
         /\ events[i].task = events[j].task
         /\ events[i].stream = "agent"
         /\ i # j) => i > j

\* The task's watchers are told of its end before its agent.
ClosedBeforeCancel ==
    \A j \in DOMAIN events : events[j].type = "CancelRequest" =>
        \E i \in 1..j : ClosingEvent(i, events[j].task)

LogInv == /\ Inv
          /\ ToldOfRows
          /\ AskedFirst
          /\ CreatedOnce
          /\ ExecuteFirst
          /\ ExecuteBeforeCancel
          /\ ClosedBeforeCancel

\* Every event of a log that was written to is an old one or one of the new ones.
LEMMA WriteSplitsLog ==
    ASSUME Inv, NEW w \in Workers, NEW s, NEW r, Writes(w, s, r), NEW i \in DOMAIN events'
    PROVE  /\ i \in Nat /\ Len(events) \in Nat /\ DOMAIN events = 1..Len(events)
           /\ \/ i \in DOMAIN events /\ i <= Len(events) /\ events'[i] = events[i]
              \/ i = Len(events) + 1 /\ events'[i] = TaskEvent(s)
              \/ i = Len(events) + 2 /\ Asks(s) /\ events'[i] = AgentEvent(s)
<1>1. PICK n \in Nat : n = Len(events)
  BY WriteExtendsLog
<1>2. DOMAIN events = 1..n /\ i \in 1..(n + 2)
  BY <1>1, WriteExtendsLog
<1>3. CASE i \in DOMAIN events
  BY <1>1, <1>2, <1>3, WriteExtendsLog
<1>4. CASE i = n + 1
  BY <1>1, <1>2, <1>4, WriteExtendsLog
<1>5. CASE i = n + 2
  <2>1. Asks(s)
    BY <1>1, <1>5, WriteExtendsLog
  <2>2. events'[i] = AgentEvent(s)
    BY <1>1, <1>5, <2>1, WriteExtendsLog
  <2>3. QED BY <1>1, <1>2, <1>5, <2>1, <2>2
<1>6. QED BY <1>2, <1>3, <1>4, <1>5

\* The request that writes, and the row it leaves.
LEMMA WriteFacts ==
    ASSUME Inv, NEW w \in Workers, NEW s, NEW r, Writes(w, s, r)
    PROVE  /\ s \in Staged /\ s.task \in Tasks /\ s.edited \in Row /\ InFlight(s)
           /\ s.type \in {"CREATE", "UPDATE", "CANCELED"}
           /\ r \in Row /\ r # NoRow
           /\ rows'[s.task] = r
           /\ \A t \in Tasks : t # s.task => rows'[t] = rows[t]
           /\ r.payload = s.edited.payload /\ r.assignee = Addressee(s)
           /\ s.type = "CREATE" <=> rows[s.task] = NoRow
           /\ s.edited.isTerminal => r.isTerminal
           /\ r.sequence = Len(events) + 1
<1>1. NoRow \notin Row /\ Idle \notin Staged
  BY SentinelsAssumption
<1>2. s \in Staged /\ InFlight(s)
  BY <1>1 DEF Inv, StagedOK, Writes
<1>3. s.task \in Tasks
  BY <1>2, StagedFields
<1>4. QED
  BY <1>1, <1>2, <1>3, StagedFields DEF Writes, Inv, TypeOK

\* A commit tells of no task but the one whose row it writes.
LEMMA ToldOfRowsKept ==
    ASSUME Inv, ToldOfRows, NEW w \in Workers, NEW s, NEW r, Writes(w, s, r)
    PROVE  ToldOfRows'
<1> DEFINE Told(e, row) ==
      /\ row # NoRow
      /\ e.payload.elsewhere = row.payload.elsewhere
      /\ e.stream = "agent" <=> e.type \in {"ExecuteRequest", "CancelRequest"}
      /\ e.stream = "agent" => e.subject = row.assignee
      /\ e.type = "CancelRequest" => row.isTerminal
<1> SUFFICES ASSUME NEW i \in DOMAIN events'
             PROVE  Told(events'[i], rows'[events'[i].task])
  BY DEF ToldOfRows
<1>1. CASE i \in DOMAIN events /\ events'[i] = events[i]
  <2>1. Told(events[i], rows[events[i].task])
    BY <1>1 DEF ToldOfRows
  <2>2. events[i].task \in Tasks
    <3>1. events[i] \in Event
      BY <1>1 DEF Inv, TypeOK
    <3>2. QED BY <3>1 DEF Event
  <2>3. /\ rows'[events[i].task] # NoRow
        /\ rows'[events[i].task].assignee = rows[events[i].task].assignee
        /\ rows'[events[i].task].payload.elsewhere = rows[events[i].task].payload.elsewhere
        /\ rows[events[i].task].isTerminal => rows'[events[i].task].isTerminal
    BY <2>1, <2>2, WriteKeepsRow
  <2>4. QED BY <1>1, <2>1, <2>3
<1>2. CASE events'[i] = TaskEvent(s)
  <2>1. events'[i].task = s.task /\ events'[i].payload = s.edited.payload
        /\ events'[i].stream = "task" /\ events'[i].type = s.type
    BY <1>2 DEF TaskEvent
  <2>2. rows'[s.task] = r /\ r # NoRow /\ r.payload = s.edited.payload
        /\ s.type \in {"CREATE", "UPDATE", "CANCELED"}
    BY WriteFacts
  <2>3. QED BY <2>1, <2>2
<1>3. CASE Asks(s) /\ events'[i] = AgentEvent(s)
  <2>1. /\ events'[i].task = s.task /\ events'[i].payload = s.edited.payload
        /\ events'[i].stream = "agent" /\ events'[i].subject = Addressee(s)
        /\ events'[i].type = IF s.type = "CREATE" THEN "ExecuteRequest" ELSE "CancelRequest"
    BY <1>3 DEF AgentEvent
  <2>2. /\ rows'[s.task] = r /\ r # NoRow /\ r.payload = s.edited.payload
        /\ r.assignee = Addressee(s)
    BY WriteFacts
  <2>3. events'[i].type = "CancelRequest" => r.isTerminal
    BY <1>3, <2>1, WriteFacts DEF Asks, InFlight
  <2>4. QED BY <2>1, <2>2, <2>3
<1>4. QED BY <1>1, <1>2, <1>3, WriteSplitsLog

\* A commit asks an agent right after it told of the task.
LEMMA AskedFirstKept ==
    ASSUME Inv, AskedFirst, NEW w \in Workers, NEW s, NEW r, Writes(w, s, r)
    PROVE  AskedFirst'
<1> DEFINE Asked(e) == \/ e.type = "ExecuteRequest"
                       \/ e.type = "CREATE" /\ e.payload.elsewhere
<1> SUFFICES ASSUME NEW t \in Tasks, rows'[t] # NoRow
             PROVE  \E i \in DOMAIN events' : events'[i].task = t /\ Asked(events'[i])
  BY DEF AskedFirst
<1>1. CASE rows[t] # NoRow
  <2>1. PICK i \in DOMAIN events : events[i].task = t /\ Asked(events[i])
    BY <1>1 DEF AskedFirst
  <2>2. i \in DOMAIN events' /\ events'[i] = events[i]
    BY WriteExtendsLog
  <2>3. QED BY <2>1, <2>2
<1>2. CASE rows[t] = NoRow
  <2>1. t = s.task /\ s.type = "CREATE"
    BY <1>2, WriteFacts
  <2>2. CASE s.edited.payload.elsewhere
    <3>1. Len(events) + 1 \in DOMAIN events' /\ events'[Len(events) + 1] = TaskEvent(s)
      BY WriteExtendsLog
    <3>2. TaskEvent(s).task = t /\ Asked(TaskEvent(s))
      BY <2>1, <2>2 DEF TaskEvent
    <3>3. QED BY <3>1, <3>2
  <2>3. CASE ~s.edited.payload.elsewhere
    <3>1. Asks(s)
      BY <2>1, <2>3 DEF Asks
    <3>2. Len(events) + 2 \in DOMAIN events' /\ events'[Len(events) + 2] = AgentEvent(s)
      BY <3>1, WriteExtendsLog
    <3>3. AgentEvent(s).task = t /\ Asked(AgentEvent(s))
      BY <2>1 DEF AgentEvent
    <3>4. QED BY <3>2, <3>3
  <2>4. QED BY <2>2, <2>3
<1>3. QED BY <1>1, <1>2

\* When a task is created, no event tells of it yet.
LEMMA FirstOfTask ==
    ASSUME Inv, ToldOfRows, NEW w \in Workers, NEW s, NEW r, Writes(w, s, r),
           s.type = "CREATE", NEW i \in DOMAIN events
    PROVE  events[i].task # s.task
<1>1. rows[s.task] = NoRow
  BY WriteFacts
<1>2. QED BY <1>1 DEF ToldOfRows

\* A commit tells of a creation only if there was no row, and so no event.
LEMMA CreatedOnceKept ==
    ASSUME Inv, ToldOfRows, CreatedOnce, NEW w \in Workers, NEW s, NEW r, Writes(w, s, r)
    PROVE  CreatedOnce'
<1> SUFFICES ASSUME NEW i \in DOMAIN events', NEW j \in DOMAIN events',
                    events'[j].type = "CREATE", events'[i].task = events'[j].task, i # j
             PROVE  i > j /\ events'[i].type # "CREATE"
  BY DEF CreatedOnce
<1>1. PICK n \in Nat : n = Len(events)
  BY WriteSplitsLog
<1>2. events'[j].type = "CREATE" => j # n + 2
  BY <1>1, WriteSplitsLog DEF AgentEvent
<1>3. CASE j \in DOMAIN events /\ events'[j] = events[j]
  <2>1. CASE i \in DOMAIN events /\ events'[i] = events[i]
    BY <1>3, <2>1 DEF CreatedOnce
  <2>2. CASE i > n
    <3>1. i > j
      BY <1>1, <1>3, <2>2, WriteSplitsLog
    <3>2. events'[i].type # "CREATE"
      <4>1. CASE events'[i] = TaskEvent(s)
        <5>1. s.type # "CREATE"
          BY <1>3, <4>1, FirstOfTask DEF TaskEvent
        <5>2. QED BY <4>1, <5>1 DEF TaskEvent
      <4>2. CASE events'[i] = AgentEvent(s)
        BY <4>2 DEF AgentEvent
      <4>3. QED BY <1>1, <2>2, <4>1, <4>2, WriteSplitsLog
    <3>3. QED BY <3>1, <3>2
  <2>3. QED BY <1>1, <2>1, <2>2, WriteSplitsLog
<1>4. CASE j = n + 1 /\ events'[j] = TaskEvent(s)
  <2>1. s.type = "CREATE" /\ events'[j].task = s.task
    BY <1>4 DEF TaskEvent
  <2>2. i \notin DOMAIN events
    BY <2>1, FirstOfTask, WriteExtendsLog
  <2>3. i = n + 2 /\ events'[i] = AgentEvent(s)
    BY <1>1, <1>4, <2>2, WriteSplitsLog
  <2>4. QED BY <1>1, <1>4, <2>3 DEF AgentEvent
<1>5. QED BY <1>1, <1>2, <1>3, <1>4, WriteSplitsLog

\* The first request a commit makes to an agent about a task is the creation's.
LEMMA ExecuteFirstKept ==
    ASSUME Inv, ToldOfRows, ExecuteFirst, NEW w \in Workers, NEW s, NEW r, Writes(w, s, r)
    PROVE  ExecuteFirst'
<1> SUFFICES ASSUME NEW i \in DOMAIN events', NEW j \in DOMAIN events',
                    events'[j].type = "ExecuteRequest", events'[i].task = events'[j].task,
                    events'[i].stream = "agent", i # j
             PROVE  i > j
  BY DEF ExecuteFirst
<1>1. PICK n \in Nat : n = Len(events)
  BY WriteSplitsLog
<1>2. CASE j \in DOMAIN events /\ events'[j] = events[j]
  <2>1. CASE i \in DOMAIN events /\ events'[i] = events[i]
    BY <1>2, <2>1 DEF ExecuteFirst
  <2>2. CASE i > n
    BY <1>1, <1>2, <2>2, WriteSplitsLog
  <2>3. QED BY <1>1, <2>1, <2>2, WriteSplitsLog
<1>3. CASE events'[j] = TaskEvent(s)
  BY <1>3, WriteFacts DEF TaskEvent
<1>4. CASE j = n + 2 /\ events'[j] = AgentEvent(s)
  <2>1. s.type = "CREATE" /\ events'[j].task = s.task
    BY <1>4 DEF AgentEvent
  <2>2. i \notin DOMAIN events
    BY <2>1, FirstOfTask, WriteExtendsLog
  <2>3. events'[i] = TaskEvent(s)
    BY <1>1, <1>4, <2>2, WriteSplitsLog
  <2>4. QED BY <2>3 DEF TaskEvent
<1>5. QED BY <1>1, <1>2, <1>3, <1>4, WriteSplitsLog

\* A commit that asks to cancel finds the execute in the log.
LEMMA ExecuteBeforeCancelKept ==
    ASSUME LogInv, NEW w \in Workers, NEW s, NEW r, Writes(w, s, r)
    PROVE  ExecuteBeforeCancel'
<1> DEFINE Asked(e, f) == \/ e.type = "ExecuteRequest" /\ e.subject = f.subject
                          \/ e.type = "CREATE" /\ e.payload.elsewhere
<1> SUFFICES ASSUME NEW j \in DOMAIN events', events'[j].type = "CancelRequest"
             PROVE  \E i \in 1..j : events'[i].task = events'[j].task /\ Asked(events'[i], events'[j])
  BY DEF ExecuteBeforeCancel
<1> USE DEF LogInv
<1>1. CASE j \in DOMAIN events /\ events'[j] = events[j]
  <2>1. PICK i \in 1..j : events[i].task = events[j].task /\ Asked(events[i], events[j])
    BY <1>1 DEF ExecuteBeforeCancel
  <2>2. i \in DOMAIN events
    BY <1>1, <2>1, WriteSplitsLog
  <2>3. events'[i] = events[i]
    BY <2>2, WriteExtendsLog
  <2>4. QED BY <1>1, <2>1, <2>3
<1>2. CASE events'[j] = TaskEvent(s)
  BY <1>2, WriteFacts DEF TaskEvent
<1>3. CASE j = Len(events) + 2 /\ events'[j] = AgentEvent(s)
  <2>1. s.type # "CREATE" /\ events'[j].task = s.task /\ events'[j].subject = Addressee(s)
    BY <1>3 DEF AgentEvent
  <2>2. s.task \in Tasks /\ rows[s.task] # NoRow /\ rows[s.task].assignee = Addressee(s)
    BY <2>1, WriteFacts DEF InFlight, Addressee
  <2>3. PICK i \in DOMAIN events :
           /\ events[i].task = s.task
           /\ \/ events[i].type = "ExecuteRequest"
              \/ events[i].type = "CREATE" /\ events[i].payload.elsewhere
    <3>1. AskedFirst
      OBVIOUS
    <3>2. QED BY <2>2, <3>1 DEF AskedFirst
  <2>4. events[i].type = "ExecuteRequest" => events[i].subject = Addressee(s)
    BY <2>2, <2>3 DEF ToldOfRows
  <2>5. events'[i] = events[i]
    BY WriteExtendsLog
  <2>6. i \in 1..j
    BY <1>3, WriteSplitsLog
  <2>7. QED BY <2>1, <2>3, <2>4, <2>5, <2>6
<1>4. QED BY <1>1, <1>2, <1>3, WriteSplitsLog

\* A commit that asks to cancel closes its task with it.
LEMMA ClosedBeforeCancelKept ==
    ASSUME Inv, ClosedBeforeCancel, NEW w \in Workers, NEW s, NEW r, Writes(w, s, r)
    PROVE  ClosedBeforeCancel'
<1> SUFFICES ASSUME NEW j \in DOMAIN events', events'[j].type = "CancelRequest"
             PROVE  \E i \in 1..j : (ClosingEvent(i, events[j].task))'
  BY DEF ClosedBeforeCancel
<1>1. CASE j \in DOMAIN events /\ events'[j] = events[j]
  <2>1. PICK i \in 1..j : ClosingEvent(i, events[j].task)
    BY <1>1 DEF ClosedBeforeCancel
  <2>2. i \in DOMAIN events
    BY <1>1, <2>1, WriteSplitsLog
  <2>3. events'[i] = events[i]
    BY <2>2, WriteExtendsLog
  <2>4. QED BY <1>1, <2>1, <2>3 DEF ClosingEvent, IsTaskEvent
<1>2. CASE events'[j] = TaskEvent(s)
  BY <1>2, WriteFacts DEF TaskEvent
<1>3. CASE j = Len(events) + 2 /\ Asks(s) /\ events'[j] = AgentEvent(s)
  <2>1. s.type = "CANCELED" /\ events'[j].task = s.task
    BY <1>3 DEF AgentEvent, Asks
  <2>2. events'[Len(events) + 1] = TaskEvent(s) /\ Len(events) \in Nat
    BY WriteExtendsLog
  <2>3. PICK i \in 1..j : i = Len(events) + 1
    BY <1>3, <2>2
  <2>4. /\ events'[i].stream = "task" /\ events'[i].type = "CANCELED"
        /\ events'[i].task = events'[j].task
    BY <2>1, <2>2, <2>3 DEF TaskEvent
  <2>5. ClosingEvent(i, events[j].task)'
    BY <2>4 DEF ClosingEvent, IsTaskEvent
  <2>6. QED BY <2>5
<1>4. QED BY <1>1, <1>2, <1>3, WriteSplitsLog

\* LogInv but for Inv speaks of rows and events only, and no row or event changes
\* without a write.
LEMMA LogInvUnchanged ==
    ASSUME LogInv, Inv', UNCHANGED <<rows, events>>
    PROVE  LogInv'
BY DEF LogInv, ToldOfRows, AskedFirst, CreatedOnce, ExecuteFirst, ExecuteBeforeCancel,
       ClosedBeforeCancel, ClosingEvent, IsTaskEvent

\* An empty log is in order.
LEMMA InitLogInv == Init => LogInv
<1> SUFFICES ASSUME Init PROVE LogInv
  OBVIOUS
<1>1. Inv
  BY InitInv
<1>2. DOMAIN events = {} /\ \A t \in Tasks : rows[t] = NoRow
  BY DEF Init
<1>3. QED
  BY <1>1, <1>2
     DEF LogInv, ToldOfRows, AskedFirst, CreatedOnce, ExecuteFirst, ExecuteBeforeCancel,
         ClosedBeforeCancel, ClosingEvent, IsTaskEvent

\* Every step writes, or leaves rows and log as they are.
LEMMA WritesOrNot ==
    ASSUME Inv, [Next]_vars
    PROVE  \/ UNCHANGED <<rows, events>>
           \/ \E w \in Workers : \E s \in Staged, r \in Row : Writes(w, s, r)
<1>1. ASSUME NEW w \in Workers, Create(w) \/ Update(w) \/ Cancel(w) \/ Rollback(w)
      PROVE  UNCHANGED <<rows, events>>
  BY <1>1, CreateStages, UpdateStages, CancelStages, RollbackStages DEF Stages
<1>2. ASSUME NEW w \in Workers, CommitCreate(w) \/ CommitChange(w)
      PROVE  UNCHANGED <<rows, events>> \/ \E s \in Staged, r \in Row : Writes(w, s, r)
  <2>1. CASE Stages(w)
    BY <2>1 DEF Stages
  <2>2. CASE \E r \in Row : Writes(w, staged[w], r)
    BY <2>2 DEF Writes
  <2>3. QED BY <1>2, <2>1, <2>2, CommitWrites
<1>3. QED BY <1>1, <1>2 DEF Next, vars

\* Every step keeps the log in order.
LEMMA StepKeepsLogInv == LogInv /\ [Next]_vars => LogInv'
<1> SUFFICES ASSUME LogInv, [Next]_vars PROVE LogInv'
  OBVIOUS
<1>1. Inv /\ Inv'
  BY StepKeepsInv DEF LogInv
<1>2. CASE UNCHANGED <<rows, events>>
  BY <1>1, <1>2, LogInvUnchanged
<1>3. ASSUME NEW w \in Workers, NEW s, NEW r, Writes(w, s, r)
      PROVE  LogInv'
  BY <1>1, <1>3, ToldOfRowsKept, AskedFirstKept, CreatedOnceKept, ExecuteFirstKept,
     ExecuteBeforeCancelKept, ClosedBeforeCancelKept DEF LogInv
<1>4. QED BY <1>1, <1>2, <1>3, WritesOrNot

\* The log grows at its end, and no event is changed.
LEMMA LogGrows ==
    ASSUME LogInv, [Next]_vars
    PROVE  /\ DOMAIN events = 1..Len(events) /\ Len(events) \in Nat
           /\ DOMAIN events' = 1..Len(events') /\ Len(events') \in Nat
           /\ Len(events) <= Len(events')
           /\ \A i \in DOMAIN events : i \in DOMAIN events' /\ events'[i] = events[i]
<1>1. Inv /\ Inv'
  BY StepKeepsLogInv DEF LogInv
<1>2. events \in Seq(Event) /\ events' \in Seq(Event)
  BY <1>1 DEF Inv, TypeOK
<1>3. CASE UNCHANGED <<rows, events>>
  BY <1>2, <1>3
<1>4. ASSUME NEW w \in Workers, NEW s, NEW r, Writes(w, s, r)
      PROVE  /\ Len(events) <= Len(events')
             /\ \A i \in DOMAIN events : i \in DOMAIN events' /\ events'[i] = events[i]
  <2>1. Len(events) + 1 \in DOMAIN events'
    BY <1>1, <1>4, WriteExtendsLog
  <2>2. Len(events) <= Len(events')
    BY <1>2, <2>1
  <2>3. QED BY <1>1, <1>4, <2>2, WriteExtendsLog
<1>5. QED BY <1>1, <1>2, <1>3, <1>4, WritesOrNot

\* The order of each task's events holds in every behaviour.
THEOREM LogInvariance == Spec => []LogInv
BY InitLogInv, StepKeepsLogInv, PTL DEF Spec

\* Requests racing to create a task create it once, before all else it tells.
THEOREM CreatedOnceAlways == Spec => []CreatedOnce
<1>1. LogInv => CreatedOnce
  BY DEF LogInv
<1>2. QED BY <1>1, LogInvariance, PTL

\* An agent asked to cancel a task was asked to execute it before, or it runs elsewhere.
THEOREM ExecuteBeforeCancelAlways == Spec => []ExecuteBeforeCancel
<1>1. LogInv => ExecuteBeforeCancel
  BY DEF LogInv
<1>2. QED BY <1>1, LogInvariance, PTL

-----------------------------------------------------------------------------
(* One request at a time: a gRPC server with no REST server beside it.     *)

Alone == RestWorkers = {} /\ \A v, w \in GrpcWorkers : v = w

\* A request in flight was read from the row as it still is, and edits the status
\* in payload and column alike.
Fresh(s) ==
    /\ s.loaded = rows[s.task]
    /\ s.edited.status = s.edited.payload.status
    /\ s.edited.isTerminal <=> s.edited.status \in TERMINAL_TASK_STATUSES

AloneInv == Inv /\ ColumnsAgree /\ \A w \in Workers : staged[w] # Idle => Fresh(staged[w])

\* What was read just now is the row that is stored.
LEMMA StageFresh ==
    ASSUME Inv, NEW w \in Workers, NEW type \in {"CREATE", "UPDATE", "CANCELED"},
           NEW t \in Tasks, NEW edited \in Row, Stage(w, type, t, edited),
           type = "CREATE" <=> rows[t] = NoRow,
           edited.status = edited.payload.status,
           edited.isTerminal <=> edited.status \in TERMINAL_TASK_STATUSES
    PROVE  Fresh(staged'[w])
<1>1. staged'[w] = [task |-> t, type |-> type, loaded |-> rows[t], edited |-> edited]
  BY StageType DEF Inv
<1>2. QED BY <1>1 DEF Fresh

\* create prepares on the state it read.
LEMMA CreateFresh ==
    ASSUME Inv, NEW w \in Workers, staged[w] = Idle, Create(w), staged'[w] # Idle
    PROVE  Fresh(staged'[w])
<1>1. PICK t \in Tasks, status \in CreateStatuses(w), version \in CreateVersions(w),
           assignee \in Addressees, elsewhere \in BOOLEAN :
             ReadForCreate(w, t, status, version, assignee, elsewhere)
  BY DEF Create
<1> DEFINE r == [payload |-> [status |-> status, version |-> version, elsewhere |-> elsewhere],
                 status |-> status,
                 isTerminal |-> status \in TERMINAL_TASK_STATUSES,
                 assignee |-> assignee,
                 sequence |-> 0]
<1>2. rows[t] = NoRow /\ Stage(w, "CREATE", t, r)
  BY <1>1 DEF ReadForCreate, Answer
<1>3. r \in Row
  BY CreateReadRow
<1>4. r.status = r.payload.status /\ (r.isTerminal <=> r.status \in TERMINAL_TASK_STATUSES)
  OBVIOUS
<1> HIDE DEF r
<1>5. QED
  BY <1>2, <1>3, <1>4, StageFresh

\* Columns of an edited row.
LEMMA EditedColumns ==
    ASSUME NEW r \in Row, NEW status \in Statuses, NEW v \in Nat, NEW b \in BOOLEAN
    PROVE  /\ Edited(r, status, v, b).status = Edited(r, status, v, b).payload.status
           /\ Edited(r, status, v, b).status = status
BY DEF Edited, Row, Payload

\* update_status prepares on the row it read.
LEMMA UpdateFresh ==
    ASSUME Inv, NEW w \in Workers, staged[w] = Idle, Update(w), staged'[w] # Idle
    PROVE  Fresh(staged'[w])
<1>1. PICK t \in Tasks, status \in UpdateStatuses, expected \in Versions \union {Absent} :
             ReadForUpdate(w, t, status, expected)
  BY DEF Update
<1> DEFINE v == NextVersion(rows[t].payload, expected)
           b == status \in TERMINAL_TASK_STATUSES
           e == Edited(rows[t], status, v, b)
<1>2. rows[t] # NoRow /\ Stage(w, "UPDATE", t, e)
  BY <1>1 DEF ReadForUpdate, Answer
<1>3. rows[t] \in Row /\ rows[t].payload \in Payload
  BY <1>2 DEF Inv, TypeOK, Row
<1>4. v \in Nat /\ status \in Statuses /\ b \in BOOLEAN
  BY <1>3, NextVersionGrows, StatusesUsed
<1>5. e \in Row /\ e.isTerminal = b /\ e.status = e.payload.status /\ e.status = status
  <2> HIDE DEF v, b
  <2>1. QED BY <1>3, <1>4, EditedRow, EditedColumns
<1>6. e.isTerminal <=> e.status \in TERMINAL_TASK_STATUSES
  BY <1>5
<1> HIDE DEF v, e
<1>7. QED
  BY <1>2, <1>5, <1>6, StageFresh

\* cancel prepares on the row it read, whose columns agree.
LEMMA CancelFresh ==
    ASSUME Alone, Inv, NEW w \in Workers, staged[w] = Idle, Cancel(w), staged'[w] # Idle
    PROVE  Fresh(staged'[w])
<1>1. PICK t \in Tasks, status \in CancelStatuses(w) : ReadForCancel(w, t, status)
  BY DEF Cancel
<1> DEFINE v == CurrentVersion(rows[t].payload) + 1
           b == TRUE
           e == Edited(rows[t], status, v, b)
<1>2. rows[t] # NoRow /\ Stage(w, "CANCELED", t, e)
  BY <1>1 DEF ReadForCancel, Answer
<1>3. rows[t] \in Row /\ rows[t].payload \in Payload
  BY <1>2 DEF Inv, TypeOK, Row
<1>4. v \in Nat /\ status \in Statuses /\ status \in TERMINAL_TASK_STATUSES
  BY <1>3, CurrentVersionGrows, StatusesUsed
     DEF Alone, Workers, CancelStatuses, TERMINAL_TASK_STATUSES
<1>5. e \in Row /\ e.isTerminal = b /\ e.status = e.payload.status /\ e.status = status
  <2> HIDE DEF v, b
  <2>1. b \in BOOLEAN
    BY DEF b
  <2>2. QED BY <1>3, <1>4, <2>1, EditedRow, EditedColumns
<1> HIDE DEF v, e
<1>6. QED
  BY <1>2, <1>4, <1>5, StageFresh

\* A fresh request writes the row as it edited it.
LEMMA FreshCommit ==
    ASSUME Inv, NEW w \in Workers, NEW s, NEW r, Writes(w, s, r), Fresh(s),
           CommitCreate(w) \/ CommitChange(w)
    PROVE  /\ r.status = s.edited.status /\ r.isTerminal = s.edited.isTerminal
           /\ r.payload = s.edited.payload
<1>1. s = staged[w] /\ s \in Staged /\ s.task \in Tasks /\ rows'[s.task] = r /\ s.edited \in Row
      /\ rows \in [Tasks -> Row \union {NoRow}]
      /\ rows' = [rows EXCEPT ![s.task] = r]
      /\ r.payload = s.edited.payload
  <2>1. s.task \in Tasks /\ rows'[s.task] = r /\ s.edited \in Row
    BY WriteFacts
  <2>2. s = staged[w] /\ s \in Staged /\ rows' = [rows EXCEPT ![s.task] = r]
        /\ r.payload = s.edited.payload
    BY DEF Writes
  <2>3. rows \in [Tasks -> Row \union {NoRow}]
    BY DEF Inv, TypeOK
  <2>4. QED BY <2>1, <2>2, <2>3
<1>2. Sequenced(s).status = s.edited.status /\ Sequenced(s).isTerminal = s.edited.isTerminal
  BY <1>1, SequencedRow DEF Inv
<1>3. CASE s.type = "CREATE"
  <2>1. rows[s.task] = NoRow
    BY <1>3, WriteFacts
  <2>2. r = Sequenced(s)
    BY <1>1, <1>3, <2>1 DEF CommitCreate, CommitChange
  <2>3. QED BY <1>1, <1>2, <2>2
<1>4. CASE s.type # "CREATE"
  <2>1. r = Flush(rows[s.task], s.loaded, Sequenced(s))
    BY <1>1, <1>4 DEF CommitCreate, CommitChange
  <2> DEFINE after == Sequenced(s)
  <2>2. s.loaded = rows[s.task]
    BY DEF Fresh
  <2> HIDE DEF after
  <2>3. r = Flush(rows[s.task], rows[s.task], after)
    BY <2>1, <2>2 DEF after
  <2>4. r.status = after.status /\ r.isTerminal = after.isTerminal
    BY <2>3 DEF Flush
  <2>5. QED BY <1>1, <1>2, <2>4 DEF after
<1>5. QED BY <1>3, <1>4

\* A step of a server alone leaves its rows, or writes one that was fresh.
LEMMA AloneSteps ==
    ASSUME Alone, AloneInv, [Next]_vars
    PROVE  \/ /\ UNCHANGED rows
              /\ \A w \in Workers : staged'[w] # Idle => Fresh(staged'[w])
           \/ \E w \in Workers, s \in Staged, r \in Row :
                 /\ Writes(w, s, r)
                 /\ Fresh(s)
                 /\ r.status = s.edited.status /\ r.isTerminal = s.edited.isTerminal
<1> USE DEF AloneInv
<1>1. CASE UNCHANGED vars
  BY <1>1 DEF vars
<1>2. \A v, w \in Workers : v = w
  BY DEF Alone, Workers
<1>3. ASSUME NEW w \in Workers, Create(w) \/ Update(w) \/ Cancel(w) \/ Rollback(w)
      PROVE  UNCHANGED rows /\ (staged'[w] # Idle => Fresh(staged'[w]))
  <2>1. UNCHANGED rows
    BY <1>3, CreateStages, UpdateStages, CancelStages, RollbackStages DEF Stages
  <2>2. CASE Rollback(w)
    BY <2>1, <2>2 DEF Rollback, Finish, Inv, TypeOK
  <2>3. CASE Create(w) \/ Update(w) \/ Cancel(w)
    <3>1. staged[w] = Idle
      BY <2>3 DEF Create, Update, Cancel, ReadForCreate, ReadForUpdate, ReadForCancel
    <3>2. QED BY <2>1, <2>3, <3>1, CreateFresh, UpdateFresh, CancelFresh
  <2>4. QED BY <1>3, <2>2, <2>3
<1>4. ASSUME NEW w \in Workers, CommitCreate(w) \/ CommitChange(w)
      PROVE  \/ UNCHANGED rows /\ staged'[w] = Idle
             \/ \E s \in Staged, r \in Row :
                   /\ Writes(w, s, r)
                   /\ Fresh(s)
                   /\ r.status = s.edited.status /\ r.isTerminal = s.edited.isTerminal
  <2>1. staged'[w] = Idle
    BY <1>4 DEF CommitCreate, CommitChange, Finish, Inv, TypeOK
  <2>2. staged[w] # Idle
    BY <1>4 DEF CommitCreate, CommitChange
  <2>3. Fresh(staged[w]) /\ staged[w] \in Staged
    BY <2>2 DEF Inv, TypeOK
  <2>4. CASE Stages(w)
    BY <2>1, <2>4 DEF Stages
  <2>5. ASSUME NEW r \in Row, Writes(w, staged[w], r)
        PROVE  r.status = staged[w].edited.status /\ r.isTerminal = staged[w].edited.isTerminal
    BY <1>4, <2>3, <2>5, FreshCommit
  <2>6. QED BY <1>4, <2>3, <2>4, <2>5, CommitWrites
<1>5. QED BY <1>1, <1>2, <1>3, <1>4 DEF Next

\* With one request at a time, what is prepared is never out of date.
LEMMA StepKeepsAloneInv ==
    ASSUME Alone
    PROVE  AloneInv /\ [Next]_vars => AloneInv'
<1> SUFFICES ASSUME AloneInv, [Next]_vars PROVE AloneInv'
  OBVIOUS
<1>1. Inv /\ Inv'
  BY StepKeepsInv DEF AloneInv
<1>2. CASE UNCHANGED rows /\ \A w \in Workers : staged'[w] # Idle => Fresh(staged'[w])
  BY <1>1, <1>2 DEF AloneInv, ColumnsAgree, Fresh
<1>3. ASSUME NEW w \in Workers, NEW s \in Staged, NEW r \in Row, Writes(w, s, r), Fresh(s),
             r.status = s.edited.status, r.isTerminal = s.edited.isTerminal
      PROVE  AloneInv'
  <2>1. staged'[w] = Idle /\ \A v \in Workers : v = w
    BY <1>3 DEF Alone, Workers, Writes, AloneInv, Inv, TypeOK
  <2>2. r.payload = s.edited.payload /\ \A t \in Tasks : rows'[t] = IF t = s.task THEN r ELSE rows[t]
    BY <1>1, <1>3, WriteFacts
  <2>3. r.status = r.payload.status /\ (r.isTerminal <=> r.status \in TERMINAL_TASK_STATUSES)
    BY <1>3, <2>2 DEF Fresh
  <2>4. ColumnsAgree'
    BY <2>2, <2>3 DEF AloneInv, ColumnsAgree
  <2>5. QED BY <1>1, <2>1, <2>4 DEF AloneInv
<1>4. QED BY <1>2, <1>3, AloneSteps

\* So it is in every reachable state.
LEMMA AloneInvariance ==
    ASSUME Alone
    PROVE  Spec => []AloneInv
<1>1. Init => AloneInv
  BY InitInv DEF Init, AloneInv, ColumnsAgree
<1>2. AloneInv /\ [Next]_vars => AloneInv'
  BY StepKeepsAloneInv
<1>3. QED BY <1>1, <1>2, PTL DEF Spec

\* What query() filters on is what a task's payload shows, and a task is open exactly
\* when that status is not a terminal one.
THEOREM ColumnsAgreeAlone ==
    ASSUME Alone
    PROVE  Spec => []ColumnsAgree
<1>1. AloneInv => ColumnsAgree
  BY DEF AloneInv
<1>2. QED BY <1>1, AloneInvariance, PTL

\* The tasks of a server alone run through the abstract lifecycle: nothing changes a
\* closed task and every change raises its version.
THEOREM LifecycleAlone ==
    ASSUME Alone
    PROVE  Spec => LifecycleImplemented
<1> DEFINE ph == [t \in Tasks |-> Phase(t)]
           vn == [t \in Tasks |-> IF rows[t] = NoRow THEN 0 ELSE rows[t].payload.version]
<1>1. Init => Lifecycle!Init
  BY DEF Init, Lifecycle!Init, Phase
<1>2. AloneInv /\ [Next]_vars => [Lifecycle!Next]_(Lifecycle!vars)
  <2> SUFFICES ASSUME AloneInv, [Next]_vars
               PROVE  [Lifecycle!Next]_(Lifecycle!vars)
    OBVIOUS
  <2>1. CASE UNCHANGED rows
    BY <2>1 DEF Phase, Lifecycle!vars
  <2>2. ASSUME NEW w \in Workers, NEW s \in Staged, NEW r \in Row, Writes(w, s, r), Fresh(s),
               r.isTerminal = s.edited.isTerminal
        PROVE  Lifecycle!Next
    <3> DEFINE t == s.task
               new == IF r.isTerminal THEN "closed" ELSE "open"
    <3>1. Inv
      BY DEF AloneInv
    <3>2. /\ t \in Tasks /\ r # NoRow /\ rows'[t] = r
          /\ \A u \in Tasks : u # t => rows'[u] = rows[u]
          /\ r.payload = s.edited.payload
      BY <2>2, <3>1, WriteFacts
    <3>3. ph' = [ph EXCEPT ![t] = new] /\ vn' = [vn EXCEPT ![t] = vn'[t]]
      BY <3>2 DEF Phase
    <3>4. CASE s.type = "CREATE"
      <4>1. ph[t] = "absent"
        BY <2>2, <3>1, <3>2, <3>4, WriteFacts DEF Phase
      <4>2. Lifecycle!Create(t)
        BY <3>3, <4>1 DEF Lifecycle!Create
      <4>3. QED BY <3>2, <4>2 DEF Lifecycle!Next
    <3>5. CASE s.type # "CREATE"
      <4>1. /\ rows[t] # NoRow /\ ~rows[t].isTerminal
            /\ s.edited.payload.version > rows[t].payload.version
        BY <2>2, <3>1, <3>5, WriteFacts DEF InFlight, Fresh
      <4>2. ph[t] = "open" /\ vn'[t] > vn[t]
        BY <3>2, <4>1 DEF Phase
      <4>3. CASE r.isTerminal
        <5>1. Lifecycle!Close(t)
          BY <3>3, <4>2, <4>3 DEF Lifecycle!Close, Lifecycle!Raise
        <5>2. QED BY <3>2, <5>1 DEF Lifecycle!Next
      <4>4. CASE ~r.isTerminal
        <5>1. ph' = ph
          BY <3>3, <4>2, <4>4
        <5>2. Lifecycle!Advance(t)
          BY <3>3, <4>2, <5>1 DEF Lifecycle!Advance, Lifecycle!Raise
        <5>3. QED BY <3>2, <5>2 DEF Lifecycle!Next
      <4>5. QED BY <4>3, <4>4
    <3>6. QED BY <3>4, <3>5
  <2>3. QED BY <2>1, <2>2, AloneSteps
<1>3. QED BY <1>1, <1>2, AloneInvariance, PTL DEF Spec, LifecycleImplemented, Lifecycle!Spec

=============================================================================
