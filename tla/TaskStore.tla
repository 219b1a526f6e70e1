------------------------------ MODULE TaskStore ------------------------------
(***************************************************************************)
(* The task store: rows of the `tasks` table, the shared `events` table,   *)
(* and the requests that create, update and cancel tasks.                  *)
(*                                                                         *)
(* A request reads the row in autocommit (session.get, before pysqlite     *)
(* has begun a transaction), decides, and then writes the row and its      *)
(* events in one transaction.  The two halves are two steps here: a REST   *)
(* route runs on a thread pool and the gRPC server is another process, so  *)
(* other requests commit in between, and no version column guards the      *)
(* write.  The write is the ORM's: it sets only the columns whose value    *)
(* differs from the one that was read.                                     *)
(***************************************************************************)
EXTENDS Integers, Sequences

CONSTANTS
    Tasks,              \* task identifiers
    Agents,             \* assignees an agent listens as
    RestWorkers,        \* thread-pool threads running REST task routes
    GrpcWorkers,        \* event loops of gRPC processes; one handler at a time
    ClientStatuses,     \* status strings clients send
    Versions,           \* statusVersion values clients send
    EnforceGrpcVersion, \* settings.grpc_enforce_task_status_version
    MaxEvents,          \* bound on the length of the events table
    Absent,             \* no statusVersion in a request
    NoRow,              \* no row with this primary key
    Idle                \* the worker has no request between read and write

Workers == RestWorkers \union GrpcWorkers

TERMINAL_TASK_STATUSES ==
    {"SUCCEEDED", "FAILED", "CANCELED", "CANCELLED", "DONE_OK", "DONE_NOT_OK",
     "STATUS_DONE_OK", "STATUS_DONE_NOT_OK", "STATUS_CANCELED", "STATUS_CANCELLED"}

\* The status and statusVersion a request can give a task, by front end: the
\* gRPC create and cancel messages have no such field, a REST body may have.
CreateStatuses(w) == IF w \in GrpcWorkers THEN {"STATUS_SENT"}
                                          ELSE {"STATUS_CREATED"} \union ClientStatuses
CreateVersions(w) == IF w \in GrpcWorkers THEN {1} ELSE {1} \union Versions
UpdateStatuses    == {"STATUS_CREATED"} \union ClientStatuses
CancelStatuses(w) == IF w \in GrpcWorkers THEN {"STATUS_DONE_NOT_OK"}
                                          ELSE {"STATUS_CANCELED"} \union ClientStatuses

Statuses == ClientStatuses \union
    {"STATUS_SENT", "STATUS_CREATED", "STATUS_DONE_NOT_OK", "STATUS_CANCELED"}

Anyone     == "*"                        \* an absent assignee, as an event subject
Addressees == Agents \union {Anyone}

ASSUME ConstantsAssumption ==
    /\ RestWorkers \intersect GrpcWorkers = {}
    /\ ClientStatuses \subseteq STRING
    /\ Anyone \notin Agents
    /\ Versions \subseteq Nat
    /\ Absent \notin Nat
    /\ EnforceGrpcVersion \in BOOLEAN
    /\ MaxEvents \in Nat

\* What the JSON payload of a task carries that the properties tell apart.
Payload == [status: Statuses, version: Nat, elsewhere: BOOLEAN]

Row == [payload: Payload, status: Statuses, isTerminal: BOOLEAN,
        assignee: Addressees, sequence: Nat]

\* An events row; its id is its position, for ids are handed out under the
\* write lock and no event is ever deleted.
Event == [stream: {"task", "agent"},
          type: {"CREATE", "UPDATE", "CANCELED", "ExecuteRequest", "CancelRequest"},
          subject: Tasks \union Addressees, task: Tasks, payload: Payload]

\* A request between its read and its write: the row as read, and as edited.
Staged == [task: Tasks, type: {"CREATE"}, loaded: {NoRow}, edited: Row] \union
          [task: Tasks, type: {"UPDATE", "CANCELED"}, loaded: Row, edited: Row]

Outcomes == {"Created", "Updated", "Canceled", "NotFound", "AlreadyExists", "Terminal",
             "VersionConflict", "DatabaseError", "None"}

ASSUME SentinelsAssumption == NoRow \notin Row /\ Idle \notin Staged

VARIABLES
    rows,     \* the tasks table
    events,   \* the events table
    staged,   \* what each worker has read and not yet written
    reply     \* the outcome of the request that finished last

vars == <<rows, events, staged, reply>>

Init ==
    /\ rows = [t \in Tasks |-> NoRow]
    /\ events = <<>>
    /\ staged = [w \in Workers |-> Idle]
    /\ reply = "None"

-----------------------------------------------------------------------------
(* The reading half of a request.                                          *)

Answer(outcome) ==
    /\ reply' = outcome
    /\ UNCHANGED <<rows, events, staged>>

Stage(w, type, t, edited) ==
    /\ staged' = [staged EXCEPT ![w] =
                    [task |-> t, type |-> type, loaded |-> rows[t], edited |-> edited]]
    /\ reply' = "None"
    /\ UNCHANGED <<rows, events>>

\* int(version.get("statusVersion") or ... or 1): zero counts as missing.
CurrentVersion(payload) == IF payload.version = 0 THEN 1 ELSE payload.version

\* create(): the row is built before anything is written.
ReadForCreate(w, t, status, version, assignee, elsewhere) ==
    /\ staged[w] = Idle
    /\ \/ /\ rows[t] # NoRow
          /\ Answer("AlreadyExists")
       \/ /\ rows[t] = NoRow
          /\ Stage(w, "CREATE", t,
                   [payload |-> [status |-> status, version |-> version, elsewhere |-> elsewhere],
                    status |-> status,
                    isTerminal |-> status \in TERMINAL_TASK_STATUSES,
                    assignee |-> assignee,
                    sequence |-> 0])

\* Mutant: the status column is left behind.
EditedPayloadOnly(row, status, version, isTerminal) ==
    [row EXCEPT !.payload.status = status, !.payload.version = version,
                !.isTerminal = isTerminal]

\* The edits update_status() and cancel() make to a row they have read.
Edited(row, status, version, isTerminal) ==
    [row EXCEPT !.payload.status = status, !.payload.version = version,
                !.status = status, !.isTerminal = isTerminal]

EnforcesVersion(w) == w \in GrpcWorkers /\ EnforceGrpcVersion

\* update_status(): the version a request names must not be older than the row's.
VersionRejected(w, payload, expected) ==
    IF expected = Absent THEN EnforcesVersion(w)
                         ELSE expected < CurrentVersion(payload)

\* Mutants: None compared as a version; the client's version taken as it is.
NextVersionNoneUnchecked(payload, expected) ==
    LET successor == CurrentVersion(payload) + 1
    IN  IF expected = Absent \/ expected > successor THEN expected ELSE successor

NextVersionTrusting(payload, expected) ==
    IF expected # Absent THEN expected ELSE CurrentVersion(payload) + 1

NextVersion(payload, expected) ==
    LET successor == CurrentVersion(payload) + 1
    IN  IF expected # Absent /\ expected > successor THEN expected ELSE successor

ReadForUpdate(w, t, status, expected) ==
    /\ staged[w] = Idle
    /\ \/ /\ rows[t] = NoRow
          /\ Answer("NotFound")
       \/ /\ rows[t] # NoRow
          /\ rows[t].isTerminal
          /\ Answer("Terminal")
       \/ /\ rows[t] # NoRow
          /\ ~rows[t].isTerminal
          /\ VersionRejected(w, rows[t].payload, expected)
          /\ Answer("VersionConflict")
       \/ /\ rows[t] # NoRow
          /\ ~rows[t].isTerminal
          /\ ~VersionRejected(w, rows[t].payload, expected)
          /\ Stage(w, "UPDATE", t,
                   Edited(rows[t], status, NextVersion(rows[t].payload, expected),
                          status \in TERMINAL_TASK_STATUSES))

\* cancel(): terminal whatever status string the request carries.
ReadForCancel(w, t, status) ==
    /\ staged[w] = Idle
    /\ \/ /\ rows[t] = NoRow
          /\ Answer("NotFound")
       \/ /\ rows[t] # NoRow
          /\ rows[t].isTerminal
          /\ Answer("Terminal")
       \/ /\ rows[t] # NoRow
          /\ ~rows[t].isTerminal
          /\ Stage(w, "CANCELED", t,
                   Edited(rows[t], status, CurrentVersion(rows[t].payload) + 1, TRUE))

-----------------------------------------------------------------------------
(* The writing half: one transaction, all or nothing.                      *)

\* Mutant: an UPDATE that writes every column back.
FlushAllColumns(current, loaded, edited) == [edited EXCEPT !.assignee = current.assignee]

\* The ORM's UPDATE sets the columns that were edited, and no other.
Flush(current, loaded, edited) ==
    [payload    |-> IF edited.payload = loaded.payload
                    THEN current.payload ELSE edited.payload,
     status     |-> IF edited.status = loaded.status
                    THEN current.status ELSE edited.status,
     isTerminal |-> IF edited.isTerminal = loaded.isTerminal
                    THEN current.isTerminal ELSE edited.isTerminal,
     assignee   |-> current.assignee,
     sequence   |-> edited.sequence]

add_event(log, stream, type, subject, s) ==
    Append(log, [stream |-> stream, type |-> type, subject |-> subject,
                 task |-> s.task, payload |-> s.edited.payload])

\* The events a request writes, the task's own first.
TaskLog(s) == add_event(events, "task", s.type, s.task, s)

\* Mutant: every cancel request is broadcast.
FullLogBroadcastCancel(s) ==
    IF s.type = "CREATE" /\ ~s.edited.payload.elsewhere
    THEN add_event(TaskLog(s), "agent", "ExecuteRequest", s.edited.assignee, s)
    ELSE IF s.type = "CANCELED"
         THEN add_event(TaskLog(s), "agent", "CancelRequest", Anyone, s)
         ELSE TaskLog(s)

FullLog(s) ==
    IF s.type = "CREATE" /\ ~s.edited.payload.elsewhere
    THEN add_event(TaskLog(s), "agent", "ExecuteRequest", s.edited.assignee, s)
    ELSE IF s.type = "CANCELED"
         THEN add_event(TaskLog(s), "agent", "CancelRequest", s.loaded.assignee, s)
         ELSE TaskLog(s)

\* Mutant: the sequence is the last event's, the agent's if there is one.
SequencedAtEnd(s) == [s.edited EXCEPT !.sequence = Len(FullLog(s))]

Sequenced(s) == [s.edited EXCEPT !.sequence = Len(TaskLog(s))]

Finish(w, outcome) ==
    /\ staged' = [staged EXCEPT ![w] = Idle]
    /\ reply' = outcome

\* Mutant: the row is merged, not inserted.
CommitCreateMerging(w) ==
    /\ staged[w] # Idle
    /\ staged[w].type = "CREATE"
    /\ Len(FullLog(staged[w])) <= MaxEvents
    /\ rows' = [rows EXCEPT ![staged[w].task] = Sequenced(staged[w])]
    /\ events' = FullLog(staged[w])
    /\ Finish(w, "Created")

CommitCreate(w) ==
    /\ staged[w] # Idle
    /\ staged[w].type = "CREATE"
    /\ LET s == staged[w]
       IN  \/ /\ rows[s.task] = NoRow
              /\ Len(FullLog(s)) <= MaxEvents
              /\ rows' = [rows EXCEPT ![s.task] = Sequenced(s)]
              /\ events' = FullLog(s)
              /\ Finish(w, "Created")
           \/ /\ rows[s.task] # NoRow      \* the primary key
              /\ Finish(w, "DatabaseError")
              /\ UNCHANGED <<rows, events>>

CommitChange(w) ==
    /\ staged[w] # Idle
    /\ staged[w].type # "CREATE"
    /\ LET s == staged[w]
       IN  /\ Len(FullLog(s)) <= MaxEvents
           /\ rows' = [rows EXCEPT ![s.task] = Flush(@, s.loaded, Sequenced(s))]
           /\ events' = FullLog(s)
           /\ Finish(w, IF s.type = "UPDATE" THEN "Updated" ELSE "Canceled")

\* The write lock was not to be had ("database is locked"), or the process
\* died: the transaction leaves nothing behind.
Rollback(w) ==
    /\ staged[w] # Idle
    /\ Finish(w, "DatabaseError")
    /\ UNCHANGED <<rows, events>>

-----------------------------------------------------------------------------
Create(w) == \E t \in Tasks, status \in CreateStatuses(w), version \in CreateVersions(w),
                assignee \in Addressees, elsewhere \in BOOLEAN :
                ReadForCreate(w, t, status, version, assignee, elsewhere)

Update(w) == \E t \in Tasks, status \in UpdateStatuses, expected \in Versions \union {Absent} :
                ReadForUpdate(w, t, status, expected)

Cancel(w) == \E t \in Tasks, status \in CancelStatuses(w) : ReadForCancel(w, t, status)

Next == \E w \in Workers :
    \/ Create(w)
    \/ Update(w)
    \/ Cancel(w)
    \/ CommitCreate(w)
    \/ CommitChange(w)
    \/ Rollback(w)

Spec == Init /\ [][Next]_vars

-----------------------------------------------------------------------------
(* What the other parts of the program read.                               *)

Open(t) == rows[t] # NoRow /\ ~rows[t].isTerminal

\* list_open(assignee): open tasks of the assignee, and those of nobody.
list_open(assignee) == {t \in Tasks : Open(t) /\ rows[t].assignee \in {assignee, Anyone}}

\* query(): the filter is on the status column.
query(statuses) == {t \in Tasks : rows[t] # NoRow /\ rows[t].status \in statuses}

IsTaskEvent(i, t) == events[i].stream = "task" /\ events[i].task = t

\* An event that tells its reader the task is over.
ClosingEvent(i, t) ==
    /\ IsTaskEvent(i, t)
    /\ events[i].type = "CANCELED" \/ events[i].payload.status \in TERMINAL_TASK_STATUSES

Phase(t) == IF rows[t] = NoRow THEN "absent"
            ELSE IF rows[t].isTerminal THEN "closed" ELSE "open"

Lifecycle == INSTANCE TaskLifecycle WITH
    phase   <- [t \in Tasks |-> Phase(t)],
    version <- [t \in Tasks |-> IF rows[t] = NoRow THEN 0 ELSE rows[t].payload.version]

-----------------------------------------------------------------------------
(* Properties that hold however many requests run at once.                 *)

\* Every variable has its type: rows, log, staged requests and outcomes.
TypeOK ==
    /\ rows \in [Tasks -> Row \union {NoRow}]
    /\ events \in Seq(Event)
    /\ staged \in [Workers -> Staged \union {Idle}]
    /\ reply \in Outcomes

\* A task's row is terminal exactly when its event history says so: no race of
\* updates with a cancel reopens a task for list_open(), nor closes one whose
\* watchers were never told.
TerminalMatchesLog ==
    \A t \in Tasks : rows[t] # NoRow =>
        (rows[t].isTerminal <=> \E i \in DOMAIN events : ClosingEvent(i, t))

\* A watcher who has followed a task's events to the last one holds exactly the
\* stored payload, and row.sequence names that event.
RowIsLastEvent ==
    \A t \in Tasks :
        IF rows[t] = NoRow
        THEN \A i \in DOMAIN events : ~IsTaskEvent(i, t)
        ELSE /\ rows[t].sequence \in DOMAIN events
             /\ IsTaskEvent(rows[t].sequence, t)
             /\ events[rows[t].sequence].payload = rows[t].payload
             /\ \A i \in DOMAIN events : IsTaskEvent(i, t) => i <= rows[t].sequence

\* Requests racing to create one task create it once: one CREATE event, before
\* every other event about the task.
CreatedOnce ==
    \A i, j \in DOMAIN events :
        (events[j].type = "CREATE" /\ events[i].task = events[j].task /\ i # j)
            => i > j /\ events[i].type # "CREATE"

\* An agent asked to cancel a task was asked to execute it before, unless the
\* task was created as executed elsewhere, and both asked the same subject.
ExecuteBeforeCancel ==
    \A j \in DOMAIN events : events[j].type = "CancelRequest" =>
        \E i \in 1..j :
            /\ events[i].task = events[j].task
            /\ \/ events[i].type = "ExecuteRequest" /\ events[i].subject = events[j].subject
               \/ events[i].type = "CREATE" /\ events[i].payload.elsewhere

Commits(w, t) == staged[w] # Idle /\ staged[w].task = t /\ staged'[w] = Idle /\ events' # events

\* Only a request that read the row before its last change can write after the
\* task is over, or take its statusVersion back: one that read the current row
\* writes to an open task and raises the version.
OnlyStaleReadsHarm ==
    [][\A w \in Workers, t \in Tasks :
         (Commits(w, t) /\ rows[t] # NoRow /\ staged[w].loaded = rows[t]) =>
            /\ ~rows[t].isTerminal
            /\ rows'[t].payload.version > rows[t].payload.version]_vars

\* Whatever races, a task appears once and closes at most once, and a closed
\* task is never open again: the rows implement the abstract phases.
PhasesImplemented == Lifecycle!PhaseSpec

-----------------------------------------------------------------------------
(* Properties of one request at a time: a gRPC server running alone.       *)

\* The store implements the whole lifecycle: nothing changes a closed task, and
\* every change raises its statusVersion.
LifecycleImplemented == Lifecycle!Spec

\* What query() filters on, the status column, is what the task's payload shows,
\* and a task is open exactly when that status is not a terminal one.
ColumnsAgree ==
    \A t \in Tasks : rows[t] # NoRow =>
        /\ rows[t].status = rows[t].payload.status
        /\ rows[t].isTerminal <=> rows[t].status \in TERMINAL_TASK_STATUSES

-----------------------------------------------------------------------------
(* What documents and tests say, and racing requests break.                *)

\* The lifecycle order of a task ends with its terminal event.
NoEventAfterTerminal ==
    \A t \in Tasks, i, j \in DOMAIN events :
        ClosingEvent(i, t) /\ i < j => ~IsTaskEvent(j, t)

=============================================================================
