# Zorn: TLA+ verification project

Zorn is a local compatibility sandbox for the Lattice API: a REST server
(FastAPI) and a gRPC server over the same three stores (entities, tasks,
objects), and a certification harness that runs client programs against them.
This directory holds TLA+ models of it, the TLC runs that check them and TLAPS
proofs about them. Paths below are relative to the repository; the package is
`src/zorn/`.

## Inventory

| Component | State it keeps | Operations | What is hard | What makes it correct |
|---|---|---|---|---|
| **Task store** `stores.py` (TaskStore), `db.py`, `events.py` | rows of `tasks`, the shared `events` table | `create`, `update_status`, `cancel`, `query`, `list_open` | REST routes on a thread pool and a gRPC process write one sqlite file; the row is read before the transaction begins; column-wise UPDATE; no version column | row and log agree; a task closes once and stays closed; versions rise; one creation; execute before cancel |
| **Agent delivery** `claim_agent_request`, `routes/tasks.py` | in-memory cursor per listening name | `agent/listen` | cursor moves before the answer is sent; a restart loses cursors, not the log; broadcasts | in order, each once per server life, all in the end |
| **Task and agent streams** `routes/tasks.py`, `grpc_api/task_manager.py` | per connection: snapshot sent, cursor | connect, set cursor, poll, disconnect | commits between snapshot and cursor; reconnects | a caught-up client agrees with the rows |
| **Manual control stream** `grpc_api/task_manager.py` | per connection cursor | poll until the task is over | its list of final statuses is not the store's | ends once the task is over |
| **Entity store** `stores.py` (EntityStore), `routes/entities.py`, `grpc_api/entity_manager.py` | rows of `entities`, `events` | `publish`, `get`, `list_live`, `poll`, expiry inside the reads, streams | expiry racing a refresh; stale-update check on an old read; duplicate DELETED events | a live row is one whose last event is not DELETED; newest source time wins |
| **Entity overrides** `override_field`, `remove_override` | override values and base values in the payload | set and remove, interleaved with publish | any path may be overridden, `isLive` and the source time too, and the columns do not follow; publish stores the bookkeeping its client sends | a standing override shows over a base the entity had without it |
| **Object store** `stores.py` (ObjectStore), `routes/objects.py` | rows of `objects`, files, the `object` stream | `put`, `get`, `metadata`, `delete`, `list`, expiry | file and row are two writes in either order; uploads run on the event loop beside pool threads; crash between any two; one object's path can be another's directory | bytes match the row's checksum; the log tells which objects exist; a download is whole |
| **OAuth dev tokens, auth** `oauth_dev.py`, `dependencies.py`, `auth_scopes.py`, `grpc_api/auth.py` | `_active_jti` per process | issue, check | rotation is per process and lost on restart; expiry in whole seconds; scopes are checked under the prefix `/api/v1` only | whoever is let in was entitled; the newest token serves its whole time; REST and gRPC agree |
| **Configuration, startup** `config.py`, `startup.py`, `runtime.py`, `app.py`, `main*.py`, `grpc_api/server.py`, `grpc_api/tls.py` | settings, loaded once per process | precedence of sources, strict validation, TLS files | settings edited under a running process | strict mode admits no weak setting |
| **Message bridge** `grpc_api/json_bridge.py`, `contract.py`, `proto_modules.py` | none | dict/protobuf conversion, contract audit | strict then lenient parsing | nothing private on the wire |
| **Replay** `replay/api_log.py` | position in the log | run operations in order, collect failures | partial failure | |
| **Certification harness** `cert/` | clones, temporary servers, background programs, the report of each fixture | clone, start and stop servers, run one of 23 fixtures, judge its surfaces, write its report | readiness deadlines, waits without one, early exits, exceptions between start and `finally`, files and databases that outlive a run | a report tells what its run saw; no process left behind a report; every run ends that no such wait holds |
| Also in the repository | `eval_dis/` (DIS adapter), `scripts/`, `proto/`, `docs/`, `cert/lattice/` | | | |

How they interact: every store writes its row and its events in one transaction
of the same `events` table, whose ids are handed out under sqlite's write lock.
Streams and the agent listener read that table from a cursor. The REST and the
gRPC server are two processes that share nothing but the sqlite file and the
object directory; cursors, tokens and connections are per process. Sync REST
routes run on a thread pool, async ones and all gRPC handlers on an event loop.

## Modules

`TaskStore` is the core. A request is two steps, the read of the row (in
autocommit: pysqlite begins a transaction at the first write) and the
transaction that writes row and events; a worker between them holds what it read
and what it will write in `staged`.

| TLA+ | Code |
|---|---|
| `rows`, `events` | tables `tasks` and `events` (`db.py`); an event's id is its position |
| `ReadForCreate`, `ReadForUpdate`, `ReadForCancel` | `create`, `update_status`, `cancel` up to the first flush, early returns and 404/409 outcomes included (`reply`) |
| `CommitCreate`, `CommitChange` | the flushes and the commit; `Flush` is the ORM's UPDATE of changed columns |
| `Rollback` | "database is locked", a failed insert, the end of the process |
| `NextVersion`, `VersionRejected` | statusVersion arithmetic and the version check |
| `RestWorkers`, `GrpcWorkers` | pool threads; gRPC event loops, one handler at a time (no await between read and commit) |

`TaskLifecycle` is the abstract specification: per task a phase (absent, open,
closed) and a version. `Lifecycle!Spec` is the whole promise; `PhaseSpec` the
part racing requests leave standing.

`AgentDelivery` extends TaskStore with `claim_agent_request`: `cursor` is
`_agent_delivery_sequences`, `handed` and `received` are histories of the
answers sent since the server started and of those that arrived. `Restart`
clears what the process kept in memory and rolls its requests back.

`TaskStreams` extends TaskStore with connections: `Connect` sends the snapshot,
`TakeCursor` sets the cursor, `Send` sends one polled row, `Disconnect` ends the
connection. `opened` and `start` are histories of the length of the log at the
snapshot and at the cursor.

`EntityStore` has the same two steps for entities. Its `staged` holds a batch, as
one sweep closes every entity that is due in one transaction.

| TLA+ | Code |
|---|---|
| `rows`, `events` | tables `entities` and `events`; only the entity stream's events, an id is a position |
| `Payload` | the JSON of a row: `isLive` and its other spelling `is_live`, the source update time (`time`), some other field, and by path the `overrides` map and the internal `overrideBaseValues` (`base`) |
| `ReadForPublish` | `publish` up to its flush: the two ValueErrors (`BadExpiry`), the stale-update check, the choice of CREATE, UPDATE or DELETED; the payload is stored as sent, with the override bookkeeping and the `is_live` a client sends along (`Sent`: a client may put back what GET answered it, or make up base values) |
| `ReadForOverride`, `ReadForRemoval` | `override_field`, `remove_override` with `_resolve_key` (`KeyOf`), `_capture_override_base` (`Captured`), `_restore_override_base`, for each of `Paths`; neither looks at the column `is_live` |
| `ReadForSweep` | `_expire_due_entities`, at the head of `get` (one entity), `list_live` and `poll` (all) |
| `CommitCreate`, `CommitChanges`, `Rollback` | flush, `add_event` and commit, or their failure |
| `Flush`, `Compared` | the UPDATE of columns whose value differs from the loaded one; the outer object only is copied before an edit, so an edited nested value (`Nested`: the source time, in `provenance`) differs from nothing |

The three paths are the kinds an override can be of: one the row has a column for
(`isLive`), one a later decision reads (the source time, which is nested as well), and
one that nothing reads. An override of `isLive` therefore leaves the entity in
`list_live` and in the sweep; a removal may bring back an `isLive` the entity had when
it was overridden; an override of the source time moves the time by which later
publications are stale. All three are what the code does, and the properties say so.

`EntityRegister` is the abstract specification: per entity the newest publication
by the source's own time, out of life once it is due; an operator may amend the time
(`Amend`) and nothing else. `RegisterImplemented` maps a row to what is known of its
entity.

`EntityStreams` extends EntityStore with connections. They are workers, for
`list_live` sweeps before it reads: `Connect` stages the sweep, `FinishSweep` or
`FailSweep` ends it, then `SendSnapshot`, `TakeCursor`, `Send` and `Disconnect` as
in TaskStreams. `known` is what the client was last told of each entity.

`ObjectStore` splits a request at every access to the disk or the database:

| TLA+ | Code |
|---|---|
| `rows`, `files`, `dirs`, `events` | table `objects`, the regular files and directories under the object root, the `object` events |
| `PutOpen`, `PutWrite`, `PutLoad`, `PutCommit`, `PutRefused` | `put`: `mkdir` and the truncating open, the write, the read of the row, the transaction or its failure |
| `GetLoad`, `GetFile`, `GetRead` | `get`: the row, `exists()`, `read_bytes()` |
| `ExpiredLoad`, `PruneCommit` | `get`, `metadata` and `list` meeting expired rows; `_prune_if_expired` |
| `DeleteLoad`, `DeleteCommit` | `delete`: the read, the transaction |
| `Unlink`, `Remove` | `exists()`, then `unlink()` or `rmtree()`, of a removal or a pruning |
| `Lapse`, `Crash` | the clock passes an expiry; the REST process dies and is started again |

`Loop` is the event loop (uploads are async, one at a time), `Threads` the pool.
`raced` and `causes` are histories: which request met another on its path, and what
may since have parted file, row and log of a path.

`AuthTokens` models the two servers as processes that load the settings when they
start. `Start` is `build_store_bundle` and `serve` with `validate_strict_startup`
and `bind_server`; `Edit` changes the settings on disk; `IssueToken` is
`POST /oauth/token` with `issue_token` and its rotation of `_active_jti` (`active`).
`RestAccepts` is `require_auth` (the scope is checked only where
`required_scope_for_rest_path` names one, `ScopeRequired`: under the prefix `/api/v1`,
and `api_prefix` is a setting), `GrpcAccepts` is `AuthInterceptor` with
`bearer_token_from_metadata` and `has_required_sandbox_metadata`; they are operators,
for a decision changes nothing, and the invariants ask them of every credential in
every reachable state. A signature is the key it was made with, a jti the place of
the token in `tokens`. The clock runs in ticks, `TicksPerSecond` to the whole second
that issuing and checking cut it down to.

The certification harness is three modules. A runner is a straight line of steps
with a fixed reaction to each failure, so it is written as data and executed by one
machine:

- `CertScripts` has the kinds of step (`Need`, `Command`, `Patient` (a command without
  a timeout: openssl, venv), `Spawn`, `Await`, `Watch`,
  `Check`, `Stop`, `Try`, `Drive`), the four ways to start servers (`common.py`) and
  the driver programs the SDK fixtures write, build and run: which surfaces each of
  their requests decides and which failing request loses the driver's notes. At its end, what
  all runners have in common (`IsScript`, `Tidy`, `Orderly`).
- `CertFixtures` has the 23 fixtures of `cert/lattice/fixtures.yaml`: the surfaces
  asked, the modes, the script of the runner, what its `finally` stops, and how its
  verdict differs from the usual one (`exempt`, `judged`, `strict`).
- `CertRun` executes a script: `run_fixture` clones and checks the mode;
  `run_command`, `start_process`, `stop_process`, `AwaitReady`, `CheckAnswer`,
  `WatchSurfaces` and the `Driver…` actions are its steps, each with its failures;
  `Settle` judges, `UnwindOne` runs the `finally`, `WriteReport` writes the report or,
  after an exception, does not. `job` is the runner's local state, `procs` the
  processes alive, `report` the report on disk with, as a history, what the programs
  really answered; `kept` what files of earlier runs can still show.

`TaskStoreProofs`, `AgentDeliveryProofs`, `TaskStreamsProofs`, `EntityStoreProofs`,
`EntityStreamsProofs`, `ObjectStoreProofs`, `AuthTokensProofs` and `CertRunProofs` hold
the theorems about the module in their name, each with what TLAPS needs to check them.

`MCTaskStore`, `MCAgentDelivery`, `MCTaskStreams`, `MCEntityStore`,
`MCEntityStreams`, `MCObjectStore`, `MCAuthTokens` and `MCCertRun` instantiate them
for TLC. Definitions under "Mutant" comments
are changed forms of the definition that follows; no specification uses them.

## Runs

| Run | Instance | Shows |
|---|---|---|
| `task_store_race` | one task, two REST threads, up to 5 events | in every interleaving row and log agree (`TerminalMatchesLog`, `RowIsLastEvent`), tasks are created once (`CreatedOnce`), cancels follow executes to the same subject (`ExecuteBeforeCancel`), phases are implemented (`PhasesImplemented`), and only a stale read can write to a closed task or lower a version (`OnlyStaleReadsHarm`) |
| `task_store_grpc` | two tasks, one gRPC server alone | the whole lifecycle is implemented (`LifecycleImplemented`), the columns agree (`ColumnsAgree`) |
| `event_after_terminal` | REST thread and gRPC server | violated: an UPDATE event after the terminal one |
| `agent_delivery` | one task, two agents and an unnamed listener, one restart, up to 4 events | each listener is handed its requests in order and once per server life (`HandedInOrder`), execute before cancel (`ExecuteHandedFirst`), repeats are bounded by restarts (`RepeatsNeedRestarts`), and in the end everyone has every request that addresses it (`EveryRequestHanded`) |
| `task_streams` | one task, REST thread and gRPC server, one connection that reconnects at will, up to 4 events | outside the gap a caught-up client agrees with the rows (`FollowerInStep`), an agent is told of a cancel (`AgentToldOfCancel`), no event after the cursor is skipped or overtaken (`EachEventTold`) |
| `entity_store_race` | one entity, two requests at once, overrides of `isLive` and of the source time, publishers that send bookkeeping along, up to 3 events | in every interleaving what GET answers was told on the stream (`StoredWasTold`), a creation is announced once and first (`AnnouncedOnce`), an override whose base this server captured shows, over a value the entity had without it (`OverrideStands`); a commit on a fresh read takes a source time back, or parts column and payload, only as an operator's edit of just that path, and announces DELETED of exactly the entities that leave life (`FreshCommits`) |
| `entity_store_alone` | two entities, one request at a time, overrides of every path, up to 3 events | the register is implemented (`RegisterImplemented`), DELETED is told once per life (`DeletedOncePerLife`), the last event tells what is stored, but for a nested value an operator edited (`LastEventIsStored`) |
| `entity_streams` | one entity that can expire, a publisher, one connection, up to 4 events | outside the gap a caught-up client knows every live entity as stored (`FollowerInStep`) |
| `entity_stream_gap` | one entity, a publisher, one connection | violated: a publication between snapshot and cursor is never sent |
| `object_store` | two objects, one possibly under the other, the event loop and two threads, crashes, up to 3 events | an object holds the bytes of its row unless one of four named meetings spoiled it, and the next clean upload repairs it (`FileMatchesRow`); the log tells which objects exist and tells a deletion once per life (`LogTellsLives`); a download that met nobody is whole (`AnswerIsWhole`) |
| `auth_tokens` | both servers, five configurations edited and loaded at will, two tokens, a clock of half seconds | whoever is let in was entitled by a credential meant for it (`AcceptedWasEntitled`); the newest token serves until its last second, and a REST server that has issued a token accepts no older one (`NewestTokenServes`); under the same settings the servers agree, but that gRPC takes superseded tokens and REST, under another prefix than `/api/v1`, tokens of any scope (`FrontsAgree`) |
| `cert_runs` | each of the 23 fixtures, run twice, with up to two failures of clones, tools, servers, programs or answers | a report tells what its run saw, but for what files of an earlier run can show (`ReportTellsRun`); a run with a report leaves no process (`ReportedRunsLeaveNothing`); every run ends that is not for ever in a wait without a deadline (`RunEnds`) |

**Bounds.** `MaxEvents` bounds a log and with it the number of commits. In the
task runs five events hold a creation (two), an update and a cancel (two), so a
late write can meet every phase; four, where streams or listeners multiply the
states, a creation and a cancel or two updates. In the entity runs three events
hold a creation and two changes, so that a late write can meet both the change it
missed and what stood before; four leave room for a new life after an expiry. Two
writers are enough for one to commit between the read and the write of the other;
a third only repeats that. Two tasks or entities are needed where one request
touches both (a sweep) or cursors pass the events of one on the way to those of
the other; one elsewhere: rows do not interact. `ClientStatuses` has an open and a
terminal status, `Versions` zero (read as missing) and a version ahead of the
row's. `Times` has two values, one older than the other; `Expiries` a time the
clock reaches within `MaxClock`, `Horizon` is the 30 days ahead of which an expiry
is refused. `entity_store_alone` overrides all three paths, `entity_store_race`
the two something else depends on. `Sent` has a publisher
that sends nothing along and, in `entity_store_race`, one that puts back what it was
answered and one that makes up a base. `MaxRestarts` is one: a second restart meets the states of the first.
In `object_store` two threads and the loop let two removals and an upload meet on
one path; three events hold a creation, its removal and an upload that races it; one
body is enough, as a file is right, torn or absent, and a new body over an old row is
seen as a crash with the torn one. Its states are counted up to the order of the
threads and without `answer`, of which only `AnswerIsWhole`, a property of single
steps, speaks. In `auth_tokens` two
tokens make one superseded, two ticks to the second show a token in the part of a
second that issuing cuts off, and the configurations are a strict one, the same with
another secret and under another prefix, the same left open, a lax one with a derived secret and tokens of no
positive length, and one of static tokens; four ticks let a token of two seconds
expire. In `cert_runs` two runs let the second
meet what the first left; two failures (`MaxFaults`) let one strike while the runner
reacts to another; two unsuccessful polls (`MaxProbes`) stand for any number before a
deadline; an answer is right, wrong in up to two surfaces (`MaxWrong`) or wrong in
all.

**Fairness.** `AgentDelivery!Fairness`: every listener that has a request
pending calls again, and the server answers; agents call `agent/listen` in a
loop. Restarts are finite in number, as `MaxRestarts` says.
`TaskStreams!Fairness`: the generator of a connection goes on to set its cursor
and to send what it polled; every await in it is a bounded sleep or a write to
the client, and a client that stops reading is a `Disconnect`. Requests have no
fairness: nothing must ever be created. The entity specifications state none:
nobody is obliged to read, so no expiry must ever be announced. `CertRun!Spec`:
weak fairness of `Work /\ ~Unlimited`, for the runner is one sequential process: a
fixture that was begun goes on, and nobody must begin another. `Unlimited` are the
waits without a deadline: openssl (`common.py`), venv, and the golden driver, whose
unary gRPC calls run under a bare `asyncio.run`. A server that accepts and never answers
may hold a run there for ever, so `RunEnds` is about the runs that are not held
(`[]<>~Unlimited`). Of all other steps the code has a deadline: every other
`run_command` has a timeout and every poll a limit. A run of the model begins when its
clone is there or has failed: `git clone` has no deadline either. A timeout of the HTTP
client bounds each silence and not the whole answer; a server that sends bytes for ever
is left out.

## Proofs

Every invariant a run checks is proved for all values of the constants, and so are the
action properties and the two refinements. TLC checked each inductive invariant on the
instance of a run before it was proved. The assumptions
are the named ASSUMEs of the models, which TLC evaluates: `ConstantsAssumption` (and
`RestartsAssumption`, `StreamsAssumption`, `ObjectAssumption`, `AuthAssumption`) give
the constants their types; `SentinelsAssumption` and `ObjectSentinels` say that
`NoRow`, `Idle` and the like are not values they stand beside; `LiteralsAssumption`
that the scopes the code names are strings, which TLC confirms and the provers do not
know; `FixturesAssumption` says what the runners of the harness have in common, which
TLC evaluates of all 23. Some theorems have a hypothesis of their own (below), which the run beside them
meets: it says for which deployment the property holds at all.

`TaskStoreProofs`, for any tasks, agents, threads, servers and bounds:

- `Invariance`: `Spec => []Inv`, `Inv == TypeOK /\ StagedOK /\ TerminalMatchesLog
  /\ RowIsLastEvent`. TerminalMatchesLog alone is not inductive: a commit keeps
  it only if the staged row is terminal exactly when its event will close the
  task, and if a staged change was read from an open row that still exists. That
  is `StagedOK`. The two halves also lean on each other: a task without a row has
  no events (RowIsLastEvent) when its creation commits. From it `TypeCorrect`,
  `TerminalMatchesLogAlways`, `RowIsLastEventAlways`.
- `PhasesImplementedAlways`: every step is a step of `TaskLifecycle`'s phases or
  leaves them alone.
- `OnlyStaleReadsHarmAlways`: by `StagedOK`, a request staged from the current row
  finds it open and raises its version.
- `LogInvariance`: `Spec => []LogInv`, which adds to Inv what the log says of the rows.
  `ToldOfRows`: every event is of a task with a row, and they agree on what no request
  changes, so an agent event has the assignee as its subject. `AskedFirst`: a task with
  a row has an execute, or a creation that says elsewhere. `ExecuteFirst` and
  `ClosedBeforeCancel` order the log. From it `CreatedOnceAlways` and
  `ExecuteBeforeCancelAlways`: a commit that asks to cancel finds by AskedFirst the
  execute, and by ToldOfRows its subject.
- `ColumnsAgreeAlone`, `LifecycleAlone`, under `Alone` (one gRPC worker, no REST
  worker): `AloneInv` says that what is staged was read from the row as it still is.
  With a second worker both fail, and `OnlyStaleReadsHarm` says how far.

Each step is first shown to be one of two kinds, `Stages` (rows and log stay) or
`Writes` (one row, one or two events), and the invariants are proved for the kinds.

`AgentDeliveryProofs`, for any number of restarts: `DeliveryInv` adds to LogInv that
cursors lie within the log (`CursorsInLog`), the order itself (`HandedInOrder`), and
`CountedByServers`: of each request a listener received, the servers that handed it
over number at most the restarts, and one more if the running server has done so.
That it has done so at most once is HandedInOrder, which says that the history is
strictly rising, so the two are needed together for `RepeatsNeedRestartsAlways`.
`ExecuteHandedFirstAlways` follows from HandedInOrder and the order LogInv gives the
log. The next request past a cursor exists by well-foundedness of the numbers.

`TaskStreamsProofs`: `StreamInv` adds to LogInv that snapshot, cursor and log come in
that order (`CursorsInOrder`), and what a client knows: a task polled since the cursor
was set is known by the last event sent of it (`KnownIsLastSent`), any other by the
snapshot (`KnownIsSnapshot`). The log only grows, and only behind every cursor, so no
step of the store disturbs either. `FollowerInStepAlways` then combines the last event
sent with RowIsLastEvent; `AgentToldOfCancelAlways` with the order of the agent's
events (`LogInv`).

`EntityStoreProofs`, for any finite set of entities and any workers, times, expiries,
values, paths, sent bookkeeping, horizon and bounds:

- `Invariance`: `Spec => []Inv`, where Inv adds to `TypeOK`, `StoredWasTold`,
  `AnnouncedOnce` and `OverrideStands` three parts that make them inductive.
  `StagedOK`: a prepared batch creates one row, or changes rows that exist, each
  once, and announces no CREATE then. `NoneBeforeCreation`: the stream tells of no
  entity without a row, so a CREATE is its entity's first event. `StagedStands`: what an
  override, a removal or a sweep has prepared shows its overrides over bases the stream
  has told; it commits in whatever state, but the stream only grows (`StandsStays`).
- A base an override captures was told because `StoredWasTold` puts the payload it is
  captured from on the stream (`OverriddenStands`): the parts of Inv need one another.
  A base that came with a publication is one nobody can vouch for; its value is on the
  stream as sent (`SentBase`), and the theorem says nothing more of it. From Inv
  `TypeCorrect`, `StoredWasToldAlways`, `AnnouncedOnceAlways`, `OverrideStandsAlways`.
- `FreshCommitsAlways`: `EditedInv` adds what each cause of a write makes of the
  row it read (`EditOK`): a publish keeps the source time rising and column and payload
  together, an override or removal leaves the column, and of the payload all but its own
  path, a sweep closes a live row.
- `DeletedOncePerLifeAlone`, `LastEventIsStoredAlone`, `RegisterAlone` (with
  `EnforceSourceTime`), under `Alone` (one worker): by `AloneInv` a batch was read from
  the rows as they are, and by `LivesByPublication` an entity whose column says it lives
  was published alive since its last DELETED, whatever its payload was overridden with.
  `KnownOf` maps a row to what the register knows; `CommitIsRegisterStep` has the cases
  of a commit.

A step is one of three kinds (`StepKinds`): it `Stages` a batch, `Drops` it, or
`Writes` it.

`EntityStreamsProofs`: as for tasks, a connection knows of each entity what was last
polled, or what the snapshot told, and between the two steps of its opening only its
own sweep may be staged (`SweepsOpening`). `OwnSequence`, that a row is numbered by an
event of its own entity, joins the last event sent to the row
(`FollowerInStepAlways`).

`ObjectStoreProofs`, for any paths nested in any way, any threads, bodies and bounds:
`ObjectInv` says of every moment between two accesses what a request leaves behind it.

- `DirsHoldNoFile`, `StepsInPlace`: who can be at which step, and what lies where.
- `MeetingsKnown`: the histories `raced` and `causes` miss no meeting. Without it the
  exceptions of the properties would be of unknown extent.
- `PutInOrder`, `FilesKept`, `ReadsWhole`: the file of an upload that met nobody is torn,
  then its own; a path no upload is on and nothing has spoiled is whole or half removed;
  a file a download is about to read is as its row said. `FileMatchesRowAlways` and
  `AnswerIsWholeAlways` are these with the request gone.
- `GoneStaysGone`, `FoundLives`: what a request found missing is still missing, what it
  found is still there, unless another request met it. Each is a fact a request carries
  from a read to a later commit, and what `LogTellsLivesAlways` needs there.

`AuthTokensProofs`, for any set of configurations and scopes, any fineness of the
clock and any bounds:

- `Invariance`: `Spec => []Inv`, where Inv adds two parts to `AuthTypeOK`.
  `RunsAsAllowed`: a running process has settings it was allowed to start with,
  whatever the settings on disk have become. `ExpiryTold`: the expiry in a token is
  its issuing time and the length its client was told, cut to a whole second.
- `AcceptedWasEntitledAlways`, for either prefix: the check cuts the present time as well, and
  `LaterSecond` shows that a later whole second is a later time, so a token that passes
  is in its time; `RunsAsAllowed` gives a strict server its authentication mode and
  its sandbox header.
- `NewestTokenServesAlways`, `FrontsAgreeAlways`: `ActiveIsNewest`, the REST server's
  active token is the newest it issued since it started, or none, and the gRPC server
  never has one. The exceptions of `FrontsAgree` are what is left when two servers with
  equal settings differ in `active` and in `ScopeRequired`, and in nothing else.

`CertRunProofs`, for any fixtures that are `Tidy` and `Orderly` and any bounds on runs,
failures and polls. The two are conditions on the text of one script, without runs,
failures or time: `Tidy`, that where a script ends the run with a report (by a `fail`,
`blocked` or `missing` reaction, or at its end) what it started and did not stop is in
the list of that reaction or, behind its `try`, in the `finally`; `Orderly`, that no two
steps decide the same surface, that a `fail` and the driver come before any surface is
noted, and that what is noted without a request is decided by none. A new fixture is
covered when it meets them, which is a smaller thing to review than its runs. The
theorems say that they suffice, whatever fails when:

- `CertTypeCorrect`, with `RunnerOK`: the runner is at a step of its script, and inside
  its `try` exactly when one lies behind.
- `ReportedRunsLeaveNothingAlways`: by `ProgramsKnown`, each process of a run that no
  exception has left is known to its runner, by the script while it runs and by the list
  of what is to be stopped while it unwinds; `ReportedIsGone` keeps a reported run apart
  from the next.
- `ReportTellsRunAlways`: `NotesOK` is what a runner's lists say half-way. Its parts lean
  on what lies ahead: what later steps decide is neither passed nor failed yet, and of
  the first run no file can show it, so a recorded answer is new. `VerdictOK` carries
  the report from the verdict over the `finally` to the disk.
- `RunDescendsAlways`: the part of `RunEnds` that is no liveness; TLC checked `RunDescends`
  on the instance of `cert_runs` before it was proved. While it runs its
  script a step passes a step of the script, or a request of the driver, or uses up a
  poll before the deadline; while it unwinds it has one stop less to do. Each of these
  counts only grows up to a bound, in the lexicographic order of `Nearer`, so no run is
  infinite. That a run not at its end can always take a step (ENABLED), and then does
  (fairness), TLC checks.

Each step of a script is one of four kinds: it `Passes`, `Lingers`, `Raises`, or
`EndsRun`.

Only model-checked:

- Liveness under fairness (`EveryRequestHanded`, `EachEventTold`, `RunEnds`), which is
  out of the prover's reach. What safety can say of each is proved: nobody's request is
  passed over (`HandedInOrderAlways`), a client that has been sent all there is has missed
  nothing (`FollowerInStepAlways`, `AgentToldOfCancelAlways`), no run is infinite
  (`RunDescendsAlways`).
- What the violated runs show.

## Where the code and its documents part

- `event_after_terminal`: `update_status` and `cancel` do not repeat the terminal
  check in the transaction that writes (`stores.py`), so a closed task can get a
  later event and an open-looking payload. `cert/lattice/assertions.yaml` gives
  the order as "create, deliver, update, terminal".
- `entity_stream_gap`: the cursor is taken after the snapshot is sent.
  `assertions.yaml` says concurrent publishers drop no stream-visible updates.

Seen while modelling, and shown by no run of its own (the properties named bound each):

- `update_status` compares statusVersion on the row it read and not again when it writes,
  so two updates from one version can both be accepted, and told under one new version;
  `docs/design/grpc-proto-compliance-checklist.md:43` says that stale status updates are
  rejected. `publish` compares source times in the same way, so of two that race the
  older can be stored over the newer; `cert/lattice/assertions.yaml:107` says a stale
  source update time does not overwrite newer state. `OnlyStaleReadsHarm` and
  `FreshCommits` say that a read which is out of date at its commit is the only way to
  either.
- The active token is in the memory of the process that issued it. The gRPC server, which
  issues none, takes superseded tokens until they expire; so does a restarted REST server
  until it issues one. `docs/design/zorn-configuration.md:179-180` says that only the most
  recently issued strict token remains active. `NewestTokenServes` states what is left of
  that: a REST server that has issued a token accepts no older one.
- The delivery cursors are in memory and the requests in the database, so a restart of
  the REST server hands an agent its requests again (`RepeatsNeedRestarts` bounds it);
  `cert/lattice/assertions.yaml` says no task is delivered twice to the same listener.
- `publish`, `override_field` and `remove_override` write back a payload read before
  another request closed the entity and leave the column `is_live`, which they did not
  change, closed: the entity shows as live past its expiry and no sweep finds it.
  Besides such an old read, an override or removal of `isLive` parts payload and column;
  `FreshCommits` says that nothing else does. Neither ends a life nor begins one: the
  entity stays where the column has it, in `list_live` and in the sweep.
- A publish replaces the base values of overrides by those its client sends, most often
  none, and a removal uses its own up; the next removal deletes the field that was
  published. `docs/design/alpha1-gap-closure-plan.md` says it restores the base. A client
  that puts back a GET answer stores an `overrides` map without bases, and one that sends
  bases of its own has them restored later.
- An override of the source time changes which publications are stale. As the time is
  nested, the ORM may see no change: the event tells the edit and the row keeps the old
  value (`LastEventIsStored`).
- A delete that found no row still deletes the row of an upload it met, untold; the
  removal of an object whose path is a directory takes the files beneath it and leaves
  their rows (`causes` in ObjectStore).
- Under another `api_prefix` than `/api/v1` the REST server accepts a valid token for
  every area, and the gRPC server does not (`FrontsAgree`).
- A clone whose checkout failed counts as present in the next run
  (`harness.run_fixture`); a runner left by an exception writes no report, so the
  report of an earlier run stays; the background programs of ark-mavlink, ais-grpc,
  maven and the Java bridge (before its `try`) are stopped on no such path; alfred's
  result file and the database behind port 8080 can show an earlier run's answers; the
  C++ driver's source doubles its braces in a plain string and cannot compile
  (`docs/design/alpha1-closeout-checklist.md` lists that fixture as blocked).

## Plan

1. `TaskStore`, `TaskLifecycle`, `TaskStoreProofs` (done).
2. `AgentDelivery`, `TaskStreams` with their proofs (done).
3. `EntityStore`, `EntityRegister`, `EntityStreams` with their proofs (done).
4. `ObjectStore`, `ObjectStoreProofs` (done).
5. `AuthTokens`, `AuthTokensProofs` (done).
6. `CertScripts`, `CertFixtures`, `CertRun`, `CertRunProofs` (done).
7. Override paths of every kind a row depends on, and what publishers send along (done).
8. Left: override paths nested in one another or spelled two ways (`_resolve_key`,
   `_set_field_path`), and paths into `overrides` or `_zornInternal` themselves.

## Not modelled

Wording, formatting and the many spellings of payload fields (only the fields
properties tell apart are kept); stream filters and heartbeats; generated
protobuf modules, vendored schemas and examples; network and file I/O as such.

- The manual control stream: no code of the repository writes a frame, so there is
  nothing its cursor loop, which is that of `TaskStreams`, could miss.
- The message bridge and the contract audit (`grpc_api/json_bridge.py`,
  `contract.py`): conversions field by field, without state.
- Precedence of configuration sources: a fallback from environment to file to
  default, setting by setting.
- API log replay: one loop that collects failures; what it sends are operations of
  the stores.
- Of the harness, the inspection of a fixture, the validation of the contract files
  and the command line, all read-only; the payloads the fixtures send; the pipe a
  server's output fills while nobody reads it.

- Override paths nested in one another, one path under two spellings (but for `is_live`),
  paths into `overrides` or `_zornInternal`, and override values that are no flag or time
  at a path that should hold one.

`PROJECT.json` lists every component with its status, and every hazard. Some hazards
name no property, with the reason: where the runs reach the hazard but the documents
promise nothing of it, a property could only repeat the code. Others are covered by a
property that says the hazard is the only way to some harm (`FollowerInStep`,
`AgentToldOfCancel`, `FreshCommits`); their notes say so.
