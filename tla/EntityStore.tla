------------------------------ MODULE EntityStore ------------------------------
(***************************************************************************)
(* The entity store: rows of the `entities` table, the entity stream of    *)
(* the `events` table, and the requests that publish entities, override    *)
(* and restore fields of theirs, and sweep out the expired ones.           *)
(*                                                                         *)
(* As in TaskStore a request reads in autocommit, decides, and writes rows *)
(* and events in one transaction; the write sets the columns whose value   *)
(* differs from the one read.  Every reading call (get, list_live, poll)   *)
(* begins with a sweep, which is such a request too.                       *)
(***************************************************************************)
EXTENDS Integers, Sequences, SequencesExt

CONSTANTS
    Entities,       \* entity identifiers
    Workers,        \* REST threads, the REST event loop, gRPC event loops
    Times,          \* source update times publishers send
    Expiries,       \* expiry times publishers send
    Horizon,        \* how far ahead an expiry may be without noExpiry
    PublishedValues,    \* values publishers give some field of their own
    OverrideValues,     \* values operators override that field with
    Paths,          \* the paths operators override
    Sent,           \* what publishers send along: override bookkeeping, is_live
    EnforceSourceTime,  \* settings: enforce_source_update_time
    MaxClock,       \* bound on the clock
    MaxEvents,      \* bound on the length of the entity stream
    Absent,         \* a key the payload does not have
    NoBase,         \* no base value kept for a path
    NoRow,          \* no row with this primary key
    Idle            \* the worker has no request between read and write

Values == PublishedValues \union OverrideValues

ASSUME ConstantsAssumption ==
    /\ IsFiniteSet(Entities)
    /\ Times \subseteq Nat
    /\ Expiries \subseteq Nat
    /\ Horizon \in Nat
    /\ Paths \subseteq {"isLive", "time", "field"}
    /\ EnforceSourceTime \in BOOLEAN
    /\ MaxClock \in Nat
    /\ MaxEvents \in Nat
    /\ Absent \notin BOOLEAN \union Nat \union Values \union {"isLive", "time", "field"}
    /\ NoBase \notin BOOLEAN \union Nat \union Values \union {Absent}

\* The overrides map by path: isLive, provenance.sourceUpdateTime, and some field at
\* the top of the JSON.
Overrides == [isLive: BOOLEAN \union {Absent}, time: Times \union {Absent},
              field: Values \union {Absent}]

\* The internal overrideBaseValues; Absent stands for {"exists": false}.
Bases == [isLive: BOOLEAN \union {Absent, NoBase}, time: Times \union {Absent, NoBase},
          field: Values \union {Absent, NoBase}]

NoOverrides == [isLive |-> Absent, time |-> Absent, field |-> Absent]
NoBases == [isLive |-> NoBase, time |-> NoBase, field |-> NoBase]

\* What an entity's JSON carries that the properties tell apart.
Payload == [isLive: BOOLEAN \union {Absent}, is_live: BOOLEAN \union {Absent},
            time: Times \union {Absent}, field: Values \union {Absent},
            overrides: Overrides \union {Absent}, base: Bases]

ASSUME SentAssumption ==
    Sent \subseteq [overrides: Overrides \union {Absent}, base: Bases, is_live: BOOLEAN \union {Absent}]

Row == [payload: Payload, isLive: BOOLEAN, expiry: Expiries \union {Absent}, sequence: Nat]

Causes == {"publish", "expiry", "override", "removal"}

\* An events row; its position stands for its id.  Cause and path show in the keys
\* of the event's JSON (overrideFieldPath, removedOverrideFieldPath).
Event == [type: {"CREATE", "UPDATE", "DELETED"}, entity: Entities, cause: Causes,
          path: Paths \union {Absent}, payload: Payload]

\* One row of a transaction: as it was read, and as edited.
Write == [entity: Entities, type: {"CREATE", "UPDATE", "DELETED"}, cause: Causes,
          path: Paths \union {Absent}, loaded: Row \union {NoRow}, edited: Row]

Outcomes == {"None", "Invalid", "Stale", "NotFound", "Written", "DatabaseError"}

ASSUME SentinelsAssumption ==
    Absent \notin Overrides /\ NoRow \notin Row /\ Idle \notin Seq(Write)

VARIABLES
    rows,     \* the entities table
    events,   \* the entity stream
    staged,   \* the writes each worker has prepared and not committed
    clock,    \* utc_now()
    reply     \* the outcome of the request that finished last

vars == <<rows, events, staged, clock, reply>>

Init ==
    /\ rows = [e \in Entities |-> NoRow]
    /\ events = <<>>
    /\ staged = [w \in Workers |-> Idle]
    /\ clock = 0
    /\ reply = "None"

Tick ==
    /\ clock < MaxClock
    /\ clock' = clock + 1
    /\ UNCHANGED <<rows, events, staged, reply>>

-----------------------------------------------------------------------------
(* The reading half of a request.                                          *)

Answer(outcome) ==
    /\ reply' = outcome
    /\ UNCHANGED <<rows, events, staged, clock>>

\* The bound on the stream: each request under way has room for an event.
Stage(w, batch) ==
    /\ Len(events) + Cardinality({v \in Workers : staged[v] # Idle}) < MaxEvents
    /\ staged' = [staged EXCEPT ![w] = batch]
    /\ reply' = "None"
    /\ UNCHANGED <<rows, events, clock>>

WriteOf(e, type, cause, path, edited) ==
    [entity |-> e, type |-> type, cause |-> cause, path |-> path, loaded |-> rows[e], edited |-> edited]

\* _is_stale_update(): only when both carry a time is one older than the other.
\* Mutant: the times swapped.
StaleUpdateSwapped(time, existing) ==
    EnforceSourceTime /\ Absent \notin {time, existing} /\ existing <= time

StaleUpdate(time, existing) ==
    EnforceSourceTime /\ Absent \notin {time, existing} /\ time <= existing

\* publish(): the two ValueErrors.
BadExpiry(isLive, expiry, noExpiry) ==
    /\ expiry # Absent
    /\ \/ isLive /\ expiry <= clock
       \/ ~noExpiry /\ expiry > clock + Horizon

\* Mutant: DELETED whenever the entity is published dead.
PublishedTypeRepeated(e, isLive) ==
    IF ~isLive THEN "DELETED" ELSE IF rows[e] = NoRow THEN "CREATE" ELSE "UPDATE"

PublishedType(e, isLive) ==
    IF rows[e] = NoRow
    THEN IF isLive THEN "CREATE" ELSE "DELETED"
    ELSE IF rows[e].isLive /\ ~isLive THEN "DELETED" ELSE "UPDATE"

\* The payload is replaced whole, bookkeeping included: of an override that stands,
\* what remains is what the client sends along (GET answers show the overrides map).
ReadForPublish(w, e, isLive, time, expiry, noExpiry, value, sent) ==
    /\ staged[w] = Idle
    /\ \/ /\ BadExpiry(isLive, expiry, noExpiry)
          /\ Answer("Invalid")
       \/ /\ ~BadExpiry(isLive, expiry, noExpiry)
          /\ rows[e] # NoRow
          /\ StaleUpdate(time, rows[e].payload.time)
          /\ Answer("Stale")
       \/ /\ ~BadExpiry(isLive, expiry, noExpiry)
          /\ rows[e] # NoRow => ~StaleUpdate(time, rows[e].payload.time)
          /\ Stage(w, <<WriteOf(e, PublishedType(e, isLive), "publish", Absent,
                   [payload |-> [isLive |-> isLive, time |-> time, field |-> value,
                                 is_live |-> IF sent.is_live = Absent THEN isLive ELSE sent.is_live,
                                 overrides |-> sent.overrides, base |-> sent.base],
                    isLive |-> isLive, expiry |-> expiry, sequence |-> 0])>>)

\* _resolve_key(): a path is spelled as in the payload, so without isLive it is is_live.
KeyOf(p, path) ==
    IF path = "isLive" /\ p.isLive = Absent /\ p.is_live # Absent THEN "is_live" ELSE path

\* The payload with another value at the path.
Put(p, path, value) == [p EXCEPT ![KeyOf(p, path)] = value]

\* overrides[field_path] = value, in dict(payload.get("overrides") or {})
Mapped(p, path, value) ==
    [(IF p.overrides = Absent THEN NoOverrides ELSE p.overrides) EXCEPT ![path] = value]

\* _capture_override_base().  Mutant: the base is taken anew.
CapturedAnew(p, path) == [p.base EXCEPT ![path] = p[KeyOf(p, path)]]

Captured(p, path) == [p.base EXCEPT ![path] = IF @ = NoBase THEN p[KeyOf(p, path)] ELSE @]

\* override_field()
Overridden(p, path, value) ==
    [Put(p, path, value) EXCEPT !.overrides = Mapped(p, path, value), !.base = Captured(p, path)]

\* remove_override() and _restore_override_base(): without a base value, never
\* overridden or restored before, the key is deleted.
Restored(p, path) ==
    [Put(p, path, IF p.base[path] = NoBase THEN Absent ELSE p.base[path]) EXCEPT
        !.overrides = Mapped(p, path, Absent),
        !.base = [p.base EXCEPT ![path] = NoBase]]

\* Neither looks at the column is_live, which list_live() and the sweep select by.
ReadForOverride(w, e, path, value) ==
    /\ staged[w] = Idle
    /\ \/ /\ rows[e] = NoRow
          /\ Answer("NotFound")
       \/ /\ rows[e] # NoRow
          /\ Stage(w, <<WriteOf(e, "UPDATE", "override", path,
                   [rows[e] EXCEPT !.payload = Overridden(@, path, value)])>>)

ReadForRemoval(w, e, path) ==
    /\ staged[w] = Idle
    /\ \/ /\ rows[e] = NoRow
          /\ Answer("NotFound")
       \/ /\ rows[e] # NoRow
          /\ Stage(w, <<WriteOf(e, "UPDATE", "removal", path,
                   [rows[e] EXCEPT !.payload = Restored(@, path)])>>)

\* _expire_due_entities(): one entity (get) or all (list_live, poll).
Due(e) ==
    /\ rows[e] # NoRow
    /\ rows[e].isLive
    /\ rows[e].expiry # Absent
    /\ rows[e].expiry <= clock

\* Mutant: the column is left alone.
ExpiredPayloadOnly(row) == [row EXCEPT !.payload.isLive = FALSE, !.payload.is_live = FALSE]

Expired(row) ==
    [row EXCEPT !.payload.isLive = FALSE, !.payload.is_live = FALSE, !.isLive = FALSE]

ReadForSweep(w, scope) ==
    /\ staged[w] = Idle
    /\ \E order \in SetToSeqs({e \in scope : Due(e)}) :
         /\ order # <<>>                 \* else the session writes nothing
         /\ Stage(w, [n \in DOMAIN order |->
                        WriteOf(order[n], "DELETED", "expiry", Absent, Expired(rows[order[n]]))])

-----------------------------------------------------------------------------
(* The writing half: one transaction, all or nothing.                      *)

\* The source time lies in provenance, one object down, which publishers always send.
Nested == {"time"}

\* The payload an edited one is compared with.  override_field() and
\* remove_override() copy only the outer object, so their edit of a nested value
\* is made in the loaded payload too.
Compared(write) ==
    IF write.path \in Nested
    THEN [write.loaded.payload EXCEPT ![write.path] = write.edited.payload[write.path]]
    ELSE write.loaded.payload

\* The ORM's UPDATE sets the columns that were assigned a value other than the one
\* loaded.  Only publish() assigns the expiry; a time read back has lost its zone
\* and equals no time of a request.
Flush(current, write) ==
    [current EXCEPT
        !.payload = IF write.edited.payload = Compared(write) THEN @ ELSE write.edited.payload,
        !.isLive  = IF write.edited.isLive = write.loaded.isLive THEN @ ELSE write.edited.isLive,
        !.expiry  = IF \/ write.cause # "publish"
                       \/ write.loaded.expiry = Absent /\ write.edited.expiry = Absent
                    THEN @ ELSE write.edited.expiry]

\* Mutant: the event is built before the row is edited.
EventBeforeEdit(write) ==
    [type |-> write.type, entity |-> write.entity, cause |-> write.cause, path |-> write.path,
     payload |-> IF write.loaded = NoRow THEN write.edited.payload ELSE write.loaded.payload]

EventOf(write) == [type |-> write.type, entity |-> write.entity, cause |-> write.cause,
                   path |-> write.path, payload |-> write.edited.payload]

\* add_event() for each write, in order.
Logged(batch) == events \o [n \in DOMAIN batch |-> EventOf(batch[n])]

\* Mutants: the row keeps the number of the event before; add_event() without its
\* flush leaves the event no id.
SequencedBefore(row, n) == [row EXCEPT !.sequence = Len(events) + n - 1]
SequencedUnflushed(row, n) == [row EXCEPT !.sequence = Absent]

Sequenced(row, n) == [row EXCEPT !.sequence = Len(events) + n]

Finish(w, outcome) ==
    /\ staged' = [staged EXCEPT ![w] = Idle]
    /\ reply' = outcome
    /\ UNCHANGED clock

\* Mutant: the row is merged, not inserted.
CommitCreateMerging(w) ==
    /\ staged[w] # Idle
    /\ staged[w][1].loaded = NoRow
    /\ Len(events) < MaxEvents
    /\ rows' = [rows EXCEPT ![staged[w][1].entity] = Sequenced(staged[w][1].edited, 1)]
    /\ events' = Logged(staged[w])
    /\ Finish(w, "Written")

CommitCreate(w) ==
    /\ staged[w] # Idle
    /\ staged[w][1].loaded = NoRow
    /\ LET write == staged[w][1]
       IN  \/ /\ rows[write.entity] = NoRow
              /\ Len(events) < MaxEvents
              /\ rows' = [rows EXCEPT ![write.entity] = Sequenced(write.edited, 1)]
              /\ events' = Logged(staged[w])
              /\ Finish(w, "Written")
           \/ /\ rows[write.entity] # NoRow      \* the primary key
              /\ Finish(w, "DatabaseError")
              /\ UNCHANGED <<rows, events>>

CommitChanges(w) ==
    /\ staged[w] # Idle
    /\ staged[w][1].loaded # NoRow
    /\ Len(Logged(staged[w])) <= MaxEvents
    /\ rows' = [e \in Entities |->
                  IF \E n \in DOMAIN staged[w] : staged[w][n].entity = e
                  THEN LET n == CHOOSE n \in DOMAIN staged[w] : staged[w][n].entity = e
                       IN  Sequenced(Flush(rows[e], staged[w][n]), n)
                  ELSE rows[e]]
    /\ events' = Logged(staged[w])
    /\ Finish(w, "Written")

\* The write lock was not to be had, or the process died.
Rollback(w) ==
    /\ staged[w] # Idle
    /\ Finish(w, "DatabaseError")
    /\ UNCHANGED <<rows, events>>

-----------------------------------------------------------------------------
Publish(w) == \E e \in Entities, isLive, noExpiry \in BOOLEAN, time \in Times \union {Absent},
                 expiry \in Expiries \union {Absent}, value \in PublishedValues \union {Absent},
                 sent \in Sent :
                 ReadForPublish(w, e, isLive, time, expiry, noExpiry, value, sent)

\* Paths into overrides or _zornInternal are left out, and values that are no flag or time.
Overriding == [isLive |-> BOOLEAN, time |-> Times, field |-> OverrideValues]

Override(w) == \E e \in Entities, path \in Paths : \E value \in Overriding[path] :
                 ReadForOverride(w, e, path, value)

Removal(w) == \E e \in Entities, path \in Paths : ReadForRemoval(w, e, path)

Sweep(w) == \E scope \in {{e} : e \in Entities} \union {Entities} : ReadForSweep(w, scope)

Request(w) ==
    \/ Publish(w)
    \/ Override(w)
    \/ Removal(w)
    \/ Sweep(w)
    \/ CommitCreate(w)
    \/ CommitChanges(w)
    \/ Rollback(w)

Next == Tick \/ \E w \in Workers : Request(w)

Spec == Init /\ [][Next]_vars

-----------------------------------------------------------------------------
(* What the reading calls select after their sweep.                        *)

list_live == {e \in Entities : /\ rows[e] # NoRow
                               /\ rows[e].isLive
                               /\ rows[e].expiry = Absent \/ rows[e].expiry > clock}

-----------------------------------------------------------------------------
(* Properties that hold however many requests run at once.                 *)

\* Every variable has its type: rows, stream, prepared writes, clock, outcomes.
TypeOK ==
    /\ rows \in [Entities -> Row \union {NoRow}]
    /\ events \in Seq(Event)
    /\ staged \in [Workers -> Seq(Write) \union {Idle}]
    /\ clock \in Nat
    /\ reply \in Outcomes

\* Whatever GET answers was told on the stream: a stored payload is the payload
\* of an event of the entity, and the row is numbered by its last event.
StoredWasTold == \A e \in Entities : rows[e] # NoRow =>
    /\ rows[e].sequence \in DOMAIN events
    /\ \E i \in DOMAIN events : /\ i <= rows[e].sequence
                                /\ events[i].entity = e
                                /\ events[i].payload = rows[e].payload
    /\ \A i \in DOMAIN events : events[i].entity = e => i <= rows[e].sequence

\* Publications racing to create an entity announce it once, before everything
\* else about it.
AnnouncedOnce == \A i, j \in DOMAIN events :
    (events[j].type = "CREATE" /\ events[i].entity = events[j].entity /\ i # j)
        => i > j /\ events[i].type # "CREATE"

Agrees(row) == row.isLive = row.payload.isLive

\* The commits of a request that still holds the row as it is.
CommitsFresh(w, n) ==
    /\ staged[w] # Idle
    /\ n \in DOMAIN staged[w]
    /\ staged'[w] = Idle
    /\ events' # events
    /\ staged[w][n].loaded # NoRow
    /\ staged[w][n].loaded = rows[staged[w][n].entity]

\* A commit on a fresh read leaves column is_live and payload in agreement, unless
\* it is an operator's edit of isLive; it takes no source time back, unless it is one
\* of the time; and it announces DELETED of exactly the entities that leave life.
FreshCommits ==
    [][\A w \in Workers : \A n \in 1..MaxEvents : CommitsFresh(w, n) =>
         LET write  == staged[w][n]
             before == write.loaded
             after  == rows'[write.entity]
         IN  /\ write.path # "isLive" => (Agrees(before) => Agrees(after))
             /\ write.path = Absent => Agrees(after)
             /\ (/\ EnforceSourceTime /\ write.path # "time"
                 /\ Absent \notin {before.payload.time, after.payload.time})
                    => before.payload.time <= after.payload.time
             /\ write.type = "DELETED" <=> before.isLive /\ ~after.isLive]_vars

\* A base value that a publisher sent, and not one this server captured.
SentBase(log, e, path, base) == \E i \in DOMAIN log :
    /\ log[i].entity = e
    /\ log[i].cause = "publish"
    /\ log[i].payload.base[path] = base

\* A value the log told of the entity while no base was kept for the path.
ToldBase(log, e, path, base) == \E i \in DOMAIN log :
    /\ log[i].entity = e
    /\ log[i].payload.base[path] = NoBase
    /\ log[i].payload[KeyOf(log[i].payload, path)] = base

Shows(p, path) ==
    /\ p.overrides # Absent
    /\ \/ p[KeyOf(p, path)] = p.overrides[path]
       \/ path = "isLive" /\ p.isLive = FALSE

\* Every override with a base in a payload of e.
Stands(log, e, p) == \A path \in Paths : p.base[path] # NoBase =>
    \/ SentBase(log, e, path, p.base[path])
    \/ Shows(p, path) /\ ToldBase(log, e, path, p.base[path])

\* An override that stands shows at its path, until a sweep puts the entity out of
\* life, over a base the stream told as the value without an override: however often
\* it was overridden, and whatever publications and removals met it.
OverrideStands == \A e \in Entities :
    rows[e] # NoRow => Stands(events, e, rows[e].payload)

-----------------------------------------------------------------------------
(* Properties of one request at a time.                                    *)

Known(e) == IF rows[e] = NoRow THEN NoRow
            ELSE [live |-> rows[e].isLive, time |-> rows[e].payload.time,
                  expiry |-> rows[e].expiry, by |-> events[rows[e].sequence].cause]

Register == INSTANCE EntityRegister WITH known <- [e \in Entities |-> Known(e)], Unknown <- NoRow

\* The rows implement the register: never an older publication over a newer, and only
\* a publication or an expiry that is due moves an entity in or out of life; an
\* operator changes the source time at most.
RegisterImplemented == Register!Spec

\* The last event of an entity on the stream tells what is stored, but for a nested
\* value that an operator edited: the ORM may not see that it changed, and keep it.
LastEventIsStored == \A e \in Entities : rows[e] # NoRow =>
    LET last == events[rows[e].sequence]
    IN  \/ last.payload = rows[e].payload
        \/ /\ last.path \in Nested
           /\ last.payload = [rows[e].payload EXCEPT ![last.path] = last.payload[last.path]]

\* Between two DELETED events of an entity it was published alive; no operator's edit of
\* isLive, and no sweep after one, announces an end of its own.
DeletedOncePerLife == \A i, j \in DOMAIN events :
    (/\ events[i].type = "DELETED" /\ events[j].type = "DELETED"
     /\ events[i].entity = events[j].entity /\ i < j) =>
        \E k \in i..j : /\ events[k].entity = events[i].entity
                        /\ events[k].cause = "publish" /\ events[k].payload.isLive = TRUE

=============================================================================
