----------------------------- MODULE ObjectStore -----------------------------
(***************************************************************************)
(* The object store: a row per object in the `objects` table, its bytes in *)
(* a file under the object root, and the `object` stream of `events`.      *)
(*                                                                         *)
(* upload_object is an async route: put() runs on the event loop, one at a *)
(* time.  The other routes run on the thread pool beside it.  No lock is   *)
(* held across a file and its row: put() writes the file and then commits  *)
(* the row with its event, a removal commits and then unlinks.  Every      *)
(* access to the disk or the database is a step, and the process may die   *)
(* between any two.  Requests are ones validate_object_path accepts.       *)
(***************************************************************************)
EXTENDS Integers, Sequences, FiniteSets

CONSTANTS
    Paths,      \* object paths
    Beneath,    \* per path, the paths whose files lie under it as a directory
    Contents,   \* bodies, each standing for its bytes and its checksum
    Loop,       \* the event loop, which runs the uploads
    Threads,    \* thread-pool threads, which run the other object routes
    MaxEvents,  \* bound on the number of events
    NoRow,      \* no row with this primary key
    NoFile,     \* no regular file at this path
    Torn,       \* a file truncated by write_bytes() and not yet written
    Idle        \* the worker has no request

Workers == Threads \union {Loop}

ASSUME ObjectAssumption ==
    /\ Beneath \in [Paths -> SUBSET Paths]
    /\ \A p \in Paths : p \notin Beneath[p]
    /\ Loop \notin Threads
    /\ MaxEvents \in Nat
    /\ NoFile \notin Contents /\ Torn \notin Contents /\ NoFile # Torn

\* past: the expiry, if there is one, is behind utc_now().
Row == [sum: Contents, past: BOOLEAN]

Event == [type: {"CREATE", "UPDATE", "DELETED"}, path: Paths]

\* A request between two steps: the checksum it will store or has read, whether a
\* put or a delete found a row, and the expired rows it has still to prune.
Request == [step: {"opened", "written", "loaded", "file", "read", "prune", "delete", "unlink",
                   "remove"},
            path: Paths, sum: Contents, found: BOOLEAN, todo: SUBSET Paths]

ASSUME ObjectSentinels == NoRow \notin Row /\ Idle \notin Request

VARIABLES
    rows,       \* the objects table
    files,      \* the regular files
    dirs,       \* the paths that are directories
    events,     \* the object events; their payload is the row as it then was
    worker,     \* the request of each worker
    answer,     \* the answer given last
    raced,      \* workers whose upload or download met another request (history)
    causes      \* per path, what may have parted file, row and log (history)

objectVars == <<rows, files, dirs, events, worker, answer, raced, causes>>

Init ==
    /\ rows = [p \in Paths |-> NoRow]
    /\ files = [p \in Paths |-> NoFile]
    /\ dirs = {}
    /\ events = <<>>
    /\ worker = [w \in Workers |-> Idle]
    /\ answer = "None"
    /\ raced = {}
    /\ causes = [p \in Paths |-> {}]

-----------------------------------------------------------------------------
(* What a request does at each of its steps.                               *)

Begin(w, step, p, c, found, todo) ==
    /\ worker[w] = Idle
    /\ worker' = [worker EXCEPT ![w] =
                    [step |-> step, path |-> p, sum |-> c, found |-> found, todo |-> todo]]
    /\ answer' = "None"

Goto(w, step) ==
    /\ worker' = [worker EXCEPT ![w].step = step]
    /\ answer' = "None"

Finish(w, outcome) ==
    /\ worker' = [worker EXCEPT ![w] = Idle]
    /\ answer' = outcome

At(w, step) == worker[w] # Idle /\ worker[w].step = step

\* add_event() in the transaction that is committed.
Log(type, p) ==
    /\ Len(events) < MaxEvents
    /\ events' = Append(events, [type |-> type, path |-> p])

Above(p) == {q \in Paths : p \in Beneath[q]}

\* mkdir(parents=True) and the open of write_bytes(), which truncates.  A file
\* where a directory is wanted, or the reverse, is an error.
PutOpen(p, c) ==
    /\ IF (\E q \in Above(p) : files[q] # NoFile) \/ p \in dirs
       THEN /\ worker[Loop] = Idle
            /\ answer' = "Error"
            /\ UNCHANGED <<files, dirs, worker>>
       ELSE /\ Begin(Loop, "opened", p, c, FALSE, {})
            /\ dirs' = dirs \union Above(p)
            /\ files' = [files EXCEPT ![p] = Torn]
    /\ UNCHANGED <<rows, events>>

\* Mutant: the bytes stay in the buffer.
PutUnflushed ==
    /\ At(Loop, "opened")
    /\ Goto(Loop, "written")
    /\ UNCHANGED <<rows, files, dirs, events>>

\* The bytes go to the opened file, which may have been unlinked meanwhile.
PutWrite ==
    /\ At(Loop, "opened")
    /\ LET p == worker[Loop].path
       IN  files' = [files EXCEPT ![p] = IF @ = NoFile THEN NoFile ELSE worker[Loop].sum]
    /\ Goto(Loop, "written")
    /\ UNCHANGED <<rows, dirs, events>>

PutLoad ==
    /\ At(Loop, "written")
    /\ worker' = [worker EXCEPT ![Loop].step = "loaded",
                                ![Loop].found = rows[worker[Loop].path] # NoRow]
    /\ answer' = "None"
    /\ UNCHANGED <<rows, files, dirs, events>>

\* The row is inserted or updated with its event.  An UPDATE that matches no row
\* any more raises StaleDataError, and the transaction is rolled back.
PutCommit ==
    /\ At(Loop, "loaded")
    /\ LET p == worker[Loop].path
           found == worker[Loop].found
       IN  IF found /\ rows[p] = NoRow
           THEN /\ Finish(Loop, "Error")
                /\ UNCHANGED <<rows, events>>
           ELSE /\ rows' = [rows EXCEPT ![p] = [sum |-> worker[Loop].sum, past |-> FALSE]]
                /\ Log(IF found THEN "UPDATE" ELSE "CREATE", p)
                /\ Finish(Loop, "Stored")
    /\ UNCHANGED <<files, dirs>>

\* The database refuses the transaction.
PutRefused ==
    /\ At(Loop, "loaded")
    /\ Finish(Loop, "Error")
    /\ UNCHANGED <<rows, files, dirs, events>>

Past(row) == row # NoRow /\ row.past

\* get() reads the row.  A request that finds none, and metadata() of a live one,
\* are answered at once and change nothing.
GetLoad(w, p) ==
    /\ rows[p] # NoRow /\ ~Past(rows[p])
    /\ Begin(w, "file", p, rows[p].sum, FALSE, {})
    /\ UNCHANGED <<rows, files, dirs, events>>

\* get() and metadata() read a row that has expired, or list() several, which
\* it prunes one by one.
ExpiredLoad(w, past) ==
    /\ past # {} /\ \A p \in past : Past(rows[p])
    /\ LET p == CHOOSE p \in past : TRUE
       IN  Begin(w, "prune", p, rows[p].sum, FALSE, past)
    /\ UNCHANGED <<rows, files, dirs, events>>

\* get() asks whether the file of the row it read is there, and reads it.
GetFile(w) ==
    /\ At(w, "file")
    /\ LET p == worker[w].path
       IN  IF files[p] = NoFile /\ p \notin dirs THEN Finish(w, "NotFound") ELSE Goto(w, "read")
    /\ UNCHANGED <<rows, files, dirs, events>>

GetRead(w) ==
    /\ At(w, "read")
    /\ Finish(w, CASE files[worker[w].path] = NoFile -> "Error"    \* or a directory
                   [] files[worker[w].path] = worker[w].sum -> "Found"
                   [] OTHER -> "Mixed")
    /\ UNCHANGED <<rows, files, dirs, events>>

\* _prune_if_expired(): the row that expired is told deleted, and whatever row
\* the path has by now is deleted.
PruneCommit(w, p) ==
    /\ At(w, "prune")
    /\ p \in worker[w].todo
    /\ rows' = [rows EXCEPT ![p] = NoRow]
    /\ Log("DELETED", p)
    /\ worker' = [worker EXCEPT ![w].step = "unlink", ![w].path = p,
                                ![w].todo = @ \ {p}]
    /\ answer' = "None"
    /\ UNCHANGED <<files, dirs>>

\* Mutant: the row itself is kept in place of whether there is one.
DeleteKeepsRow(w, p) ==
    /\ \E c \in Contents : Begin(w, "delete", p, c, rows[p], {})
    /\ UNCHANGED <<rows, files, dirs, events>>

DeleteLoad(w, p) ==
    /\ \E c \in Contents : Begin(w, "delete", p, c, rows[p] # NoRow, {})
    /\ UNCHANGED <<rows, files, dirs, events>>

\* Mutant: the event is written whether there was a row or not.
DeleteAlwaysLogged(w) ==
    /\ At(w, "delete")
    /\ rows' = [rows EXCEPT ![worker[w].path] = NoRow]
    /\ Log("DELETED", worker[w].path)
    /\ Goto(w, "unlink")
    /\ UNCHANGED <<files, dirs>>

\* delete(): an event if a row was read, and the row goes.
DeleteCommit(w) ==
    /\ At(w, "delete")
    /\ LET p == worker[w].path
       IN  /\ rows' = [rows EXCEPT ![p] = NoRow]
           /\ IF worker[w].found THEN Log("DELETED", p) ELSE UNCHANGED events
    /\ worker' = [worker EXCEPT ![w].step = "unlink", ![w].found = FALSE]
    /\ answer' = "None"
    /\ UNCHANGED <<files, dirs>>

\* Mutant: the file is left where it is.
NothingRemoved(p) == {}

\* What unlink() or rmtree() takes away.
Removed(p) == IF p \in dirs THEN Beneath[p] ELSE {p}

\* The next of the expired rows, or the end of the request.
Onward(w) == IF worker[w].todo # {} THEN Goto(w, "prune") ELSE Finish(w, "Removed")

Gone(p) == files[p] = NoFile /\ p \notin dirs

\* exists(); what is not there need not be removed.
Unlink(w) ==
    /\ At(w, "unlink")
    /\ IF Gone(worker[w].path) THEN Onward(w) ELSE Goto(w, "remove")
    /\ UNCHANGED <<rows, files, dirs, events>>

\* The file, or the directory with all beneath it, is removed; if another request
\* has removed it, that is an error.
Remove(w) ==
    /\ At(w, "remove")
    /\ LET p == worker[w].path
       IN  /\ files' = [q \in Paths |-> IF q \in Removed(p) THEN NoFile ELSE files[q]]
           /\ dirs' = dirs \ ({p} \union Beneath[p])
           /\ IF Gone(p) THEN Finish(w, "Error") ELSE Onward(w)
    /\ UNCHANGED <<rows, events>>

-----------------------------------------------------------------------------
\* The expiry of a row that has one passes.
Lapse(p) ==
    /\ rows[p] # NoRow /\ ~rows[p].past
    /\ rows' = [rows EXCEPT ![p].past = TRUE]
    /\ UNCHANGED <<files, dirs, events, worker, answer>>

\* The process dies and is started again: disk and database stay as they are.
Crash ==
    /\ \E w \in Workers : worker[w] # Idle
    /\ worker' = [w \in Workers |-> Idle]
    /\ answer' = "None"
    /\ UNCHANGED <<rows, files, dirs, events>>

-----------------------------------------------------------------------------
(* History: which requests met, and what may have parted file, row and log. *)

Putting(p) == worker[Loop] # Idle /\ worker[Loop].path = p

Removing(w) == worker[w] # Idle /\ worker[w].step \in {"prune", "delete", "unlink", "remove"}

Takes(w, p) ==
    /\ Removing(w)
    /\ \E q \in {worker[w].path} \union worker[w].todo : p = q \/ p \in Beneath[q]

Taken(p) == \E w \in Threads : Takes(w, p)

Meets(w) ==
    /\ worker[w] # Idle /\ ~Removing(w)
    /\ Taken(worker[w].path) \/ (w # Loop /\ Putting(worker[w].path))

\* A put that met nothing leaves its path whole, whatever went before.
CleanPut(p) == Putting(p) /\ Loop \notin raced /\ answer' = "Stored"

AtEnd(w) == At(w, "unlink") \/ At(w, "remove")

NewCauses(p) ==
    (IF Putting(p)' /\ Taken(p)' THEN {"overlap"} ELSE {}) \union
    (IF \E v, w \in Threads : v # w /\ Takes(v, p)' /\ Takes(w, p)' THEN {"removals"} ELSE {}) \union
    (IF \/ Putting(p) /\ ~Putting(p)' /\ answer' # "Stored"
        \/ \E w \in Threads : AtEnd(w) /\ worker'[w] = Idle /\ answer' # "Removed" /\ Takes(w, p)
        \/ /\ files[p] # NoFile /\ files'[p] = NoFile
           /\ \E w \in Threads : At(w, "remove") /\ p \in Beneath[worker[w].path]
     THEN {"spoilt"} ELSE {})

Watch ==
    /\ raced' = {w \in Workers : \/ w \in raced /\ worker[w] # Idle /\ worker'[w] # Idle
                                 \/ Meets(w)'}
    /\ causes' = [p \in Paths |->
            (IF CleanPut(p) THEN causes[p] \intersect {"removals"} ELSE causes[p]) \union NewCauses(p)]

Step ==
    \/ \E p \in Paths, c \in Contents : PutOpen(p, c)
    \/ PutWrite
    \/ PutLoad
    \/ PutCommit
    \/ PutRefused
    \/ \E w \in Threads :
          \/ \E p \in Paths : GetLoad(w, p)
          \/ \E past \in SUBSET Paths : ExpiredLoad(w, past)
          \/ GetFile(w)
          \/ GetRead(w)
          \/ \E p \in Paths : PruneCommit(w, p)
          \/ \E p \in Paths : DeleteLoad(w, p)
          \/ DeleteCommit(w)
          \/ Unlink(w)
          \/ Remove(w)
    \/ \E p \in Paths : Lapse(p)
    \/ Crash

Next == Step /\ Watch

Spec == Init /\ [][Next]_objectVars

-----------------------------------------------------------------------------
\* Every variable has its type.
ObjectTypeOK ==
    /\ rows \in [Paths -> Row \union {NoRow}]
    /\ files \in [Paths -> Contents \union {NoFile, Torn}]
    /\ dirs \subseteq Paths
    /\ events \in Seq(Event)
    /\ worker \in [Workers -> Request \union {Idle}]
    /\ answer \in {"None", "Stored", "Error", "Found", "Mixed", "NotFound", "Removed"}
    /\ raced \subseteq Workers
    /\ causes \in [Paths -> SUBSET {"overlap", "removals", "spoilt"}]

Intact(p) == causes[p] \subseteq {"removals"}

\* When no request works on an object its file holds the bytes its row has the
\* checksum of, and there is no file without a row.  Four things spoil it, and
\* the next upload that meets none of them repairs it: an upload that met a
\* removal, an upload cut short, a removal cut short, and the removal of a
\* directory the file lies in.
FileMatchesRow == \A p \in Paths :
    (Intact(p) /\ ~Putting(p) /\ ~Taken(p)) =>
        files[p] = IF rows[p] = NoRow THEN NoFile ELSE rows[p].sum

EventsOf(p) == {i \in DOMAIN events : events[i].path = p}

\* The last event of a path tells whether the object exists, across crashes and
\* failures: only a delete that found no row and then deleted the row of an upload
\* it met takes an object away untold.  And an object is told deleted once per
\* life, unless two removals of it met.
LogTellsLives == \A p \in Paths :
    /\ "overlap" \notin causes[p] =>
         (rows[p] # NoRow <=> \E i \in EventsOf(p) : /\ \A j \in EventsOf(p) : j <= i
                                                    /\ events[i].type # "DELETED")
    /\ "removals" \notin causes[p] =>
         \A i, j \in EventsOf(p) :
            (i < j /\ events[i].type = "DELETED" /\ events[j].type = "DELETED") =>
                \E k \in EventsOf(p) : i < k /\ k < j /\ events[k].type = "CREATE"

\* A download that met no other request on its path, of an object nothing has
\* spoiled, is given the bytes of the row it read.
AnswerIsWhole == [][\A w \in Threads :
    ((At(w, "file") \/ At(w, "read")) /\ worker'[w] = Idle /\ answer' # "None"
        /\ w \notin raced /\ Intact(worker[w].path)) =>
        answer' = "Found"]_objectVars
=============================================================================
