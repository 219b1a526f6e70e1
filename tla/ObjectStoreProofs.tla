-------------------------- MODULE ObjectStoreProofs --------------------------
(***************************************************************************)
(* Theorems about ObjectStore, for any objects, bodies, nesting of paths   *)
(* and number of threads.                                                  *)
(***************************************************************************)
EXTENDS ObjectStore, SequenceTheorems, TLAPS

\* The steps of the event loop.
PutStep ==
    \/ \E p \in Paths, c \in Contents : PutOpen(p, c)
    \/ PutWrite
    \/ PutLoad
    \/ PutCommit
    \/ PutRefused

\* The steps of a thread.
ThreadStep(w) ==
    \/ \E p \in Paths : GetLoad(w, p)
    \/ \E past \in SUBSET Paths : ExpiredLoad(w, past)
    \/ GetFile(w)
    \/ GetRead(w)
    \/ \E p \in Paths : PruneCommit(w, p)
    \/ \E p \in Paths : DeleteLoad(w, p)
    \/ DeleteCommit(w)
    \/ Unlink(w)
    \/ Remove(w)

\* Every step is one of the event loop's, of a thread's, the passing of an expiry, or a crash.
LEMMA StepKinds ==
    ASSUME Step
    PROVE  \/ PutStep
           \/ \E w \in Threads : ThreadStep(w)
           \/ \E p \in Paths : Lapse(p)
           \/ Crash
BY DEF Step, PutStep, ThreadStep

\* The event loop is none of the threads.
LEMMA LoopIsNoThread == Loop \in Workers /\ Loop \notin Threads /\ Threads \subseteq Workers
BY ObjectAssumption DEF Workers

\* A worker that is not idle has a request.
LEMMA RequestOf ==
    ASSUME ObjectTypeOK, NEW w \in Workers
    PROVE  /\ worker[w] # Idle <=> worker[w] \in Request
           /\ worker[w] # Idle => /\ worker[w].path \in Paths
                                  /\ worker[w].sum \in Contents
                                  /\ worker[w].found \in BOOLEAN
                                  /\ worker[w].todo \in SUBSET Paths
BY ObjectSentinels DEF ObjectTypeOK, Request

-----------------------------------------------------------------------------
(* Types.                                                                  *)

\* What a worker begins, goes on with or ends leaves every worker a request or idle.
LEMMA BeginType ==
    ASSUME ObjectTypeOK, NEW w \in Workers, NEW step, NEW p \in Paths, NEW c \in Contents,
           NEW found \in BOOLEAN, NEW todo, todo \subseteq Paths,
           step \in {"opened", "written", "loaded", "file", "read", "prune", "delete", "unlink",
                     "remove"},
           Begin(w, step, p, c, found, todo)
    PROVE  worker' \in [Workers -> Request \union {Idle}] /\ answer' = "None"
BY DEF ObjectTypeOK, Begin, Request

\* A request that has nothing to prune.
LEMMA BeginPlainType ==
    ASSUME ObjectTypeOK, NEW w \in Workers, NEW step, NEW p \in Paths, NEW c \in Contents,
           NEW found \in BOOLEAN,
           step \in {"opened", "file", "delete"},
           Begin(w, step, p, c, found, {})
    PROVE  worker' \in [Workers -> Request \union {Idle}] /\ answer' = "None"
BY DEF ObjectTypeOK, Begin, Request

\* A request that goes on to its next access keeps the shape of a request.
LEMMA GotoType ==
    ASSUME ObjectTypeOK, NEW w \in Workers, worker[w] # Idle, NEW step,
           step \in {"opened", "written", "loaded", "file", "read", "prune", "delete", "unlink",
                     "remove"},
           Goto(w, step)
    PROVE  worker' \in [Workers -> Request \union {Idle}] /\ answer' = "None"
<1>1. worker[w] \in Request
  BY RequestOf
<1>2. [worker[w] EXCEPT !.step = step] \in Request
  BY <1>1 DEF Request
<1>3. QED BY <1>2 DEF ObjectTypeOK, Goto

\* A request that ends leaves its worker idle.
LEMMA FinishType ==
    ASSUME ObjectTypeOK, NEW w \in Workers, NEW outcome, Finish(w, outcome)
    PROVE  worker' \in [Workers -> Request \union {Idle}] /\ answer' = outcome
BY DEF ObjectTypeOK, Finish

\* An event that is logged is an event.
LEMMA LogType ==
    ASSUME ObjectTypeOK, NEW p \in Paths, NEW type \in {"CREATE", "UPDATE", "DELETED"}, Log(type, p)
    PROVE  events' \in Seq(Event)
BY DEF ObjectTypeOK, Log, Event


\* What the requests and the disk are made of; Watch keeps the rest.
DataOK ==
    /\ rows \in [Paths -> Row \union {NoRow}]
    /\ files \in [Paths -> Contents \union {NoFile, Torn}]
    /\ dirs \subseteq Paths
    /\ events \in Seq(Event)
    /\ worker \in [Workers -> Request \union {Idle}]
    /\ answer \in {"None", "Stored", "Error", "Found", "Mixed", "NotFound", "Removed"}

\* Each step of a put keeps the types.
LEMMA PutType ==
    ASSUME ObjectTypeOK, PutStep
    PROVE  DataOK'
<1>0. Loop \in Workers
  BY LoopIsNoThread
<1>1. ASSUME NEW p \in Paths, NEW c \in Contents, PutOpen(p, c)
      PROVE  DataOK'
  <2>1. CASE Begin(Loop, "opened", p, c, FALSE, {})
    <3>1. worker' \in [Workers -> Request \union {Idle}] /\ answer' = "None"
      BY <1>0, <2>1, BeginPlainType
    <3>2. /\ files' \in [Paths -> Contents \union {NoFile, Torn}]
          /\ dirs' \subseteq Paths
          /\ UNCHANGED <<rows, events>>
      BY <1>1 DEF PutOpen, ObjectTypeOK, Above
    <3>3. QED BY <3>1, <3>2 DEF ObjectTypeOK, DataOK
  <2>2. CASE answer' = "Error" /\ UNCHANGED <<files, dirs, worker>>
    BY <1>1, <2>2 DEF PutOpen, ObjectTypeOK, DataOK
  <2>3. QED BY <1>1, <2>1, <2>2 DEF PutOpen
<1>2. CASE PutWrite
  <2>1. worker' \in [Workers -> Request \union {Idle}] /\ answer' = "None"
    BY <1>0, <1>2, GotoType DEF PutWrite, At
  <2>2. worker[Loop].sum \in Contents
    BY <1>0, <1>2, RequestOf DEF PutWrite, At
  <2>3. files' \in [Paths -> Contents \union {NoFile, Torn}]
    BY <1>2, <2>2 DEF PutWrite, ObjectTypeOK
  <2>4. QED BY <1>2, <2>1, <2>3 DEF PutWrite, ObjectTypeOK, DataOK
<1>3. CASE PutLoad
  <2>1. worker[Loop] \in Request
    BY <1>0, <1>3, RequestOf DEF PutLoad, At
  <2> DEFINE found == rows[worker[Loop].path] # NoRow
  <2>2. [worker[Loop] EXCEPT !.step = "loaded", !.found = found] \in Request
    BY <2>1 DEF Request
  <2>3. worker' = [worker EXCEPT ![Loop] = [worker[Loop] EXCEPT !.step = "loaded", !.found = found]]
    BY <1>0, <1>3 DEF PutLoad, ObjectTypeOK
  <2>4. worker' \in [Workers -> Request \union {Idle}]
    BY <1>0, <2>2, <2>3 DEF ObjectTypeOK
  <2>5. QED BY <1>3, <2>4 DEF PutLoad, ObjectTypeOK, DataOK
<1>4. CASE PutCommit
  <2> DEFINE p == worker[Loop].path
             c == worker[Loop].sum
  <2>1. p \in Paths /\ c \in Contents
    BY <1>0, <1>4, RequestOf DEF PutCommit, At
  <2>2. [sum |-> c, past |-> FALSE] \in Row
    BY <2>1 DEF Row
  <2>3. CASE Finish(Loop, "Error") /\ UNCHANGED <<rows, events>>
    BY <1>0, <1>4, <2>3, FinishType DEF PutCommit, ObjectTypeOK, DataOK
  <2>4. CASE /\ rows' = [rows EXCEPT ![p] = [sum |-> c, past |-> FALSE]]
             /\ Log("UPDATE", p) \/ Log("CREATE", p)
             /\ Finish(Loop, "Stored")
    <3>1. events' \in Seq(Event)
      BY <2>1, <2>4, LogType
    <3>2. worker' \in [Workers -> Request \union {Idle}] /\ answer' = "Stored"
      BY <1>0, <2>4, FinishType
    <3>3. rows' \in [Paths -> Row \union {NoRow}]
      BY <2>2, <2>4 DEF ObjectTypeOK
    <3>4. QED BY <1>4, <3>1, <3>2, <3>3 DEF PutCommit, ObjectTypeOK, DataOK
  <2>5. QED BY <1>4, <2>3, <2>4 DEF PutCommit
<1>5. CASE PutRefused
  BY <1>0, <1>5, FinishType DEF PutRefused, ObjectTypeOK, DataOK
<1>6. QED BY <1>1, <1>2, <1>3, <1>4, <1>5 DEF PutStep

\* The request of a thread that goes on or ends after a removal is one of its own.
LEMMA OnwardType ==
    ASSUME ObjectTypeOK, NEW w \in Workers, worker[w] # Idle, Onward(w)
    PROVE  worker' \in [Workers -> Request \union {Idle}] /\ answer' \in {"None", "Removed"}
<1>1. CASE Goto(w, "prune")
  BY <1>1, GotoType
<1>2. CASE Finish(w, "Removed")
  BY <1>2, FinishType
<1>3. QED BY <1>1, <1>2 DEF Onward

\* Each step of a thread keeps the types.
LEMMA ThreadType ==
    ASSUME ObjectTypeOK, NEW w \in Threads, ThreadStep(w)
    PROVE  DataOK'
<1>0. w \in Workers
  BY LoopIsNoThread
<1>1. ASSUME NEW p \in Paths, GetLoad(w, p)
      PROVE  DataOK'
  <2>1. rows[p].sum \in Contents
    BY <1>1 DEF GetLoad, ObjectTypeOK, Row
  <2>2. Begin(w, "file", p, rows[p].sum, FALSE, {})
    BY <1>1 DEF GetLoad
  <2>3. worker' \in [Workers -> Request \union {Idle}] /\ answer' = "None"
    BY <1>0, <2>1, <2>2, BeginPlainType
  <2>4. QED BY <1>1, <2>3 DEF GetLoad, ObjectTypeOK, DataOK
<1>2. ASSUME NEW past \in SUBSET Paths, ExpiredLoad(w, past)
      PROVE  DataOK'
  <2> DEFINE p == CHOOSE p \in past : TRUE
  <2>1. p \in Paths /\ Past(rows[p])
    BY <1>2 DEF ExpiredLoad
  <2>2. rows[p].sum \in Contents
    BY <2>1 DEF Past, ObjectTypeOK, Row
  <2>3. Begin(w, "prune", p, rows[p].sum, FALSE, past)
    BY <1>2 DEF ExpiredLoad
  <2> HIDE DEF p
  <2>4. worker' \in [Workers -> Request \union {Idle}] /\ answer' = "None"
    BY <1>0, <2>1, <2>2, <2>3, BeginType
  <2>5. QED BY <1>2, <2>4 DEF ExpiredLoad, ObjectTypeOK, DataOK
<1>3. CASE GetFile(w)
  <2>1. CASE Finish(w, "NotFound")
    BY <1>0, <1>3, <2>1, FinishType DEF GetFile, ObjectTypeOK, DataOK
  <2>2. CASE Goto(w, "read")
    BY <1>0, <1>3, <2>2, GotoType DEF GetFile, ObjectTypeOK, DataOK, At
  <2>3. QED BY <1>3, <2>1, <2>2 DEF GetFile
<1>4. CASE GetRead(w)
  <2>1. Finish(w, "Error") \/ Finish(w, "Found") \/ Finish(w, "Mixed")
    BY <1>4 DEF GetRead
  <2>2. QED BY <1>0, <1>4, <2>1, FinishType DEF GetRead, ObjectTypeOK, DataOK
<1>5. ASSUME NEW p \in Paths, PruneCommit(w, p)
      PROVE  DataOK'
  <2>1. worker[w] \in Request
    BY <1>0, <1>5, RequestOf DEF PruneCommit, At
  <2> DEFINE next == [worker[w] EXCEPT !.step = "unlink", !.path = p, !.todo = @ \ {p}]
  <2>2. next \in Request
    BY <2>1 DEF Request
  <2>3. worker' = [worker EXCEPT ![w] = next]
    BY <1>0, <1>5 DEF PruneCommit, ObjectTypeOK
  <2> HIDE DEF next
  <2>4. worker' \in [Workers -> Request \union {Idle}]
    BY <2>2, <2>3 DEF ObjectTypeOK
  <2>5. events' \in Seq(Event)
    BY <1>5, LogType DEF PruneCommit
  <2>6. QED BY <1>5, <2>4, <2>5 DEF PruneCommit, ObjectTypeOK, DataOK
<1>6. ASSUME NEW p \in Paths, DeleteLoad(w, p)
      PROVE  DataOK'
  <2>1. PICK c \in Contents : Begin(w, "delete", p, c, rows[p] # NoRow, {})
    BY <1>6 DEF DeleteLoad
  <2>2. worker' \in [Workers -> Request \union {Idle}] /\ answer' = "None"
    BY <1>0, <2>1, BeginPlainType
  <2>3. QED BY <1>6, <2>2 DEF DeleteLoad, ObjectTypeOK, DataOK
<1>7. CASE DeleteCommit(w)
  <2>1. worker[w] \in Request /\ worker[w].path \in Paths
    BY <1>0, <1>7, RequestOf DEF DeleteCommit, At
  <2> DEFINE next == [worker[w] EXCEPT !.step = "unlink", !.found = FALSE]
  <2>2. next \in Request
    BY <2>1 DEF Request
  <2>3. worker' = [worker EXCEPT ![w] = next]
    BY <1>0, <1>7 DEF DeleteCommit, ObjectTypeOK
  <2> HIDE DEF next
  <2>4. worker' \in [Workers -> Request \union {Idle}]
    BY <2>2, <2>3 DEF ObjectTypeOK
  <2>5. events' \in Seq(Event)
    BY <1>7, <2>1, LogType DEF DeleteCommit, ObjectTypeOK
  <2>6. QED BY <1>7, <2>4, <2>5 DEF DeleteCommit, ObjectTypeOK, DataOK
<1>8. CASE Unlink(w)
  <2>1. CASE Onward(w)
    BY <1>0, <1>8, <2>1, OnwardType DEF Unlink, At, ObjectTypeOK, DataOK
  <2>2. CASE Goto(w, "remove")
    BY <1>0, <1>8, <2>2, GotoType DEF Unlink, At, ObjectTypeOK, DataOK
  <2>3. QED BY <1>8, <2>1, <2>2 DEF Unlink
<1>9. CASE Remove(w)
  <2>1. /\ files' \in [Paths -> Contents \union {NoFile, Torn}]
        /\ dirs' \subseteq Paths
        /\ UNCHANGED <<rows, events>>
    BY <1>9 DEF Remove, ObjectTypeOK
  <2>2. CASE Finish(w, "Error")
    BY <1>0, <2>1, <2>2, FinishType DEF ObjectTypeOK, DataOK
  <2>3. CASE Onward(w)
    BY <1>0, <1>9, <2>1, <2>3, OnwardType DEF Remove, At, ObjectTypeOK, DataOK
  <2>4. QED BY <1>9, <2>2, <2>3 DEF Remove
<1>10. QED BY <1>1, <1>2, <1>3, <1>4, <1>5, <1>6, <1>7, <1>8, <1>9 DEF ThreadStep

\* Every step keeps the types, the history with them.
LEMMA StepKeepsTypes == ObjectTypeOK /\ [Next]_objectVars => ObjectTypeOK'
<1> SUFFICES ASSUME ObjectTypeOK, [Next]_objectVars
             PROVE  ObjectTypeOK'
  OBVIOUS
<1>1. CASE UNCHANGED objectVars
  BY <1>1 DEF objectVars, ObjectTypeOK
<1>2. CASE Step /\ Watch
  <2>1. ASSUME NEW p \in Paths, Lapse(p)
        PROVE  DataOK'
    <3>1. [rows[p] EXCEPT !.past = TRUE] \in Row
      BY <2>1 DEF Lapse, ObjectTypeOK, Row
    <3>2. rows' \in [Paths -> Row \union {NoRow}]
      BY <2>1, <3>1 DEF Lapse, ObjectTypeOK
    <3>3. QED BY <2>1, <3>2 DEF Lapse, ObjectTypeOK, DataOK
  <2>2. ASSUME Crash
        PROVE  DataOK'
    <3>1. worker' \in [Workers -> Request \union {Idle}] /\ answer' = "None"
      BY <2>2 DEF Crash
    <3>2. QED BY <2>2, <3>1 DEF Crash, ObjectTypeOK, DataOK
  <2>3. DataOK'
    <3>1. PutStep => DataOK'
      BY PutType
    <3>2. ASSUME NEW w \in Threads, ThreadStep(w)
          PROVE  DataOK'
      BY <3>2, ThreadType
    <3>3. QED BY <1>2, <2>1, <2>2, <3>1, <3>2, StepKinds
  <2>4. raced' \subseteq Workers
    BY <1>2 DEF Watch
  <2>5. \A p \in Paths : NewCauses(p) \subseteq {"overlap", "removals", "spoilt"}
    BY DEF NewCauses
  <2>6. causes' \in [Paths -> SUBSET {"overlap", "removals", "spoilt"}]
    BY <1>2, <2>5 DEF Watch, ObjectTypeOK
  <2>7. QED BY <2>3, <2>4, <2>6 DEF DataOK, ObjectTypeOK
<1>3. QED BY <1>1, <1>2 DEF Next

\* Every variable has its type (ObjectTypeOK).
THEOREM ObjectTypeCorrect == Spec => []ObjectTypeOK
<1>1. Init => ObjectTypeOK
  BY DEF Init, ObjectTypeOK
<1>2. QED BY <1>1, StepKeepsTypes, PTL DEF Spec


-----------------------------------------------------------------------------
(* The invariant.                                                          *)

\* A directory is no regular file.
DirsHoldNoFile == \A p \in dirs : files[p] = NoFile

\* The event loop puts, and has given no answer yet; the threads read and remove.
StepsInPlace ==
    /\ worker[Loop] # Idle =>
          worker[Loop].step \in {"opened", "written", "loaded"} /\ answer # "Stored"
    /\ \A w \in Threads : worker[w] # Idle =>
          /\ worker[w].step \in {"file", "read", "prune", "delete", "unlink", "remove"}
          /\ worker[w].todo # {} => Removing(w) /\ worker[w].step # "delete"

\* The history tells of every request on the way which others it has met.
MeetingsKnown ==
    /\ \A w \in Workers : Meets(w) => w \in raced
    /\ \A p \in Paths :
          /\ Putting(p) /\ (Loop \in raced \/ Taken(p)) => "overlap" \in causes[p]
          /\ \A v, w \in Threads : v # w /\ Takes(v, p) /\ Takes(w, p) => "removals" \in causes[p]

\* The file of an upload that has met nothing holds what the upload wrote.
PutInOrder == (worker[Loop] # Idle /\ Loop \notin raced) =>
    files[worker[Loop].path] = IF worker[Loop].step = "opened" THEN Torn ELSE worker[Loop].sum

Whole(p) == files[p] = IF rows[p] = NoRow THEN NoFile ELSE rows[p].sum

\* A thread has taken the row away and is about to remove the file.
HalfRemoved(p) == \E w \in Threads : AtEnd(w) /\ worker[w].path = p

FilesKept == \A p \in Paths : Intact(p) /\ ~Putting(p) => Whole(p) \/ HalfRemoved(p)

\* The file a download is about to read has the bytes its row told of.
ReadsWhole == \A w \in Threads :
    (At(w, "file") \/ At(w, "read")) /\ w \notin raced /\ Intact(worker[w].path) =>
        files[worker[w].path] = worker[w].sum

\* What a request found missing or took away is missing still, unless an upload met it.
GoneStaysGone ==
    /\ At(Loop, "loaded") /\ ~worker[Loop].found => rows[worker[Loop].path] = NoRow
    /\ \A w \in Threads :
         ((At(w, "delete") /\ ~worker[w].found) \/ AtEnd(w)) /\ "overlap" \notin causes[worker[w].path] =>
            rows[worker[w].path] = NoRow

\* Since the object was last told deleted it was told created.
Lives(p) == \E i \in EventsOf(p) : /\ events[i].type = "CREATE"
                                   /\ \A j \in EventsOf(p) : events[j].type = "DELETED" => j < i

\* What is stored, or was found by the one removal of it, was created since last deleted.
FoundLives == \A p \in Paths : "removals" \notin causes[p] =>
    /\ rows[p] # NoRow => Lives(p)
    /\ \A w \in Threads :
          /\ At(w, "delete") /\ worker[w].path = p /\ worker[w].found => Lives(p)
          /\ worker[w] # Idle /\ p \in worker[w].todo => Lives(p)

ObjectInv ==
    /\ ObjectTypeOK
    /\ DirsHoldNoFile
    /\ StepsInPlace
    /\ MeetingsKnown
    /\ PutInOrder
    /\ FilesKept
    /\ ReadsWhole
    /\ GoneStaysGone
    /\ FoundLives
    /\ LogTellsLives

-----------------------------------------------------------------------------
(* Who works on what.                                                      *)

\* A step of the event loop leaves the threads alone.
LEMMA PutFrame ==
    ASSUME ObjectTypeOK, PutStep
    PROVE  \A w \in Threads : worker'[w] = worker[w]
BY LoopIsNoThread
   DEF ObjectTypeOK, PutStep, PutOpen, PutWrite, PutLoad, PutCommit, PutRefused, Begin, Goto, Finish

\* A step of a thread leaves the other workers alone.
LEMMA ThreadFrame ==
    ASSUME ObjectTypeOK, NEW w \in Threads, ThreadStep(w)
    PROVE  \A v \in Workers : v # w => worker'[v] = worker[v]
BY DEF ObjectTypeOK, ThreadStep, GetLoad, ExpiredLoad, GetFile, GetRead, PruneCommit, DeleteLoad,
       DeleteCommit, Unlink, Remove, Onward, Begin, Goto, Finish

\* A crash leaves no request.
LEMMA CrashFrame ==
    ASSUME Crash
    PROVE  /\ \A w \in Workers : worker'[w] = Idle
           /\ answer' = "None" /\ UNCHANGED <<rows, files, dirs, events>>
BY DEF Crash

\* What a worker that begins, goes on or ends has afterwards.
LEMMA BeginEffect ==
    ASSUME ObjectTypeOK, NEW w \in Workers, NEW step, NEW p, NEW c, NEW found, NEW todo,
           [step |-> step, path |-> p, sum |-> c, found |-> found, todo |-> todo] \in Request,
           Begin(w, step, p, c, found, todo)
    PROVE  /\ worker[w] = Idle /\ worker'[w] # Idle
           /\ worker'[w].step = step /\ worker'[w].path = p /\ worker'[w].sum = c
           /\ worker'[w].found = found /\ worker'[w].todo = todo
           /\ answer' = "None"
<1> DEFINE request == [step |-> step, path |-> p, sum |-> c, found |-> found, todo |-> todo]
<1>1. worker[w] = Idle /\ worker'[w] = request /\ answer' = "None"
  BY DEF ObjectTypeOK, Begin
<1>2. QED BY <1>1, ObjectSentinels

\* Going on changes the step of a request and nothing else it holds.
LEMMA GotoEffect ==
    ASSUME ObjectTypeOK, NEW w \in Workers, worker[w] # Idle,
           NEW step \in {"opened", "written", "loaded", "file", "read", "prune", "delete", "unlink",
                         "remove"},
           Goto(w, step)
    PROVE  /\ worker'[w] # Idle
           /\ worker'[w].step = step /\ worker'[w].path = worker[w].path
           /\ worker'[w].sum = worker[w].sum /\ worker'[w].found = worker[w].found
           /\ worker'[w].todo = worker[w].todo
           /\ answer' = "None"
<1>1. worker[w] \in Request
  BY RequestOf
<1>2. worker'[w] = [worker[w] EXCEPT !.step = step] /\ answer' = "None"
  BY DEF ObjectTypeOK, Goto
<1>3. worker'[w] \in Request
  BY <1>1, <1>2 DEF Request
<1>4. QED BY <1>1, <1>2, <1>3, ObjectSentinels DEF Request

\* A request that ends gives its answer.
LEMMA FinishEffect ==
    ASSUME ObjectTypeOK, NEW w \in Workers, NEW outcome, Finish(w, outcome)
    PROVE  worker'[w] = Idle /\ answer' = outcome
BY DEF ObjectTypeOK, Finish

\* After a file is removed a pruning takes the next path; any other request ends.
LEMMA OnwardEffect ==
    ASSUME ObjectTypeOK, NEW w \in Workers, worker[w] # Idle, Onward(w)
    PROVE  \/ /\ worker[w].todo # {} /\ worker'[w] # Idle
              /\ worker'[w].step = "prune" /\ worker'[w].path = worker[w].path
              /\ worker'[w].todo = worker[w].todo
           \/ worker'[w] = Idle /\ answer' = "Removed"
<1>1. CASE worker[w].todo # {} /\ Goto(w, "prune")
  BY <1>1, GotoEffect
<1>2. CASE Finish(w, "Removed")
  BY <1>2, FinishEffect
<1>3. QED BY <1>1, <1>2 DEF Onward

\* What each step of a thread makes of its request and of rows and log.
LEMMA ThreadEffect ==
    ASSUME ObjectTypeOK, ObjectTypeOK', NEW w \in Threads, ThreadStep(w)
    PROVE  LET r == worker[w]
               s == worker'[w]
           IN  \/ \* a download begins
                  /\ r = Idle /\ s # Idle /\ s.step = "file" /\ s.todo = {}
                  /\ rows[s.path] # NoRow /\ s.sum = rows[s.path].sum
                  /\ UNCHANGED <<rows, files, dirs, events>>
               \/ \* it goes on
                  /\ r # Idle /\ r.step = "file" /\ s # Idle /\ s.step = "read"
                  /\ s.path = r.path /\ s.sum = r.sum /\ s.todo = r.todo
                  /\ UNCHANGED <<rows, files, dirs, events>>
               \/ \* it ends
                  /\ r # Idle /\ r.step \in {"file", "read"} /\ s = Idle
                  /\ answer' = "Found" \/ files[r.path] # r.sum
                  /\ UNCHANGED <<rows, files, dirs, events>>
               \/ \* expired rows are read
                  /\ r = Idle /\ s # Idle /\ s.step = "prune"
                  /\ s.todo # {} /\ \A p \in s.todo : rows[p] # NoRow
                  /\ UNCHANGED <<rows, files, dirs, events>>
               \/ \* one of them is pruned
                  /\ r # Idle /\ r.step = "prune" /\ s # Idle /\ s.step = "unlink"
                  /\ s.path \in r.todo /\ s.todo = r.todo \ {s.path}
                  /\ rows' = [rows EXCEPT ![s.path] = NoRow] /\ Log("DELETED", s.path)
                  /\ UNCHANGED <<files, dirs>>
               \/ \* a delete reads the row
                  /\ r = Idle /\ s # Idle /\ s.step = "delete" /\ s.todo = {}
                  /\ s.found <=> rows[s.path] # NoRow
                  /\ UNCHANGED <<rows, files, dirs, events>>
               \/ \* and takes it away
                  /\ r # Idle /\ r.step = "delete" /\ s # Idle /\ s.step = "unlink"
                  /\ s.path = r.path /\ s.todo = r.todo
                  /\ rows' = [rows EXCEPT ![s.path] = NoRow]
                  /\ IF r.found THEN Log("DELETED", s.path) ELSE UNCHANGED events
                  /\ UNCHANGED <<files, dirs>>
               \/ \* the file is there and is to be removed
                  /\ r # Idle /\ r.step = "unlink" /\ s # Idle /\ s.step = "remove"
                  /\ s.path = r.path /\ s.todo = r.todo
                  /\ UNCHANGED <<rows, files, dirs, events>>
               \/ \* it is gone or it is removed
                  /\ r # Idle
                  /\ \/ r.step = "unlink" /\ Gone(r.path) /\ UNCHANGED <<files, dirs>>
                     \/ /\ r.step = "remove"
                        /\ files' = [q \in Paths |-> IF q \in Removed(r.path) THEN NoFile ELSE files[q]]
                        /\ dirs' \subseteq dirs
                  /\ \/ s # Idle /\ s.step = "prune" /\ s.path = r.path /\ s.todo = r.todo
                     \/ s = Idle /\ answer' = "Removed"
                     \/ s = Idle /\ answer' = "Error" /\ r.step = "remove"
                  /\ UNCHANGED <<rows, events>>
<1>0. w \in Workers
  BY LoopIsNoThread
<1>1. ASSUME NEW p \in Paths, GetLoad(w, p)
      PROVE  /\ worker[w] = Idle /\ worker'[w] # Idle
             /\ worker'[w].step = "file" /\ worker'[w].todo = {}
             /\ rows[worker'[w].path] # NoRow /\ worker'[w].sum = rows[worker'[w].path].sum
             /\ UNCHANGED <<rows, files, dirs, events>>
  <2> DEFINE found == FALSE
  <2>1. Begin(w, "file", p, rows[p].sum, found, {}) /\ rows[p] # NoRow
    BY <1>1 DEF GetLoad
  <2>a. found \in BOOLEAN
    OBVIOUS
  <2> HIDE DEF found
  <2>2. [step |-> "file", path |-> p, sum |-> rows[p].sum, found |-> found, todo |-> {}] \in Request
    BY <2>a, <2>1 DEF ObjectTypeOK, Row, Request
  <2>3. /\ worker[w] = Idle /\ worker'[w] # Idle
        /\ worker'[w].step = "file" /\ worker'[w].todo = {}
        /\ worker'[w].path = p /\ worker'[w].sum = rows[p].sum
    BY <1>0, <2>1, <2>2, BeginEffect
  <2>4. QED BY <1>1, <2>1, <2>3 DEF GetLoad
<1>2. ASSUME NEW past \in SUBSET Paths, ExpiredLoad(w, past)
      PROVE  /\ worker[w] = Idle /\ worker'[w] # Idle
             /\ worker'[w].step = "prune"
             /\ worker'[w].todo # {} /\ \A p \in worker'[w].todo : rows[p] # NoRow
             /\ UNCHANGED <<rows, files, dirs, events>>
  <2> DEFINE p == CHOOSE p \in past : TRUE
             found == FALSE
             request == [step |-> "prune", path |-> p, sum |-> rows[p].sum, found |-> found,
                         todo |-> past]
  <2>1. Begin(w, "prune", p, rows[p].sum, found, past) /\ p \in past /\ Past(rows[p])
    BY <1>2 DEF ExpiredLoad
  <2>a. found \in BOOLEAN
    OBVIOUS
  <2>2. worker[w] = Idle /\ worker'[w] # Idle /\ worker'[w].step = "prune" /\ worker'[w].todo = past
    <3> HIDE DEF p, found
    <3>1. request \in Request
      BY <2>1, <2>a DEF Past, ObjectTypeOK, Row, Request
    <3>2. QED BY <1>0, <2>1, <3>1, BeginEffect
  <2>3. past # {} /\ \A q \in past : rows[q] # NoRow
    BY <1>2 DEF ExpiredLoad, Past
  <2>4. QED BY <1>2, <2>2, <2>3 DEF ExpiredLoad
<1>3. CASE GetFile(w)
  <2>1. worker[w] # Idle /\ worker[w].step = "file" /\ UNCHANGED <<rows, files, dirs, events>>
    BY <1>3 DEF GetFile, At
  <2>2. CASE Finish(w, "NotFound") /\ files[worker[w].path] = NoFile
    <3>1. files[worker[w].path] # worker[w].sum
      BY <1>0, <2>1, <2>2, RequestOf, ObjectAssumption
    <3>2. QED BY <1>0, <2>1, <2>2, <3>1, FinishEffect
  <2>3. CASE Goto(w, "read")
    <3>1. /\ worker'[w] # Idle /\ worker'[w].step = "read"
          /\ worker'[w].path = worker[w].path
          /\ worker'[w].sum = worker[w].sum /\ worker'[w].todo = worker[w].todo
      BY <1>0, <2>1, <2>3, GotoEffect
    <3>2. QED BY <2>1, <3>1
  <2>4. QED BY <1>3, <2>2, <2>3 DEF GetFile
<1>4. CASE GetRead(w)
  <2>1. worker[w] # Idle /\ worker[w].step = "read" /\ UNCHANGED <<rows, files, dirs, events>>
    BY <1>4 DEF GetRead, At
  <2>2. NoFile # worker[w].sum
    BY <1>0, <2>1, RequestOf, ObjectAssumption
  <2>3. \/ Finish(w, "Found")
        \/ (Finish(w, "Error") \/ Finish(w, "Mixed")) /\ files[worker[w].path] # worker[w].sum
    BY <1>4, <2>2 DEF GetRead
  <2>4. worker'[w] = Idle /\ (answer' = "Found" \/ files[worker[w].path] # worker[w].sum)
    BY <1>0, <2>3, FinishEffect
  <2>5. QED BY <2>1, <2>4
<1>5. ASSUME NEW p \in Paths, PruneCommit(w, p)
      PROVE  /\ worker[w] # Idle /\ worker[w].step = "prune"
             /\ worker'[w] # Idle /\ worker'[w].step = "unlink"
             /\ worker'[w].path \in worker[w].todo
             /\ worker'[w].todo = worker[w].todo \ {worker'[w].path}
             /\ rows' = [rows EXCEPT ![worker'[w].path] = NoRow] /\ Log("DELETED", worker'[w].path)
             /\ UNCHANGED <<files, dirs>>
  <2>1. worker[w] # Idle /\ worker[w].step = "prune" /\ worker[w] \in Request
    BY <1>0, <1>5, RequestOf DEF PruneCommit, At
  <2>2. worker'[w] = [worker[w] EXCEPT !.step = "unlink", !.path = p, !.todo = worker[w].todo \ {p}]
    BY <1>0, <1>5 DEF PruneCommit, ObjectTypeOK
  <2>3. worker'[w] \in Request
    BY <2>1, <2>2 DEF Request
  <2>4. /\ worker'[w].step = "unlink" /\ worker'[w].path = p
        /\ worker'[w].todo = worker[w].todo \ {p}
    BY <2>1, <2>2 DEF Request
  <2>5. QED BY <1>5, <2>1, <2>3, <2>4, ObjectSentinels DEF PruneCommit
<1>6. ASSUME NEW p \in Paths, DeleteLoad(w, p)
      PROVE  /\ worker[w] = Idle /\ worker'[w] # Idle
             /\ worker'[w].step = "delete" /\ worker'[w].todo = {}
             /\ worker'[w].found <=> rows[worker'[w].path] # NoRow
             /\ UNCHANGED <<rows, files, dirs, events>>
  <2>1. PICK c \in Contents : Begin(w, "delete", p, c, rows[p] # NoRow, {})
    BY <1>6 DEF DeleteLoad
  <2> DEFINE found == rows[p] # NoRow
  <2>a. [step |-> "delete", path |-> p, sum |-> c, found |-> found, todo |-> {}] \in Request
    BY DEF Request
  <2>2. /\ worker[w] = Idle /\ worker'[w] # Idle
        /\ worker'[w].step = "delete" /\ worker'[w].todo = {}
        /\ worker'[w].path = p /\ worker'[w].found = (rows[p] # NoRow)
    BY <1>0, <2>1, <2>a, BeginEffect
  <2>3. QED BY <1>6, <2>2 DEF DeleteLoad
<1>7. CASE DeleteCommit(w)
  <2>1. worker[w] # Idle /\ worker[w].step = "delete" /\ worker[w] \in Request
    BY <1>0, <1>7, RequestOf DEF DeleteCommit, At
  <2>2. worker'[w] = [worker[w] EXCEPT !.step = "unlink", !.found = FALSE]
    BY <1>0, <1>7 DEF DeleteCommit, ObjectTypeOK
  <2>3. worker'[w] \in Request
    BY <2>1, <2>2 DEF Request
  <2>4. /\ worker'[w].step = "unlink" /\ worker'[w].path = worker[w].path
        /\ worker'[w].todo = worker[w].todo
    BY <2>1, <2>2 DEF Request
  <2>5. QED BY <1>7, <2>1, <2>3, <2>4, ObjectSentinels DEF DeleteCommit
<1>8. CASE Unlink(w)
  <2>1. worker[w] # Idle /\ worker[w].step = "unlink" /\ UNCHANGED <<rows, files, dirs, events>>
    BY <1>8 DEF Unlink, At
  <2>2. CASE Gone(worker[w].path) /\ Onward(w)
    BY <1>0, <2>1, <2>2, OnwardEffect
  <2>3. CASE Goto(w, "remove")
    BY <1>0, <2>1, <2>3, GotoEffect
  <2>4. QED BY <1>8, <2>2, <2>3 DEF Unlink
<1>9. CASE Remove(w)
  <2>1. /\ worker[w] # Idle /\ worker[w].step = "remove"
        /\ files' = [q \in Paths |-> IF q \in Removed(worker[w].path) THEN NoFile ELSE files[q]]
        /\ dirs' \subseteq dirs
        /\ UNCHANGED <<rows, events>>
    BY <1>9 DEF Remove, At
  <2>2. CASE Finish(w, "Error")
    BY <1>0, <2>1, <2>2, FinishEffect
  <2>3. CASE Onward(w)
    BY <1>0, <2>1, <2>3, OnwardEffect
  <2>4. QED BY <1>9, <2>2, <2>3 DEF Remove
<1>10. QED
  BY <1>1, <1>2, <1>3, <1>4, <1>5, <1>6, <1>7, <1>8, <1>9 DEF ThreadStep


\* What each step of the event loop makes of its request, of file, row and log.
LEMMA PutEffect ==
    ASSUME ObjectTypeOK, PutStep
    PROVE  LET r == worker[Loop]
               s == worker'[Loop]
           IN  \/ \* an upload is turned away
                  /\ r = Idle /\ s = Idle
                  /\ UNCHANGED <<rows, files, dirs, events>>
               \/ \* or opens its file
                  /\ r = Idle /\ s # Idle /\ s.step = "opened"
                  /\ s.path \notin dirs /\ \A q \in Above(s.path) : files[q] = NoFile
                  /\ dirs' = dirs \union Above(s.path)
                  /\ files' = [files EXCEPT ![s.path] = Torn]
                  /\ UNCHANGED <<rows, events>>
               \/ \* and writes it
                  /\ r # Idle /\ r.step = "opened" /\ s # Idle /\ s.step = "written"
                  /\ s.path = r.path /\ s.sum = r.sum
                  /\ files' = [files EXCEPT ![r.path] = IF @ = NoFile THEN NoFile ELSE r.sum]
                  /\ UNCHANGED <<rows, dirs, events>>
               \/ \* it reads the row
                  /\ r # Idle /\ r.step = "written" /\ s # Idle /\ s.step = "loaded"
                  /\ s.path = r.path /\ s.sum = r.sum
                  /\ s.found <=> rows[r.path] # NoRow
                  /\ UNCHANGED <<rows, files, dirs, events>>
               \/ \* and stores it with its event
                  /\ r # Idle /\ r.step = "loaded" /\ s = Idle /\ answer' = "Stored"
                  /\ rows' = [rows EXCEPT ![r.path] = [sum |-> r.sum, past |-> FALSE]]
                  /\ r.found => rows[r.path] # NoRow
                  /\ Log(IF r.found THEN "UPDATE" ELSE "CREATE", r.path)
                  /\ UNCHANGED <<files, dirs>>
               \/ \* or fails to
                  /\ r # Idle /\ r.step = "loaded" /\ s = Idle /\ answer' = "Error"
                  /\ UNCHANGED <<rows, files, dirs, events>>
<1>0. Loop \in Workers
  BY LoopIsNoThread
<1>1. ASSUME NEW p \in Paths, NEW c \in Contents, PutOpen(p, c)
      PROVE  /\ worker[Loop] = Idle
             /\ \/ worker'[Loop] = Idle /\ UNCHANGED <<rows, files, dirs, events>>
                \/ /\ worker'[Loop] # Idle /\ worker'[Loop].step = "opened"
                   /\ worker'[Loop].path \notin dirs
                   /\ \A q \in Above(worker'[Loop].path) : files[q] = NoFile
                   /\ dirs' = dirs \union Above(worker'[Loop].path)
                   /\ files' = [files EXCEPT ![worker'[Loop].path] = Torn]
                   /\ UNCHANGED <<rows, events>>
  <2>1. CASE (\E q \in Above(p) : files[q] # NoFile) \/ p \in dirs
    BY <1>1, <2>1 DEF PutOpen
  <2>2. CASE ~((\E q \in Above(p) : files[q] # NoFile) \/ p \in dirs)
    <3> DEFINE found == FALSE
    <3>1. Begin(Loop, "opened", p, c, found, {})
      BY <1>1, <2>2 DEF PutOpen
    <3>2. found \in BOOLEAN
      OBVIOUS
    <3> HIDE DEF found
    <3>3. [step |-> "opened", path |-> p, sum |-> c, found |-> found, todo |-> {}] \in Request
      BY <3>2 DEF Request
    <3>4. /\ worker[Loop] = Idle /\ worker'[Loop] # Idle
          /\ worker'[Loop].step = "opened" /\ worker'[Loop].path = p
      BY <1>0, <3>1, <3>3, BeginEffect
    <3>5. QED BY <1>1, <2>2, <3>4 DEF PutOpen
  <2>3. QED BY <2>1, <2>2
<1>2. CASE PutWrite
  <2>1. worker[Loop] # Idle /\ worker[Loop].step = "opened" /\ Goto(Loop, "written")
    BY <1>2 DEF PutWrite, At
  <2>2. /\ worker'[Loop] # Idle /\ worker'[Loop].step = "written"
        /\ worker'[Loop].path = worker[Loop].path /\ worker'[Loop].sum = worker[Loop].sum
    BY <1>0, <2>1, GotoEffect
  <2>3. QED BY <1>2, <2>1, <2>2 DEF PutWrite
<1>3. CASE PutLoad
  <2>1. worker[Loop] # Idle /\ worker[Loop].step = "written" /\ worker[Loop] \in Request
    BY <1>0, <1>3, RequestOf DEF PutLoad, At
  <2> DEFINE found == rows[worker[Loop].path] # NoRow
  <2>2. worker'[Loop] = [worker[Loop] EXCEPT !.step = "loaded", !.found = found]
    BY <1>0, <1>3 DEF PutLoad, ObjectTypeOK
  <2>3. worker'[Loop] \in Request
    BY <2>1, <2>2 DEF Request
  <2>4. /\ worker'[Loop].step = "loaded" /\ worker'[Loop].path = worker[Loop].path
        /\ worker'[Loop].sum = worker[Loop].sum
        /\ worker'[Loop].found = found
    BY <2>1, <2>2 DEF Request
  <2>5. QED BY <1>3, <2>1, <2>3, <2>4, ObjectSentinels DEF PutLoad
<1>4. CASE PutCommit
  <2>1. worker[Loop] # Idle /\ worker[Loop].step = "loaded"
    BY <1>4 DEF PutCommit, At
  <2>2. CASE worker[Loop].found /\ rows[worker[Loop].path] = NoRow
    BY <1>0, <1>4, <2>1, <2>2, FinishEffect DEF PutCommit
  <2>3. CASE ~(worker[Loop].found /\ rows[worker[Loop].path] = NoRow)
    <3>1. worker'[Loop] = Idle /\ answer' = "Stored"
      BY <1>0, <1>4, <2>3, FinishEffect DEF PutCommit
    <3>2. QED BY <1>4, <2>1, <2>3, <3>1 DEF PutCommit
  <2>4. QED BY <2>2, <2>3
<1>5. CASE PutRefused
  BY <1>0, <1>5, FinishEffect DEF PutRefused, At
<1>6. QED BY <1>1, <1>2, <1>3, <1>4, <1>5 DEF PutStep


\* Only the commit of an upload answers that it is stored.
LEMMA ThreadAnswer ==
    ASSUME NEW w \in Threads, ThreadStep(w)
    PROVE  answer' # "Stored"
BY DEF ThreadStep, GetLoad, ExpiredLoad, GetFile, GetRead, PruneCommit, DeleteLoad, DeleteCommit,
       Unlink, Remove, Onward, Begin, Goto, Finish

\* An upload says it stored an object only when its transaction has committed.
LEMMA PutAnswer ==
    ASSUME ObjectTypeOK, PutStep, answer' = "Stored"
    PROVE  /\ worker[Loop] # Idle /\ worker[Loop].step = "loaded" /\ worker'[Loop] = Idle
<1>1. \A p \in Paths, c \in Contents : ~PutOpen(p, c)
  BY DEF PutOpen, Begin
<1>2. ~PutWrite /\ ~PutLoad /\ ~PutRefused
  BY DEF PutWrite, PutLoad, PutRefused, Goto, Finish
<1>3. PutCommit
  BY <1>1, <1>2 DEF PutStep
<1>4. worker[Loop] # Idle /\ worker[Loop].step = "loaded"
  BY <1>3 DEF PutCommit, At
<1>5. Finish(Loop, "Stored") \/ Finish(Loop, "Error")
  BY <1>3 DEF PutCommit
<1>6. QED BY <1>4, <1>5, FinishEffect, LoopIsNoThread

\* Every step leaves each worker at a step of its kind.
LEMMA StepKeepsPlace ==
    ASSUME ObjectTypeOK, ObjectTypeOK', StepsInPlace, Step
    PROVE  StepsInPlace'
<1>1. CASE PutStep
  <2>1. worker'[Loop] # Idle => worker'[Loop].step \in {"opened", "written", "loaded"}
    BY <1>1, PutEffect
  <2>2. worker'[Loop] # Idle => answer' # "Stored"
    BY <1>1, PutAnswer
  <2>3. \A w \in Threads : worker'[w] = worker[w]
    BY <1>1, PutFrame
  <2>4. QED BY <2>1, <2>2, <2>3 DEF StepsInPlace, Removing
<1>2. ASSUME NEW w \in Threads, ThreadStep(w)
      PROVE  StepsInPlace'
  <2>1. worker'[w] # Idle =>
           /\ worker'[w].step \in {"file", "read", "prune", "delete", "unlink", "remove"}
           /\ worker'[w].todo # {} => worker'[w].step \in {"prune", "unlink", "remove"}
    BY <1>2, ThreadEffect DEF StepsInPlace, Removing
  <2>2. \A v \in Workers : v # w => worker'[v] = worker[v]
    BY <1>2, ThreadFrame
  <2>3. answer' # "Stored"
    BY <1>2, ThreadAnswer
  <2>4. QED BY <2>1, <2>2, <2>3, LoopIsNoThread DEF StepsInPlace, Removing
<1>3. ASSUME NEW p \in Paths, Lapse(p)
      PROVE  StepsInPlace'
  BY <1>3 DEF Lapse, StepsInPlace, Removing
<1>4. CASE Crash
  BY <1>4, CrashFrame, LoopIsNoThread DEF StepsInPlace
<1>5. QED BY <1>1, <1>2, <1>3, <1>4, StepKinds

\* An upload that goes on goes on with its path and its bytes.
LEMMA PutGoesOn ==
    ASSUME ObjectTypeOK, Step, worker[Loop] # Idle, worker'[Loop] # Idle
    PROVE  worker'[Loop].path = worker[Loop].path /\ worker'[Loop].sum = worker[Loop].sum
<1>1. CASE PutStep
  BY <1>1, PutEffect
<1>2. ASSUME NEW w \in Threads, ThreadStep(w)
      PROVE  worker'[Loop] = worker[Loop]
  BY <1>2, ThreadFrame, LoopIsNoThread
<1>3. ASSUME NEW p \in Paths, Lapse(p)
      PROVE  worker'[Loop] = worker[Loop]
  BY <1>3 DEF Lapse
<1>4. CASE Crash
  BY <1>4, CrashFrame, LoopIsNoThread
<1>5. QED BY <1>1, <1>2, <1>3, <1>4, StepKinds

-----------------------------------------------------------------------------
(* What the history keeps.                                                 *)

\* A request on the way has met those it meets and those it had met.
LEMMA RacedChange ==
    ASSUME Watch, NEW w \in Workers
    PROVE  /\ Meets(w)' => w \in raced'
           /\ w \in raced /\ worker[w] # Idle /\ worker'[w] # Idle => w \in raced'
           /\ w \in raced' => Meets(w)' \/ (w \in raced /\ worker[w] # Idle /\ worker'[w] # Idle)
BY DEF Watch

\* The causes of a path grow, but for a clean upload, which leaves the removals.
LEMMA CausesChange ==
    ASSUME ObjectTypeOK, Watch, NEW p \in Paths
    PROVE  /\ "removals" \in causes[p] => "removals" \in causes'[p]
           /\ Putting(p)' /\ Taken(p)' => "overlap" \in causes'[p]
           /\ \A v, w \in Threads : v # w /\ Takes(v, p)' /\ Takes(w, p)' => "removals" \in causes'[p]
           /\ ~CleanPut(p) => causes[p] \subseteq causes'[p]
<1>1. causes'[p] = (IF CleanPut(p) THEN causes[p] \intersect {"removals"} ELSE causes[p])
                   \union NewCauses(p)
  BY DEF Watch
<1>2. /\ Putting(p)' /\ Taken(p)' => "overlap" \in NewCauses(p)
      /\ \A v, w \in Threads : v # w /\ Takes(v, p)' /\ Takes(w, p)' => "removals" \in NewCauses(p)
  BY DEF NewCauses
<1>3. QED BY <1>1, <1>2

\* What spoils a path: an upload or a removal cut short, and a directory removed above it.
LEMMA Spoiling ==
    ASSUME ObjectTypeOK, Watch, NEW p \in Paths,
           \/ Putting(p) /\ ~Putting(p)' /\ answer' # "Stored"
           \/ \E w \in Threads : AtEnd(w) /\ worker'[w] = Idle /\ answer' # "Removed" /\ Takes(w, p)
           \/ /\ files[p] # NoFile /\ files'[p] = NoFile
              /\ \E w \in Threads : At(w, "remove") /\ p \in Beneath[worker[w].path]
    PROVE  ~Intact(p)'
<1>1. "spoilt" \in NewCauses(p)
  BY DEF NewCauses
<1>2. "spoilt" \in causes'[p]
  BY <1>1 DEF Watch
<1>3. QED BY <1>2 DEF Intact

\* The meetings stay known.
LEMMA StepKeepsMeetings ==
    ASSUME ObjectTypeOK, ObjectTypeOK', StepsInPlace', MeetingsKnown, Step, Watch
    PROVE  MeetingsKnown'
<1>1. \A w \in Workers : Meets(w)' => w \in raced'
  BY RacedChange
<1>2. ASSUME NEW p \in Paths, Putting(p)', Loop \in raced' \/ Taken(p)'
      PROVE  "overlap" \in causes'[p]
  <2>1. CASE Taken(p)'
    BY <1>2, <2>1, CausesChange
  <2>2. CASE Meets(Loop)'
    <3>1. Taken(p)'
      BY <1>2, <2>2 DEF Meets, Putting
    <3>2. QED BY <2>1, <3>1
  <2>3. CASE Loop \in raced /\ worker[Loop] # Idle /\ worker'[Loop] # Idle
    <3>1. Putting(p)
      BY <1>2, <2>3, PutGoesOn DEF Putting
    <3>2. "overlap" \in causes[p] /\ ~CleanPut(p)
      BY <2>3, <3>1 DEF MeetingsKnown, CleanPut
    <3>3. QED BY <3>2, CausesChange
  <2>4. QED BY <1>2, <2>1, <2>2, <2>3, RacedChange, LoopIsNoThread
<1>3. ASSUME NEW p \in Paths, NEW v \in Threads, NEW w \in Threads, v # w, Takes(v, p)', Takes(w, p)'
      PROVE  "removals" \in causes'[p]
  BY <1>3, CausesChange
<1>4. QED BY <1>1, <1>2, <1>3 DEF MeetingsKnown


\* A clean upload is the commit of one that has met no removal.
LEMMA CleanPutIs ==
    ASSUME ObjectTypeOK, StepsInPlace, MeetingsKnown, Step, NEW p \in Paths, CleanPut(p)
    PROVE  /\ PutStep /\ worker[Loop] # Idle /\ worker[Loop].step = "loaded" /\ worker'[Loop] = Idle
           /\ worker[Loop].path = p /\ Loop \notin raced /\ ~Taken(p)
           /\ rows' = [rows EXCEPT ![p] = [sum |-> worker[Loop].sum, past |-> FALSE]]
           /\ UNCHANGED files
<1>1. worker[Loop] # Idle /\ worker[Loop].path = p /\ Loop \notin raced /\ answer' = "Stored"
  BY DEF CleanPut, Putting
<1>2. answer # "Stored"
  BY <1>1 DEF StepsInPlace
<1>3. PutStep
  <2>1. \A w \in Threads : ~ThreadStep(w)
    BY <1>1, ThreadAnswer
  <2>2. \A q \in Paths : ~Lapse(q)
    BY <1>1, <1>2 DEF Lapse
  <2>3. ~Crash
    BY <1>1, CrashFrame
  <2>4. QED BY <2>1, <2>2, <2>3, StepKinds
<1>4. worker[Loop].step = "loaded" /\ worker'[Loop] = Idle
  BY <1>1, <1>3, PutAnswer
<1>5. /\ rows' = [rows EXCEPT ![p] = [sum |-> worker[Loop].sum, past |-> FALSE]]
      /\ UNCHANGED files
  BY <1>1, <1>3, <1>4, PutEffect
<1>6. ~Taken(p)
  <2>1. ~Removing(Loop)
    BY <1>4 DEF Removing
  <2>2. QED BY <1>1, <2>1, LoopIsNoThread DEF MeetingsKnown, Meets
<1>7. QED BY <1>1, <1>3, <1>4, <1>5, <1>6

\* But for a clean upload, what has not parted a path yet has not before.
LEMMA CausesBefore ==
    ASSUME ObjectTypeOK, Watch, NEW p \in Paths, ~CleanPut(p)
    PROVE  /\ Intact(p)' => Intact(p)
           /\ "overlap" \notin causes'[p] => "overlap" \notin causes[p]
<1>1. causes[p] \subseteq causes'[p]
  BY CausesChange
<1>2. QED BY <1>1 DEF Intact

\* A thread changes the rows and files of what it takes alone.
LEMMA ThreadTakes ==
    ASSUME ObjectTypeOK, ObjectTypeOK', StepsInPlace, NEW w \in Threads, ThreadStep(w), NEW p \in Paths
    PROVE  /\ files'[p] # files[p] => Takes(w, p) /\ worker[w].step = "remove"
           /\ rows'[p] # rows[p] => Takes(w, p) /\ rows'[p] = NoRow
<1>1. worker[w] # Idle => worker[w].path \in Paths
  BY RequestOf, LoopIsNoThread
<1>2. files \in [Paths -> Contents \union {NoFile, Torn}] /\ rows \in [Paths -> Row \union {NoRow}]
  BY DEF ObjectTypeOK
<1>3. ASSUME worker[w] # Idle, worker[w].step = "prune", NEW q \in worker[w].todo,
             rows' = [rows EXCEPT ![q] = NoRow]
      PROVE  rows'[p] # rows[p] => Takes(w, p) /\ rows'[p] = NoRow
  BY <1>2, <1>3 DEF Takes, Removing
<1>4. ASSUME worker[w] # Idle, worker[w].step = "delete", rows' = [rows EXCEPT ![worker[w].path] = NoRow]
      PROVE  rows'[p] # rows[p] => Takes(w, p) /\ rows'[p] = NoRow
  BY <1>1, <1>2, <1>4 DEF Takes, Removing
<1>5. ASSUME worker[w] # Idle, worker[w].step = "remove",
             files' = [q \in Paths |-> IF q \in Removed(worker[w].path) THEN NoFile ELSE files[q]]
      PROVE  files'[p] # files[p] => Takes(w, p)
  BY <1>1, <1>2, <1>5 DEF Takes, Removing, Removed
<1>6. QED BY <1>3, <1>4, <1>5, ThreadEffect

\* An upload that goes on untouched meets no removal.
LEMMA PutUntaken ==
    ASSUME StepsInPlace, MeetingsKnown, NEW p, worker[Loop] # Idle, worker[Loop].path = p, Loop \notin raced
    PROVE  ~Taken(p)
<1>1. ~Removing(Loop)
  BY DEF StepsInPlace, Removing
<1>2. QED BY <1>1, LoopIsNoThread DEF MeetingsKnown, Meets

\* A directory stays without bytes of its own.
LEMMA StepKeepsDirs ==
    ASSUME ObjectTypeOK, ObjectTypeOK', DirsHoldNoFile, Step
    PROVE  DirsHoldNoFile'
<1>0. files \in [Paths -> Contents \union {NoFile, Torn}] /\ dirs \subseteq Paths
  BY DEF ObjectTypeOK
<1>1. CASE PutStep
  <2> DEFINE s == worker'[Loop]
             r == worker[Loop]
  <2>1. CASE UNCHANGED <<files, dirs>>
    BY <2>1 DEF DirsHoldNoFile
  <2>2. CASE /\ s # Idle /\ s.path \notin dirs /\ \A q \in Above(s.path) : files[q] = NoFile
             /\ dirs' = dirs \union Above(s.path)
             /\ files' = [files EXCEPT ![s.path] = Torn]
    <3>1. s.path \in Paths
      BY <2>2, LoopIsNoThread, ObjectSentinels DEF ObjectTypeOK, Request
    <3>2. s.path \notin Above(s.path) /\ Above(s.path) \subseteq Paths
      BY <3>1, ObjectAssumption DEF Above
    <3>3. QED BY <1>0, <2>2, <3>1, <3>2 DEF DirsHoldNoFile
  <2>3. CASE /\ files' = [files EXCEPT ![r.path] = IF @ = NoFile THEN NoFile ELSE r.sum]
             /\ UNCHANGED dirs
    BY <1>0, <2>3 DEF DirsHoldNoFile
  <2>4. QED BY <1>1, <2>1, <2>2, <2>3, PutEffect
<1>2. ASSUME NEW w \in Threads, ThreadStep(w)
      PROVE  DirsHoldNoFile'
  <2>1. CASE UNCHANGED <<files, dirs>>
    BY <2>1 DEF DirsHoldNoFile
  <2>2. CASE /\ files' = [q \in Paths |-> IF q \in Removed(worker[w].path) THEN NoFile ELSE files[q]]
             /\ dirs' \subseteq dirs
    BY <1>0, <2>2 DEF DirsHoldNoFile
  <2>3. QED BY <1>2, <2>1, <2>2, ThreadEffect
<1>3. ASSUME NEW p \in Paths, Lapse(p)
      PROVE  DirsHoldNoFile'
  BY <1>3 DEF Lapse, DirsHoldNoFile
<1>4. CASE Crash
  BY <1>4 DEF Crash, DirsHoldNoFile
<1>5. QED BY <1>1, <1>2, <1>3, <1>4, StepKinds

\* The file of an upload that has met nothing is as it wrote it.
LEMMA StepKeepsPut ==
    ASSUME ObjectTypeOK, ObjectTypeOK', StepsInPlace, MeetingsKnown, PutInOrder, Step, Watch
    PROVE  PutInOrder'
<1> SUFFICES ASSUME worker'[Loop] # Idle, Loop \notin raced'
             PROVE  files'[worker'[Loop].path] =
                       IF worker'[Loop].step = "opened" THEN Torn ELSE worker'[Loop].sum
  BY DEF PutInOrder
<1>0. files \in [Paths -> Contents \union {NoFile, Torn}] /\ NoFile # Torn
  BY ObjectAssumption DEF ObjectTypeOK
<1>1. worker[Loop] # Idle => Loop \notin raced
  BY RacedChange, LoopIsNoThread
<1>2. CASE PutStep
  <2>1. worker'[Loop].path \in Paths
    BY LoopIsNoThread, ObjectSentinels DEF ObjectTypeOK, Request
  <2>2. QED BY <1>0, <1>1, <1>2, <2>1, PutEffect DEF PutInOrder
<1>3. CASE worker'[Loop] = worker[Loop] /\ files'[worker[Loop].path] = files[worker[Loop].path]
  BY <1>1, <1>3 DEF PutInOrder
<1>4. ASSUME NEW w \in Threads, ThreadStep(w)
      PROVE  worker'[Loop] = worker[Loop] /\ files'[worker[Loop].path] = files[worker[Loop].path]
  <2>1. worker'[Loop] = worker[Loop]
    BY <1>4, ThreadFrame, LoopIsNoThread
  <2>2. worker[Loop].path \in Paths /\ ~Taken(worker[Loop].path)
    BY <1>1, <2>1, RequestOf, LoopIsNoThread, PutUntaken
  <2>3. ~Takes(w, worker[Loop].path)
    BY <2>2 DEF Taken
  <2>4. QED BY <1>4, <2>1, <2>2, <2>3, ThreadTakes
<1>5. ASSUME NEW p \in Paths, Lapse(p)
      PROVE  worker'[Loop] = worker[Loop] /\ UNCHANGED files
  BY <1>5 DEF Lapse
<1>6. ~Crash
  BY CrashFrame, LoopIsNoThread
<1>7. QED BY <1>2, <1>3, <1>4, <1>5, <1>6, StepKinds


\* What is gone stays gone until an upload meets its removal.
LEMMA StepKeepsGone ==
    ASSUME ObjectTypeOK, ObjectTypeOK', StepsInPlace, MeetingsKnown, GoneStaysGone, Step, Watch
    PROVE  GoneStaysGone'
<1>0. rows \in [Paths -> Row \union {NoRow}]
  BY DEF ObjectTypeOK
<1>1. ASSUME worker'[Loop] # Idle, worker'[Loop].step = "loaded", ~worker'[Loop].found
      PROVE  rows'[worker'[Loop].path] = NoRow
  <2> DEFINE p == worker[Loop].path
  <2>1. CASE PutStep
    BY <1>1, <2>1, PutEffect
  <2>2. CASE worker'[Loop] = worker[Loop] /\ (rows'[p] = rows[p] \/ rows'[p] = NoRow)
    BY <1>1, <2>2 DEF GoneStaysGone, At
  <2>3. ASSUME NEW w \in Threads, ThreadStep(w)
        PROVE  worker'[Loop] = worker[Loop] /\ (rows'[p] = rows[p] \/ rows'[p] = NoRow)
    <3>1. worker'[Loop] = worker[Loop]
      BY <2>3, ThreadFrame, LoopIsNoThread
    <3>2. p \in Paths
      BY <1>1, <3>1, RequestOf, LoopIsNoThread
    <3>3. QED BY <2>3, <3>1, <3>2, ThreadTakes
  <2>4. ASSUME NEW q \in Paths, Lapse(q)
        PROVE  worker'[Loop] = worker[Loop] /\ (rows'[p] = rows[p] \/ rows'[p] = NoRow)
    <3>1. worker' = worker /\ rows[q] # NoRow
      BY <2>4 DEF Lapse
    <3>2. rows[p] = NoRow
      BY <1>1, <3>1 DEF GoneStaysGone, At
    <3>3. QED BY <1>0, <2>4, <3>1, <3>2 DEF Lapse
  <2>5. ~Crash
    BY <1>1, CrashFrame, LoopIsNoThread
  <2>6. QED BY <2>1, <2>2, <2>3, <2>4, <2>5, StepKinds
<1>2. ASSUME NEW v \in Threads, NEW p \in Paths, worker'[v] # Idle, worker'[v].path = p,
             \/ worker'[v].step = "delete" /\ ~worker'[v].found
             \/ worker'[v].step \in {"unlink", "remove"},
             "overlap" \notin causes'[p]
      PROVE  rows'[p] = NoRow
  <2>1. ASSUME worker'[v] = worker[v]
        PROVE  rows[p] = NoRow /\ Takes(v, p) /\ ~CleanPut(p)
    <3>1. Takes(v, p)
      BY <1>2, <2>1 DEF Takes, Removing
    <3>2. ~CleanPut(p)
      BY <3>1, CleanPutIs DEF Taken
    <3>3. "overlap" \notin causes[p]
      BY <1>2, <3>2, CausesBefore
    <3>4. QED BY <1>2, <2>1, <3>1, <3>2, <3>3 DEF GoneStaysGone, At, AtEnd
  <2>2. CASE PutStep
    <3>1. worker'[v] = worker[v]
      BY <2>2, PutFrame
    <3>2. rows[p] = NoRow /\ Takes(v, p)
      BY <2>1, <3>1
    <3>3. Putting(p) => "overlap" \in causes[p]
      BY <3>2 DEF MeetingsKnown, Taken
    <3>4. "overlap" \notin causes[p]
      BY <1>2, <2>1, <3>1, CausesBefore
    <3>5. CASE UNCHANGED rows
      BY <3>2, <3>5
    <3>6. CASE /\ worker[Loop] # Idle
               /\ rows' = [rows EXCEPT ![worker[Loop].path] = [sum |-> worker[Loop].sum, past |-> FALSE]]
      <4>1. worker[Loop].path # p
        BY <3>3, <3>4, <3>6 DEF Putting
      <4>2. QED BY <1>0, <3>2, <3>6, <4>1
    <3>7. QED BY <2>2, <3>5, <3>6, PutEffect
  <2>3. ASSUME NEW w \in Threads, ThreadStep(w)
        PROVE  rows'[p] = NoRow
    <3>1. CASE v # w
      <4>1. worker'[v] = worker[v]
        BY <2>3, <3>1, ThreadFrame, LoopIsNoThread
      <4>2. QED BY <2>1, <2>3, <4>1, ThreadTakes
    <3>2. CASE v = w
      <4>1. CASE worker[v] # Idle /\ worker[v].step = "unlink" /\ worker[v].path = p /\ UNCHANGED rows
        <5>1. Takes(v, p)
          BY <4>1 DEF Takes, Removing
        <5>2. ~CleanPut(p)
          BY <5>1, CleanPutIs DEF Taken
        <5>3. "overlap" \notin causes[p]
          BY <1>2, <5>2, CausesBefore
        <5>4. QED BY <4>1, <5>3 DEF GoneStaysGone, At, AtEnd
      <4>2. CASE rows' = [rows EXCEPT ![p] = NoRow]
        BY <1>0, <4>2
      <4>3. CASE worker'[v].step = "delete"
        BY <1>2, <2>3, <3>2, <4>3, ThreadEffect
      <4>4. QED BY <1>2, <2>3, <3>2, <4>1, <4>2, <4>3, ThreadEffect
    <3>3. QED BY <3>1, <3>2
  <2>4. ASSUME NEW q \in Paths, Lapse(q)
        PROVE  rows'[p] = NoRow
    <3>1. worker' = worker /\ rows[q] # NoRow
      BY <2>4 DEF Lapse
    <3>2. rows[p] = NoRow
      BY <2>1, <3>1
    <3>3. QED BY <1>0, <2>4, <3>1, <3>2 DEF Lapse
  <2>5. ~Crash
    BY <1>2, CrashFrame, LoopIsNoThread
  <2>6. QED BY <2>2, <2>3, <2>4, <2>5, StepKinds
<1>3. \A v \in Threads : worker'[v] # Idle => worker'[v].path \in Paths
  BY LoopIsNoThread, ObjectSentinels DEF ObjectTypeOK, Request
<1>4. QED BY <1>1, <1>2, <1>3 DEF GoneStaysGone, At, AtEnd

\* A download that has met nothing reads an object nobody works on.
LEMMA ReaderAlone ==
    ASSUME MeetingsKnown, NEW w \in Threads, worker[w] # Idle, worker[w].step \in {"file", "read"},
           w \notin raced
    PROVE  ~Taken(worker[w].path) /\ ~Putting(worker[w].path)
<1>1. ~Removing(w) /\ w \in Workers /\ w # Loop
  BY LoopIsNoThread DEF Removing
<1>2. QED BY <1>1 DEF MeetingsKnown, Meets

\* What such a download has read of the row stays what the file holds.
LEMMA StepKeepsReads ==
    ASSUME ObjectTypeOK, ObjectTypeOK', StepsInPlace, MeetingsKnown, MeetingsKnown', FilesKept,
           ReadsWhole, Step, Watch
    PROVE  ReadsWhole'
<1>0. files \in [Paths -> Contents \union {NoFile, Torn}] /\ rows \in [Paths -> Row \union {NoRow}]
  BY DEF ObjectTypeOK
<1> SUFFICES ASSUME NEW w \in Threads, worker'[w] # Idle, worker'[w].step \in {"file", "read"},
                    w \notin raced', NEW p \in Paths, worker'[w].path = p, Intact(p)'
             PROVE  files'[p] = worker'[w].sum
  <2>1. \A w \in Threads : worker'[w] # Idle => worker'[w].path \in Paths
    BY LoopIsNoThread, ObjectSentinels DEF ObjectTypeOK, Request
  <2>2. QED BY <2>1 DEF ReadsWhole, At
<1>1. ~Taken(p)' /\ ~Putting(p)'
  <2>1. ~Removing(w)' /\ w \in Workers /\ w # Loop
    BY LoopIsNoThread DEF Removing
  <2>2. QED BY <2>1 DEF MeetingsKnown, Meets
<1>2. ASSUME worker[w] # Idle, worker[w].step \in {"file", "read"}, worker[w].path = p,
             worker[w].sum = worker'[w].sum
      PROVE  files[p] = worker'[w].sum /\ ~Taken(p) /\ ~Putting(p)
  <2>1. w \notin raced
    BY <1>2, RacedChange, LoopIsNoThread
  <2>2. ~Taken(p) /\ ~Putting(p)
    BY <1>2, <2>1, ReaderAlone
  <2>3. Intact(p)
    BY <2>2, CausesBefore DEF CleanPut
  <2>4. QED BY <1>2, <2>1, <2>2, <2>3 DEF ReadsWhole, At
<1>3. CASE PutStep
  <2>1. worker'[w] = worker[w]
    BY <1>3, PutFrame
  <2>2. files[p] = worker'[w].sum /\ ~Putting(p)
    BY <1>2, <2>1
  <2>3. worker'[Loop] # Idle => worker'[Loop].path # p
    BY <1>1 DEF Putting
  <2>4. worker[Loop] # Idle => worker[Loop].path # p
    BY <2>2 DEF Putting
  <2>5. files'[p] = files[p]
    BY <1>0, <1>3, <2>3, <2>4, PutEffect
  <2>6. QED BY <2>2, <2>5
<1>4. ASSUME NEW v \in Threads, ThreadStep(v)
      PROVE  files'[p] = worker'[w].sum
  <2>1. CASE /\ worker[w] # Idle /\ worker[w].step \in {"file", "read"} /\ worker[w].path = p
             /\ worker[w].sum = worker'[w].sum
    <3>1. files[p] = worker'[w].sum /\ ~Takes(v, p)
      BY <1>2, <2>1 DEF Taken
    <3>2. QED BY <1>4, <3>1, ThreadTakes
  <2>2. CASE /\ v = w /\ worker[w] = Idle /\ UNCHANGED files
             /\ rows[p] # NoRow /\ worker'[w].sum = rows[p].sum
    <3>1. worker'[Loop] = worker[Loop]
      BY <1>4, ThreadFrame, LoopIsNoThread
    <3>2. ~Putting(p)
      BY <1>1, <3>1 DEF Putting
    <3>3. Intact(p)
      BY <3>2, CausesBefore DEF CleanPut
    <3>4. ~HalfRemoved(p)
      <4>1. SUFFICES ASSUME NEW x \in Threads, AtEnd(x), worker[x].path = p
                     PROVE  FALSE
        BY DEF HalfRemoved
      <4>2. x # v /\ worker'[x] = worker[x]
        BY <1>4, <2>2, <4>1, ThreadFrame, LoopIsNoThread DEF AtEnd, At
      <4>3. Takes(x, p)'
        BY <4>1, <4>2 DEF Takes, Removing, AtEnd, At
      <4>4. QED BY <1>1, <4>3 DEF Taken
    <3>5. files[p] = rows[p].sum
      BY <2>2, <3>2, <3>3, <3>4 DEF FilesKept, Whole
    <3>6. QED BY <2>2, <3>5
  <2>3. CASE v # w
    BY <1>4, <2>1, <2>3, ThreadFrame, LoopIsNoThread
  <2>4. CASE v = w
    BY <1>4, <2>1, <2>2, <2>4, ThreadEffect
  <2>5. QED BY <2>3, <2>4
<1>5. ASSUME NEW q \in Paths, Lapse(q)
      PROVE  files'[p] = worker'[w].sum
  BY <1>2, <1>5 DEF Lapse
<1>6. ~Crash
  BY CrashFrame, LoopIsNoThread
<1>7. QED BY <1>3, <1>4, <1>5, <1>6, StepKinds


\* The files of paths nothing has parted stay with their rows.
LEMMA StepKeepsFiles ==
    ASSUME ObjectTypeOK, ObjectTypeOK', DirsHoldNoFile, StepsInPlace, MeetingsKnown, PutInOrder,
           FilesKept, GoneStaysGone, Step, Watch
    PROVE  FilesKept'
<1> SUFFICES ASSUME NEW p \in Paths, Intact(p)', ~Putting(p)'
             PROVE  Whole(p)' \/ HalfRemoved(p)'
  BY DEF FilesKept
<1>0. /\ files \in [Paths -> Contents \union {NoFile, Torn}]
      /\ rows \in [Paths -> Row \union {NoRow}]
  BY DEF ObjectTypeOK
<1>1. ~CleanPut(p) => Intact(p)
  BY CausesBefore
<1>2. ASSUME ~Putting(p)
      PROVE  Whole(p) \/ HalfRemoved(p)
  BY <1>1, <1>2 DEF FilesKept, CleanPut
<1>3. ASSUME HalfRemoved(p), \A w \in Threads : worker'[w] = worker[w]
      PROVE  HalfRemoved(p)'
  BY <1>3 DEF HalfRemoved, AtEnd, At
<1>4. ASSUME Whole(p), files'[p] = files[p], rows'[p] = rows[p]
      PROVE  Whole(p)'
  BY <1>4 DEF Whole
<1>5. CASE PutStep
  <2> DEFINE r == worker[Loop]
             s == worker'[Loop]
  <2>1. \A w \in Threads : worker'[w] = worker[w]
    BY <1>5, PutFrame
  <2>2. CASE ~Putting(p)
    <3>1. r # Idle => r.path # p
      BY <2>2 DEF Putting
    <3>2. s # Idle => s.path # p
      BY DEF Putting
    <3>3. files'[p] = files[p] /\ rows'[p] = rows[p]
      BY <1>0, <1>5, <3>1, <3>2, PutEffect
    <3>4. QED BY <1>2, <1>3, <1>4, <2>1, <2>2, <3>3
  <2>3. CASE Putting(p)
    <3>1. r # Idle /\ r.path = p
      BY <2>3 DEF Putting
    <3>2. s = Idle
      <4>1. s # Idle => s.path = p
        BY <3>1, PutGoesOn
      <4>2. QED BY <4>1 DEF Putting
    <3>3. r.step = "loaded" /\ answer' = "Stored"
      <4>1. answer' # "Stored" => ~Intact(p)'
        BY <2>3, Spoiling
      <4>2. QED BY <1>5, <3>1, <3>2, <4>1, PutEffect
    <3>4. Loop \notin raced
      <4>1. Loop \in raced => "overlap" \in causes[p] /\ ~CleanPut(p)
        BY <2>3 DEF MeetingsKnown, CleanPut
      <4>2. Intact(p) => "overlap" \notin causes[p]
        BY DEF Intact
      <4>3. QED BY <1>1, <4>1, <4>2
    <3>5. files[p] = r.sum
      BY <3>1, <3>3, <3>4 DEF PutInOrder
    <3>6. files'[p] = files[p] /\ rows'[p] = [sum |-> r.sum, past |-> FALSE]
      BY <1>0, <1>5, <3>1, <3>2, <3>3, PutEffect
    <3>7. rows'[p] # NoRow
      <4>1. r.sum \in Contents
        BY <3>1, RequestOf, LoopIsNoThread
      <4>2. [sum |-> r.sum, past |-> FALSE] \in Row
        BY <4>1 DEF Row
      <4>3. QED BY <3>6, <4>2, ObjectSentinels
    <3>8. QED BY <3>5, <3>6, <3>7 DEF Whole
  <2>4. QED BY <2>2, <2>3
<1>6. ASSUME NEW w \in Threads, ThreadStep(w)
      PROVE  Whole(p)' \/ HalfRemoved(p)'
  <2> DEFINE r == worker[w]
             s == worker'[w]
  <2>1. /\ worker'[Loop] = worker[Loop]
        /\ \A v \in Threads : v # w => worker'[v] = worker[v]
    BY <1>6, ThreadFrame, LoopIsNoThread
  <2>2. ~Putting(p)
    BY <2>1 DEF Putting
  <2>3. Intact(p) /\ (Whole(p) \/ HalfRemoved(p))
    BY <1>1, <1>2, <2>2 DEF CleanPut
  <2>4. ASSUME NEW v \in Threads, AtEnd(v), worker[v].path = p, v # w
        PROVE  HalfRemoved(p)'
    BY <2>1, <2>4 DEF HalfRemoved, AtEnd, At
  <2>5. CASE s # Idle /\ s.step \in {"unlink", "remove"} /\ s.path = p
    BY <2>5 DEF HalfRemoved, AtEnd, At
  <2>6. CASE /\ ~(AtEnd(w) /\ r.path = p)
             /\ files'[p] = files[p] /\ rows'[p] = rows[p]
    BY <1>4, <2>3, <2>4, <2>6 DEF HalfRemoved
  <2>7. CASE AtEnd(w) /\ r.path = p /\ ~(s # Idle /\ s.step \in {"unlink", "remove"} /\ s.path = p)
    <3>1. rows[p] = NoRow
      BY <2>3, <2>7 DEF GoneStaysGone, Intact
    <3>2. UNCHANGED rows
      BY <1>6, <2>7, ThreadEffect DEF AtEnd, At
    <3>3. files'[p] = NoFile
      <4>1. CASE r.step = "unlink" /\ Gone(p) /\ UNCHANGED files
        BY <4>1 DEF Gone
      <4>2. CASE files' = [q \in Paths |-> IF q \in Removed(p) THEN NoFile ELSE files[q]]
        <5>1. p \in dirs => files[p] = NoFile
          BY DEF DirsHoldNoFile
        <5>2. QED BY <4>2, <5>1 DEF Removed
      <4>3. QED BY <1>6, <2>7, <4>1, <4>2, ThreadEffect DEF AtEnd, At
    <3>4. QED BY <3>1, <3>2, <3>3 DEF Whole
  <2>8. CASE ~AtEnd(w) \/ r.path # p
    <3>1. CASE files'[p] # files[p]
      <4>1. r # Idle /\ r.step = "remove" /\ r.path # p /\ Takes(w, p)
        BY <1>6, <2>8, <3>1, ThreadTakes DEF Takes, Removing, AtEnd, At
      <4>2. files' = [q \in Paths |-> IF q \in Removed(r.path) THEN NoFile ELSE files[q]]
        BY <1>6, <4>1, ThreadEffect
      <4>3. p \in Beneath[r.path] /\ files'[p] = NoFile
        BY <3>1, <4>1, <4>2 DEF Removed
      <4>4. ~Intact(p)'
        BY <3>1, <4>1, <4>3, Spoiling DEF At
      <4>5. QED BY <4>4
    <3>2. CASE rows'[p] # rows[p]
      <4>1. \/ s # Idle /\ s.step = "unlink" /\ rows' = [rows EXCEPT ![s.path] = NoRow]
            \/ UNCHANGED rows
        BY <1>6, ThreadEffect
      <4>2. s # Idle /\ s.step = "unlink" /\ s.path = p
        BY <1>0, <3>2, <4>1
      <4>3. QED BY <2>5, <4>2
    <3>3. QED BY <2>6, <2>8, <3>1, <3>2
  <2>9. QED BY <2>5, <2>7, <2>8
<1>7. ASSUME NEW q \in Paths, Lapse(q)
      PROVE  Whole(p)' \/ HalfRemoved(p)'
  <2>1. worker' = worker /\ UNCHANGED files /\ rows[q] # NoRow
    BY <1>7 DEF Lapse
  <2>2. Whole(p) \/ HalfRemoved(p)
    BY <1>2, <2>1 DEF Putting
  <2>3. rows'[p] = NoRow <=> rows[p] = NoRow
    <3>1. rows'[q] \in Row
      BY <1>0, <1>7 DEF Lapse, Row
    <3>2. QED BY <1>0, <1>7, <2>1, <3>1, ObjectSentinels DEF Lapse
  <2>4. rows[p] # NoRow => rows'[p].sum = rows[p].sum
    BY <1>0, <1>7 DEF Lapse, Row
  <2>5. Whole(p) => Whole(p)'
    BY <2>1, <2>3, <2>4 DEF Whole
  <2>6. QED BY <1>3, <2>1, <2>2, <2>5
<1>8. CASE Crash
  <2>1. /\ \A w \in Workers : worker'[w] = Idle
        /\ answer' = "None" /\ UNCHANGED <<rows, files>>
    BY <1>8, CrashFrame
  <2>2. ~Putting(p)
    BY <2>1, Spoiling
  <2>3. ~HalfRemoved(p)
    <3>1. SUFFICES ASSUME NEW w \in Threads, AtEnd(w), worker[w].path = p
                   PROVE  FALSE
      BY DEF HalfRemoved
    <3>2. Takes(w, p) /\ worker'[w] = Idle
      BY <2>1, <3>1, LoopIsNoThread DEF Takes, Removing, AtEnd, At
    <3>3. QED BY <2>1, <3>1, <3>2, Spoiling
  <2>4. QED BY <1>2, <1>4, <2>1, <2>2, <2>3
<1>9. QED BY <1>5, <1>6, <1>7, <1>8, StepKinds


-----------------------------------------------------------------------------
(* The log.                                                                *)

\* One more event, of one path.
LEMMA Logged ==
    ASSUME ObjectTypeOK, NEW q \in Paths, NEW type, Log(type, q)
    PROVE  LET n == Len(events) + 1
           IN  /\ n \in Nat /\ \A i \in DOMAIN events : i < n /\ i \in Nat
               /\ DOMAIN events' = DOMAIN events \union {n}
               /\ \A i \in DOMAIN events : events'[i] = events[i]
               /\ events'[n].type = type /\ events'[n].path = q
               /\ \A p \in Paths : EventsOf(p)' = IF p = q THEN EventsOf(p) \union {n} ELSE EventsOf(p)
<1> DEFINE n == Len(events) + 1
           event == [type |-> type, path |-> q]
<1>1. events' = Append(events, event) /\ events \in Seq(Event)
  BY DEF Log, ObjectTypeOK
<1>2. /\ n \in Nat /\ \A i \in DOMAIN events : i < n /\ i \in Nat
      /\ DOMAIN events' = DOMAIN events \union {n}
      /\ \A i \in DOMAIN events : events'[i] = events[i]
      /\ events'[n] = event
  <2> HIDE DEF event
  <2>1. Len(events) \in Nat /\ DOMAIN events = 1..Len(events)
    BY <1>1
  <2>2. DOMAIN events' = 1..n /\ \A i \in 1..Len(events) : events'[i] = events[i]
    BY <1>1, <2>1, AppendProperties
  <2>3. events'[n] = event
    BY <1>1, AppendProperties
  <2>4. QED BY <2>1, <2>2, <2>3
<1>3. events'[n].type = type /\ events'[n].path = q
  BY <1>2
<1> HIDE DEF n, event
<1>4. ASSUME NEW p \in Paths
      PROVE  EventsOf(p)' = IF p = q THEN EventsOf(p) \union {n} ELSE EventsOf(p)
  BY <1>2, <1>3 DEF EventsOf
<1>5. QED BY <1>2, <1>3, <1>4 DEF n

\* A path lives on while it is not told deleted, and begins to live when told created.
LEMMA LivesOn ==
    ASSUME ObjectTypeOK, NEW q \in Paths, NEW type, Log(type, q), NEW p \in Paths
    PROVE  /\ p # q \/ type # "DELETED" => (Lives(p) => Lives(p)')
           /\ p = q /\ type = "CREATE" => Lives(p)'
<1> DEFINE n == Len(events) + 1
<1>1. /\ n \in Nat /\ \A i \in DOMAIN events : i < n /\ i \in Nat
      /\ \A i \in DOMAIN events : events'[i] = events[i]
      /\ events'[n].type = type
      /\ EventsOf(p)' = IF p = q THEN EventsOf(p) \union {n} ELSE EventsOf(p)
  BY Logged
<1>2. EventsOf(p) \subseteq DOMAIN events
  BY DEF EventsOf
<1> HIDE DEF n
<1>3. ASSUME p # q \/ type # "DELETED", Lives(p)
      PROVE  Lives(p)'
  BY <1>1, <1>2, <1>3 DEF Lives
<1>4. ASSUME p = q, type = "CREATE"
      PROVE  Lives(p)'
  BY <1>1, <1>2, <1>4 DEF Lives
<1>5. QED BY <1>3, <1>4

\* Without an event a path lives as it did.
LEMMA LivesSame ==
    ASSUME UNCHANGED events, NEW p
    PROVE  Lives(p)' <=> Lives(p)
BY DEF Lives, EventsOf

\* What the rows hold and the one removal of it found was created since last deleted.
LEMMA StepKeepsLives ==
    ASSUME ObjectTypeOK, ObjectTypeOK', StepsInPlace, MeetingsKnown, GoneStaysGone, FoundLives,
           Step, Watch
    PROVE  FoundLives'
<1>0. rows \in [Paths -> Row \union {NoRow}] /\ rows' \in [Paths -> Row \union {NoRow}]
  BY DEF ObjectTypeOK
<1> SUFFICES ASSUME NEW p \in Paths, "removals" \notin causes'[p]
             PROVE  /\ rows'[p] # NoRow => Lives(p)'
                    /\ \A v \in Threads : worker'[v] # Idle =>
                          /\ worker'[v].step = "delete" /\ worker'[v].path = p /\ worker'[v].found
                                => Lives(p)'
                          /\ p \in worker'[v].todo => Lives(p)'
  BY DEF FoundLives, At
<1>1. /\ "removals" \notin causes[p]
      /\ rows[p] # NoRow => Lives(p)
      /\ \A v \in Threads : worker[v] # Idle =>
            /\ worker[v].step = "delete" /\ worker[v].path = p /\ worker[v].found => Lives(p)
            /\ p \in worker[v].todo => Lives(p)
  <2>1. "removals" \notin causes[p]
    BY CausesChange
  <2>2. QED BY <2>1 DEF FoundLives, At
<1>2. ASSUME Lives(p) => Lives(p)', rows'[p] # NoRow => rows[p] # NoRow \/ Lives(p)',
             \A v \in Threads : worker'[v] # Idle => worker'[v] = worker[v]
      PROVE  /\ rows'[p] # NoRow => Lives(p)'
             /\ \A v \in Threads : worker'[v] # Idle =>
                   /\ worker'[v].step = "delete" /\ worker'[v].path = p /\ worker'[v].found
                         => Lives(p)'
                   /\ p \in worker'[v].todo => Lives(p)'
  BY <1>1, <1>2
<1>3. CASE PutStep
  <2> DEFINE r == worker[Loop]
  <2>1. \A w \in Threads : worker'[w] = worker[w]
    BY <1>3, PutFrame
  <2>2. CASE UNCHANGED <<rows, events>>
    BY <1>2, <2>1, <2>2, LivesSame
  <2>3. CASE /\ r # Idle /\ r.step = "loaded"
             /\ rows' = [rows EXCEPT ![r.path] = [sum |-> r.sum, past |-> FALSE]]
             /\ r.found => rows[r.path] # NoRow
             /\ Log(IF r.found THEN "UPDATE" ELSE "CREATE", r.path)
    <3>1. r.path \in Paths
      BY <2>3, RequestOf, LoopIsNoThread
    <3>2. Lives(p) => Lives(p)'
      BY <2>3, <3>1, LivesOn
    <3>3. rows'[p] # NoRow => rows[p] # NoRow \/ Lives(p)'
      <4>1. CASE r.path # p
        BY <1>0, <2>3, <4>1
      <4>2. CASE r.path = p /\ r.found
        BY <2>3, <4>2
      <4>3. CASE r.path = p /\ ~r.found
        BY <2>3, <4>3, LivesOn
      <4>4. QED BY <4>1, <4>2, <4>3
    <3>4. QED BY <1>2, <2>1, <3>2, <3>3
  <2>4. QED BY <1>3, <2>2, <2>3, PutEffect
<1>4. ASSUME NEW w \in Threads, ThreadStep(w)
      PROVE  /\ rows'[p] # NoRow => Lives(p)'
             /\ \A v \in Threads : worker'[v] # Idle =>
                   /\ worker'[v].step = "delete" /\ worker'[v].path = p /\ worker'[v].found
                         => Lives(p)'
                   /\ p \in worker'[v].todo => Lives(p)'
  <2> DEFINE r == worker[w]
             s == worker'[w]
  <2>1. \A v \in Threads : v # w => worker'[v] = worker[v]
    BY <1>4, ThreadFrame, LoopIsNoThread
  <2>2. rows'[p] # NoRow => rows'[p] = rows[p]
    BY <1>4, ThreadTakes
  <2>3. s # Idle => /\ s.path \in Paths
                    /\ s.step = "delete" /\ s.path = p /\ s.found => rows[p] # NoRow
                    /\ p \in s.todo => rows[p] # NoRow \/ (r # Idle /\ p \in r.todo)
    <3>1. s # Idle => s.path \in Paths
      BY LoopIsNoThread, ObjectSentinels DEF ObjectTypeOK, Request
    <3>2. QED BY <1>4, <3>1, ThreadEffect
  <2>4. CASE Lives(p) => Lives(p)'
    BY <1>1, <2>1, <2>2, <2>3, <2>4
  <2>5. CASE ~(Lives(p) => Lives(p)')
    <3>1. /\ s # Idle /\ s.step = "unlink" /\ Log("DELETED", s.path)
          /\ rows' = [rows EXCEPT ![s.path] = NoRow]
          /\ \/ r # Idle /\ r.step = "prune" /\ s.path \in r.todo /\ s.todo = r.todo \ {s.path}
             \/ r # Idle /\ r.step = "delete" /\ s.path = r.path /\ s.todo = r.todo
      <4>1. ~UNCHANGED events
        BY <2>5, LivesSame
      <4>2. QED BY <1>4, <4>1, ThreadEffect
    <3>2. s.path = p
      BY <2>3, <2>5, <3>1, LivesOn
    <3>3. rows'[p] = NoRow
      BY <1>0, <3>1, <3>2
    <3>4. Takes(w, p)
      BY <3>1, <3>2 DEF Takes, Removing
    <3>5. ASSUME NEW v \in Threads, v # w, worker'[v] # Idle
          PROVE  ~(worker'[v].step = "delete" /\ worker'[v].path = p) /\ p \notin worker'[v].todo
      <4>1. worker'[v] = worker[v] /\ ~Takes(v, p)
        BY <1>1, <2>1, <3>4, <3>5 DEF MeetingsKnown
      <4>2. worker[v].todo # {} => Removing(v)
        BY <3>5, <4>1 DEF StepsInPlace
      <4>3. QED BY <3>5, <4>1, <4>2 DEF Takes, Removing
    <3>6. p \notin s.todo
      <4>1. r.step = "delete" => r.todo = {}
        BY <3>1 DEF StepsInPlace
      <4>2. QED BY <3>1, <3>2, <4>1
    <3>7. QED BY <3>1, <3>3, <3>5, <3>6
  <2>6. QED BY <2>4, <2>5
<1>5. ASSUME NEW q \in Paths, Lapse(q)
      PROVE  /\ Lives(p) => Lives(p)'
             /\ rows'[p] # NoRow => rows[p] # NoRow
             /\ worker' = worker
  BY <1>0, <1>5, LivesSame DEF Lapse
<1>6. CASE Crash
  BY <1>2, <1>6, CrashFrame, LivesSame, LoopIsNoThread
<1>7. QED BY <1>2, <1>3, <1>4, <1>5, <1>6, StepKinds


\* The last event of a path is none that deletes it.
LastLives(p) == \E i \in EventsOf(p) : /\ \A j \in EventsOf(p) : j <= i
                                       /\ events[i].type # "DELETED"

\* Between two events that delete a path there is one that creates it.
OncePerLife(p) == \A i, j \in EventsOf(p) :
    (i < j /\ events[i].type = "DELETED" /\ events[j].type = "DELETED") =>
        \E k \in EventsOf(p) : i < k /\ k < j /\ events[k].type = "CREATE"

\* What the last event tells after one more.
LEMMA LastAfter ==
    ASSUME ObjectTypeOK, NEW q \in Paths, NEW type, Log(type, q), NEW p \in Paths
    PROVE  /\ p = q => (LastLives(p)' <=> type # "DELETED")
           /\ p # q => (LastLives(p)' <=> LastLives(p))
<1> DEFINE n == Len(events) + 1
<1>1. /\ n \in Nat /\ \A i \in DOMAIN events : i < n /\ i \in Nat
      /\ \A i \in DOMAIN events : events'[i] = events[i]
      /\ events'[n].type = type
      /\ EventsOf(p)' = IF p = q THEN EventsOf(p) \union {n} ELSE EventsOf(p)
  BY Logged
<1>2. EventsOf(p) \subseteq DOMAIN events
  BY DEF EventsOf
<1> HIDE DEF n
<1>3. CASE p = q
  BY <1>1, <1>2, <1>3 DEF LastLives
<1>4. CASE p # q
  BY <1>1, <1>2, <1>4 DEF LastLives
<1>5. QED BY <1>3, <1>4

\* One more event keeps the deletions of a path apart, if it lived when it is told deleted.
LEMMA OnceAfter ==
    ASSUME ObjectTypeOK, NEW q \in Paths, NEW type, Log(type, q), NEW p \in Paths,
           OncePerLife(p), p = q /\ type = "DELETED" => Lives(p)
    PROVE  OncePerLife(p)'
<1> DEFINE n == Len(events) + 1
<1>1. /\ n \in Nat /\ \A i \in DOMAIN events : i < n /\ i \in Nat
      /\ \A i \in DOMAIN events : events'[i] = events[i]
      /\ events'[n].type = type
      /\ EventsOf(p)' = IF p = q THEN EventsOf(p) \union {n} ELSE EventsOf(p)
  BY Logged
<1>2. EventsOf(p) \subseteq DOMAIN events
  BY DEF EventsOf
<1> HIDE DEF n
<1> SUFFICES ASSUME NEW i \in EventsOf(p)', NEW j \in EventsOf(p)',
                    i < j, events'[i].type = "DELETED", events'[j].type = "DELETED"
             PROVE  \E k \in EventsOf(p)' : i < k /\ k < j /\ events'[k].type = "CREATE"
  BY DEF OncePerLife
<1>3. i \in EventsOf(p)
  BY <1>1, <1>2
<1>4. CASE j \in EventsOf(p)
  <2>1. PICK k \in EventsOf(p) : i < k /\ k < j /\ events[k].type = "CREATE"
    BY <1>1, <1>2, <1>3, <1>4 DEF OncePerLife
  <2>2. QED BY <1>1, <1>2, <2>1
<1>5. CASE j \notin EventsOf(p)
  <2>1. j = n /\ p = q /\ type = "DELETED"
    BY <1>1, <1>5
  <2>2. PICK k \in EventsOf(p) : /\ events[k].type = "CREATE"
                                 /\ \A d \in EventsOf(p) : events[d].type = "DELETED" => d < k
    BY <2>1 DEF Lives
  <2>3. i < k /\ k < j
    BY <1>1, <1>2, <1>3, <2>1, <2>2
  <2>4. QED BY <1>1, <1>2, <2>2, <2>3
<1>6. QED BY <1>4, <1>5

\* Without an event the log tells what it did.
LEMMA TellsSame ==
    ASSUME UNCHANGED events, NEW p
    PROVE  (LastLives(p)' <=> LastLives(p)) /\ (OncePerLife(p)' <=> OncePerLife(p))
BY DEF LastLives, OncePerLife, EventsOf

\* Every step leaves the log telling which objects live.
LEMMA StepKeepsLog ==
    ASSUME ObjectTypeOK, ObjectTypeOK', StepsInPlace, MeetingsKnown, GoneStaysGone, FoundLives,
           LogTellsLives, Step, Watch
    PROVE  LogTellsLives'
<1>0. rows \in [Paths -> Row \union {NoRow}] /\ rows' \in [Paths -> Row \union {NoRow}]
  BY DEF ObjectTypeOK
<1> SUFFICES ASSUME NEW p \in Paths
             PROVE  /\ "overlap" \notin causes'[p] => (rows'[p] # NoRow <=> LastLives(p)')
                    /\ "removals" \notin causes'[p] => OncePerLife(p)'
  BY DEF LogTellsLives, LastLives, OncePerLife
<1>1. /\ "overlap" \notin causes[p] => (rows[p] # NoRow <=> LastLives(p))
      /\ "removals" \notin causes[p] => OncePerLife(p)
  BY DEF LogTellsLives, LastLives, OncePerLife
<1>2. /\ "overlap" \notin causes'[p] /\ ~CleanPut(p) => (rows[p] # NoRow <=> LastLives(p))
      /\ "removals" \notin causes'[p] => "removals" \notin causes[p] /\ OncePerLife(p)
  BY <1>1, CausesBefore, CausesChange
<1>3. ASSUME ~CleanPut(p), UNCHANGED events, rows'[p] # NoRow <=> rows[p] # NoRow
      PROVE  /\ "overlap" \notin causes'[p] => (rows'[p] # NoRow <=> LastLives(p)')
             /\ "removals" \notin causes'[p] => OncePerLife(p)'
  BY <1>2, <1>3, TellsSame
<1>4. CASE PutStep
  <2> DEFINE r == worker[Loop]
  <2>1. CASE /\ r # Idle /\ r.step = "loaded" /\ worker'[Loop] = Idle /\ answer' = "Stored"
             /\ rows' = [rows EXCEPT ![r.path] = [sum |-> r.sum, past |-> FALSE]]
             /\ Log(IF r.found THEN "UPDATE" ELSE "CREATE", r.path)
    <3> DEFINE type == IF r.found THEN "UPDATE" ELSE "CREATE"
    <3>1. r.path \in Paths /\ r.sum \in Contents
      BY <2>1, RequestOf, LoopIsNoThread
    <3>2. type # "DELETED" /\ Log(type, r.path)
      BY <2>1
    <3> HIDE DEF type
    <3>3. "removals" \notin causes'[p] => OncePerLife(p)'
      BY <1>2, <3>1, <3>2, OnceAfter
    <3>4. CASE p = r.path
      <4>1. rows'[p] # NoRow
        <5>1. [sum |-> r.sum, past |-> FALSE] \in Row
          BY <3>1 DEF Row
        <5>2. QED BY <1>0, <2>1, <3>4, <5>1, ObjectSentinels
      <4>2. LastLives(p)'
        BY <3>1, <3>2, <3>4, LastAfter
      <4>3. QED BY <3>3, <4>1, <4>2
    <3>5. CASE p # r.path
      <4>1. ~CleanPut(p)
        BY <3>5 DEF CleanPut, Putting
      <4>2. rows'[p] = rows[p]
        BY <1>0, <2>1, <3>5
      <4>3. LastLives(p)' <=> LastLives(p)
        BY <3>1, <3>2, <3>5, LastAfter
      <4>4. QED BY <1>2, <3>3, <4>1, <4>2, <4>3
    <3>6. QED BY <3>4, <3>5
  <2>2. CASE UNCHANGED <<rows, events>>
    <3>1. ~CleanPut(p)
      <4>1. SUFFICES ASSUME CleanPut(p)
                     PROVE  FALSE
        OBVIOUS
      <4>2. r # Idle /\ r.step = "loaded" /\ worker'[Loop] = Idle /\ answer' = "Stored"
        BY <4>1, CleanPutIs DEF CleanPut
      <4>3. Log(IF r.found THEN "UPDATE" ELSE "CREATE", r.path) /\ r.path \in Paths
        BY <1>4, <4>2, PutEffect, RequestOf, LoopIsNoThread
      <4> DEFINE n == Len(events) + 1
                 type == IF r.found THEN "UPDATE" ELSE "CREATE"
      <4> HIDE DEF type
      <4>4. n \notin DOMAIN events /\ DOMAIN events' = DOMAIN events \union {n}
        <5>1. Log(type, r.path)
          BY <4>3 DEF type
        <5>2. /\ n \in Nat /\ \A i \in DOMAIN events : i < n /\ i \in Nat
              /\ DOMAIN events' = DOMAIN events \union {n}
          BY <4>3, <5>1, Logged
        <5>3. QED BY <5>2
      <4>5. QED BY <2>2, <4>4
    <3>2. QED BY <1>3, <2>2, <3>1
  <2>3. QED BY <1>4, <2>1, <2>2, PutEffect
<1>5. ASSUME NEW w \in Threads, ThreadStep(w)
      PROVE  /\ "overlap" \notin causes'[p] => (rows'[p] # NoRow <=> LastLives(p)')
             /\ "removals" \notin causes'[p] => OncePerLife(p)'
  <2> DEFINE r == worker[w]
             s == worker'[w]
  <2>1. ~CleanPut(p)
    BY <1>5, ThreadAnswer DEF CleanPut
  <2>2. CASE UNCHANGED <<rows, events>>
    BY <1>3, <2>1, <2>2
  <2>3. CASE /\ s # Idle /\ rows' = [rows EXCEPT ![s.path] = NoRow] /\ Log("DELETED", s.path)
             /\ r # Idle
             /\ \/ r.step = "prune" /\ s.path \in r.todo
                \/ r.step = "delete" /\ s.path = r.path /\ r.found
    <3>1. s.path \in Paths
      BY <2>3, LoopIsNoThread, ObjectSentinels DEF ObjectTypeOK, Request
    <3>2. "overlap" \notin causes'[p] => (rows'[p] # NoRow <=> LastLives(p)')
      <4>1. CASE p = s.path
        BY <1>0, <2>3, <3>1, <4>1, LastAfter
      <4>2. CASE p # s.path
        BY <1>0, <1>2, <2>1, <2>3, <3>1, <4>2, LastAfter
      <4>3. QED BY <4>1, <4>2
    <3>3. ASSUME "removals" \notin causes'[p]
          PROVE  OncePerLife(p)'
      <4>1. "removals" \notin causes[p] /\ OncePerLife(p)
        BY <1>2, <3>3
      <4>2. p = s.path => Lives(p)
        BY <2>3, <4>1 DEF FoundLives, At
      <4>3. QED BY <2>3, <3>1, <4>1, <4>2, OnceAfter
    <3>4. QED BY <3>2, <3>3
  <2>4. CASE /\ r # Idle /\ r.step = "delete" /\ s.path = r.path /\ ~r.found
             /\ rows' = [rows EXCEPT ![s.path] = NoRow] /\ UNCHANGED events
    <3>1. CASE p # s.path
      BY <1>0, <1>3, <2>1, <2>4, <3>1
    <3>2. CASE p = s.path
      <4>1. "overlap" \notin causes'[p] => rows[p] = NoRow /\ rows'[p] = NoRow
        BY <1>0, <2>1, <2>4, <3>2, CausesBefore DEF GoneStaysGone, At
      <4>2. QED BY <1>2, <2>1, <2>4, <4>1, TellsSame
    <3>3. QED BY <3>1, <3>2
  <2>5. QED BY <1>5, <2>2, <2>3, <2>4, ThreadEffect
<1>6. ASSUME NEW q \in Paths, Lapse(q)
      PROVE  ~CleanPut(p) /\ UNCHANGED events /\ (rows'[p] # NoRow <=> rows[p] # NoRow)
  <2>1. worker' = worker /\ rows[q] # NoRow /\ UNCHANGED events
    BY <1>6 DEF Lapse
  <2>2. rows'[q] \in Row
    BY <1>0, <1>6 DEF Lapse, Row
  <2>3. rows'[p] # NoRow <=> rows[p] # NoRow
    BY <1>0, <1>6, <2>1, <2>2, ObjectSentinels DEF Lapse
  <2>4. ~CleanPut(p)
    BY <1>6, CleanPutIs, <2>1
  <2>5. QED BY <2>1, <2>3, <2>4
<1>7. CASE Crash
  BY <1>3, <1>7, CrashFrame DEF CleanPut
<1>8. QED BY <1>3, <1>4, <1>5, <1>6, <1>7, StepKinds

-----------------------------------------------------------------------------
(* The theorems.                                                           *)

\* No request, no object and no event at first.
LEMMA InitObjectInv == Init => ObjectInv
<1> SUFFICES ASSUME Init
             PROVE  ObjectInv
  OBVIOUS
<1>1. ObjectTypeOK
  BY DEF Init, ObjectTypeOK
<1>2. /\ \A w \in Workers : worker[w] = Idle
      /\ \A p \in Paths : rows[p] = NoRow /\ files[p] = NoFile
      /\ dirs = {} /\ events = <<>>
  BY DEF Init
<1>3. DirsHoldNoFile /\ StepsInPlace /\ PutInOrder /\ ReadsWhole /\ GoneStaysGone
  BY <1>2, LoopIsNoThread
     DEF DirsHoldNoFile, StepsInPlace, PutInOrder, ReadsWhole, GoneStaysGone, At, AtEnd
<1>4. MeetingsKnown
  BY <1>2, LoopIsNoThread DEF MeetingsKnown, Meets, Putting, Takes, Removing
<1>5. FilesKept /\ FoundLives
  BY <1>2, LoopIsNoThread DEF FilesKept, Whole, FoundLives, At
<1>6. \A p \in Paths : EventsOf(p) = {}
  BY <1>2 DEF EventsOf
<1>7. LogTellsLives
  BY <1>2, <1>6 DEF LogTellsLives
<1>8. QED BY <1>1, <1>3, <1>4, <1>5, <1>7 DEF ObjectInv

\* Nothing moves without a step.
LEMMA StutterKeepsObjects ==
    ASSUME ObjectInv, UNCHANGED objectVars
    PROVE  ObjectInv'
<1>1. ObjectTypeOK' /\ DirsHoldNoFile' /\ StepsInPlace' /\ PutInOrder' /\ ReadsWhole' /\ GoneStaysGone'
  BY DEF ObjectInv, objectVars, ObjectTypeOK, DirsHoldNoFile, StepsInPlace, PutInOrder, ReadsWhole,
         GoneStaysGone, At, AtEnd, Intact, Removing
<1>2. MeetingsKnown'
  BY DEF ObjectInv, objectVars, MeetingsKnown, Meets, Putting, Taken, Takes, Removing
<1>3. FilesKept' /\ FoundLives'
  BY DEF ObjectInv, objectVars, FilesKept, Whole, HalfRemoved, Intact, Putting, FoundLives, Lives,
         EventsOf, At, AtEnd
<1>4. LogTellsLives'
  BY DEF ObjectInv, objectVars, LogTellsLives, EventsOf
<1>5. QED BY <1>1, <1>2, <1>3, <1>4 DEF ObjectInv

\* Every step keeps the invariant.
LEMMA StepKeepsObjects == ObjectInv /\ [Next]_objectVars => ObjectInv'
<1> SUFFICES ASSUME ObjectInv, [Next]_objectVars
             PROVE  ObjectInv'
  OBVIOUS
<1>1. CASE UNCHANGED objectVars
  BY <1>1, StutterKeepsObjects
<1>2. CASE Step /\ Watch
  <2>1. ObjectTypeOK'
    BY StepKeepsTypes DEF ObjectInv
  <2>2. StepsInPlace' /\ DirsHoldNoFile'
    BY <1>2, <2>1, StepKeepsPlace, StepKeepsDirs DEF ObjectInv
  <2>3. MeetingsKnown'
    BY <1>2, <2>1, <2>2, StepKeepsMeetings DEF ObjectInv
  <2>4. PutInOrder' /\ GoneStaysGone' /\ FilesKept' /\ FoundLives' /\ LogTellsLives'
    BY <1>2, <2>1, StepKeepsPut, StepKeepsGone, StepKeepsFiles, StepKeepsLives, StepKeepsLog
       DEF ObjectInv
  <2>5. ReadsWhole'
    BY <1>2, <2>1, <2>3, StepKeepsReads DEF ObjectInv
  <2>6. QED BY <2>1, <2>2, <2>3, <2>4, <2>5 DEF ObjectInv
<1>3. QED BY <1>1, <1>2 DEF Next

\* The invariant holds in every reachable state of the object store.
THEOREM ObjectInvariance == Spec => []ObjectInv
BY InitObjectInv, StepKeepsObjects, PTL DEF Spec

\* An object no request works on has its bytes in its file and no file without a row,
\* unless an upload met a removal, one of them was cut short, or a directory was removed
\* above it.
THEOREM FileMatchesRowAlways == Spec => []FileMatchesRow
<1>1. ObjectInv => FileMatchesRow
  <2> SUFFICES ASSUME ObjectInv, NEW p \in Paths, Intact(p), ~Putting(p), ~Taken(p)
               PROVE  files[p] = IF rows[p] = NoRow THEN NoFile ELSE rows[p].sum
    BY DEF FileMatchesRow
  <2>1. ~HalfRemoved(p)
    BY DEF HalfRemoved, AtEnd, At, Taken, Takes, Removing
  <2>2. QED BY <2>1 DEF ObjectInv, FilesKept, Whole
<1>2. QED BY <1>1, ObjectInvariance, PTL

\* The last event of a path tells whether the object exists, and the object is told deleted
\* once per life.
THEOREM LogTellsLivesAlways == Spec => []LogTellsLives
<1>1. ObjectInv => LogTellsLives
  BY DEF ObjectInv
<1>2. QED BY <1>1, ObjectInvariance, PTL

\* A download that meets no other request, of an object nothing has spoilt, is answered
\* with the bytes of the row it read.
THEOREM AnswerIsWholeAlways == Spec => AnswerIsWhole
<1> DEFINE AnswersWhole == \A w \in Threads :
    ((At(w, "file") \/ At(w, "read")) /\ worker'[w] = Idle /\ answer' # "None"
        /\ w \notin raced /\ Intact(worker[w].path)) =>
        answer' = "Found"
<1>1. ASSUME ObjectInv, [Next]_objectVars
      PROVE  [AnswersWhole]_objectVars
  <2> SUFFICES ASSUME Step, NEW w \in Threads, At(w, "file") \/ At(w, "read"),
                      worker'[w] = Idle, answer' # "None", w \notin raced, Intact(worker[w].path)
               PROVE  answer' = "Found"
    BY <1>1 DEF Next
  <2>0. ObjectTypeOK'
    BY <1>1, StepKeepsTypes DEF ObjectInv
  <2>1. worker'[w] # worker[w]
    BY DEF At
  <2>2. ThreadStep(w)
    <3>1. ~PutStep
      BY <1>1, <2>1, PutFrame DEF ObjectInv
    <3>2. ASSUME NEW v \in Threads, ThreadStep(v), v # w
          PROVE  FALSE
      BY <1>1, <2>1, <3>2, ThreadFrame, LoopIsNoThread DEF ObjectInv
    <3>3. \A q \in Paths : ~Lapse(q)
      BY <2>1 DEF Lapse
    <3>4. ~Crash
      BY CrashFrame
    <3>5. QED BY <3>1, <3>2, <3>3, <3>4, StepKinds
  <2>3. files[worker[w].path] = worker[w].sum
    BY <1>1 DEF ObjectInv, ReadsWhole
  <2>4. QED BY <1>1, <2>0, <2>2, <2>3, ThreadEffect DEF ObjectInv, At
<1>2. QED BY <1>1, ObjectInvariance, PTL DEF Spec, AnswerIsWhole
=============================================================================
