-------------------------- MODULE EntityStoreProofs --------------------------
(***************************************************************************)
(* Proofs about EntityStore for any number of entities and workers, any    *)
(* times, expiries, values and bounds.                                     *)
(***************************************************************************)
EXTENDS EntityStore, TLAPS, SequenceTheorems, FiniteSetTheorems

-----------------------------------------------------------------------------
(* The operators the requests are built from.                              *)

\* A sweep takes the entities that are due one after the other, each once.
LEMMA OrderFacts ==
    ASSUME NEW S \in SUBSET Entities, NEW order \in SetToSeqs(S)
    PROVE  /\ order \in Seq(S)
           /\ \A m, n \in DOMAIN order : m # n => order[m] # order[n]
<1>1. IsFiniteSet(S)
  BY FS_Subset, ConstantsAssumption
<1>2. Cardinality(S) \in Nat
  BY <1>1, FS_CardinalityType
<1>3. order \in [1..Cardinality(S) -> S]
  BY DEF SetToSeqs
<1>4. QED
  BY <1>2, <1>3 DEF SetToSeqs

\* A commit appends the events of its batch to the stream, in order.
LEMMA LoggedFacts ==
    ASSUME TypeOK, NEW batch \in Seq(Write)
    PROVE  /\ Logged(batch) \in Seq(Event)
           /\ Len(Logged(batch)) = Len(events) + Len(batch)
           /\ \A i \in 1..Len(events) : Logged(batch)[i] = events[i]
           /\ \A n \in 1..Len(batch) : Logged(batch)[Len(events) + n] = EventOf(batch[n])
<1> DEFINE news == [n \in DOMAIN batch |-> EventOf(batch[n])]
<1>1. DOMAIN batch = 1..Len(batch) /\ Len(batch) \in Nat
  OBVIOUS
<1>2. ASSUME NEW n \in DOMAIN batch PROVE EventOf(batch[n]) \in Event
  <2>1. batch[n] \in Write
    OBVIOUS
  <2>2. QED
    BY <2>1 DEF EventOf, Write, Row, Event
<1>3. news \in Seq(Event) /\ Len(news) = Len(batch)
  BY <1>1, <1>2
<1>4. \A n \in 1..Len(batch) : news[n] = EventOf(batch[n])
  BY <1>1
<1>5. events \in Seq(Event)
  BY DEF TypeOK
<1>6. Logged(batch) = events \o news
  BY DEF Logged
<1> HIDE DEF news
<1>7. /\ events \o news \in Seq(Event)
      /\ Len(events \o news) = Len(events) + Len(news)
      /\ \A i \in 1..(Len(events) + Len(news)) : (events \o news)[i] =
             IF i <= Len(events) THEN events[i] ELSE news[i - Len(events)]
  BY <1>3, <1>5, ConcatProperties
<1>8. Len(events) \in Nat
  BY <1>5
<1>9. \A i \in 1..Len(events) : (events \o news)[i] = events[i]
  BY <1>1, <1>3, <1>7, <1>8
<1>10. ASSUME NEW n \in 1..Len(batch)
       PROVE  (events \o news)[Len(events) + n] = EventOf(batch[n])
  <2>1. /\ Len(events) + n \in 1..(Len(events) + Len(news))
        /\ ~(Len(events) + n <= Len(events))
        /\ (Len(events) + n) - Len(events) = n
    BY <1>1, <1>3, <1>8
  <2>2. QED
    BY <2>1, <1>4, <1>7
<1>11. QED
  BY <1>3, <1>6, <1>7, <1>9, <1>10

\* What a payload may hold at a path.
Held == [isLive |-> BOOLEAN \union {Absent}, time |-> Times \union {Absent},
         field |-> Values \union {Absent}]

\* The key of a path: the path itself, or is_live in a payload that has no isLive.
LEMMA KeyFacts ==
    ASSUME NEW p \in Payload, NEW path \in Paths
    PROVE  /\ path \in {"isLive", "time", "field"}
           /\ path # "isLive" => KeyOf(p, path) = path
           /\ path = "isLive" => KeyOf(p, path) \in {"isLive", "is_live"}
           /\ (path = "isLive" /\ p[KeyOf(p, path)] = Absent) => KeyOf(p, path) = "isLive"
BY ConstantsAssumption DEF KeyOf, Payload

\* Put changes one member of a payload.
LEMMA PutFacts ==
    ASSUME NEW p \in Payload, NEW path \in Paths, NEW value
    PROVE  /\ path = "time" => Put(p, path, value) = [p EXCEPT !.time = value]
           /\ path = "field" => Put(p, path, value) = [p EXCEPT !.field = value]
           /\ path = "isLive" =>
                \/ KeyOf(p, path) = "isLive" /\ Put(p, path, value) = [p EXCEPT !.isLive = value]
                \/ KeyOf(p, path) = "is_live" /\ Put(p, path, value) = [p EXCEPT !.is_live = value]
<1>1. path = "time" => Put(p, path, value) = [p EXCEPT !.time = value]
  BY KeyFacts DEF Put
<1>2. path = "field" => Put(p, path, value) = [p EXCEPT !.field = value]
  BY KeyFacts DEF Put
<1>3. KeyOf(p, path) = "isLive" => Put(p, path, value) = [p EXCEPT !.isLive = value]
  BY KeyFacts DEF Put
<1>4. KeyOf(p, path) = "is_live" => Put(p, path, value) = [p EXCEPT !.is_live = value]
  BY KeyFacts DEF Put
<1>5. QED
  BY <1>1, <1>2, <1>3, <1>4, KeyFacts

\* The overrides map after an edit of a path, or with the path dropped.
LEMMA MappedFacts ==
    ASSUME NEW p \in Payload, NEW path \in Paths, NEW value \in Overriding[path] \union {Absent}
    PROVE  /\ Mapped(p, path, value) \in Overrides
           /\ Mapped(p, path, value)[path] = value
           /\ p.overrides # Absent => \A other \in Paths \ {path} :
                                        Mapped(p, path, value)[other] = p.overrides[other]
<1> DEFINE m == IF p.overrides = Absent THEN NoOverrides ELSE p.overrides
<1>1. m \in Overrides
  BY DEF Payload, Overrides, NoOverrides
<1>2. p.overrides # Absent => m = p.overrides
  OBVIOUS
<1>3. Mapped(p, path, value) = [m EXCEPT ![path] = value]
  BY DEF Mapped
<1> HIDE DEF m
<1>4. path \in {"isLive", "time", "field"}
  BY KeyFacts
<1>5. [m EXCEPT ![path] = value] \in Overrides
  <2>1. CASE path = "time"
    BY <1>1, <2>1 DEF Overrides, Overriding
  <2>2. CASE path = "field"
    BY <1>1, <2>2 DEF Overrides, Overriding, Values
  <2>3. CASE path = "isLive"
    BY <1>1, <2>3 DEF Overrides, Overriding
  <2> QED BY <1>4, <2>1, <2>2, <2>3
<1>6. [m EXCEPT ![path] = value][path] = value
  BY <1>1, <1>4 DEF Overrides
<1>7. \A other \in Paths \ {path} : [m EXCEPT ![path] = value][other] = m[other]
  BY <1>1, <1>4, KeyFacts DEF Overrides
<1> QED BY <1>2, <1>3, <1>5, <1>6, <1>7

\* The base kept for a path is the first one captured; those of other paths stay.
LEMMA CapturedFacts ==
    ASSUME NEW p \in Payload, NEW path \in Paths
    PROVE  /\ Captured(p, path) \in Bases
           /\ Captured(p, path)[path] = IF p.base[path] = NoBase THEN p[KeyOf(p, path)]
                                                              ELSE p.base[path]
           /\ \A other \in Paths \ {path} : Captured(p, path)[other] = p.base[other]
<1> DEFINE value == IF p.base[path] = NoBase THEN p[KeyOf(p, path)] ELSE p.base[path]
<1>1. p.base \in Bases
  BY DEF Payload
<1>2. path \in {"isLive", "time", "field"}
  BY KeyFacts
<1>3. Captured(p, path) = [p.base EXCEPT ![path] = value]
  BY DEF Captured
<1>4. /\ path = "time" => p[KeyOf(p, path)] \in Times \union {Absent}
      /\ path = "field" => p[KeyOf(p, path)] \in Values \union {Absent}
      /\ path = "isLive" => p[KeyOf(p, path)] \in BOOLEAN \union {Absent}
  BY KeyFacts DEF Payload
<1>5. /\ path = "time" => value \in Times \union {Absent, NoBase}
      /\ path = "field" => value \in Values \union {Absent, NoBase}
      /\ path = "isLive" => value \in BOOLEAN \union {Absent, NoBase}
  BY <1>1, <1>4 DEF Bases
<1> HIDE DEF value
<1>6. [p.base EXCEPT ![path] = value] \in Bases
  <2>1. CASE path = "time"
    BY <1>1, <1>5, <2>1 DEF Bases
  <2>2. CASE path = "field"
    BY <1>1, <1>5, <2>2 DEF Bases
  <2>3. CASE path = "isLive"
    BY <1>1, <1>5, <2>3 DEF Bases
  <2>4. QED
    BY <1>2, <2>1, <2>2, <2>3
<1>7. [p.base EXCEPT ![path] = value][path] = value
  BY <1>1, <1>2 DEF Bases
<1>8. \A other \in Paths \ {path} : [p.base EXCEPT ![path] = value][other] = p.base[other]
  BY <1>1, <1>2, KeyFacts DEF Bases
<1>9. QED
  BY <1>3, <1>6, <1>7, <1>8 DEF value

\* A base value that is dropped is that of its path alone.
LEMMA ReleasedFacts ==
    ASSUME NEW p \in Payload, NEW path \in Paths
    PROVE  /\ [p.base EXCEPT ![path] = NoBase] \in Bases
           /\ [p.base EXCEPT ![path] = NoBase][path] = NoBase
           /\ \A other \in Paths \ {path} :
                [p.base EXCEPT ![path] = NoBase][other] = p.base[other]
<1>1. p.base \in Bases
  BY DEF Payload
<1>2. path \in {"isLive", "time", "field"}
  BY KeyFacts
<1>3. [p.base EXCEPT ![path] = NoBase] \in Bases
  <2>1. CASE path = "time"
    BY <1>1, <2>1 DEF Bases
  <2>2. CASE path = "field"
    BY <1>1, <2>2 DEF Bases
  <2>3. CASE path = "isLive"
    BY <1>1, <2>3 DEF Bases
  <2>4. QED
    BY <1>2, <2>1, <2>2, <2>3
<1>4. QED
  BY <1>1, <1>2, <1>3, KeyFacts DEF Bases

\* What an edit of a path makes of a payload.
Edited(p, path, value, map, base) ==
    [Put(p, path, value) EXCEPT !.overrides = map, !.base = base]

\* An edit of a payload makes a payload.
LEMMA PutType ==
    ASSUME NEW p \in Payload, NEW path \in Paths,
           NEW value \in Held[path], NEW map \in Overrides, NEW base \in Bases
    PROVE  /\ Edited(p, path, value, map, base) \in Payload
           /\ Edited(p, path, value, map, base).overrides = map
           /\ Edited(p, path, value, map, base).base = base
<1>1. path \in {"isLive", "time", "field"}
  BY KeyFacts
<1>2. Put(p, path, value) \in Payload
  <2>1. CASE path = "time"
    BY <2>1, PutFacts DEF Payload, Held
  <2>2. CASE path = "field"
    BY <2>2, PutFacts DEF Payload, Held
  <2>3. CASE path = "isLive"
    BY <2>3, PutFacts DEF Payload, Held
  <2>4. QED
    BY <1>1, <2>1, <2>2, <2>3
<1>3. QED
  BY <1>2 DEF Payload, Edited

\* An edit shows at its path and nowhere else.
LEMMA PutReads ==
    ASSUME NEW p \in Payload, NEW path \in Paths,
           NEW value \in Held[path], NEW map \in Overrides, NEW base \in Bases
    PROVE  LET q == Edited(p, path, value, map, base)
           IN  /\ value # Absent => q[KeyOf(q, path)] = value
               /\ \A other \in Paths \ {path} : q[KeyOf(q, other)] = p[KeyOf(p, other)]
               /\ path # "isLive" => q.isLive = p.isLive
               /\ path # "time" => q.time = p.time
<1> DEFINE q == Edited(p, path, value, map, base)
<1>1. path \in {"isLive", "time", "field"}
  BY KeyFacts
<1>2. CASE path = "time"
  <2>1. /\ q.time = value /\ q.isLive = p.isLive /\ q.is_live = p.is_live /\ q.field = p.field
    BY <1>2, PutFacts DEF Payload, Edited
  <2> HIDE DEF q
  <2>2. KeyOf(q, path) = "time" /\ \A other \in Paths : KeyOf(q, other) = KeyOf(p, other)
    BY <1>2, <2>1 DEF KeyOf
  <2>3. \A other \in Paths \ {path} : KeyOf(p, other) \in {"isLive", "is_live", "field"}
    BY <1>2, KeyFacts
  <2>4. \A other \in Paths \ {path} : q[KeyOf(q, other)] = p[KeyOf(p, other)]
    BY <2>1, <2>2, <2>3
  <2>5. q[KeyOf(q, path)] = value
    BY <2>1, <2>2
  <2>6. QED
    BY <1>2, <2>1, <2>4, <2>5 DEF q
<1>3. CASE path = "field"
  <2>1. /\ q.field = value /\ q.isLive = p.isLive /\ q.is_live = p.is_live /\ q.time = p.time
    BY <1>3, PutFacts DEF Payload, Edited
  <2> HIDE DEF q
  <2>2. KeyOf(q, path) = "field" /\ \A other \in Paths : KeyOf(q, other) = KeyOf(p, other)
    BY <1>3, <2>1 DEF KeyOf
  <2>3. \A other \in Paths \ {path} : KeyOf(p, other) \in {"isLive", "is_live", "time"}
    BY <1>3, KeyFacts
  <2>4. \A other \in Paths \ {path} : q[KeyOf(q, other)] = p[KeyOf(p, other)]
    BY <2>1, <2>2, <2>3
  <2>5. q[KeyOf(q, path)] = value
    BY <2>1, <2>2
  <2>6. QED
    BY <1>3, <2>1, <2>4, <2>5 DEF q
<1>4. CASE path = "isLive"
  <2>1. q.time = p.time /\ q.field = p.field
    BY <1>4, PutFacts DEF Payload, Edited
  <2>2. \/ /\ KeyOf(p, path) = "isLive"
           /\ q.isLive = value /\ q.is_live = p.is_live
        \/ /\ KeyOf(p, path) = "is_live"
           /\ q.is_live = value /\ q.isLive = p.isLive
    BY <1>4, PutFacts DEF Payload, Edited
  <2> HIDE DEF q
  <2>3. \A other \in Paths \ {path} : /\ KeyOf(p, other) \in {"time", "field"}
                                      /\ KeyOf(q, other) = KeyOf(p, other)
    BY <1>4, KeyFacts DEF KeyOf
  <2>4. \A other \in Paths \ {path} : q[KeyOf(q, other)] = p[KeyOf(p, other)]
    BY <2>1, <2>3
  <2>5. value # Absent => q[KeyOf(q, path)] = value
    BY <1>4, <2>2 DEF KeyOf
  <2>6. QED
    BY <1>4, <2>1, <2>4, <2>5 DEF q
<1>5. QED
  BY <1>1, <1>2, <1>3, <1>4

\* The edits of the requests make payloads of payloads, and their values show.
LEMMA EditFacts ==
    ASSUME NEW p \in Payload, NEW path \in Paths, NEW value \in Overriding[path]
    PROVE  LET q == Overridden(p, path, value)
           IN  /\ q \in Payload
               /\ q.overrides # Absent /\ q.overrides[path] = value
               /\ q[KeyOf(q, path)] = value
               /\ q.base[path] = IF p.base[path] = NoBase THEN p[KeyOf(p, path)] ELSE p.base[path]
               /\ path # "isLive" => q.isLive = p.isLive
               /\ path # "time" => q.time = p.time
               /\ \A other \in Paths \ {path} :
                     /\ q[KeyOf(q, other)] = p[KeyOf(p, other)]
                     /\ q.base[other] = p.base[other]
                     /\ p.overrides # Absent => q.overrides[other] = p.overrides[other]
<1> DEFINE map == Mapped(p, path, value)
           base == Captured(p, path)
           q == Edited(p, path, value, map, base)
<1>1. value \in Held[path] /\ value \in Overriding[path] \union {Absent} /\ value # Absent
  <2>1. path \in {"isLive", "time", "field"}
    BY KeyFacts
  <2>2. CASE path = "isLive"
    BY <2>2, ConstantsAssumption DEF Overriding, Held
  <2>3. CASE path = "time"
    BY <2>3, ConstantsAssumption DEF Overriding, Held
  <2>4. CASE path = "field"
    BY <2>4, ConstantsAssumption DEF Overriding, Held, Values
  <2>5. QED
    BY <2>1, <2>2, <2>3, <2>4
<1>2. map \in Overrides /\ base \in Bases
  BY <1>1, MappedFacts, CapturedFacts
<1>3. map # Absent
  BY <1>2, SentinelsAssumption
<1>4. /\ map[path] = value
      /\ p.overrides # Absent => \A other \in Paths \ {path} : map[other] = p.overrides[other]
  BY <1>1, MappedFacts
<1>5. /\ base[path] = IF p.base[path] = NoBase THEN p[KeyOf(p, path)] ELSE p.base[path]
      /\ \A other \in Paths \ {path} : base[other] = p.base[other]
  BY CapturedFacts
<1> HIDE DEF map, base
<1>6. q \in Payload /\ q.overrides = map /\ q.base = base
  BY <1>1, <1>2, PutType
<1>7. /\ q[KeyOf(q, path)] = value
      /\ \A other \in Paths \ {path} : q[KeyOf(q, other)] = p[KeyOf(p, other)]
      /\ path # "isLive" => q.isLive = p.isLive
      /\ path # "time" => q.time = p.time
  BY <1>1, <1>2, PutReads
<1>8. Overridden(p, path, value) = q
  BY DEF Overridden, Edited, map, base
<1> HIDE DEF q
<1>9. QED
  BY <1>3, <1>4, <1>5, <1>6, <1>7, <1>8

\* A removal makes a payload of a payload, and touches nothing of another path.
LEMMA RestoredFacts ==
    ASSUME NEW p \in Payload, NEW path \in Paths
    PROVE  LET q == Restored(p, path)
           IN  /\ q \in Payload
               /\ q.overrides # Absent
               /\ q.base[path] = NoBase
               /\ path # "isLive" => q.isLive = p.isLive
               /\ path # "time" => q.time = p.time
               /\ \A other \in Paths \ {path} :
                     /\ q[KeyOf(q, other)] = p[KeyOf(p, other)]
                     /\ q.base[other] = p.base[other]
                     /\ p.overrides # Absent => q.overrides[other] = p.overrides[other]
<1> DEFINE map == Mapped(p, path, Absent)
           base == [p.base EXCEPT ![path] = NoBase]
           value == IF p.base[path] = NoBase THEN Absent ELSE p.base[path]
           q == Edited(p, path, value, map, base)
<1>1. value \in Held[path]
  <2>1. p.base \in Bases
    BY DEF Payload
  <2>2. QED
    BY <2>1, KeyFacts DEF Bases, Held
<1>2. Absent \in Overriding[path] \union {Absent}
  OBVIOUS
<1>3. map \in Overrides /\ base \in Bases
  BY <1>2, MappedFacts, ReleasedFacts
<1>4. map # Absent
  BY <1>3, SentinelsAssumption
<1>5. p.overrides # Absent => \A other \in Paths \ {path} : map[other] = p.overrides[other]
  BY <1>2, MappedFacts
<1>6. base[path] = NoBase /\ \A other \in Paths \ {path} : base[other] = p.base[other]
  BY ReleasedFacts
<1>7. Restored(p, path) = q
  BY DEF Restored, Edited
<1> HIDE DEF map, base, value
<1>8. q \in Payload /\ q.overrides = map /\ q.base = base
  BY <1>1, <1>3, PutType
<1>9. /\ \A other \in Paths \ {path} : q[KeyOf(q, other)] = p[KeyOf(p, other)]
      /\ path # "isLive" => q.isLive = p.isLive
      /\ path # "time" => q.time = p.time
  BY <1>1, <1>3, PutReads
<1> HIDE DEF q
<1>10. QED
  BY <1>4, <1>5, <1>6, <1>7, <1>8, <1>9

\* A row past its expiry, closed by the sweep, is a row.
LEMMA ExpiredType ==
    ASSUME NEW row \in Row
    PROVE  Expired(row) \in Row
BY DEF Expired, Row, Payload

\* An UPDATE keeps the payload or writes the edited one.
LEMMA FlushFacts ==
    ASSUME NEW current \in Row, NEW write \in Write
    PROVE  /\ Flush(current, write) \in Row
           /\ Flush(current, write).payload \in {current.payload, write.edited.payload}
BY DEF Flush, Row, Write

\* add_event numbers the row it is told of and leaves its payload.
LEMMA SequencedFacts ==
    ASSUME TypeOK, NEW row \in Row, NEW n \in Nat
    PROVE  /\ Sequenced(row, n) \in Row
           /\ Sequenced(row, n).payload = row.payload
           /\ Sequenced(row, n).sequence = Len(events) + n
<1>1. Len(events) + n \in Nat
  BY DEF TypeOK
<1>2. QED
  BY <1>1 DEF Sequenced, Row

-----------------------------------------------------------------------------
(* The inductive invariant.                                                *)

\* A transaction creates one row, or changes rows that exist, each once.
BatchOK(batch) ==
    /\ batch # <<>>
    /\ \A m, n \in DOMAIN batch : m # n => batch[m].entity # batch[n].entity
    /\ batch[1].loaded = NoRow => Len(batch) = 1
    /\ batch[1].loaded # NoRow =>
         \A n \in DOMAIN batch : /\ batch[n].loaded \in Row
                                 /\ batch[n].type # "CREATE"
                                 /\ rows[batch[n].entity] # NoRow

StagedOK == \A w \in Workers : staged[w] # Idle => BatchOK(staged[w])

\* The stream tells of no entity that is not stored.
NoneBeforeCreation == \A e \in Entities : rows[e] = NoRow =>
    \A i \in DOMAIN events : events[i].entity # e

\* A prepared edit stands already; a publication tells what it sends as it commits.
StagedStands == \A w \in Workers : staged[w] # Idle => \A n \in DOMAIN staged[w] :
    staged[w][n].cause # "publish" =>
        Stands(events, staged[w][n].entity, staged[w][n].edited.payload)

Inv ==
    /\ TypeOK
    /\ StagedOK
    /\ NoneBeforeCreation
    /\ StoredWasTold
    /\ AnnouncedOnce
    /\ OverrideStands
    /\ StagedStands

\* Nothing is stored, told or prepared when the database is new.
LEMMA InitInv == Init => Inv
BY DEF Init, Inv, TypeOK, Outcomes, StagedOK, NoneBeforeCreation, StoredWasTold,
       AnnouncedOnce, OverrideStands, StagedStands

-----------------------------------------------------------------------------
(* Every step is of one of these kinds.                                    *)

Stages(w, batch) ==
    /\ staged[w] = Idle
    /\ staged' = [staged EXCEPT ![w] = batch]
    /\ UNCHANGED <<rows, events>>

Drops(w) ==
    /\ staged' = [staged EXCEPT ![w] = Idle]
    /\ UNCHANGED <<rows, events>>

\* A transaction that commits, whether it creates a row or changes rows.
Writes(w) ==
    LET batch == staged[w]
    IN  /\ batch # Idle
        /\ batch \in Seq(Write)
        /\ BatchOK(batch)
        /\ rows' \in [Entities -> Row \union {NoRow}]
        /\ events' = Logged(batch)
        /\ staged' = [staged EXCEPT ![w] = Idle]
        /\ \A e \in Entities : (\A n \in DOMAIN batch : batch[n].entity # e) => rows'[e] = rows[e]
        /\ \A n \in DOMAIN batch :
             LET e == batch[n].entity
             IN  /\ rows'[e] \in Row
                 /\ rows'[e].sequence = Len(events) + n
                 /\ \/ rows'[e].payload = batch[n].edited.payload
                    \/ rows[e] # NoRow /\ rows'[e].payload = rows[e].payload
                 /\ batch[n].type = "CREATE" => rows[e] = NoRow /\ Len(batch) = 1

\* What a request stages.
GoodBatch(batch) ==
    /\ batch \in Seq(Write)
    /\ BatchOK(batch)
    /\ \A n \in DOMAIN batch : batch[n].cause # "publish" =>
         Stands(events, batch[n].entity, batch[n].edited.payload)

\* A request on one entity stages one write.
LEMMA SingleBatch ==
    ASSUME TypeOK, NEW e \in Entities, NEW type \in {"CREATE", "UPDATE", "DELETED"},
           NEW cause \in Causes, NEW path \in Paths \union {Absent}, NEW edited \in Row,
           rows[e] # NoRow => type # "CREATE",
           cause # "publish" => Stands(events, e, edited.payload)
    PROVE  GoodBatch(<<WriteOf(e, type, cause, path, edited)>>)
<1> DEFINE write == WriteOf(e, type, cause, path, edited)
<1>1. rows[e] \in Row \union {NoRow}
  BY DEF TypeOK
<1>2. /\ write \in Write
      /\ write.entity = e
      /\ write.type = type
      /\ write.cause = cause
      /\ write.loaded = rows[e]
      /\ write.edited = edited
  BY <1>1 DEF WriteOf, Write
<1> HIDE DEF write
<1>3. /\ <<write>> \in Seq(Write)
      /\ DOMAIN <<write>> = {1}
      /\ <<write>>[1] = write
      /\ Len(<<write>>) = 1
      /\ <<write>> # <<>>
  BY <1>2
<1>4. BatchOK(<<write>>)
  BY <1>1, <1>2, <1>3 DEF BatchOK
<1>5. GoodBatch(<<write>>)
  BY <1>2, <1>3, <1>4 DEF GoodBatch
<1>6. QED
  BY <1>5 DEF write

\* The row of a publication.
PublishedRow(isLive, time, expiry, value, sent) ==
    [payload |-> [isLive |-> isLive, time |-> time, field |-> value,
                  is_live |-> IF sent.is_live = Absent THEN isLive ELSE sent.is_live,
                  overrides |-> sent.overrides, base |-> sent.base],
     isLive |-> isLive, expiry |-> expiry, sequence |-> 0]

\* The row of a publication is a row, and holds what was sent.
LEMMA PublishedRowFacts ==
    ASSUME NEW isLive \in BOOLEAN, NEW time \in Times \union {Absent},
           NEW expiry \in Expiries \union {Absent},
           NEW value \in PublishedValues \union {Absent}, NEW sent \in Sent
    PROVE  LET row == PublishedRow(isLive, time, expiry, value, sent)
           IN  /\ row \in Row
               /\ row.isLive = isLive /\ row.payload.isLive = isLive /\ row.payload.time = time
<1>1. /\ sent.overrides \in Overrides \union {Absent} /\ sent.base \in Bases
      /\ (IF sent.is_live = Absent THEN isLive ELSE sent.is_live) \in BOOLEAN \union {Absent}
  BY SentAssumption
<1>2. value \in Values \union {Absent}
  BY DEF Values
<1>3. QED
  BY <1>1, <1>2 DEF PublishedRow, Row, Payload

\* What publish prepares is a batch of one write.
LEMMA PublishStages ==
    ASSUME TypeOK, NEW e \in Entities, NEW isLive \in BOOLEAN,
           NEW time \in Times \union {Absent}, NEW expiry \in Expiries \union {Absent},
           NEW value \in PublishedValues \union {Absent}, NEW sent \in Sent
    PROVE  GoodBatch(<<WriteOf(e, PublishedType(e, isLive), "publish", Absent,
                               PublishedRow(isLive, time, expiry, value, sent))>>)
<1>1. PublishedRow(isLive, time, expiry, value, sent) \in Row
  BY PublishedRowFacts
<1>2. /\ PublishedType(e, isLive) \in {"CREATE", "UPDATE", "DELETED"}
      /\ rows[e] # NoRow => PublishedType(e, isLive) # "CREATE"
  BY DEF PublishedType
<1>3. QED
  BY <1>1, <1>2, SingleBatch DEF Causes

\* The base an override captures is a value that was told of the entity, for the
\* stored payload was; the overrides of other paths stand as they did.
LEMMA OverriddenStands ==
    ASSUME Inv, NEW e \in Entities, rows[e] # NoRow,
           NEW path \in Paths, NEW value \in Overriding[path]
    PROVE  Stands(events, e, Overridden(rows[e].payload, path, value))
<1> DEFINE p == rows[e].payload
           q == Overridden(p, path, value)
<1>1. p \in Payload
  BY DEF Inv, TypeOK, Row
<1>2. PICK i \in DOMAIN events : events[i].entity = e /\ events[i].payload = p
  BY DEF Inv, StoredWasTold
<1>3. Stands(events, e, p)
  BY DEF Inv, OverrideStands
<1> HIDE DEF p
<1>4. /\ q.overrides # Absent /\ q.overrides[path] = value
      /\ q[KeyOf(q, path)] = value
      /\ q.base[path] = IF p.base[path] = NoBase THEN p[KeyOf(p, path)] ELSE p.base[path]
      /\ path # "isLive" => q.isLive = p.isLive
      /\ \A other \in Paths \ {path} :
           /\ q[KeyOf(q, other)] = p[KeyOf(p, other)]
           /\ q.base[other] = p.base[other]
           /\ p.overrides # Absent => q.overrides[other] = p.overrides[other]
  BY <1>1, EditFacts
<1> HIDE DEF q
<1>5. Shows(q, path)
  BY <1>4 DEF Shows
<1>6. \/ SentBase(events, e, path, q.base[path])
      \/ ToldBase(events, e, path, q.base[path])
  <2>1. CASE p.base[path] = NoBase
    BY <1>2, <1>4, <2>1 DEF ToldBase
  <2>2. CASE p.base[path] # NoBase
    BY <1>3, <1>4, <2>2 DEF Stands
  <2>3. QED
    BY <2>1, <2>2
<1>7. ASSUME NEW other \in Paths \ {path}, q.base[other] # NoBase
      PROVE  \/ SentBase(events, e, other, q.base[other])
             \/ Shows(q, other) /\ ToldBase(events, e, other, q.base[other])
  <2>1. q.base[other] = p.base[other]
    BY <1>4
  <2>2. Shows(p, other) => Shows(q, other)
    BY <1>4 DEF Shows
  <2>3. QED
    BY <1>3, <1>7, <2>1, <2>2 DEF Stands
<1>8. Stands(events, e, q)
  BY <1>5, <1>6, <1>7 DEF Stands
<1>9. QED
  BY <1>8 DEF q, p

\* What override_field prepares is a batch whose overrides stand.
LEMMA OverrideStages ==
    ASSUME Inv, NEW e \in Entities, rows[e] # NoRow,
           NEW path \in Paths, NEW value \in Overriding[path]
    PROVE  GoodBatch(<<WriteOf(e, "UPDATE", "override", path,
                               [rows[e] EXCEPT !.payload = Overridden(@, path, value)])>>)
<1> DEFINE row == [rows[e] EXCEPT !.payload = Overridden(rows[e].payload, path, value)]
<1>1. rows[e] \in Row /\ rows[e].payload \in Payload
  BY DEF Inv, TypeOK, Row
<1>2. Overridden(rows[e].payload, path, value) \in Payload
  BY <1>1, EditFacts
<1>3. row \in Row /\ row.payload = Overridden(rows[e].payload, path, value)
  BY <1>1, <1>2 DEF Row
<1>4. Stands(events, e, row.payload)
  BY <1>3, OverriddenStands
<1>5. TypeOK
  BY DEF Inv
<1> HIDE DEF row
<1>6. GoodBatch(<<WriteOf(e, "UPDATE", "override", path, row)>>)
  BY <1>3, <1>4, <1>5, SingleBatch DEF Causes
<1>7. QED
  BY <1>6 DEF row

\* What remove_override prepares is a batch whose other overrides still stand.
LEMMA RemovalStages ==
    ASSUME Inv, NEW e \in Entities, rows[e] # NoRow, NEW path \in Paths
    PROVE  GoodBatch(<<WriteOf(e, "UPDATE", "removal", path,
                               [rows[e] EXCEPT !.payload = Restored(@, path)])>>)
<1> DEFINE p == rows[e].payload
           q == Restored(p, path)
           row == [rows[e] EXCEPT !.payload = q]
<1>1. rows[e] \in Row /\ p \in Payload
  BY DEF Inv, TypeOK, Row
<1>2. Stands(events, e, p) /\ TypeOK
  BY DEF Inv, OverrideStands
<1> HIDE DEF p
<1>3. /\ q \in Payload
      /\ q.overrides # Absent
      /\ q.base[path] = NoBase
      /\ path # "isLive" => q.isLive = p.isLive
      /\ \A other \in Paths \ {path} :
           /\ q[KeyOf(q, other)] = p[KeyOf(p, other)]
           /\ q.base[other] = p.base[other]
           /\ p.overrides # Absent => q.overrides[other] = p.overrides[other]
  BY <1>1, RestoredFacts
<1> HIDE DEF q
<1>4. row \in Row /\ row.payload = q
  BY <1>1, <1>3 DEF Row
<1>5. ASSUME NEW other \in Paths \ {path}, q.base[other] # NoBase
      PROVE  \/ SentBase(events, e, other, q.base[other])
             \/ Shows(q, other) /\ ToldBase(events, e, other, q.base[other])
  <2>1. q.base[other] = p.base[other]
    BY <1>3
  <2>2. Shows(p, other) => Shows(q, other)
    BY <1>3 DEF Shows
  <2>3. QED
    BY <1>2, <1>5, <2>1, <2>2 DEF Stands
<1>6. Stands(events, e, q)
  BY <1>3, <1>5 DEF Stands
<1> HIDE DEF row
<1>7. GoodBatch(<<WriteOf(e, "UPDATE", "removal", path, row)>>)
  BY <1>2, <1>4, <1>6, SingleBatch DEF Causes
<1>8. QED
  BY <1>7 DEF row, q, p

\* An override of a swept entity stands: only isLive moved, and that is out of life.
LEMMA ExpiredStands ==
    ASSUME NEW e, NEW row \in Row, Stands(events, e, row.payload)
    PROVE  Stands(events, e, Expired(row).payload)
<1> DEFINE p == row.payload
           q == Expired(row).payload
<1>1. /\ p \in Payload
      /\ q.isLive = FALSE /\ q.overrides = p.overrides /\ q.base = p.base
      /\ q.time = p.time /\ q.field = p.field
  BY DEF Expired, Row, Payload
<1>2. Stands(events, e, p)
  OBVIOUS
<1> HIDE DEF p, q
<1>3. ASSUME NEW path \in Paths, Shows(p, path)
      PROVE  Shows(q, path)
  <2>1. CASE path = "isLive"
    BY <1>1, <1>3, <2>1 DEF Shows
  <2>2. CASE path # "isLive"
    <3>1. KeyOf(p, path) = path /\ KeyOf(q, path) = path /\ path \in {"time", "field"}
      BY <2>2, ConstantsAssumption DEF KeyOf
    <3>2. QED
      BY <1>1, <1>3, <2>2, <3>1 DEF Shows
  <2>3. QED
    BY <2>1, <2>2
<1>4. Stands(events, e, q)
  BY <1>1, <1>2, <1>3 DEF Stands
<1>5. QED
  BY <1>4 DEF q

\* What a sweep prepares is a batch that closes each due entity once.
LEMMA SweepStages ==
    ASSUME Inv, NEW scope \in SUBSET Entities,
           NEW order \in SetToSeqs({e \in scope : Due(e)}), order # <<>>
    PROVE  GoodBatch([n \in DOMAIN order |->
                        WriteOf(order[n], "DELETED", "expiry", Absent, Expired(rows[order[n]]))])
<1> DEFINE due == {e \in scope : Due(e)}
           writeOf(e) == WriteOf(e, "DELETED", "expiry", Absent, Expired(rows[e]))
           batch == [n \in DOMAIN order |-> writeOf(order[n])]
<1>1. /\ order \in Seq(due)
      /\ \A m, n \in DOMAIN order : m # n => order[m] # order[n]
  BY OrderFacts
<1>2. DOMAIN order = 1..Len(order) /\ Len(order) \in Nat
  BY <1>1
<1>3. ASSUME NEW e \in due
      PROVE  /\ writeOf(e) \in Write
             /\ writeOf(e).entity = e
             /\ writeOf(e).type = "DELETED"
             /\ writeOf(e).loaded \in Row
             /\ writeOf(e).loaded # NoRow
             /\ rows[writeOf(e).entity] # NoRow
             /\ Stands(events, e, writeOf(e).edited.payload)
  <2>1. e \in Entities /\ rows[e] # NoRow /\ rows[e] \in Row
    BY DEF Due, Inv, TypeOK
  <2>2. Expired(rows[e]) \in Row
    BY <2>1, ExpiredType
  <2>3. Stands(events, e, Expired(rows[e]).payload)
    BY <2>1, ExpiredStands DEF Inv, OverrideStands
  <2>4. QED
    BY <2>1, <2>2, <2>3, SentinelsAssumption DEF WriteOf, Write, Causes
<1> HIDE DEF due, writeOf
<1>4. \A n \in DOMAIN order : order[n] \in due
  BY <1>1
<1>5. /\ batch \in Seq(Write)
      /\ DOMAIN batch = DOMAIN order
      /\ \A n \in DOMAIN batch : batch[n] = writeOf(order[n])
  BY <1>2, <1>3, <1>4
<1>6. 1 \in DOMAIN batch
  <2>1. Len(order) # 0
    BY <1>1
  <2>2. QED
    BY <1>2, <1>5, <2>1
<1>7. batch # <<>>
  BY <1>6
<1> HIDE DEF batch
<1>8. BatchOK(batch)
  BY <1>1, <1>3, <1>4, <1>5, <1>6, <1>7 DEF BatchOK
<1>9. \A n \in DOMAIN batch : Stands(events, batch[n].entity, batch[n].edited.payload)
  BY <1>3, <1>4, <1>5
<1>10. GoodBatch(batch)
  BY <1>5, <1>8, <1>9 DEF GoodBatch
<1>11. QED
  BY <1>10 DEF batch, writeOf

\* The fields of the writes of a batch.
LEMMA BatchFields ==
    ASSUME NEW batch \in Seq(Write), NEW n \in DOMAIN batch
    PROVE  batch[n] \in Write /\ batch[n].entity \in Entities /\ n \in Nat /\ n >= 1
<1>1. batch[n] \in Write
  OBVIOUS
<1>2. DOMAIN batch = 1..Len(batch) /\ Len(batch) \in Nat
  OBVIOUS
<1>3. n \in Nat /\ n >= 1
  BY <1>2
<1>4. QED
  BY <1>1, <1>3 DEF Write

\* The transaction of a creation writes its row, or finds one and is dropped.
LEMMA CreateWrites ==
    ASSUME Inv, NEW w \in Workers, CommitCreate(w)
    PROVE  Writes(w) \/ Drops(w)
<1> DEFINE batch == staged[w]
           write == batch[1]
           row == Sequenced(write.edited, 1)
<1>1. /\ batch # Idle
      /\ batch \in Seq(Write)
      /\ BatchOK(batch)
      /\ write.loaded = NoRow
  BY DEF CommitCreate, Inv, TypeOK, StagedOK
<1>2. /\ Len(batch) = 1
      /\ DOMAIN batch = {1}
      /\ write \in Write
  <2>1. Len(batch) = 1
    BY <1>1 DEF BatchOK
  <2>2. QED
    BY <1>1, <2>1
<1>3. write.entity \in Entities /\ write.edited \in Row
  BY <1>2 DEF Write
<1>4. row \in Row /\ row.payload = write.edited.payload /\ row.sequence = Len(events) + 1
  BY <1>3, SequencedFacts DEF Inv
<1> HIDE DEF row
<1>5. CASE rows[write.entity] # NoRow
  <2>1. CommitCreate(w) => (staged' = [staged EXCEPT ![w] = Idle] /\ UNCHANGED <<rows, events>>)
    BY <1>5 DEF CommitCreate, Finish
  <2>2. QED
    BY <2>1 DEF Drops
<1>6. CASE rows[write.entity] = NoRow
  <2>1. /\ rows' = [rows EXCEPT ![write.entity] = row]
        /\ events' = Logged(batch)
        /\ staged' = [staged EXCEPT ![w] = Idle]
    BY <1>6 DEF CommitCreate, Finish, row
  <2>2. rows \in [Entities -> Row \union {NoRow}]
    BY DEF Inv, TypeOK
  <2>3. rows' \in [Entities -> Row \union {NoRow}] /\ rows'[write.entity] = row
    BY <1>3, <1>4, <2>1, <2>2
  <2>4. ASSUME NEW e \in Entities, \A n \in DOMAIN batch : batch[n].entity # e
        PROVE  rows'[e] = rows[e]
    BY <1>2, <2>1, <2>2, <2>4
  <2>5. Writes(w)
    BY <1>1, <1>2, <1>4, <1>6, <2>1, <2>3, <2>4 DEF Writes
  <2>6. QED
    BY <2>5
<1>7. QED
  BY <1>5, <1>6

\* The transaction of an edit, a removal or a sweep writes every row of its batch.
LEMMA ChangesWrite ==
    ASSUME Inv, NEW w \in Workers, CommitChanges(w)
    PROVE  Writes(w)
<1> DEFINE batch == staged[w]
           changed(n) == Sequenced(Flush(rows[batch[n].entity], batch[n]), n)
<1>1. /\ batch # Idle
      /\ batch \in Seq(Write)
      /\ BatchOK(batch)
      /\ batch[1].loaded # NoRow
  BY DEF CommitChanges, Inv, TypeOK, StagedOK
<1>2. /\ \A m, n \in DOMAIN batch : m # n => batch[m].entity # batch[n].entity
      /\ \A n \in DOMAIN batch : /\ batch[n] \in Write
                                 /\ n \in Nat
                                 /\ batch[n].type # "CREATE"
                                 /\ rows[batch[n].entity] # NoRow
  BY <1>1 DEF BatchOK
<1>3. rows \in [Entities -> Row \union {NoRow}] /\ TypeOK
  BY DEF Inv, TypeOK
<1>4. ASSUME NEW n \in DOMAIN batch
      PROVE  /\ changed(n) \in Row
             /\ changed(n).sequence = Len(events) + n
             /\ changed(n).payload \in {rows[batch[n].entity].payload, batch[n].edited.payload}
  <2>1. batch[n].entity \in Entities
    BY <1>2 DEF Write
  <2>2. rows[batch[n].entity] \in Row
    BY <1>2, <1>3, <2>1
  <2>3. /\ Flush(rows[batch[n].entity], batch[n]) \in Row
        /\ Flush(rows[batch[n].entity], batch[n]).payload
             \in {rows[batch[n].entity].payload, batch[n].edited.payload}
    BY <1>2, <2>2, FlushFacts
  <2>4. QED
    BY <1>2, <1>3, <2>3, SequencedFacts
<1>5. rows' = [e \in Entities |->
                 IF \E n \in DOMAIN batch : batch[n].entity = e
                 THEN LET n == CHOOSE n \in DOMAIN batch : batch[n].entity = e
                      IN  Sequenced(Flush(rows[e], batch[n]), n)
                 ELSE rows[e]]
  BY DEF CommitChanges
<1>6. ASSUME NEW n \in DOMAIN batch
      PROVE  rows'[batch[n].entity] = changed(n)
  <2> DEFINE m == CHOOSE m \in DOMAIN batch : batch[m].entity = batch[n].entity
  <2>1. m \in DOMAIN batch /\ batch[m].entity = batch[n].entity
    OBVIOUS
  <2>2. m = n
    BY <1>2, <2>1
  <2>3. batch[n].entity \in Entities
    BY <1>2 DEF Write
  <2>4. rows'[batch[n].entity] = Sequenced(Flush(rows[batch[n].entity], batch[m]), m)
    BY <1>5, <2>3
  <2>5. QED
    BY <2>2, <2>4
<1>7. ASSUME NEW e \in Entities, \A n \in DOMAIN batch : batch[n].entity # e
      PROVE  rows'[e] = rows[e]
  BY <1>5, <1>7
<1> HIDE DEF changed
<1>8. rows' \in [Entities -> Row \union {NoRow}]
  <2>1. ASSUME NEW e \in Entities PROVE rows'[e] \in Row \union {NoRow}
    <3>1. CASE \E n \in DOMAIN batch : batch[n].entity = e
      BY <1>4, <1>6, <3>1
    <3>2. CASE \A n \in DOMAIN batch : batch[n].entity # e
      BY <1>3, <1>7, <3>2
    <3>3. QED
      BY <3>1, <3>2
  <2>2. rows' = [e \in Entities |-> rows'[e]]
    BY <1>5
  <2>3. QED
    BY <2>1, <2>2
<1>9. events' = Logged(batch) /\ staged' = [staged EXCEPT ![w] = Idle]
  BY DEF CommitChanges, Finish
<1>10. \A n \in DOMAIN batch :
         /\ rows'[batch[n].entity] \in Row
         /\ rows'[batch[n].entity].sequence = Len(events) + n
         /\ \/ rows'[batch[n].entity].payload = batch[n].edited.payload
            \/ /\ rows[batch[n].entity] # NoRow
               /\ rows'[batch[n].entity].payload = rows[batch[n].entity].payload
         /\ batch[n].type # "CREATE"
  BY <1>2, <1>4, <1>6
<1>11. QED
  BY <1>1, <1>7, <1>8, <1>9, <1>10 DEF Writes

\* Every step of a request prepares a batch, drops it, writes it or touches none.
LEMMA StepKinds ==
    ASSUME Inv, NEW w \in Workers, Request(w)
    PROVE  \/ UNCHANGED <<rows, events, staged>>
           \/ \E batch : GoodBatch(batch) /\ Stages(w, batch)
           \/ Drops(w)
           \/ Writes(w)
<1> USE DEF Answer, Stage, Stages
<1>0. TypeOK
  BY DEF Inv
<1>1. CASE Publish(w)
  <2>1. PICK e \in Entities, isLive \in BOOLEAN, noExpiry \in BOOLEAN,
             time \in Times \union {Absent}, expiry \in Expiries \union {Absent},
             value \in PublishedValues \union {Absent}, sent \in Sent :
             ReadForPublish(w, e, isLive, time, expiry, noExpiry, value, sent)
    BY <1>1 DEF Publish
  <2> DEFINE batch == <<WriteOf(e, PublishedType(e, isLive), "publish", Absent,
                                PublishedRow(isLive, time, expiry, value, sent))>>
  <2>2. UNCHANGED <<rows, events, staged>> \/ Stages(w, batch)
    BY <2>1 DEF ReadForPublish, PublishedRow
  <2>3. GoodBatch(batch)
    BY <1>0, PublishStages
  <2>4. QED
    BY <2>2, <2>3
<1>2. CASE Override(w)
  <2>1. PICK e \in Entities, path \in Paths : \E value \in Overriding[path] :
             ReadForOverride(w, e, path, value)
    BY <1>2 DEF Override
  <2>2. PICK value \in Overriding[path] : ReadForOverride(w, e, path, value)
    BY <2>1
  <2>3. QED
    BY <2>2, OverrideStages DEF ReadForOverride
<1>3. CASE Removal(w)
  BY <1>3, RemovalStages DEF Removal, ReadForRemoval
<1>4. CASE Sweep(w)
  <2>1. PICK scope \in {{e} : e \in Entities} \union {Entities} : ReadForSweep(w, scope)
    BY <1>4 DEF Sweep
  <2>2. scope \in SUBSET Entities
    OBVIOUS
  <2>3. PICK order \in SetToSeqs({e \in scope : Due(e)}) :
          /\ order # <<>>
          /\ Stages(w, [n \in DOMAIN order |->
                WriteOf(order[n], "DELETED", "expiry", Absent, Expired(rows[order[n]]))])
    <3>1. ReadForSweep(w, scope) => staged[w] = Idle
      BY DEF ReadForSweep
    <3>2. QED
      BY <2>1, <3>1 DEF ReadForSweep
  <2>4. GoodBatch([n \in DOMAIN order |->
                WriteOf(order[n], "DELETED", "expiry", Absent, Expired(rows[order[n]]))])
    BY <2>2, <2>3, SweepStages
  <2>5. QED
    BY <2>3, <2>4
<1>5. CASE CommitCreate(w)
  BY <1>5, CreateWrites
<1>6. CASE CommitChanges(w)
  BY <1>6, ChangesWrite
<1>7. CASE Rollback(w)
  BY <1>7 DEF Rollback, Finish, Drops
<1>8. QED
  BY <1>1, <1>2, <1>3, <1>4, <1>5, <1>6, <1>7 DEF Request

\* How a commit extends the stream.
LEMMA WriteExtendsLog ==
    ASSUME Inv, NEW w \in Workers, Writes(w)
    PROVE  /\ DOMAIN events = 1..Len(events) /\ Len(events) \in Nat
           /\ events' \in Seq(Event)
           /\ \A i \in DOMAIN events : i \in DOMAIN events' /\ events'[i] = events[i]
           /\ \A n \in DOMAIN staged[w] : /\ Len(events) + n \in DOMAIN events'
                                          /\ events'[Len(events) + n] = EventOf(staged[w][n])
           /\ \A i \in DOMAIN events' : i \notin DOMAIN events =>
                 \E n \in DOMAIN staged[w] : i = Len(events) + n
<1> DEFINE batch == staged[w]
<1>1. batch \in Seq(Write) /\ events' = Logged(batch)
  BY DEF Writes
<1>2. events \in Seq(Event)
  BY DEF Inv, TypeOK
<1>3. DOMAIN events = 1..Len(events) /\ Len(events) \in Nat
  BY <1>2
<1>4. DOMAIN batch = 1..Len(batch) /\ Len(batch) \in Nat
  BY <1>1
<1> HIDE DEF batch
<1>5. /\ events' \in Seq(Event)
      /\ Len(events') = Len(events) + Len(batch)
      /\ \A i \in 1..Len(events) : events'[i] = events[i]
      /\ \A n \in 1..Len(batch) : events'[Len(events) + n] = EventOf(batch[n])
  BY <1>1, LoggedFacts DEF Inv
<1>6. DOMAIN events' = 1..(Len(events) + Len(batch))
  BY <1>5
<1>7. \A i \in DOMAIN events : i \in DOMAIN events' /\ events'[i] = events[i]
  BY <1>3, <1>4, <1>5, <1>6
<1>8. \A n \in DOMAIN batch : /\ Len(events) + n \in DOMAIN events'
                              /\ events'[Len(events) + n] = EventOf(batch[n])
  BY <1>3, <1>4, <1>5, <1>6
<1>9. ASSUME NEW i \in DOMAIN events', i \notin DOMAIN events
      PROVE  \E n \in DOMAIN batch : i = Len(events) + n
  <2>1. i - Len(events) \in DOMAIN batch /\ i = Len(events) + (i - Len(events))
    BY <1>3, <1>4, <1>6, <1>9
  <2>2. QED
    BY <2>1
<1>10. QED
  BY <1>3, <1>5, <1>7, <1>8, <1>9 DEF batch

\* What stands stays standing: the stream only grows.
LEMMA StandsStays ==
    ASSUME Inv, NEW w \in Workers, Writes(w), NEW e, NEW p, Stands(events, e, p)
    PROVE  Stands(events', e, p)
<1>1. \A i \in DOMAIN events : i \in DOMAIN events' /\ events'[i] = events[i]
  BY WriteExtendsLog
<1>2. \A path, base :
        /\ SentBase(events, e, path, base) => SentBase(events', e, path, base)
        /\ ToldBase(events, e, path, base) => ToldBase(events', e, path, base)
  BY <1>1 DEF SentBase, ToldBase
<1>3. QED
  BY <1>2 DEF Stands

\* What is written stands: a publication is told with what it sends.
LEMMA WrittenStands ==
    ASSUME Inv, NEW w \in Workers, Writes(w), NEW n \in DOMAIN staged[w]
    PROVE  Stands(events', staged[w][n].entity, staged[w][n].edited.payload)
<1> DEFINE write == staged[w][n]
           p == write.edited.payload
           i == Len(events) + n
<1>1. staged[w] # Idle
  BY DEF Writes
<1>2. i \in DOMAIN events' /\ events'[i] = EventOf(write)
  BY WriteExtendsLog
<1>3. CASE write.cause # "publish"
  <2>1. Stands(events, write.entity, p)
    BY <1>1, <1>3 DEF Inv, StagedStands
  <2>2. QED
    BY <2>1, StandsStays
<1>4. CASE write.cause = "publish"
  <2> HIDE DEF write
  <2>1. /\ EventOf(write).entity = write.entity
        /\ EventOf(write).cause = "publish"
        /\ EventOf(write).payload = p
    BY <1>4 DEF EventOf
  <2> HIDE DEF i, p
  <2>2. \A path \in Paths : SentBase(events', write.entity, path, p.base[path])
    BY <1>2, <2>1 DEF SentBase
  <2>3. Stands(events', write.entity, p)
    BY <2>2 DEF Stands
  <2>4. QED
    BY <2>3 DEF write, p
<1>5. QED
  BY <1>3, <1>4

\* A commit keeps the invariant, whatever was committed since its batch was prepared.
LEMMA WriteKeepsInv ==
    ASSUME Inv, NEW w \in Workers, Writes(w), clock' \in Nat, reply' \in Outcomes
    PROVE  Inv'
<1> DEFINE batch == staged[w]
           N == Len(events)
<1>1. /\ batch # Idle
      /\ batch \in Seq(Write)
      /\ BatchOK(batch)
      /\ rows \in [Entities -> Row \union {NoRow}]
      /\ rows' \in [Entities -> Row \union {NoRow}]
      /\ staged \in [Workers -> Seq(Write) \union {Idle}]
      /\ staged' = [staged EXCEPT ![w] = Idle]
  BY DEF Writes, Inv, TypeOK
<1>2. /\ DOMAIN events = 1..N /\ N \in Nat
      /\ events' \in Seq(Event)
      /\ \A i \in DOMAIN events : i \in DOMAIN events' /\ events'[i] = events[i]
      /\ \A n \in DOMAIN batch : N + n \in DOMAIN events' /\ events'[N + n] = EventOf(batch[n])
      /\ \A i \in DOMAIN events' : i \notin DOMAIN events => \E n \in DOMAIN batch : i = N + n
  BY WriteExtendsLog
<1>3. /\ DOMAIN batch = 1..Len(batch) /\ Len(batch) \in Nat
      /\ \A n \in DOMAIN batch : batch[n] \in Write /\ n \in Nat /\ n >= 1
      /\ \A n \in DOMAIN batch : /\ batch[n].entity \in Entities
                                 /\ EventOf(batch[n]).entity = batch[n].entity
                                 /\ EventOf(batch[n]).type = batch[n].type
                                 /\ EventOf(batch[n]).payload = batch[n].edited.payload
  <2>1. DOMAIN batch = 1..Len(batch) /\ Len(batch) \in Nat
    BY <1>1
  <2>2. ASSUME NEW n \in DOMAIN batch
        PROVE  batch[n] \in Write /\ n \in Nat /\ n >= 1 /\ batch[n].entity \in Entities
    BY <1>1, BatchFields
  <2>3. QED
    BY <2>1, <2>2 DEF EventOf
<1>4. \A m, n \in DOMAIN batch : m # n => batch[m].entity # batch[n].entity
  BY <1>1 DEF BatchOK
<1>5. \A e \in Entities : (\A n \in DOMAIN batch : batch[n].entity # e) => rows'[e] = rows[e]
  BY DEF Writes
<1>6. \A n \in DOMAIN batch :
         /\ rows'[batch[n].entity] \in Row
         /\ rows'[batch[n].entity].sequence = N + n
         /\ \/ rows'[batch[n].entity].payload = batch[n].edited.payload
            \/ /\ rows[batch[n].entity] # NoRow
               /\ rows'[batch[n].entity].payload = rows[batch[n].entity].payload
         /\ batch[n].type = "CREATE" => rows[batch[n].entity] = NoRow /\ Len(batch) = 1
  BY DEF Writes
<1>7. \A x \in Workers : staged'[x] # Idle => x # w /\ staged'[x] = staged[x]
  BY <1>1
<1>8. ASSUME NEW e \in Entities, rows[e] # NoRow PROVE rows'[e] # NoRow
  <2>1. CASE \E n \in DOMAIN batch : batch[n].entity = e
    BY <1>6, <2>1, SentinelsAssumption
  <2>2. CASE \A n \in DOMAIN batch : batch[n].entity # e
    BY <1>5, <1>8, <2>2
  <2>3. QED
    BY <2>1, <2>2
<1> HIDE DEF batch, N
<1>9. TypeOK'
  <2>1. staged' \in [Workers -> Seq(Write) \union {Idle}]
    BY <1>1
  <2>2. QED
    BY <1>1, <1>2, <2>1 DEF TypeOK
<1>10. StagedOK'
  <2> SUFFICES ASSUME NEW x \in Workers, staged'[x] # Idle
               PROVE  BatchOK(staged[x])'
    BY DEF StagedOK
  <2>1. staged'[x] = staged[x] /\ staged[x] # Idle
    BY <1>7
  <2>2. BatchOK(staged[x])
    BY <2>1 DEF Inv, StagedOK
  <2>3. staged[x] \in Seq(Write)
    BY <1>1, <2>1
  <2>4. \A n \in DOMAIN staged[x] : staged[x][n].entity \in Entities
    BY <2>3, BatchFields
  <2>5. QED
    BY <1>8, <2>1, <2>2, <2>4 DEF BatchOK
<1>11. NoneBeforeCreation'
  <2> SUFFICES ASSUME NEW e \in Entities, rows'[e] = NoRow, NEW i \in DOMAIN events'
               PROVE  events'[i].entity # e
    BY DEF NoneBeforeCreation
  <2>1. rows[e] = NoRow
    BY <1>8
  <2>2. CASE i \in DOMAIN events
    BY <1>2, <2>1, <2>2 DEF Inv, NoneBeforeCreation
  <2>3. CASE i \notin DOMAIN events
    <3>1. PICK n \in DOMAIN batch : i = N + n
      BY <1>2, <2>3
    <3>2. events'[i].entity = batch[n].entity /\ rows'[batch[n].entity] \in Row
      BY <1>2, <1>3, <1>6, <3>1
    <3>3. QED
      BY <3>2, SentinelsAssumption
  <2>4. QED
    BY <2>2, <2>3
<1>12. StoredWasTold'
  <2> SUFFICES ASSUME NEW e \in Entities, rows'[e] # NoRow
               PROVE  /\ rows'[e].sequence \in DOMAIN events'
                      /\ \E i \in DOMAIN events' : /\ i <= rows'[e].sequence
                                                   /\ events'[i].entity = e
                                                   /\ events'[i].payload = rows'[e].payload
                      /\ \A i \in DOMAIN events' :
                            events'[i].entity = e => i <= rows'[e].sequence
    BY DEF StoredWasTold
  <2>1. CASE \A n \in DOMAIN batch : batch[n].entity # e
    <3>1. rows'[e] = rows[e]
      BY <1>5, <2>1
    <3>2. /\ rows[e].sequence \in DOMAIN events
          /\ \E i \in DOMAIN events : /\ i <= rows[e].sequence
                                      /\ events[i].entity = e
                                      /\ events[i].payload = rows[e].payload
          /\ \A i \in DOMAIN events : events[i].entity = e => i <= rows[e].sequence
      BY <3>1 DEF Inv, StoredWasTold
    <3>3. \A i \in DOMAIN events' : events'[i].entity = e => i \in DOMAIN events
      BY <1>2, <1>3, <2>1
    <3>4. QED
      BY <1>2, <3>1, <3>2, <3>3
  <2>2. ASSUME NEW n \in DOMAIN batch, batch[n].entity = e
        PROVE  /\ rows'[e].sequence \in DOMAIN events'
               /\ \E i \in DOMAIN events' : /\ i <= rows'[e].sequence
                                            /\ events'[i].entity = e
                                            /\ events'[i].payload = rows'[e].payload
               /\ \A i \in DOMAIN events' :
                     events'[i].entity = e => i <= rows'[e].sequence
    <3>1. rows'[e].sequence = N + n /\ N + n \in DOMAIN events' /\ N + n <= N + n
      BY <1>2, <1>3, <1>6, <2>2
    <3>2. \E i \in DOMAIN events' : /\ i <= N + n
                                    /\ events'[i].entity = e
                                    /\ events'[i].payload = rows'[e].payload
      <4>1. CASE rows'[e].payload = batch[n].edited.payload
        BY <1>2, <1>3, <2>2, <3>1, <4>1
      <4>2. CASE rows[e] # NoRow /\ rows'[e].payload = rows[e].payload
        <5>1. PICK i \in DOMAIN events : events[i].entity = e /\ events[i].payload = rows[e].payload
          BY <4>2 DEF Inv, StoredWasTold
        <5>2. i \in DOMAIN events' /\ events'[i] = events[i] /\ i <= N + n
          BY <1>2, <1>3
        <5>3. QED
          BY <4>2, <5>1, <5>2
      <4>3. QED
        BY <1>6, <2>2, <4>1, <4>2
    <3>3. ASSUME NEW i \in DOMAIN events', events'[i].entity = e PROVE i <= N + n
      <4>1. CASE i \in DOMAIN events
        BY <1>2, <1>3, <4>1
      <4>2. CASE i \notin DOMAIN events
        <5>1. PICK m \in DOMAIN batch : i = N + m
          BY <1>2, <4>2
        <5>2. batch[m].entity = e
          BY <1>2, <1>3, <3>3, <5>1
        <5>3. m = n
          BY <1>4, <2>2, <5>2
        <5>4. QED
          BY <3>1, <5>1, <5>3
      <4>3. QED
        BY <4>1, <4>2
    <3>4. QED
      BY <3>1, <3>2, <3>3
  <2>3. QED
    BY <2>1, <2>2
<1>13. AnnouncedOnce'
  <2> SUFFICES ASSUME NEW i \in DOMAIN events', NEW j \in DOMAIN events',
                      events'[j].type = "CREATE", events'[i].entity = events'[j].entity, i # j
               PROVE  i > j /\ events'[i].type # "CREATE"
    BY DEF AnnouncedOnce
  <2>1. CASE i \in DOMAIN events /\ j \in DOMAIN events
    BY <1>2, <2>1 DEF Inv, AnnouncedOnce
  <2>2. CASE j \notin DOMAIN events
    <3>1. PICK n \in DOMAIN batch : j = N + n
      BY <1>2, <2>2
    <3>2. /\ events'[j].entity = batch[n].entity
          /\ batch[n].entity \in Entities
          /\ rows[batch[n].entity] = NoRow
          /\ Len(batch) = 1
      BY <1>2, <1>3, <1>6, <3>1
    <3>3. i \in DOMAIN events
      BY <1>2, <1>3, <3>1, <3>2
    <3>4. QED
      BY <1>2, <3>2, <3>3 DEF Inv, NoneBeforeCreation
  <2>3. CASE j \in DOMAIN events /\ i \notin DOMAIN events
    <3>1. PICK n \in DOMAIN batch : i = N + n
      BY <1>2, <2>3
    <3>2. /\ events'[i].entity = batch[n].entity
          /\ events'[i].type = batch[n].type
          /\ batch[n].entity \in Entities
          /\ events[j].entity = batch[n].entity
          /\ i > j
      BY <1>2, <1>3, <2>3, <3>1
    <3>3. rows[batch[n].entity] # NoRow
      BY <2>3, <3>2 DEF Inv, NoneBeforeCreation
    <3>4. QED
      BY <1>6, <3>2, <3>3
  <2>4. QED
    BY <2>1, <2>2, <2>3
<1>14. OverrideStands'
  <2> SUFFICES ASSUME NEW e \in Entities, rows'[e] # NoRow
               PROVE  Stands(events', e, rows'[e].payload)
    BY DEF OverrideStands
  <2>1. rows[e] # NoRow => Stands(events', e, rows[e].payload)
    BY StandsStays DEF Inv, OverrideStands
  <2>2. CASE \A n \in DOMAIN batch : batch[n].entity # e
    BY <1>5, <2>1, <2>2
  <2>3. CASE \E n \in DOMAIN batch : batch[n].entity = e
    <3>1. PICK n \in DOMAIN batch : batch[n].entity = e
      BY <2>3
    <3>2. Stands(events', e, batch[n].edited.payload)
      BY <3>1, WrittenStands DEF batch
    <3>3. \/ rows'[e].payload = batch[n].edited.payload
          \/ rows[e] # NoRow /\ rows'[e].payload = rows[e].payload
      BY <1>6, <3>1
    <3>4. QED
      BY <2>1, <3>2, <3>3
  <2>4. QED
    BY <2>2, <2>3
<1>15. StagedStands'
  <2> SUFFICES ASSUME NEW x \in Workers, staged'[x] # Idle, NEW n \in DOMAIN staged'[x],
                      staged'[x][n].cause # "publish"
               PROVE  Stands(events', staged'[x][n].entity, staged'[x][n].edited.payload)
    BY DEF StagedStands
  <2>1. staged'[x] = staged[x] /\ staged[x] # Idle
    BY <1>7
  <2>2. Stands(events, staged[x][n].entity, staged[x][n].edited.payload)
    BY <2>1 DEF Inv, StagedStands
  <2>3. QED
    BY <2>1, <2>2, StandsStays
<1>16. QED
  BY <1>9, <1>10, <1>11, <1>12, <1>13, <1>14, <1>15 DEF Inv

\* Preparing a batch, or dropping it, keeps the invariant.
LEMMA StagingKeepsInv ==
    ASSUME Inv, NEW w \in Workers, clock' \in Nat, reply' \in Outcomes,
           Drops(w) \/ \E batch : GoodBatch(batch) /\ Stages(w, batch)
    PROVE  Inv'
<1>1. /\ staged \in [Workers -> Seq(Write) \union {Idle}]
      /\ UNCHANGED <<rows, events>>
  BY DEF Inv, TypeOK, Drops, Stages
<1>2. \A x \in Workers : staged'[x] # Idle =>
        \/ staged'[x] = staged[x]
        \/ GoodBatch(staged'[x])
  BY <1>1 DEF Drops, Stages
<1>3. staged' \in [Workers -> Seq(Write) \union {Idle}]
  BY <1>1 DEF Drops, Stages, GoodBatch
<1>4. TypeOK'
  BY <1>1, <1>3 DEF Inv, TypeOK
<1>5. StagedOK'
  <2> SUFFICES ASSUME NEW x \in Workers, staged'[x] # Idle
               PROVE  BatchOK(staged[x])'
    BY DEF StagedOK
  <2>1. BatchOK(staged'[x])
    BY <1>2 DEF GoodBatch, Inv, StagedOK
  <2>2. QED
    BY <1>1, <2>1 DEF BatchOK
<1>6. StagedStands'
  <2> SUFFICES ASSUME NEW x \in Workers, staged'[x] # Idle, NEW n \in DOMAIN staged'[x],
                      staged'[x][n].cause # "publish"
               PROVE  Stands(events', staged'[x][n].entity, staged'[x][n].edited.payload)
    BY DEF StagedStands
  <2>1. Stands(events, staged'[x][n].entity, staged'[x][n].edited.payload)
    BY <1>2 DEF GoodBatch, Inv, StagedStands
  <2>2. QED
    BY <1>1, <2>1
<1>7. NoneBeforeCreation' /\ StoredWasTold' /\ AnnouncedOnce' /\ OverrideStands'
  BY <1>1 DEF Inv, NoneBeforeCreation, StoredWasTold, AnnouncedOnce, OverrideStands
<1>8. QED
  BY <1>4, <1>5, <1>6, <1>7 DEF Inv

\* A request that is refused or answered from memory keeps the invariant.
LEMMA UnchangedKeepsInv ==
    ASSUME Inv, clock' \in Nat, reply' \in Outcomes, UNCHANGED <<rows, events, staged>>
    PROVE  Inv'
BY DEF Inv, TypeOK, StagedOK, BatchOK, NoneBeforeCreation, StoredWasTold, AnnouncedOnce,
       OverrideStands, StagedStands

\* The clock and the outcome of a request have their types after it.
LEMMA RequestTypes ==
    ASSUME Inv, NEW w \in Workers, Request(w)
    PROVE  clock' \in Nat /\ reply' \in Outcomes
<1>1. clock \in Nat
  BY DEF Inv, TypeOK
<1>2. CASE Publish(w)
  BY <1>1, <1>2 DEF Publish, ReadForPublish, Answer, Stage, Outcomes
<1>3. CASE Override(w) \/ Removal(w) \/ Sweep(w)
  BY <1>1, <1>3 DEF Override, ReadForOverride, Removal, ReadForRemoval, Sweep, ReadForSweep,
                    Answer, Stage, Outcomes
<1>4. CASE CommitCreate(w) \/ CommitChanges(w) \/ Rollback(w)
  BY <1>1, <1>4 DEF CommitCreate, CommitChanges, Rollback, Finish, Outcomes
<1>5. QED
  BY <1>2, <1>3, <1>4 DEF Request

\* Every step keeps the invariant.
LEMMA NextInv == Inv /\ [Next]_vars => Inv'
<1> SUFFICES ASSUME Inv, [Next]_vars
             PROVE  Inv'
  OBVIOUS
<1>1. CASE Tick
  <2>1. clock' \in Nat /\ reply' \in Outcomes /\ UNCHANGED <<rows, events, staged>>
    BY <1>1 DEF Tick, Inv, TypeOK
  <2>2. QED
    BY <2>1, UnchangedKeepsInv
<1>2. ASSUME NEW w \in Workers, Request(w)
      PROVE  Inv'
  <2>1. clock' \in Nat /\ reply' \in Outcomes
    BY <1>2, RequestTypes
  <2>2. QED
    BY <1>2, <2>1, StepKinds, UnchangedKeepsInv, StagingKeepsInv, WriteKeepsInv
<1>3. CASE UNCHANGED vars
  <2>1. clock' \in Nat /\ reply' \in Outcomes /\ UNCHANGED <<rows, events, staged>>
    BY <1>3 DEF vars, Inv, TypeOK
  <2>2. QED
    BY <2>1, UnchangedKeepsInv
<1>4. QED
  BY <1>1, <1>2, <1>3 DEF Next

-----------------------------------------------------------------------------
(* What holds however many workers race on however many entities.          *)

\* The strengthening is an invariant of the store.
THEOREM Invariance == Spec => []Inv
<1>1. QED BY InitInv, NextInv, PTL DEF Spec

\* The rows, the stream and the prepared writes of publish(), override_field(),
\* remove_override() and the sweep keep their types.
THEOREM TypeCorrect == Spec => []TypeOK
<1>1. Inv => TypeOK
  BY DEF Inv
<1>2. QED BY <1>1, Invariance, PTL

\* Whatever GET answers was told on the stream, and a row is numbered by the last
\* event of its entity, in whatever order the transactions of publishers,
\* operators and sweeps commit.
THEOREM StoredWasToldAlways == Spec => []StoredWasTold
<1>1. Inv => StoredWasTold
  BY DEF Inv
<1>2. QED BY <1>1, Invariance, PTL

\* However many publications race to create an entity, publish() announces it
\* once, before everything else about it.
THEOREM AnnouncedOnceAlways == Spec => []AnnouncedOnce
<1>1. Inv => AnnouncedOnce
  BY DEF Inv
<1>2. QED BY <1>1, Invariance, PTL

\* An override that stands shows at its path, until a sweep ends the life of its
\* entity, and keeps the base a publisher sent or one that was told of the entity,
\* whatever override_field(), remove_override() and publish() overtake one another.
THEOREM OverrideStandsAlways == Spec => []OverrideStands
<1>1. Inv => OverrideStands
  BY DEF Inv
<1>2. QED BY <1>1, Invariance, PTL

-----------------------------------------------------------------------------
(* What the readers of the stream see of a step.                           *)

\* A row is numbered by an event of its own.
OwnSequence == \A e \in Entities : rows[e] # NoRow => events[rows[e].sequence].entity = e

\* Requests take no time of their own.
LEMMA RequestKeepsClock ==
    ASSUME NEW w \in Workers, Request(w)
    PROVE  UNCHANGED clock
<1>1. CASE Publish(w)
  BY <1>1 DEF Publish, ReadForPublish, Answer, Stage
<1>2. CASE Override(w) \/ Removal(w) \/ Sweep(w)
  BY <1>2 DEF Override, ReadForOverride, Removal, ReadForRemoval, Sweep, ReadForSweep, Answer, Stage
<1>3. CASE CommitCreate(w) \/ CommitChanges(w) \/ Rollback(w)
  BY <1>3 DEF CommitCreate, CommitChanges, Rollback, Finish
<1>4. QED BY <1>1, <1>2, <1>3 DEF Request

\* Every step leaves rows and stream as they are, or is a commit.
LEMMA WritesOrNot ==
    ASSUME Inv, [Next]_vars
    PROVE  UNCHANGED <<rows, events>> \/ \E w \in Workers : Writes(w) /\ UNCHANGED clock
<1>1. ASSUME NEW w \in Workers, Request(w)
      PROVE  UNCHANGED <<rows, events>> \/ Writes(w)
  BY <1>1, StepKinds DEF Stages, Drops
<1>2. ASSUME NEW w \in Workers, Request(w)
      PROVE  UNCHANGED clock
  BY <1>2, RequestKeepsClock
<1>3. CASE Tick \/ UNCHANGED vars
  BY <1>3 DEF Tick, vars
<1>4. QED BY <1>1, <1>2, <1>3 DEF Next

\* No step but a tick of the clock moves it, and that one forward.
LEMMA ClockMoves ==
    ASSUME Inv, [Next]_vars
    PROVE  clock \in Nat /\ clock' \in Nat /\ clock <= clock'
<1>1. clock \in Nat
  BY DEF Inv, TypeOK
<1>2. ASSUME NEW w \in Workers, Request(w)
      PROVE  UNCHANGED clock
  BY <1>2, RequestKeepsClock
<1>3. CASE Tick \/ UNCHANGED vars
  BY <1>1, <1>3 DEF Tick, vars
<1>4. QED BY <1>1, <1>2, <1>3 DEF Next

\* The stream grows at its end, and a row that changes is numbered by a new event.
LEMMA StreamGrows ==
    ASSUME Inv, OwnSequence, [Next]_vars
    PROVE  /\ Inv' /\ OwnSequence'
           /\ DOMAIN events = 1..Len(events) /\ Len(events) \in Nat
           /\ DOMAIN events' = 1..Len(events') /\ Len(events') \in Nat
           /\ Len(events) <= Len(events')
           /\ \A i \in DOMAIN events : i \in DOMAIN events' /\ events'[i] = events[i]
           /\ \A e \in Entities :
                 \/ rows'[e] = rows[e]
                 \/ rows'[e] # NoRow /\ rows'[e].sequence \in Nat /\ rows'[e].sequence > Len(events)
<1>1. Inv'
  BY NextInv
<1>2. events \in Seq(Event) /\ events' \in Seq(Event)
  BY <1>1 DEF Inv, TypeOK
<1>3. /\ DOMAIN events = 1..Len(events) /\ Len(events) \in Nat
      /\ DOMAIN events' = 1..Len(events') /\ Len(events') \in Nat
  BY <1>2
<1>4. CASE UNCHANGED <<rows, events>>
  BY <1>1, <1>3, <1>4 DEF OwnSequence
<1>5. ASSUME NEW w \in Workers, Writes(w)
      PROVE  /\ OwnSequence'
             /\ Len(events) <= Len(events')
             /\ \A i \in DOMAIN events : i \in DOMAIN events' /\ events'[i] = events[i]
             /\ \A e \in Entities :
                   \/ rows'[e] = rows[e]
                   \/ rows'[e] # NoRow /\ rows'[e].sequence \in Nat /\ rows'[e].sequence > Len(events)
  <2> DEFINE batch == staged[w]
  <2>1. /\ batch \in Seq(Write)
        /\ \A e \in Entities : (\A n \in DOMAIN batch : batch[n].entity # e) => rows'[e] = rows[e]
        /\ \A n \in DOMAIN batch : /\ rows'[batch[n].entity] \in Row
                                   /\ rows'[batch[n].entity].sequence = Len(events) + n
    BY <1>5 DEF Writes
  <2>2. /\ \A i \in DOMAIN events : i \in DOMAIN events' /\ events'[i] = events[i]
        /\ \A n \in DOMAIN batch : /\ Len(events) + n \in DOMAIN events'
                                   /\ events'[Len(events) + n] = EventOf(batch[n])
    BY <1>5, WriteExtendsLog
  <2>3. \A n \in DOMAIN batch : n \in Nat /\ n >= 1
    BY <2>1
  <2> HIDE DEF batch
  <2>4. Len(events) <= Len(events')
    <3>1. CASE Len(events) = 0
      BY <1>3, <3>1
    <3>2. CASE Len(events) # 0
      <4>1. Len(events) \in DOMAIN events
        BY <1>3, <3>2
      <4>2. QED BY <1>3, <2>2, <4>1
    <3>3. QED BY <3>1, <3>2
  <2>5. ASSUME NEW e \in Entities
        PROVE  \/ rows'[e] = rows[e]
               \/ /\ rows'[e] # NoRow /\ rows'[e].sequence \in Nat /\ rows'[e].sequence > Len(events)
                  /\ events'[rows'[e].sequence].entity = e
    <3>1. CASE \A n \in DOMAIN batch : batch[n].entity # e
      BY <2>1, <3>1
    <3>2. ASSUME NEW n \in DOMAIN batch, batch[n].entity = e
          PROVE  /\ rows'[e] # NoRow /\ rows'[e].sequence \in Nat /\ rows'[e].sequence > Len(events)
                 /\ events'[rows'[e].sequence].entity = e
      <4>1. rows'[e] \in Row /\ rows'[e].sequence = Len(events) + n
        BY <2>1, <3>2
      <4>2. events'[Len(events) + n].entity = e
        <5>1. EventOf(batch[n]).entity = e
          BY <3>2 DEF EventOf
        <5>2. events'[Len(events) + n] = EventOf(batch[n])
          BY <2>2
        <5>3. QED BY <5>1, <5>2
      <4>3. QED BY <1>3, <2>3, <4>1, <4>2, SentinelsAssumption
    <3>3. QED BY <3>1, <3>2
  <2>6. OwnSequence'
    <3> SUFFICES ASSUME NEW e \in Entities, rows'[e] # NoRow
                 PROVE  events'[rows'[e].sequence].entity = e
      BY DEF OwnSequence
    <3>1. CASE rows'[e] = rows[e]
      <4>1. rows[e].sequence \in DOMAIN events /\ events[rows[e].sequence].entity = e
        BY <3>1 DEF Inv, StoredWasTold, OwnSequence
      <4>2. QED BY <2>2, <3>1, <4>1
    <3>2. QED BY <2>5, <3>1
  <2>7. QED BY <2>2, <2>4, <2>5, <2>6
<1>6. QED BY <1>1, <1>3, <1>4, <1>5, WritesOrNot

-----------------------------------------------------------------------------
(* What each request makes of the row it read.                             *)

\* publish() tells whether it ends the life of the entity it read, and does not take its
\* time back; the sweep ends a life that is due; the others leave the column alone, and
\* of the payload's life and time what is not at their path.
EditOK(write) ==
    /\ write.cause = "publish" =>
         /\ write.path = Absent
         /\ Agrees(write.edited)
         /\ write.loaded # NoRow =>
              /\ write.type = "DELETED" <=> write.loaded.isLive /\ ~write.edited.isLive
              /\ (/\ EnforceSourceTime
                  /\ Absent \notin {write.loaded.payload.time, write.edited.payload.time}) =>
                    write.loaded.payload.time < write.edited.payload.time
    /\ write.cause = "expiry" =>
         /\ write.path = Absent
         /\ write.type = "DELETED"
         /\ write.loaded \in Row
         /\ write.loaded.isLive
         /\ write.loaded.expiry # Absent /\ write.loaded.expiry <= clock
         /\ write.edited = Expired(write.loaded)
    /\ write.cause \in {"override", "removal"} =>
         /\ write.path \in Paths
         /\ write.type = "UPDATE"
         /\ write.loaded \in Row
         /\ write.edited.isLive = write.loaded.isLive
         /\ write.path # "isLive" => write.edited.payload.isLive = write.loaded.payload.isLive
         /\ write.path # "time" => write.edited.payload.time = write.loaded.payload.time

\* Only a sweep writes more than one row.
EditsOK(batch) == /\ \A n \in DOMAIN batch : EditOK(batch[n])
                  /\ Len(batch) = 1 \/ \A n \in DOMAIN batch : batch[n].cause = "expiry"

EditedInv == Inv /\ \A w \in Workers : staged[w] # Idle => EditsOK(staged[w])

\* The rows of a batch are as they were read.
Fresh(batch) == \A n \in DOMAIN batch : batch[n].loaded = rows[batch[n].entity]

\* A request on one entity edits one row, as it is.
LEMMA SingleEdit ==
    ASSUME NEW e, NEW type, NEW cause, NEW path, NEW edited,
           EditOK(WriteOf(e, type, cause, path, edited))
    PROVE  /\ Fresh(<<WriteOf(e, type, cause, path, edited)>>)
           /\ EditsOK(<<WriteOf(e, type, cause, path, edited)>>)
<1> DEFINE write == WriteOf(e, type, cause, path, edited)
<1>1. write.entity = e /\ write.loaded = rows[e]
  BY DEF WriteOf
<1> HIDE DEF write
<1>2. DOMAIN <<write>> = {1} /\ <<write>>[1] = write /\ Len(<<write>>) = 1
  OBVIOUS
<1>3. Fresh(<<write>>) /\ (EditOK(write) => EditsOK(<<write>>))
  BY <1>1, <1>2 DEF Fresh, EditsOK
<1>4. QED BY <1>3 DEF write

\* A publication that is not refused is newer than the row.
LEMMA PublishEdits ==
    ASSUME Inv, NEW e \in Entities, NEW isLive \in BOOLEAN,
           NEW time \in Times \union {Absent}, NEW expiry \in Expiries \union {Absent},
           NEW value \in PublishedValues \union {Absent}, NEW sent \in Sent,
           rows[e] # NoRow => ~StaleUpdate(time, rows[e].payload.time)
    PROVE  EditOK(WriteOf(e, PublishedType(e, isLive), "publish", Absent,
                          PublishedRow(isLive, time, expiry, value, sent)))
<1> DEFINE row == PublishedRow(isLive, time, expiry, value, sent)
           write == WriteOf(e, PublishedType(e, isLive), "publish", Absent, row)
<1>1. /\ write.cause = "publish" /\ write.loaded = rows[e] /\ write.edited = row
      /\ write.type = PublishedType(e, isLive) /\ write.path = Absent
  BY DEF WriteOf
<1>2. row.isLive = isLive /\ row.payload.isLive = isLive /\ row.payload.time = time
  BY PublishedRowFacts
<1>3. rows[e] # NoRow => (PublishedType(e, isLive) = "DELETED" <=> rows[e].isLive /\ ~isLive)
  BY DEF PublishedType
<1>4. ASSUME rows[e] # NoRow, EnforceSourceTime, Absent \notin {rows[e].payload.time, time}
      PROVE  rows[e].payload.time < time
  <2>1. rows[e].payload.time \in Times /\ time \in Times
    BY <1>4 DEF Inv, TypeOK, Row, Payload
  <2>2. rows[e].payload.time \in Nat /\ time \in Nat
    BY <2>1, ConstantsAssumption
  <2>3. ~(time <= rows[e].payload.time)
    BY <1>4 DEF StaleUpdate
  <2>4. QED BY <2>2, <2>3
<1> HIDE DEF row, write
<1>5. EditOK(write)
  BY <1>1, <1>2, <1>3, <1>4 DEF EditOK, Agrees
<1>6. QED BY <1>5 DEF write, row

\* Overrides and removals change their path and what is kept beside it.
LEMMA FieldEdits ==
    ASSUME Inv, NEW e \in Entities, rows[e] # NoRow, NEW cause \in {"override", "removal"},
           NEW path \in Paths, NEW p \in Payload,
           path # "isLive" => p.isLive = rows[e].payload.isLive,
           path # "time" => p.time = rows[e].payload.time
    PROVE  EditOK(WriteOf(e, "UPDATE", cause, path, [rows[e] EXCEPT !.payload = p]))
<1> DEFINE row == [rows[e] EXCEPT !.payload = p]
           write == WriteOf(e, "UPDATE", cause, path, row)
<1>1. rows[e] \in Row
  BY DEF Inv, TypeOK
<1>2. row.payload = p /\ row.isLive = rows[e].isLive
  BY <1>1 DEF Row
<1>3. /\ write.cause = cause /\ write.path = path /\ write.loaded = rows[e]
      /\ write.edited = row /\ write.type = "UPDATE"
  BY DEF WriteOf
<1> HIDE DEF row, write
<1>4. EditOK(write)
  BY <1>1, <1>2, <1>3 DEF EditOK
<1>5. QED BY <1>4 DEF write, row

\* A sweep ends the lives that are due, and no other.
LEMMA SweepEdits ==
    ASSUME Inv, NEW scope \in SUBSET Entities,
           NEW order \in SetToSeqs({e \in scope : Due(e)})
    PROVE  LET batch == [n \in DOMAIN order |->
                           WriteOf(order[n], "DELETED", "expiry", Absent, Expired(rows[order[n]]))]
           IN  Fresh(batch) /\ EditsOK(batch)
<1> DEFINE due == {e \in scope : Due(e)}
           writeOf(e) == WriteOf(e, "DELETED", "expiry", Absent, Expired(rows[e]))
           batch == [n \in DOMAIN order |-> writeOf(order[n])]
<1>1. \A n \in DOMAIN order : order[n] \in due
  BY OrderFacts
<1>2. ASSUME NEW e \in due
      PROVE  /\ writeOf(e).entity = e /\ writeOf(e).loaded = rows[e]
             /\ writeOf(e).cause = "expiry" /\ EditOK(writeOf(e))
  <2>1. rows[e] \in Row /\ rows[e].isLive /\ rows[e].expiry # Absent /\ rows[e].expiry <= clock
    BY DEF Due, Inv, TypeOK
  <2>2. /\ writeOf(e).entity = e /\ writeOf(e).loaded = rows[e] /\ writeOf(e).type = "DELETED"
        /\ writeOf(e).cause = "expiry" /\ writeOf(e).path = Absent
        /\ writeOf(e).edited = Expired(rows[e])
    BY DEF WriteOf
  <2> HIDE DEF writeOf
  <2>3. QED BY <2>1, <2>2 DEF EditOK
<1> HIDE DEF due, writeOf
<1>3. DOMAIN batch = DOMAIN order /\ \A n \in DOMAIN batch : batch[n] = writeOf(order[n])
  OBVIOUS
<1> HIDE DEF batch
<1>4. Fresh(batch) /\ EditsOK(batch)
  BY <1>1, <1>2, <1>3 DEF Fresh, EditsOK
<1>5. QED BY <1>4 DEF batch, writeOf

\* What a request prepares edits the rows as they are.
LEMMA RequestEdits ==
    ASSUME Inv, NEW w \in Workers, Request(w)
    PROVE  \/ UNCHANGED staged
           \/ staged' = [staged EXCEPT ![w] = Idle]
           \/ \E batch : /\ staged' = [staged EXCEPT ![w] = batch]
                         /\ UNCHANGED <<rows, events, clock>>
                         /\ Fresh(batch) /\ EditsOK(batch)
<1> USE DEF Answer, Stage
<1>1. CASE Publish(w)
  <2>1. PICK e \in Entities, isLive \in BOOLEAN, noExpiry \in BOOLEAN,
             time \in Times \union {Absent}, expiry \in Expiries \union {Absent},
             value \in PublishedValues \union {Absent}, sent \in Sent :
             ReadForPublish(w, e, isLive, time, expiry, noExpiry, value, sent)
    BY <1>1 DEF Publish
  <2> DEFINE write == WriteOf(e, PublishedType(e, isLive), "publish", Absent,
                             PublishedRow(isLive, time, expiry, value, sent))
  <2>2. \/ UNCHANGED staged
        \/ /\ rows[e] # NoRow => ~StaleUpdate(time, rows[e].payload.time)
           /\ staged' = [staged EXCEPT ![w] = <<write>>]
           /\ UNCHANGED <<rows, events, clock>>
    BY <2>1 DEF ReadForPublish, PublishedRow
  <2>3. (rows[e] # NoRow => ~StaleUpdate(time, rows[e].payload.time)) =>
            Fresh(<<write>>) /\ EditsOK(<<write>>)
    BY PublishEdits, SingleEdit
  <2> HIDE DEF write
  <2>4. QED BY <2>2, <2>3
<1>2. CASE Override(w)
  <2>0. PICK e \in Entities, path \in Paths : \E value \in Overriding[path] :
             ReadForOverride(w, e, path, value)
    BY <1>2 DEF Override
  <2>1. PICK value \in Overriding[path] : ReadForOverride(w, e, path, value)
    BY <2>0
  <2> DEFINE p == Overridden(rows[e].payload, path, value)
             write == WriteOf(e, "UPDATE", "override", path, [rows[e] EXCEPT !.payload = p])
  <2>2. \/ UNCHANGED staged
        \/ /\ rows[e] # NoRow
           /\ staged' = [staged EXCEPT ![w] = <<write>>]
           /\ UNCHANGED <<rows, events, clock>>
    BY <2>1 DEF ReadForOverride
  <2>3. ASSUME rows[e] # NoRow
        PROVE  Fresh(<<write>>) /\ EditsOK(<<write>>)
    <3>1. rows[e].payload \in Payload
      BY <2>3 DEF Inv, TypeOK, Row
    <3>2. /\ p \in Payload
          /\ path # "isLive" => p.isLive = rows[e].payload.isLive
          /\ path # "time" => p.time = rows[e].payload.time
      BY <3>1, EditFacts
    <3> HIDE DEF p
    <3>3. EditOK(write)
      BY <2>3, <3>2, FieldEdits
    <3>4. QED BY <3>3, SingleEdit
  <2> HIDE DEF write
  <2>4. QED BY <2>2, <2>3
<1>3. CASE Removal(w)
  <2>1. PICK e \in Entities, path \in Paths : ReadForRemoval(w, e, path)
    BY <1>3 DEF Removal
  <2> DEFINE p == Restored(rows[e].payload, path)
             write == WriteOf(e, "UPDATE", "removal", path, [rows[e] EXCEPT !.payload = p])
  <2>2. \/ UNCHANGED staged
        \/ /\ rows[e] # NoRow
           /\ staged' = [staged EXCEPT ![w] = <<write>>]
           /\ UNCHANGED <<rows, events, clock>>
    BY <2>1 DEF ReadForRemoval
  <2>3. ASSUME rows[e] # NoRow
        PROVE  Fresh(<<write>>) /\ EditsOK(<<write>>)
    <3>1. rows[e].payload \in Payload
      BY <2>3 DEF Inv, TypeOK, Row
    <3>2. /\ p \in Payload
          /\ path # "isLive" => p.isLive = rows[e].payload.isLive
          /\ path # "time" => p.time = rows[e].payload.time
      BY <3>1, RestoredFacts
    <3> HIDE DEF p
    <3>3. EditOK(write)
      BY <2>3, <3>2, FieldEdits
    <3>4. QED BY <3>3, SingleEdit
  <2> HIDE DEF write
  <2>4. QED BY <2>2, <2>3
<1>4. CASE Sweep(w)
  <2>1. PICK scope \in {{e} : e \in Entities} \union {Entities} : ReadForSweep(w, scope)
    BY <1>4 DEF Sweep
  <2>2. scope \in SUBSET Entities
    OBVIOUS
  <2>3. PICK order \in SetToSeqs({e \in scope : Due(e)}) :
          /\ staged' = [staged EXCEPT ![w] = [n \in DOMAIN order |->
                WriteOf(order[n], "DELETED", "expiry", Absent, Expired(rows[order[n]]))]]
          /\ UNCHANGED <<rows, events, clock>>
    BY <2>1 DEF ReadForSweep
  <2>4. QED BY <2>2, <2>3, SweepEdits
<1>5. CASE CommitCreate(w) \/ CommitChanges(w) \/ Rollback(w)
  BY <1>5 DEF CommitCreate, CommitChanges, Rollback, Finish
<1>6. QED BY <1>1, <1>2, <1>3, <1>4, <1>5 DEF Request

\* What is prepared stays as it was prepared: the clock only moves on.
LEMMA StepKeepsEdited == EditedInv /\ [Next]_vars => EditedInv'
<1> SUFFICES ASSUME EditedInv, [Next]_vars PROVE EditedInv'
  OBVIOUS
<1>1. Inv /\ Inv' /\ clock \in Nat /\ clock' \in Nat /\ clock <= clock'
  BY NextInv, ClockMoves DEF EditedInv
<1>2. ASSUME NEW write, EditOK(write)
      PROVE  EditOK(write)'
  <2>1. write.loaded \in Row /\ write.loaded.expiry # Absent => write.loaded.expiry \in Nat
    BY ConstantsAssumption DEF Row
  <2>2. QED BY <1>1, <1>2, <2>1 DEF EditOK, Agrees
<1>3. ASSUME NEW batch, EditsOK(batch)
      PROVE  EditsOK(batch)'
  BY <1>2, <1>3 DEF EditsOK
<1>4. ASSUME NEW x \in Workers, staged'[x] # Idle
      PROVE  EditsOK(staged'[x])
  <2>1. CASE UNCHANGED staged
    BY <1>4, <2>1 DEF EditedInv
  <2>2. ASSUME NEW w \in Workers, Request(w)
        PROVE  EditsOK(staged'[x])
    <3>1. staged \in [Workers -> Seq(Write) \union {Idle}]
      BY <1>1 DEF Inv, TypeOK
    <3>2. QED BY <1>1, <1>4, <2>2, <3>1, RequestEdits DEF EditedInv
  <2>3. QED BY <2>1, <2>2 DEF Next, Tick, vars
<1>5. QED BY <1>1, <1>3, <1>4 DEF EditedInv

\* Each row a commit writes is the edited one, or the current one with the edited
\* columns set.
RowWritten(write, n) ==
    LET e == write.entity
    IN  \/ write.loaded = NoRow /\ rows[e] = NoRow /\ rows'[e] = Sequenced(write.edited, n)
        \/ write.loaded \in Row /\ rows[e] \in Row
              /\ rows'[e] = Sequenced(Flush(rows[e], write), n)

\* A step leaves rows and stream, or writes the rows its transaction was prepared with.
LEMMA RowsWritten ==
    ASSUME Inv, NEW w \in Workers, Request(w)
    PROVE  \/ UNCHANGED <<rows, events>>
           \/ Writes(w) /\ \A n \in DOMAIN staged[w] : RowWritten(staged[w][n], n)
<1> DEFINE batch == staged[w]
<1>1. CASE CommitCreate(w)
  <2>1. /\ batch # Idle /\ batch \in Seq(Write) /\ BatchOK(batch) /\ batch[1].loaded = NoRow
    BY <1>1 DEF CommitCreate, Inv, TypeOK, StagedOK
  <2>2. Len(batch) = 1 /\ DOMAIN batch = {1} /\ batch[1] \in Write
    <3>1. Len(batch) = 1
      BY <2>1 DEF BatchOK
    <3>2. QED BY <2>1, <3>1
  <2>3. batch[1].entity \in Entities
    BY <2>2 DEF Write
  <2>4. \/ UNCHANGED <<rows, events>>
        \/ /\ rows[batch[1].entity] = NoRow
           /\ rows' = [rows EXCEPT ![batch[1].entity] = Sequenced(batch[1].edited, 1)]
    BY <1>1 DEF CommitCreate
  <2>5. CASE Drops(w)
    BY <2>5 DEF Drops
  <2>6. CASE Writes(w) /\ rows[batch[1].entity] = NoRow
             /\ rows' = [rows EXCEPT ![batch[1].entity] = Sequenced(batch[1].edited, 1)]
    <3>1. rows'[batch[1].entity] = Sequenced(batch[1].edited, 1)
      BY <2>3, <2>6 DEF Inv, TypeOK
    <3>2. QED BY <2>1, <2>2, <2>6, <3>1 DEF RowWritten
  <2>7. QED BY <1>1, <2>4, <2>5, <2>6, CreateWrites
<1>2. CASE CommitChanges(w)
  <2>1. Writes(w)
    BY <1>2, ChangesWrite
  <2>2. /\ batch \in Seq(Write) /\ BatchOK(batch) /\ batch[1].loaded # NoRow
    BY <1>2, <2>1 DEF CommitChanges, Writes
  <2>3. ASSUME NEW n \in DOMAIN batch
        PROVE  RowWritten(batch[n], n)
    <3> DEFINE e == batch[n].entity
               m == CHOOSE m \in DOMAIN batch : batch[m].entity = e
    <3>1. e \in Entities /\ batch[n].loaded \in Row /\ rows[e] # NoRow
      <4>1. e \in Entities
        BY <2>2, BatchFields
      <4>2. batch[n].loaded \in Row /\ rows[e] # NoRow
        BY <2>2, Zenon DEF BatchOK
      <4>3. QED BY <4>1, <4>2
    <3>2. m \in DOMAIN batch /\ batch[m].entity = e
      OBVIOUS
    <3>3. m = n
      BY <2>2, <3>2 DEF BatchOK
    <3>4. rows'[e] = Sequenced(Flush(rows[e], batch[m]), m)
      BY <1>2, <3>1 DEF CommitChanges
    <3>5. QED BY <3>1, <3>3, <3>4 DEF Inv, TypeOK, RowWritten
  <2>4. QED BY <2>1, <2>3
<1>3. CASE Publish(w)
  BY <1>3 DEF Publish, ReadForPublish, Answer, Stage
<1>4. CASE Override(w) \/ Removal(w) \/ Sweep(w) \/ Rollback(w)
  BY <1>4 DEF Override, ReadForOverride, Removal, ReadForRemoval, Sweep, ReadForSweep, Rollback,
              Answer, Stage
<1>5. QED BY <1>1, <1>2, <1>3, <1>4 DEF Request

\* What the ORM writes over the row that was read is, but for a nested value, what was
\* edited.
LEMMA FreshFlush ==
    ASSUME NEW write \in Write, write.loaded \in Row, NEW n \in Nat, TypeOK
    PROVE  LET after == Sequenced(Flush(write.loaded, write), n)
           IN  /\ after.isLive = write.edited.isLive
               /\ after.payload.isLive = write.edited.payload.isLive
               /\ after.expiry = IF write.cause = "publish" THEN write.edited.expiry
                                                            ELSE write.loaded.expiry
               /\ \/ after.payload = write.edited.payload
                  \/ /\ write.path \in Nested
                     /\ write.edited.payload = [after.payload EXCEPT
                            ![write.path] = write.edited.payload[write.path]]
<1> DEFINE flushed == Flush(write.loaded, write)
           after == Sequenced(flushed, n)
<1>1. write.edited \in Row
  BY DEF Write
<1>2. flushed \in Row
  BY FlushFacts
<1>3. /\ flushed.isLive = write.edited.isLive
      /\ flushed.expiry = IF write.cause = "publish" THEN write.edited.expiry ELSE write.loaded.expiry
      /\ flushed.payload = IF write.edited.payload = Compared(write)
                           THEN write.loaded.payload ELSE write.edited.payload
  BY <1>1 DEF Flush, Row
<1>4. /\ Compared(write).isLive = write.loaded.payload.isLive
      /\ write.path \notin Nested => Compared(write) = write.loaded.payload
      /\ write.path \in Nested => Compared(write) = [write.loaded.payload EXCEPT
            ![write.path] = write.edited.payload[write.path]]
  BY DEF Compared, Nested, Row, Payload
<1>5. /\ flushed.payload.isLive = write.edited.payload.isLive
      /\ \/ flushed.payload = write.edited.payload
         \/ /\ write.path \in Nested
            /\ write.edited.payload = [flushed.payload EXCEPT
                   ![write.path] = write.edited.payload[write.path]]
  BY <1>3, <1>4
<1> HIDE DEF flushed
<1>6. after.isLive = flushed.isLive /\ after.expiry = flushed.expiry /\ after.payload = flushed.payload
  BY <1>2 DEF Sequenced, Row
<1>7. QED BY <1>3, <1>5, <1>6 DEF flushed

\* What a sweep leaves of a row.
LEMMA ExpiredFields ==
    ASSUME NEW row \in Row
    PROVE  /\ Expired(row).isLive = FALSE
           /\ Expired(row).isLive = Expired(row).payload.isLive
           /\ Expired(row).payload.time = row.payload.time
           /\ Expired(row).expiry = row.expiry
BY DEF Expired, Row, Payload

\* A write to the row that was read keeps column and payload together and the source's
\* time from going back, unless it is an operator's edit of them, and says DELETED exactly
\* when it ends a life.
Harmless(write, after) ==
    LET before == write.loaded
    IN  /\ write.path # "isLive" => (Agrees(before) => Agrees(after))
        /\ write.path = Absent => Agrees(after)
        /\ (/\ EnforceSourceTime /\ write.path # "time"
            /\ Absent \notin {before.payload.time, after.payload.time})
               => before.payload.time <= after.payload.time
        /\ write.type = "DELETED" <=> before.isLive /\ ~after.isLive

\* What each request prepares is harmless to the row it read.
LEMMA FreshWrite ==
    ASSUME NEW write \in Write, write.loaded \in Row, EditOK(write), NEW n \in Nat, TypeOK
    PROVE  Harmless(write, Sequenced(Flush(write.loaded, write), n))
<1> DEFINE after == Sequenced(Flush(write.loaded, write), n)
<1>1. /\ after.isLive = write.edited.isLive
      /\ after.payload.isLive = write.edited.payload.isLive
      /\ write.path # "time" => after.payload.time = write.edited.payload.time
  BY FreshFlush DEF Nested
<1> HIDE DEF after
<1>2. /\ write.loaded # NoRow /\ write.cause \in Causes
      /\ write.loaded.payload.time \in Times \union {Absent}
      /\ write.edited.payload.time \in Times \union {Absent}
  BY SentinelsAssumption DEF Write, Row, Payload
<1>3. /\ \A time \in Times : time \in Nat
      /\ \A path \in Paths : path # Absent
  BY ConstantsAssumption
<1>4. CASE write.cause = "publish"
  BY <1>1, <1>2, <1>3, <1>4 DEF EditOK, Agrees, Harmless, after
<1>5. CASE write.cause = "expiry"
  <2>1. write.type = "DELETED" /\ write.loaded.isLive /\ write.edited = Expired(write.loaded)
    BY <1>5 DEF EditOK
  <2>2. /\ ~write.edited.isLive
        /\ write.edited.isLive = write.edited.payload.isLive
        /\ write.edited.payload.time = write.loaded.payload.time
    BY <2>1, ExpiredFields
  <2>3. ~after.isLive /\ Agrees(after)
    BY <1>1, <2>2 DEF Agrees
  <2>4. write.path # "time" => after.payload.time = write.loaded.payload.time
    BY <1>1, <2>2
  <2>5. (write.path # "time" /\ Absent # write.loaded.payload.time) =>
           write.loaded.payload.time <= after.payload.time
    BY <1>2, <1>3, <2>4
  <2>6. write.type = "DELETED" <=> write.loaded.isLive /\ ~after.isLive
    BY <2>1, <2>3
  <2>7. QED BY <2>3, <2>5, <2>6 DEF after, Harmless
<1>6. CASE write.cause \in {"override", "removal"}
  <2>1. /\ write.path \in Paths /\ write.type = "UPDATE"
        /\ write.edited.isLive = write.loaded.isLive
        /\ write.path # "isLive" => write.edited.payload.isLive = write.loaded.payload.isLive
        /\ write.path # "time" => write.edited.payload.time = write.loaded.payload.time
    BY <1>6 DEF EditOK
  <2>2. write.path # "isLive" => (Agrees(write.loaded) => Agrees(after))
    BY <1>1, <2>1 DEF Agrees
  <2>3. (write.path # "time" /\ Absent # write.loaded.payload.time) =>
           write.loaded.payload.time <= after.payload.time
    BY <1>1, <1>2, <1>3, <2>1
  <2>4. QED BY <1>1, <1>3, <2>1, <2>2, <2>3 DEF Harmless, after
<1>7. QED BY <1>2, <1>4, <1>5, <1>6 DEF Causes

\* The strengthening by what is prepared is an invariant of the store.
THEOREM EditedInvariance == Spec => []EditedInv
<1>1. Init => EditedInv
  BY InitInv DEF Init, EditedInv
<1>2. QED BY <1>1, StepKeepsEdited, PTL DEF Spec

\* Of the requests that race, one that still holds the row as it is parts the column
\* is_live from the payload only as an operator's edit of isLive, takes a source time
\* back only as one of the time, and announces DELETED of exactly what leaves life.
THEOREM FreshCommitsAlways == Spec => FreshCommits
<1> DEFINE Fine == \A w \in Workers : \A n \in 1..MaxEvents : CommitsFresh(w, n) =>
         Harmless(staged[w][n], rows'[staged[w][n].entity])
<1>1. ASSUME EditedInv, [Next]_vars
      PROVE  [Fine]_vars
  <2> SUFFICES ASSUME NEW w \in Workers, NEW n \in 1..MaxEvents, CommitsFresh(w, n)
               PROVE  Harmless(staged[w][n], rows'[staged[w][n].entity])
    OBVIOUS
  <2>1. Inv /\ TypeOK /\ staged \in [Workers -> Seq(Write) \union {Idle}]
    BY <1>1 DEF EditedInv, Inv, TypeOK
  <2>2. /\ staged[w] # Idle /\ n \in DOMAIN staged[w] /\ staged'[w] = Idle /\ events' # events
        /\ staged[w][n].loaded # NoRow
        /\ staged[w][n].loaded = rows[staged[w][n].entity]
    BY DEF CommitsFresh
  <2>3. PICK x \in Workers : Request(x)
    BY <1>1, <2>2 DEF Next, Tick, vars
  <2>4. Writes(x) /\ \A m \in DOMAIN staged[x] : RowWritten(staged[x][m], m)
    BY <2>1, <2>2, <2>3, RowsWritten
  <2>5. x = w
    BY <2>1, <2>2, <2>4 DEF Writes
  <2>6. staged[w][n] \in Write /\ n \in Nat
    <3>1. staged[w] \in Seq(Write)
      BY <2>1, <2>2
    <3>2. QED BY <2>2, <3>1, BatchFields
  <2>7. staged[w][n].loaded \in Row
        /\ rows'[staged[w][n].entity] = Sequenced(Flush(staged[w][n].loaded, staged[w][n]), n)
    BY <2>2, <2>4, <2>5 DEF RowWritten
  <2>8. EditOK(staged[w][n])
    BY <1>1, <2>2 DEF EditedInv, EditsOK
  <2>9. QED BY <2>1, <2>6, <2>7, <2>8, FreshWrite
<1>2. QED BY <1>1, EditedInvariance, PTL DEF Spec, FreshCommits, Harmless

-----------------------------------------------------------------------------
(* One request at a time.                                                  *)

Alone == \A v, w \in Workers : v = w

\* An entity that lives was published alive after each DELETED of it.
LivesByPublication == \A e \in Entities : (rows[e] # NoRow /\ rows[e].isLive) =>
    \A i \in DOMAIN events : (events[i].entity = e /\ events[i].type = "DELETED") =>
        \E k \in i..Len(events) : /\ events[k].entity = e
                                  /\ events[k].cause = "publish"
                                  /\ events[k].payload.isLive = TRUE

\* What is prepared was read from the rows as they are, and only publications bring
\* an entity to life.
AloneInv ==
    /\ EditedInv
    /\ OwnSequence
    /\ \A w \in Workers : staged[w] # Idle => Fresh(staged[w])
    /\ LivesByPublication
    /\ DeletedOncePerLife

\* What a commit makes of a row that is still the one that was read.
RowMade(write, n) ==
    LET e     == write.entity
        after == rows'[e]
    IN  /\ write \in Write /\ e \in Entities /\ EditOK(write)
        /\ n \in Nat /\ n >= 1
        /\ after \in Row /\ after # NoRow /\ after.sequence = Len(events) + n
        /\ after.isLive = write.edited.isLive
        /\ after.expiry = IF write.cause = "publish" THEN write.edited.expiry ELSE rows[e].expiry
        /\ \/ after.payload = write.edited.payload
           \/ /\ write.path \in Nested
              /\ write.edited.payload = [after.payload EXCEPT
                     ![write.path] = write.edited.payload[write.path]]
        /\ write.cause \in {"publish", "expiry"} => after.payload = write.edited.payload
        /\ rows[e] = NoRow => write.cause = "publish"
        /\ rows[e] # NoRow => rows[e] \in Row /\ write.loaded = rows[e]
        /\ (write.type = "DELETED" /\ rows[e] # NoRow) => rows[e].isLive

\* A request that nobody races writes its rows onto the rows it read.
LEMMA RowsMade ==
    ASSUME AloneInv, NEW w \in Workers, Writes(w),
           \A n \in DOMAIN staged[w] : RowWritten(staged[w][n], n),
           NEW n \in DOMAIN staged[w]
    PROVE  RowMade(staged[w][n], n)
<1> DEFINE write == staged[w][n]
           e == write.entity
<1>1. TypeOK /\ Inv /\ staged[w] # Idle /\ staged[w] \in Seq(Write)
  BY DEF AloneInv, EditedInv, Inv, Writes
<1>2. write \in Write /\ e \in Entities /\ n \in Nat /\ n >= 1
  BY <1>1, BatchFields
<1>3. EditOK(write) /\ write.loaded = rows[e]
  BY <1>1 DEF AloneInv, EditedInv, EditsOK, Fresh
<1>4. RowWritten(write, n)
  OBVIOUS
<1>5. rows'[e] \in Row /\ rows'[e].sequence = Len(events) + n
  BY DEF Writes
<1>6. rows'[e] # NoRow
  BY <1>5, SentinelsAssumption
<1> HIDE DEF write
<1>7. CASE write.loaded = NoRow
  <2>1. rows[e] = NoRow /\ rows'[e] = Sequenced(write.edited, n)
    BY <1>4, <1>7, SentinelsAssumption DEF RowWritten
  <2>2. write.cause = "publish" /\ write.edited \in Row
    BY <1>2, <1>3, <1>7, SentinelsAssumption DEF EditOK, Write, Causes
  <2>3. /\ rows'[e].isLive = write.edited.isLive /\ rows'[e].payload = write.edited.payload
        /\ rows'[e].expiry = write.edited.expiry
    BY <2>1, <2>2 DEF Sequenced, Row
  <2>4. RowMade(write, n)
    BY <1>2, <1>3, <1>5, <1>6, <2>1, <2>2, <2>3 DEF RowMade
  <2>5. QED BY <2>4 DEF write
<1>8. CASE write.loaded # NoRow
  <2>1. /\ write.loaded \in Row /\ rows[e] \in Row /\ rows[e] # NoRow
        /\ rows'[e] = Sequenced(Flush(write.loaded, write), n)
    BY <1>3, <1>4, <1>8 DEF RowWritten
  <2>2. write.type = "DELETED" => rows[e].isLive
    <3>1. Harmless(write, rows'[e])
      BY <1>1, <1>2, <1>3, <2>1, FreshWrite
    <3>2. QED BY <1>3, <3>1 DEF Harmless
  <2>3. /\ rows'[e].isLive = write.edited.isLive
        /\ rows'[e].expiry = IF write.cause = "publish" THEN write.edited.expiry ELSE write.loaded.expiry
        /\ \/ rows'[e].payload = write.edited.payload
           \/ /\ write.path \in Nested
              /\ write.edited.payload = [rows'[e].payload EXCEPT
                     ![write.path] = write.edited.payload[write.path]]
    BY <1>1, <1>2, <2>1, FreshFlush
  <2>4. write.cause \in {"publish", "expiry"} => rows'[e].payload = write.edited.payload
    BY <1>3, <2>3, ConstantsAssumption DEF EditOK, Nested
  <2>5. RowMade(write, n)
    BY <1>2, <1>3, <1>5, <1>6, <2>1, <2>2, <2>3, <2>4 DEF RowMade
  <2>6. QED BY <2>5 DEF write
<1>9. QED BY <1>7, <1>8

\* With one worker a step commits what it read, or commits nothing.
LEMMA AloneStep ==
    ASSUME Alone, AloneInv, [Next]_vars
    PROVE  \/ /\ UNCHANGED <<rows, events>>
              /\ \A w \in Workers : staged'[w] # Idle => Fresh(staged'[w])
           \/ /\ UNCHANGED clock
              /\ \A x \in Workers : staged'[x] = Idle
              /\ \E w \in Workers : /\ Writes(w)
                                    /\ EditsOK(staged[w])
                                    /\ \A n \in DOMAIN staged[w] : RowMade(staged[w][n], n)
<1>1. Inv /\ staged \in [Workers -> Seq(Write) \union {Idle}]
  BY DEF AloneInv, EditedInv, Inv, TypeOK
<1>2. CASE Tick \/ UNCHANGED vars
  BY <1>2 DEF Tick, vars, AloneInv
<1>3. ASSUME NEW w \in Workers, Request(w)
      PROVE  \/ /\ UNCHANGED <<rows, events>>
                /\ \A x \in Workers : staged'[x] # Idle => Fresh(staged'[x])
             \/ /\ UNCHANGED clock
                /\ \A x \in Workers : staged'[x] = Idle
                /\ Writes(w)
                /\ EditsOK(staged[w])
                /\ \A n \in DOMAIN staged[w] : RowMade(staged[w][n], n)
  <2>1. CASE UNCHANGED <<rows, events>>
    BY <1>1, <1>3, <2>1, RequestEdits DEF AloneInv
  <2>2. CASE Writes(w) /\ \A n \in DOMAIN staged[w] : RowWritten(staged[w][n], n)
    <3>1. \A x \in Workers : staged'[x] = Idle
      BY <1>1, <2>2 DEF Writes, Alone
    <3>2. EditsOK(staged[w])
      BY <2>2 DEF Writes, AloneInv, EditedInv
    <3>3. QED BY <1>3, <2>2, <3>1, <3>2, RowsMade, RequestKeepsClock
  <2>3. QED BY <1>1, <1>3, <2>1, <2>2, RowsWritten
<1>4. QED BY <1>2, <1>3 DEF Next

\* The rows after a commit, and the last events of their entities.
LEMMA AloneCommit ==
    ASSUME AloneInv, Inv', OwnSequence', NEW w \in Workers, Writes(w),
           \A n \in DOMAIN staged[w] : RowMade(staged[w][n], n), NEW e \in Entities, rows'[e] # NoRow
    PROVE  \/ /\ rows'[e] = rows[e] /\ rows[e].sequence \in DOMAIN events
              /\ events'[rows'[e].sequence] = events[rows[e].sequence]
           \/ \E n \in DOMAIN staged[w] :
                 /\ RowMade(staged[w][n], n)
                 /\ staged[w][n].entity = e
                 /\ events'[rows'[e].sequence] = EventOf(staged[w][n])
<1>1. Inv
  BY DEF AloneInv, EditedInv
<1>2. CASE \A n \in DOMAIN staged[w] : staged[w][n].entity # e
  <2>1. rows'[e] = rows[e]
    BY <1>2 DEF Writes
  <2>2. rows[e].sequence \in DOMAIN events
    BY <1>1, <2>1 DEF Inv, StoredWasTold
  <2>3. QED BY <1>1, <2>1, <2>2, WriteExtendsLog
<1>3. ASSUME NEW n \in DOMAIN staged[w], staged[w][n].entity = e
      PROVE  events'[rows'[e].sequence] = EventOf(staged[w][n])
  <2>1. rows'[e].sequence = Len(events) + n
    BY <1>3 DEF RowMade
  <2>2. events'[Len(events) + n] = EventOf(staged[w][n])
    BY <1>1, WriteExtendsLog
  <2>3. QED BY <2>1, <2>2
<1>4. QED BY <1>2, <1>3

\* The events after a commit, by entity: the ones before it, and at most a last one.
LEMMA CommittedEvents ==
    ASSUME AloneInv, NEW w \in Workers, Writes(w), NEW i \in DOMAIN events'
    PROVE  \/ i \in DOMAIN events /\ events'[i] = events[i]
           \/ \E n \in DOMAIN staged[w] :
                /\ i = Len(events) + n
                /\ events'[i] = EventOf(staged[w][n])
                /\ events'[i].entity = staged[w][n].entity
                /\ events'[i].type = staged[w][n].type
                /\ events'[i].cause = staged[w][n].cause
                /\ events'[i].payload = staged[w][n].edited.payload
<1>1. Inv
  BY DEF AloneInv, EditedInv
<1>2. /\ \A k \in DOMAIN events : events'[k] = events[k]
      /\ \A n \in DOMAIN staged[w] : events'[Len(events) + n] = EventOf(staged[w][n])
      /\ \A k \in DOMAIN events' : k \notin DOMAIN events =>
            \E n \in DOMAIN staged[w] : k = Len(events) + n
  BY <1>1, WriteExtendsLog
<1>3. \A n \in DOMAIN staged[w] : /\ EventOf(staged[w][n]).entity = staged[w][n].entity
                                  /\ EventOf(staged[w][n]).type = staged[w][n].type
                                  /\ EventOf(staged[w][n]).cause = staged[w][n].cause
                                  /\ EventOf(staged[w][n]).payload = staged[w][n].edited.payload
  BY DEF EventOf
<1>4. QED BY <1>2, <1>3

\* A commit keeps alive only what it published, or what was alive.
LEMMA AloneLives ==
    ASSUME AloneInv, NEW w \in Workers, Writes(w),
           \A n \in DOMAIN staged[w] : RowMade(staged[w][n], n)
    PROVE  LivesByPublication'
<1> SUFFICES ASSUME NEW e \in Entities, rows'[e] # NoRow, rows'[e].isLive,
                    NEW i \in DOMAIN events',
                    events'[i].entity = e, events'[i].type = "DELETED"
             PROVE  \E k \in i..Len(events') : /\ events'[k].entity = e
                                               /\ events'[k].cause = "publish"
                                               /\ events'[k].payload.isLive = TRUE
  BY DEF LivesByPublication
<1>1. Inv /\ BatchOK(staged[w]) /\ staged[w] \in Seq(Write)
  BY DEF AloneInv, EditedInv, Writes
<1>2. /\ DOMAIN events = 1..Len(events) /\ Len(events) \in Nat
      /\ events' \in Seq(Event)
      /\ \A k \in DOMAIN events : k \in DOMAIN events' /\ events'[k] = events[k]
      /\ \A n \in DOMAIN staged[w] : Len(events) + n \in DOMAIN events'
  BY <1>1, WriteExtendsLog
<1>3. DOMAIN events' = 1..Len(events') /\ Len(events') \in Nat
  BY <1>2
<1>4. \A n \in DOMAIN staged[w] : n \in Nat /\ n >= 1 /\ staged[w][n].cause \in Causes
  <2>1. ASSUME NEW n \in DOMAIN staged[w]
        PROVE  n \in Nat /\ n >= 1 /\ staged[w][n].cause \in Causes
    <3>1. staged[w][n] \in Write /\ n \in Nat /\ n >= 1
      BY <1>1, BatchFields
    <3>2. QED BY <3>1 DEF Write
  <2>2. QED BY <2>1
<1>5. ASSUME i \in DOMAIN events, rows[e] # NoRow, rows[e].isLive
      PROVE  \E k \in i..Len(events') : /\ events'[k].entity = e
                                        /\ events'[k].cause = "publish"
                                        /\ events'[k].payload.isLive = TRUE
  <2>1. events[i].entity = e /\ events[i].type = "DELETED"
    BY <1>2, <1>5
  <2>2. PICK k \in i..Len(events) : /\ events[k].entity = e
                                    /\ events[k].cause = "publish"
                                    /\ events[k].payload.isLive = TRUE
    BY <1>5, <2>1 DEF AloneInv, LivesByPublication
  <2>3. k \in DOMAIN events /\ k \in i..Len(events')
    BY <1>2, <1>3, <1>5
  <2>4. QED BY <1>2, <2>2, <2>3
<1>6. CASE \A n \in DOMAIN staged[w] : staged[w][n].entity # e
  <2>1. rows'[e] = rows[e]
    BY <1>6 DEF Writes
  <2>2. i \in DOMAIN events
    BY <1>6, CommittedEvents
  <2>3. QED BY <1>5, <2>1, <2>2
<1>7. ASSUME NEW n \in DOMAIN staged[w], staged[w][n].entity = e
      PROVE  \E k \in i..Len(events') : /\ events'[k].entity = e
                                        /\ events'[k].cause = "publish"
                                        /\ events'[k].payload.isLive = TRUE
  <2> DEFINE write == staged[w][n]
             last == Len(events) + n
  <2>1. RowMade(write, n) /\ write.cause \in Causes
    BY <1>4
  <2>2. rows'[e].isLive = write.edited.isLive
    BY <1>7, <2>1 DEF RowMade
  <2>3. \/ i \in DOMAIN events
        \/ i = last /\ events'[i].type = write.type
    <3>1. CASE i \in DOMAIN events
      BY <3>1
    <3>2. ASSUME NEW m \in DOMAIN staged[w], i = Len(events) + m,
                 events'[i].entity = staged[w][m].entity, events'[i].type = staged[w][m].type
          PROVE  i = last /\ events'[i].type = write.type
      <4>1. m = n
        BY <1>1, <1>7, <3>2 DEF BatchOK
      <4>2. QED BY <3>2, <4>1
    <3>3. QED BY <3>1, <3>2, CommittedEvents
  <2>4. events'[last] = EventOf(write) /\ last \in DOMAIN events'
    BY <1>1, WriteExtendsLog
  <2> HIDE DEF write
  <2>5. CASE write.cause = "publish"
    <3>1. write.edited.payload.isLive = write.edited.isLive
      BY <2>1, <2>5 DEF RowMade, EditOK, Agrees
    <3>2. rows'[e].isLive \in BOOLEAN
      BY <1>7, <2>1 DEF RowMade, Row, write
    <3>3. /\ events'[last].entity = e /\ events'[last].cause = "publish"
          /\ events'[last].payload.isLive = TRUE
      <4>1. /\ EventOf(write).entity = e /\ EventOf(write).cause = "publish"
            /\ EventOf(write).payload = write.edited.payload
        BY <1>7, <2>5 DEF EventOf, write
      <4>2. QED BY <2>2, <2>4, <3>1, <3>2, <4>1
    <3>4. last \in i..Len(events')
      BY <1>2, <1>3, <1>4, <2>3, <2>4
    <3>5. QED BY <3>3, <3>4
  <2>6. CASE write.cause = "expiry"
    <3>1. write.loaded \in Row /\ write.edited = Expired(write.loaded)
      BY <2>1, <2>6 DEF RowMade, EditOK
    <3>2. QED BY <2>2, <3>1, ExpiredFields
  <2>7. CASE write.cause \in {"override", "removal"}
    <3>1. /\ write.type = "UPDATE" /\ write.edited.isLive = write.loaded.isLive
          /\ rows[e] # NoRow /\ write.loaded = rows[e]
      BY <1>7, <2>1, <2>7 DEF RowMade, EditOK, write
    <3>2. i \in DOMAIN events
      BY <2>3, <3>1
    <3>3. QED BY <1>5, <2>2, <3>1, <3>2
  <2>8. QED BY <2>1, <2>5, <2>6, <2>7 DEF Causes
<1>8. QED BY <1>6, <1>7

\* Between two DELETED events of an entity it was published alive.
LEMMA AloneDeletedOnce ==
    ASSUME AloneInv, NEW w \in Workers, Writes(w),
           \A n \in DOMAIN staged[w] : RowMade(staged[w][n], n)
    PROVE  DeletedOncePerLife'
<1> SUFFICES ASSUME NEW i \in DOMAIN events', NEW j \in DOMAIN events',
                    events'[i].type = "DELETED", events'[j].type = "DELETED",
                    events'[i].entity = events'[j].entity, i < j
             PROVE  \E k \in i..j : /\ events'[k].entity = events'[i].entity
                                    /\ events'[k].cause = "publish"
                                    /\ events'[k].payload.isLive = TRUE
  BY DEF DeletedOncePerLife
<1>1. Inv /\ BatchOK(staged[w])
  BY DEF AloneInv, EditedInv, Writes
<1>2. /\ DOMAIN events = 1..Len(events) /\ Len(events) \in Nat
      /\ events' \in Seq(Event)
      /\ \A k \in DOMAIN events : k \in DOMAIN events' /\ events'[k] = events[k]
  BY <1>1, WriteExtendsLog
<1>3. i \in Nat /\ j \in Nat /\ i >= 1
  BY <1>2
<1>4. CASE j \in DOMAIN events
  <2>1. i \in DOMAIN events
    BY <1>2, <1>3, <1>4
  <2>2. PICK k \in i..j : /\ events[k].entity = events[i].entity
                          /\ events[k].cause = "publish" /\ events[k].payload.isLive = TRUE
    BY <1>2, <1>4, <2>1 DEF AloneInv, DeletedOncePerLife
  <2>3. k \in DOMAIN events
    BY <1>2, <1>3, <1>4
  <2>4. QED BY <1>2, <2>1, <2>2, <2>3
<1>5. CASE j \notin DOMAIN events
  <2>1. PICK n \in DOMAIN staged[w] : /\ j = Len(events) + n
                                      /\ events'[j].entity = staged[w][n].entity
                                      /\ events'[j].type = staged[w][n].type
    BY <1>5, CommittedEvents
  <2> DEFINE write == staged[w][n]
             e == write.entity
  <2>2. RowMade(write, n) /\ e \in Entities
    <3>1. RowMade(write, n)
      OBVIOUS
    <3>2. QED BY <3>1, Zenon DEF RowMade
  <2>3. i \in DOMAIN events
    <3>1. ASSUME NEW m \in DOMAIN staged[w], i = Len(events) + m,
                 events'[i].entity = staged[w][m].entity
          PROVE  FALSE
      <4>1. m = n
        BY <1>1, <2>1, <3>1 DEF BatchOK
      <4>2. QED BY <1>3, <2>1, <3>1, <4>1
    <3>2. QED BY <3>1, CommittedEvents
  <2>4. events[i].entity = e /\ events[i].type = "DELETED"
    BY <1>2, <2>1, <2>3
  <2>5. rows[e] # NoRow
    BY <1>1, <2>2, <2>3, <2>4 DEF Inv, NoneBeforeCreation
  <2>6. rows[e].isLive
    BY <2>1, <2>2, <2>5 DEF RowMade
  <2>7. PICK k \in i..Len(events) : /\ events[k].entity = e /\ events[k].cause = "publish"
                                    /\ events[k].payload.isLive = TRUE
    BY <2>2, <2>3, <2>4, <2>5, <2>6 DEF AloneInv, LivesByPublication
  <2>8. k \in DOMAIN events /\ k \in i..j
    BY <1>2, <1>3, <1>5
  <2>9. QED BY <1>2, <2>1, <2>7, <2>8
<1>6. QED BY <1>4, <1>5

\* One worker keeps rows, stream and what it prepared in step.
LEMMA StepKeepsAloneInv ==
    ASSUME Alone
    PROVE  AloneInv /\ [Next]_vars => AloneInv'
<1> SUFFICES ASSUME AloneInv, [Next]_vars PROVE AloneInv'
  OBVIOUS
<1>1. EditedInv' /\ OwnSequence' /\ Inv'
  BY StepKeepsEdited, StreamGrows DEF AloneInv, EditedInv
<1>2. CASE UNCHANGED <<rows, events>> /\ \A w \in Workers : staged'[w] # Idle => Fresh(staged'[w])
  <2>1. DeletedOncePerLife' /\ LivesByPublication'
    BY <1>2 DEF AloneInv, DeletedOncePerLife, LivesByPublication
  <2>2. \A w \in Workers : staged'[w] # Idle => Fresh(staged[w])'
    BY <1>2 DEF Fresh
  <2>3. QED BY <1>1, <1>2, <2>1, <2>2 DEF AloneInv
<1>3. ASSUME \A x \in Workers : staged'[x] = Idle,
             NEW w \in Workers, Writes(w), \A n \in DOMAIN staged[w] : RowMade(staged[w][n], n)
      PROVE  AloneInv'
  <2>1. DeletedOncePerLife' /\ LivesByPublication'
    BY <1>3, AloneDeletedOnce, AloneLives
  <2>2. QED BY <1>1, <1>3, <2>1 DEF AloneInv
<1>4. QED BY <1>2, <1>3, AloneStep

\* No row and no event at first.
LEMMA InitAloneInv == Init => AloneInv
<1> SUFFICES ASSUME Init PROVE AloneInv
  OBVIOUS
<1>1. Inv /\ DOMAIN events = {}
  BY InitInv DEF Init
<1>2. DeletedOncePerLife /\ LivesByPublication
  BY <1>1 DEF Init, DeletedOncePerLife, LivesByPublication
<1>3. \A w \in Workers : staged[w] = Idle
  BY DEF Init
<1>4. QED BY <1>1, <1>2, <1>3 DEF Init, AloneInv, EditedInv, OwnSequence

\* With one request at a time, what is prepared is never out of date.
LEMMA AloneInvariance ==
    ASSUME Alone
    PROVE  Spec => []AloneInv
BY InitAloneInv, StepKeepsAloneInv, PTL DEF Spec

\* One request at a time announces DELETED once in each life of an entity, whatever
\* operators make of isLive in its payload.
THEOREM DeletedOncePerLifeAlone ==
    ASSUME Alone
    PROVE  Spec => []DeletedOncePerLife
<1>1. AloneInv => DeletedOncePerLife
  BY DEF AloneInv
<1>2. QED BY <1>1, AloneInvariance, PTL

\* One request at a time: the last event of an entity tells what is stored, but for a
\* nested value that override_field() or remove_override() edited last.
THEOREM LastEventIsStoredAlone ==
    ASSUME Alone
    PROVE  Spec => []LastEventIsStored
<1>1. Init => LastEventIsStored
  BY DEF Init, LastEventIsStored
<1>2. ASSUME AloneInv, LastEventIsStored, [Next]_vars
      PROVE  LastEventIsStored'
  <2>1. CASE UNCHANGED <<rows, events>>
    BY <1>2, <2>1 DEF LastEventIsStored
  <2>2. ASSUME NEW w \in Workers, Writes(w), \A n \in DOMAIN staged[w] : RowMade(staged[w][n], n),
               NEW e \in Entities, rows'[e] # NoRow
        PROVE  LET last == events'[rows'[e].sequence]
               IN  \/ last.payload = rows'[e].payload
                   \/ /\ last.path \in Nested
                      /\ last.payload = [rows'[e].payload EXCEPT ![last.path] = last.payload[last.path]]
    <3> DEFINE last == events'[rows'[e].sequence]
    <3>1. Inv' /\ OwnSequence'
      BY <1>2, StreamGrows DEF AloneInv, EditedInv
    <3>2. CASE rows'[e] = rows[e] /\ last = events[rows[e].sequence]
      <4>1. rows[e] # NoRow
        BY <2>2, <3>2
      <4> HIDE DEF last
      <4>2. QED BY <1>2, <3>2, <4>1 DEF LastEventIsStored, last
    <3>3. ASSUME NEW n \in DOMAIN staged[w], RowMade(staged[w][n], n), staged[w][n].entity = e,
                 last = EventOf(staged[w][n])
          PROVE  \/ last.payload = rows'[e].payload
                 \/ /\ last.path \in Nested
                    /\ last.payload = [rows'[e].payload EXCEPT ![last.path] = last.payload[last.path]]
      <4>1. last.payload = staged[w][n].edited.payload /\ last.path = staged[w][n].path
        BY <3>3 DEF EventOf
      <4> HIDE DEF last
      <4>2. QED BY <3>3, <4>1 DEF RowMade
    <3>4. QED BY <1>2, <2>2, <3>1, <3>2, <3>3, AloneCommit
  <2>3. QED BY <1>2, <2>1, <2>2, AloneStep DEF LastEventIsStored
<1>3. QED BY <1>1, <1>2, AloneInvariance, PTL DEF Spec

-----------------------------------------------------------------------------
(* One request at a time implements the register.                          *)

KnownOf == [e \in Entities |-> Known(e)]

\* What may be known of an entity.
Facts == [live: BOOLEAN, time: Times \union {Absent}, expiry: Expiries \union {Absent},
          by: Causes]

\* A row that is there is known as a fact.
LEMMA KnownFact ==
    ASSUME Inv, NEW e \in Entities, rows[e] # NoRow
    PROVE  /\ KnownOf[e] = [live |-> rows[e].isLive, time |-> rows[e].payload.time,
                            expiry |-> rows[e].expiry, by |-> events[rows[e].sequence].cause]
           /\ KnownOf[e] \in Facts
<1>1. rows[e] \in Row /\ rows[e].sequence \in DOMAIN events /\ events \in Seq(Event)
  BY DEF Inv, TypeOK, StoredWasTold
<1>2. events[rows[e].sequence] \in Event
  BY <1>1
<1>3. events[rows[e].sequence].cause \in Causes
  BY <1>2 DEF Event
<1>4. rows[e].payload \in Payload
  BY <1>1 DEF Row
<1>5. QED BY <1>1, <1>3, <1>4 DEF KnownOf, Known, Facts, Row, Payload

\* An expiry ends the life of a fact and leaves its times alone.
LEMMA FactEnded ==
    ASSUME NEW fact \in Facts
    PROVE  [fact EXCEPT !.live = FALSE, !.by = "expiry"]
               = [live |-> FALSE, time |-> fact.time, expiry |-> fact.expiry, by |-> "expiry"]
<1> DEFINE next == [fact EXCEPT !.live = FALSE, !.by = "expiry"]
<1>1. next \in Facts
  BY DEF Facts, Causes
<1>2. /\ next.live = FALSE /\ next.time = fact.time
      /\ next.expiry = fact.expiry /\ next.by = "expiry"
  BY DEF Facts
<1> HIDE DEF next
<1>3. next = [live |-> FALSE, time |-> fact.time, expiry |-> fact.expiry, by |-> "expiry"]
  BY <1>1, <1>2 DEF Facts
<1>4. QED BY <1>3 DEF next

\* An operator's edit changes the time of a fact at most.
LEMMA FactAmended ==
    ASSUME NEW fact \in Facts, NEW time \in Times \union {Absent}, NEW by \in Causes
    PROVE  [fact EXCEPT !.time = time, !.by = by]
               = [live |-> fact.live, time |-> time, expiry |-> fact.expiry, by |-> by]
<1> DEFINE next == [fact EXCEPT !.time = time, !.by = by]
<1>1. next \in Facts
  BY DEF Facts, Causes
<1>2. /\ next.live = fact.live /\ next.time = time
      /\ next.expiry = fact.expiry /\ next.by = by
  BY DEF Facts
<1> HIDE DEF next
<1>3. next = [live |-> fact.live, time |-> time, expiry |-> fact.expiry, by |-> by]
  BY <1>1, <1>2 DEF Facts
<1>4. QED BY <1>3 DEF next

\* A commit to rows as they were read publishes, expires, or amends what is known.
LEMMA CommitIsRegisterStep ==
    ASSUME AloneInv, Inv', EnforceSourceTime, NoRow \notin Facts,
           NEW w \in Workers, Writes(w), EditsOK(staged[w]), UNCHANGED clock,
           \A n \in DOMAIN staged[w] : RowMade(staged[w][n], n)
    PROVE  [Register!Next]_<<KnownOf, clock>>
<1> DEFINE batch == staged[w]
<1>1. /\ batch \in Seq(Write) /\ BatchOK(batch)
      /\ \A e \in Entities : (\A n \in DOMAIN batch : batch[n].entity # e) => rows'[e] = rows[e]
  BY DEF Writes
<1>2. Inv
  BY DEF AloneInv, EditedInv
<1>3. /\ KnownOf = [e \in Entities |-> KnownOf[e]]
      /\ KnownOf' = [e \in Entities |-> KnownOf'[e]]
  BY DEF KnownOf
<1>4. ASSUME NEW e \in Entities, rows'[e] = rows[e]
      PROVE  KnownOf'[e] = KnownOf[e]
  <2>1. rows[e] # NoRow => events'[rows[e].sequence] = events[rows[e].sequence]
    <3>1. rows[e] # NoRow => rows[e].sequence \in DOMAIN events
      BY <1>2 DEF Inv, StoredWasTold
    <3>2. QED BY <1>2, <3>1, WriteExtendsLog
  <2>2. QED BY <1>4, <2>1 DEF KnownOf, Known
<1>5. ASSUME NEW n \in DOMAIN batch
      PROVE  LET e == batch[n].entity
             IN  /\ e \in Entities /\ rows'[e] \in Row
                 /\ KnownOf'[e] = [live |-> batch[n].edited.isLive,
                                   time |-> rows'[e].payload.time,
                                   expiry |-> IF batch[n].cause = "publish"
                                              THEN batch[n].edited.expiry ELSE rows[e].expiry,
                                   by |-> batch[n].cause]
  <2> DEFINE e == batch[n].entity
  <2>1. /\ e \in Entities /\ rows'[e] # NoRow /\ rows'[e] \in Row
        /\ rows'[e].isLive = batch[n].edited.isLive
        /\ rows'[e].expiry = IF batch[n].cause = "publish" THEN batch[n].edited.expiry ELSE rows[e].expiry
        /\ rows'[e].sequence = Len(events) + n
    <3>1. RowMade(batch[n], n)
      OBVIOUS
    <3> HIDE DEF batch
    <3>2. QED BY <3>1 DEF RowMade
  <2>2. events'[Len(events) + n] = EventOf(batch[n])
    BY <1>2, WriteExtendsLog
  <2>3. events'[rows'[e].sequence].cause = batch[n].cause
    BY <2>1, <2>2 DEF EventOf
  <2>4. QED BY <2>1, <2>3 DEF KnownOf, Known
<1> HIDE DEF batch
<1>6. CASE \A n \in DOMAIN batch : batch[n].cause = "expiry"
  <2> DEFINE due == {batch[n].entity : n \in DOMAIN batch}
  <2>1. ASSUME NEW e \in due
        PROVE  /\ e \in Entities
               /\ KnownOf[e] \in Facts
               /\ KnownOf[e].live /\ KnownOf[e].expiry # Absent /\ KnownOf[e].expiry <= clock
               /\ KnownOf'[e] = [KnownOf[e] EXCEPT !.live = FALSE, !.by = "expiry"]
    <3>1. PICK n \in DOMAIN batch : e = batch[n].entity
      OBVIOUS
    <3> DEFINE write == batch[n]
    <3>2. RowMade(write, n) /\ write.cause = "expiry"
      <4>1. RowMade(write, n)
        BY DEF batch
      <4>2. QED BY <1>6, <4>1
    <3>3. /\ write.loaded \in Row /\ write.loaded.isLive
          /\ write.loaded.expiry # Absent /\ write.loaded.expiry <= clock
          /\ write.edited = Expired(write.loaded)
      BY <3>2 DEF RowMade, EditOK
    <3>4. /\ e \in Entities /\ rows[e] # NoRow /\ write.loaded = rows[e]
          /\ rows'[e].payload = write.edited.payload
      BY <3>1, <3>2 DEF RowMade
    <3>5. /\ KnownOf[e] \in Facts
          /\ KnownOf[e] = [live |-> rows[e].isLive, time |-> rows[e].payload.time,
                           expiry |-> rows[e].expiry, by |-> events[rows[e].sequence].cause]
      BY <1>2, <3>4, KnownFact
    <3>6. KnownOf[e].live /\ KnownOf[e].expiry # Absent /\ KnownOf[e].expiry <= clock
      BY <3>3, <3>4, <3>5
    <3>7. write.edited.isLive = FALSE /\ rows'[e].payload.time = rows[e].payload.time
      <4>1. /\ Expired(write.loaded).isLive = FALSE
            /\ Expired(write.loaded).payload.time = write.loaded.payload.time
        BY <3>3, ExpiredFields
      <4>2. QED BY <3>3, <3>4, <4>1
    <3>8. KnownOf'[e] = [live |-> FALSE, time |-> rows[e].payload.time,
                         expiry |-> rows[e].expiry, by |-> "expiry"]
      BY <1>5, <3>1, <3>2, <3>7
    <3>9. KnownOf'[e] = [KnownOf[e] EXCEPT !.live = FALSE, !.by = "expiry"]
      <4>1. [KnownOf[e] EXCEPT !.live = FALSE, !.by = "expiry"]
                = [live |-> FALSE, time |-> KnownOf[e].time, expiry |-> KnownOf[e].expiry,
                   by |-> "expiry"]
        BY <3>5, FactEnded
      <4>2. KnownOf[e].time = rows[e].payload.time /\ KnownOf[e].expiry = rows[e].expiry
        BY <3>5
      <4>3. QED BY <3>8, <4>1, <4>2
    <3>10. QED BY <3>4, <3>5, <3>6, <3>9
  <2>2. ASSUME NEW e \in Entities, e \notin due
        PROVE  KnownOf'[e] = KnownOf[e]
    BY <1>1, <1>4, <2>2
  <2> HIDE DEF due
  <2>3. due \in SUBSET Entities
    BY <2>1
  <2>4. \A e \in due : KnownOf[e] # NoRow
    BY <2>1
  <2>5. KnownOf' = [e \in Entities |->
                      IF e \in due THEN [KnownOf[e] EXCEPT !.live = FALSE, !.by = "expiry"]
                                   ELSE KnownOf[e]]
    BY <1>3, <2>1, <2>2
  <2>6. Register!Expire(due)
    BY <2>1, <2>4, <2>5 DEF Register!Expire, Register!Due, KnownOf
  <2>7. QED BY <2>3, <2>6 DEF Register!Next
<1>7. CASE Len(batch) = 1
  <2> DEFINE write == batch[1]
             e == write.entity
  <2>1. DOMAIN batch = {1} /\ 1 \in DOMAIN batch
    BY <1>1, <1>7 DEF batch
  <2>2. RowMade(write, 1) /\ e \in Entities /\ write.cause \in Causes /\ write.edited \in Row
    <3>1. RowMade(write, 1)
      BY <2>1 DEF batch
    <3>2. QED BY <3>1 DEF RowMade, Write
  <2>3. \A x \in Entities : x # e => KnownOf'[x] = KnownOf[x]
    BY <1>1, <1>4, <2>1
  <2>4. /\ KnownOf'[e] = [live |-> write.edited.isLive, time |-> rows'[e].payload.time,
                          expiry |-> IF write.cause = "publish" THEN write.edited.expiry
                                                                ELSE rows[e].expiry,
                          by |-> write.cause]
        /\ rows'[e] \in Row
    BY <1>5, <2>1
  <2>5. rows'[e].payload.time \in Times \union {Absent}
    BY <2>4 DEF Row, Payload
  <2> HIDE DEF write
  <2>6. CASE write.cause = "publish"
    <3>1. rows'[e].payload = write.edited.payload
      BY <2>2, <2>6 DEF RowMade
    <3>2. KnownOf'[e].time = write.edited.payload.time
      BY <2>4, <3>1
    <3>3. KnownOf'[e] \in Register!Fact
      BY <2>2, <2>4, <2>5, <2>6 DEF Register!Fact, Row
    <3>4. Register!Newer(KnownOf'[e].time, e)
      <4>1. CASE rows[e] = NoRow
        BY <2>2, <4>1 DEF Register!Newer, KnownOf, Known
      <4>2. CASE rows[e] # NoRow
        <5>1. write.loaded = rows[e] /\ rows[e] # NoRow /\ EditOK(write)
          BY <2>2, <4>2 DEF RowMade
        <5>2. Absent \notin {rows[e].payload.time, write.edited.payload.time} =>
                 rows[e].payload.time < write.edited.payload.time
          BY <2>6, <5>1 DEF EditOK
        <5>3. KnownOf[e].time = rows[e].payload.time
          <6>1. KnownOf[e] = [live |-> rows[e].isLive, time |-> rows[e].payload.time,
                              expiry |-> rows[e].expiry, by |-> events[rows[e].sequence].cause]
            BY <1>2, <2>2, <4>2, KnownFact
          <6>2. QED BY <6>1
        <5>4. QED BY <3>2, <5>2, <5>3 DEF Register!Newer, KnownOf
      <4>3. QED BY <4>1, <4>2
    <3>5. KnownOf' = [KnownOf EXCEPT ![e] = KnownOf'[e]]
      BY <1>3, <2>2, <2>3
    <3>6. Register!Publish(e)
      BY <3>3, <3>4, <3>5 DEF Register!Publish, KnownOf
    <3>7. QED BY <2>2, <3>6 DEF Register!Next
  <2>7. CASE write.cause \in {"override", "removal"}
    <3> DEFINE time == rows'[e].payload.time
    <3>1. rows[e] # NoRow /\ write.edited.isLive = rows[e].isLive
      BY <2>2, <2>7 DEF RowMade, EditOK
    <3>2. /\ KnownOf[e] \in Facts
          /\ KnownOf[e] = [live |-> rows[e].isLive, time |-> rows[e].payload.time,
                           expiry |-> rows[e].expiry, by |-> events[rows[e].sequence].cause]
      BY <1>2, <2>2, <3>1, KnownFact
    <3>3. KnownOf'[e] = [live |-> KnownOf[e].live, time |-> time,
                         expiry |-> KnownOf[e].expiry, by |-> write.cause]
      BY <2>4, <2>7, <3>1, <3>2
    <3>4. KnownOf'[e] = [KnownOf[e] EXCEPT !.time = time, !.by = write.cause]
      BY <2>2, <2>5, <3>2, <3>3, FactAmended
    <3>5. KnownOf' = [KnownOf EXCEPT ![e].time = time, ![e].by = write.cause]
      BY <1>3, <2>2, <2>3, <3>4
    <3>6. KnownOf[e] # NoRow
      BY <3>2
    <3> HIDE DEF time
    <3>7. Register!Amend(e)
      BY <2>5, <2>7, <3>5, <3>6 DEF Register!Amend, KnownOf, time
    <3>8. QED BY <2>2, <3>7 DEF Register!Next
  <2>8. CASE write.cause = "expiry"
    BY <1>6, <2>1, <2>8 DEF write
  <2>9. QED BY <2>2, <2>6, <2>7, <2>8 DEF Causes
<1>8. QED BY <1>6, <1>7 DEF EditsOK, batch

\* One request at a time, comparing source times: the store remembers of each entity its
\* newest publication, or what an operator set its time to, and only a publication or an
\* expiry that is due moves it in or out of life.  The sentinel for no row is no fact.
THEOREM RegisterAlone ==
    ASSUME Alone, EnforceSourceTime, NoRow \notin Facts
    PROVE  Spec => RegisterImplemented
<1>1. Init => Register!Init
  BY DEF Init, Register!Init, Known
<1>2. ASSUME AloneInv, AloneInv', [Next]_vars
      PROVE  [Register!Next]_<<KnownOf, clock>>
  <2>1. Inv'
    BY <1>2 DEF AloneInv, EditedInv
  <2>2. CASE UNCHANGED <<rows, events>>
    <3>1. UNCHANGED KnownOf
      BY <2>2 DEF KnownOf, Known
    <3>2. CASE Tick
      BY <3>1, <3>2 DEF Tick, Register!Next, Register!Tick, KnownOf
    <3>3. CASE UNCHANGED clock
      BY <3>1, <3>3
    <3>4. QED BY <1>2, <3>2, <3>3, RequestKeepsClock DEF Next, vars
  <2>3. CASE UNCHANGED clock /\ \E w \in Workers : /\ Writes(w)
                                                   /\ EditsOK(staged[w])
                                                   /\ \A n \in DOMAIN staged[w] : RowMade(staged[w][n], n)
    BY <1>2, <2>1, <2>3, CommitIsRegisterStep
  <2>4. QED BY <1>2, <2>2, <2>3, AloneStep
<1>3. QED BY <1>1, <1>2, AloneInvariance, PTL DEF Spec, RegisterImplemented, Register!Spec, KnownOf

=============================================================================
