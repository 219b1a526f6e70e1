------------------------- MODULE AgentDeliveryProofs -------------------------
(***************************************************************************)
(* Proofs about AgentDelivery for any tasks, agents, workers and bounds,   *)
(* on top of those about the log TaskStore writes.                         *)
(***************************************************************************)
EXTENDS AgentDelivery, TaskStoreProofs, FiniteSetTheorems

\* No cursor is past the end of the log.
CursorsInLog == \A k \in Listeners : cursor[k] <= Len(events)

\* Where an event stands in a listener's sequence.
Places(q, i) == {n \in DOMAIN q : q[n] = i}

\* A listener has received an event at most once for each server that could hand
\* it over: those that were restarted, and the one now running if it has done so.
CountedByServers == \A k \in Listeners, i \in Nat :
    Cardinality(Places(received[k], i)) <= restarts + IF i \in Ids(handed[k]) THEN 1 ELSE 0

DeliveryInv == LogInv /\ DeliveryTypeOK /\ CursorsInLog /\ HandedInOrder /\ CountedByServers

-----------------------------------------------------------------------------
(* Places in a sequence.                                                   *)

\* There are finitely many of them.
LEMMA PlacesFinite ==
    ASSUME NEW q \in Seq(Nat), NEW i
    PROVE  /\ IsFiniteSet(Places(q, i))
           /\ Cardinality(Places(q, i)) \in Nat
<1>1. DOMAIN q = 1..Len(q) /\ Len(q) \in Nat
  OBVIOUS
<1>2. IsFiniteSet(1..Len(q))
  BY <1>1, FS_Interval
<1>3. Places(q, i) \subseteq 1..Len(q)
  BY <1>1 DEF Places
<1>4. IsFiniteSet(Places(q, i))
  BY <1>2, <1>3, FS_Subset
<1>5. QED BY <1>4, FS_CardinalityType

\* Appending an entry gives it one more place, and the others none.
LEMMA PlacesOfAppend ==
    ASSUME NEW q \in Seq(Nat), NEW e \in Nat, NEW i
    PROVE  Cardinality(Places(Append(q, e), i)) =
             IF i = e THEN Cardinality(Places(q, i)) + 1 ELSE Cardinality(Places(q, i))
<1> DEFINE n == Len(q) + 1
           a == Append(q, e)
<1>1. /\ DOMAIN q = 1..Len(q) /\ Len(q) \in Nat
      /\ DOMAIN a = 1..n /\ a[n] = e
      /\ \A m \in 1..Len(q) : a[m] = q[m]
  OBVIOUS
<1>2. n \notin Places(q, i) /\ IsFiniteSet(Places(q, i))
  <2>1. n \notin 1..Len(q)
    BY <1>1
  <2>2. n \notin Places(q, i)
    BY <1>1, <2>1 DEF Places
  <2>3. IsFiniteSet(Places(q, i))
    BY PlacesFinite
  <2>4. QED BY <2>2, <2>3
<1> HIDE DEF a
<1>3. CASE i = e
  <2>1. Places(a, i) = Places(q, i) \union {n}
    BY <1>1, <1>3 DEF Places
  <2>2. QED BY <1>2, <1>3, <2>1, FS_AddElement DEF a
<1>4. CASE i # e
  <2>1. Places(a, i) = Places(q, i)
    BY <1>1, <1>4 DEF Places
  <2>2. QED BY <1>4, <2>1 DEF a
<1>5. QED BY <1>3, <1>4

\* The entries of a longer sequence.
LEMMA IdsOfAppend ==
    ASSUME NEW q \in Seq(Nat), NEW e \in Nat
    PROVE  Ids(Append(q, e)) = Ids(q) \union {e}
<1>1. /\ DOMAIN q = 1..Len(q) /\ Len(q) \in Nat
      /\ DOMAIN Append(q, e) = 1..(Len(q) + 1) /\ Append(q, e)[Len(q) + 1] = e
      /\ \A m \in 1..Len(q) : Append(q, e)[m] = q[m]
  OBVIOUS
<1> DEFINE a == Append(q, e)
<1> HIDE DEF a
<1>2. \A x : x \in Ids(a) <=> x \in Ids(q) \union {e}
  BY <1>1 DEF Ids, a
<1>3. QED BY <1>2 DEF a

-----------------------------------------------------------------------------
(* Steps of the task store under the cursors.                              *)

\* A step of the task store adds only events past every cursor.
LEMMA StoreStepKeepsDelivery ==
    ASSUME DeliveryInv, [Next]_vars, UNCHANGED deliveryVars
    PROVE  DeliveryInv'
<1> USE DEF deliveryVars
<1>1. LogInv /\ LogInv'
  BY StepKeepsLogInv DEF DeliveryInv
<1>2. /\ DOMAIN events = 1..Len(events) /\ Len(events) \in Nat
      /\ DOMAIN events' = 1..Len(events') /\ Len(events') \in Nat
      /\ Len(events) <= Len(events')
      /\ \A i \in DOMAIN events : i \in DOMAIN events' /\ events'[i] = events[i]
  BY <1>1, LogGrows
<1>3. DeliveryTypeOK'
  BY <1>1 DEF DeliveryInv, DeliveryTypeOK, LogInv, Inv
<1>4. \A k \in Listeners : cursor[k] \in Nat /\ cursor[k] <= Len(events)
  BY DEF DeliveryInv, DeliveryTypeOK, CursorsInLog
<1>5. CursorsInLog'
  BY <1>2, <1>4 DEF CursorsInLog
<1>6. HandedInOrder'
  <2> SUFFICES ASSUME NEW k \in Listeners
               PROVE  Ids(handed[k]) = {i \in DOMAIN events' : i <= cursor[k] /\ Visible(k, i)'}
    BY DEF DeliveryInv, HandedInOrder, Ids
  <2>1. \A i \in DOMAIN events : Visible(k, i)' <=> Visible(k, i)
    BY <1>2 DEF Visible
  <2>2. \A i \in DOMAIN events' : i <= cursor[k] => i \in DOMAIN events
    BY <1>2, <1>4
  <2>3. {i \in DOMAIN events' : i <= cursor[k] /\ Visible(k, i)'} =
        {i \in DOMAIN events : i <= cursor[k] /\ Visible(k, i)}
    BY <1>2, <2>1, <2>2
  <2>4. QED BY <2>3 DEF DeliveryInv, HandedInOrder
<1>7. CountedByServers'
  BY DEF DeliveryInv, CountedByServers, Places, Ids
<1>8. QED BY <1>1, <1>3, <1>5, <1>6, <1>7 DEF DeliveryInv

-----------------------------------------------------------------------------
(* A listener's call.                                                      *)

\* What it claims is the first event past its cursor that it may see.
LEMMA ClaimedIsFirst ==
    ASSUME DeliveryInv, NEW k \in Listeners, Pending(k) # {}
    PROVE  /\ Claimed(k) \in Pending(k)
           /\ \A j \in Pending(k) : Claimed(k) <= j
<1>1. events \in Seq(Event)
  BY DEF DeliveryInv, LogInv, Inv, TypeOK
<1>2. Pending(k) \in SUBSET Nat
  BY <1>1 DEF Pending
<1>3. \E i \in Pending(k) : \A j \in Pending(k) : i <= j
  BY <1>2, LeastNumber
<1>4. QED BY <1>3 DEF Claimed

\* A claim hands its caller the first request past its cursor: the histories grow in order.
LEMMA ListenKeepsDelivery ==
    ASSUME DeliveryInv, NEW k \in Listeners, Listen(k)
    PROVE  DeliveryInv'
<1> DEFINE c == Claimed(k)
           Seen(l, b) == {i \in DOMAIN events : i <= b /\ Visible(l, i)}
<1>1. /\ c \in DOMAIN events /\ c > cursor[k] /\ Visible(k, c)
      /\ \A i \in DOMAIN events : i > cursor[k] /\ Visible(k, i) => c <= i
  BY ClaimedIsFirst DEF Listen, Pending
<1>2. /\ DOMAIN events = 1..Len(events) /\ Len(events) \in Nat
      /\ cursor \in [Listeners -> Nat] /\ restarts \in Nat
      /\ handed \in [Listeners -> Seq(Nat \ {0})]
      /\ received \in [Listeners -> Seq(Nat \ {0})]
  BY RestartsAssumption DEF DeliveryInv, DeliveryTypeOK, LogInv, Inv, TypeOK
<1>3. c \in Nat \ {0} /\ c <= Len(events)
  BY <1>1, <1>2
<1> HIDE DEF c
<1>4. /\ UNCHANGED <<rows, events, staged, reply, restarts>>
      /\ cursor' = [cursor EXCEPT ![k] = c]
      /\ handed' = [handed EXCEPT ![k] = Append(handed[k], c)]
      /\ \/ received' = [received EXCEPT ![k] = Append(received[k], c)]
         \/ received' = received
  BY DEF Listen, Advanced, c
<1>5. LogInv'
  <2>1. [Next]_vars
    BY <1>4 DEF vars
  <2>2. QED BY <2>1, StepKeepsLogInv DEF DeliveryInv
<1>6. DeliveryTypeOK'
  <2>1. TypeOK'
    BY <1>5 DEF LogInv, Inv
  <2>2. Append(handed[k], c) \in Seq(Nat \ {0}) /\ Append(received[k], c) \in Seq(Nat \ {0})
    BY <1>2, <1>3
  <2>3. QED BY <1>2, <1>3, <1>4, <2>1, <2>2 DEF DeliveryInv, DeliveryTypeOK
<1>7. CursorsInLog'
  BY <1>2, <1>3, <1>4 DEF DeliveryInv, CursorsInLog
<1>8. HandedInOrder'
  <2> SUFFICES ASSUME NEW l \in Listeners
               PROVE  /\ Ids(handed'[l]) = Seen(l, cursor'[l])
                      /\ \A m, n \in DOMAIN handed'[l] : m < n => handed'[l][m] < handed'[l][n]
    BY <1>4 DEF HandedInOrder, Ids, Visible
  <2>1. /\ Ids(handed[l]) = Seen(l, cursor[l])
        /\ \A m, n \in DOMAIN handed[l] : m < n => handed[l][m] < handed[l][n]
    BY DEF DeliveryInv, HandedInOrder
  <2>2. CASE l # k
    BY <1>2, <1>4, <2>1, <2>2
  <2>3. CASE l = k
    <3> DEFINE h == handed[k]
    <3>1. h \in Seq(Nat \ {0}) /\ handed'[k] = Append(h, c) /\ cursor'[k] = c
      BY <1>2, <1>4
    <3>2. Ids(handed'[k]) = Ids(h) \union {c}
      <4>1. h \in Seq(Nat) /\ c \in Nat
        BY <1>2, <1>3
      <4>2. QED BY <3>1, <4>1, IdsOfAppend
    <3>3. Seen(k, c) = Seen(k, cursor[k]) \union {c}
      <4>1. ASSUME NEW i \in DOMAIN events, i <= c, Visible(k, i)
            PROVE  i <= cursor[k] \/ i = c
        <5>1. i \in Nat /\ cursor[k] \in Nat
          BY <1>2
        <5>2. i > cursor[k] => c <= i
          BY <1>1, <4>1
        <5>3. QED BY <1>3, <4>1, <5>1, <5>2
      <4>2. \A i \in DOMAIN events : i <= cursor[k] => i <= c
        BY <1>1, <1>2, <1>3
      <4>3. QED BY <1>1, <4>1, <4>2, <1>3
    <3>4. \A m \in DOMAIN h : h[m] \in Nat /\ h[m] < c
      <4>1. \A m \in DOMAIN h : h[m] <= cursor[k]
        BY <2>1, <2>3 DEF Ids
      <4>2. QED BY <1>1, <1>2, <1>3, <3>1, <4>1
    <3>5. ASSUME NEW m \in DOMAIN handed'[k], NEW n \in DOMAIN handed'[k], m < n
          PROVE  handed'[k][m] < handed'[k][n]
      <4>1. /\ DOMAIN h = 1..Len(h) /\ Len(h) \in Nat
            /\ DOMAIN handed'[k] = 1..(Len(h) + 1)
            /\ \A i \in 1..Len(h) : handed'[k][i] = h[i]
            /\ handed'[k][Len(h) + 1] = c
        BY <1>3, <3>1
      <4>2. m \in DOMAIN h
        BY <3>5, <4>1
      <4>3. CASE n \in DOMAIN h
        BY <2>1, <2>3, <3>5, <4>1, <4>2, <4>3
      <4>4. CASE n = Len(h) + 1
        BY <3>4, <4>1, <4>2, <4>4
      <4>5. QED BY <4>1, <4>3, <4>4
    <3>6. QED BY <2>1, <2>3, <3>1, <3>2, <3>3, <3>5
  <2>4. QED BY <2>2, <2>3
<1>9. CountedByServers'
  <2> SUFFICES ASSUME NEW l \in Listeners, NEW i \in Nat
               PROVE  Cardinality(Places(received'[l], i)) <=
                        restarts + IF i \in Ids(handed'[l]) THEN 1 ELSE 0
    BY <1>4 DEF CountedByServers, Places, Ids
  <2>1. Cardinality(Places(received[l], i)) <= restarts + IF i \in Ids(handed[l]) THEN 1 ELSE 0
    BY DEF DeliveryInv, CountedByServers
  <2>2. CASE l # k
    BY <1>2, <1>4, <2>1, <2>2
  <2>3. CASE l = k
    <3>1. handed[k] \in Seq(Nat) /\ received[k] \in Seq(Nat)
      BY <1>2
    <3>2. Ids(handed'[k]) = Ids(handed[k]) \union {c}
      BY <1>2, <1>3, <1>4, <3>1, IdsOfAppend
    <3>3. c \notin Ids(handed[k])
      <4>1. Ids(handed[k]) = Seen(k, cursor[k])
        BY DEF DeliveryInv, HandedInOrder
      <4>2. QED BY <1>1, <1>2, <1>3, <4>1
    <3>4. Cardinality(Places(received'[k], i)) <=
            IF i = c THEN Cardinality(Places(received[k], i)) + 1
                     ELSE Cardinality(Places(received[k], i))
      <4>1. Cardinality(Places(received[k], i)) \in Nat
        BY <3>1, PlacesFinite
      <4>2. CASE received' = received
        BY <4>1, <4>2
      <4>3. CASE received' = [received EXCEPT ![k] = Append(received[k], c)]
        <5>1. received'[k] = Append(received[k], c)
          BY <1>2, <4>3
        <5>2. Cardinality(Places(received'[k], i)) =
                IF i = c THEN Cardinality(Places(received[k], i)) + 1
                         ELSE Cardinality(Places(received[k], i))
          BY <1>3, <3>1, <5>1, PlacesOfAppend
        <5>3. QED BY <4>1, <5>2
      <4>4. QED BY <1>4, <4>2, <4>3
    <3>5. /\ Cardinality(Places(received[k], i)) \in Nat
          /\ Cardinality(Places(received'[k], i)) \in Nat
      <4>1. received'[k] \in Seq(Nat)
        <5>1. Append(received[k], c) \in Seq(Nat)
          BY <1>3, <3>1
        <5>2. QED BY <1>2, <1>4, <3>1, <5>1
      <4>2. QED BY <3>1, <4>1, PlacesFinite
    <3>6. QED BY <1>2, <2>1, <2>3, <3>2, <3>3, <3>4, <3>5
  <2>4. QED BY <2>2, <2>3
<1>10. QED BY <1>5, <1>6, <1>7, <1>8, <1>9 DEF DeliveryInv

-----------------------------------------------------------------------------
(* A restart of the server.                                                *)

\* Requests that are dropped leave the store's invariant standing.
LEMMA DropsKeepInv ==
    ASSUME LogInv, UNCHANGED <<rows, events, reply>>,
           \A w \in Workers : staged'[w] \in {staged[w], Idle},
           staged' \in [Workers -> Staged \union {Idle}]
    PROVE  LogInv'
<1>1. TypeOK' /\ TerminalMatchesLog' /\ RowIsLastEvent'
  BY DEF LogInv, Inv, TypeOK, TerminalMatchesLog, RowIsLastEvent, ClosingEvent, IsTaskEvent
<1>2. StagedOK'
  BY DEF LogInv, Inv, StagedOK, InFlight
<1>3. Inv'
  BY <1>1, <1>2 DEF Inv
<1>4. QED BY <1>3, LogInvUnchanged

\* A restart loses the cursors and begins new histories of what was handed.
LEMMA RestartKeepsDelivery ==
    ASSUME DeliveryInv, Restart
    PROVE  DeliveryInv'
<1>1. /\ rows' = rows /\ events' = events /\ reply' = reply /\ received' = received
      /\ restarts' = restarts + 1 /\ restarts < MaxRestarts
      /\ cursor' = [k \in Listeners |-> 0]
      /\ handed' = [k \in Listeners |-> <<>>]
      /\ staged' = [w \in Workers |-> IF w \in RestWorkers THEN Idle ELSE staged[w]]
  BY DEF Restart
<1>2. /\ DOMAIN events = 1..Len(events) /\ Len(events) \in Nat
      /\ restarts \in 0..MaxRestarts /\ MaxRestarts \in Nat
      /\ staged \in [Workers -> Staged \union {Idle}]
      /\ received \in [Listeners -> Seq(Nat \ {0})]
  BY RestartsAssumption DEF DeliveryInv, DeliveryTypeOK, LogInv, Inv, TypeOK
<1>3. LogInv'
  BY <1>1, <1>2, DropsKeepInv DEF DeliveryInv
<1>4. DeliveryTypeOK'
  <2>1. TypeOK'
    BY <1>3 DEF LogInv, Inv
  <2>2. restarts' \in 0..MaxRestarts
    BY <1>1, <1>2
  <2>3. QED BY <1>1, <1>2, <2>1, <2>2 DEF DeliveryTypeOK
<1>5. CursorsInLog'
  BY <1>1, <1>2 DEF CursorsInLog
<1>6. HandedInOrder'
  <2>1. \A i \in DOMAIN events : ~(i <= 0)
    BY <1>2
  <2>2. QED BY <1>1, <2>1 DEF HandedInOrder, Ids
<1>7. CountedByServers'
  <2> SUFFICES ASSUME NEW k \in Listeners, NEW i \in Nat
               PROVE  Cardinality(Places(received[k], i)) <= restarts + 1
    BY <1>1 DEF CountedByServers, Places, Ids
  <2>1. Cardinality(Places(received[k], i)) <= restarts + IF i \in Ids(handed[k]) THEN 1 ELSE 0
    BY DEF DeliveryInv, CountedByServers
  <2>2. Cardinality(Places(received[k], i)) \in Nat
    <3>1. received[k] \in Seq(Nat)
      BY <1>2
    <3>2. QED BY <3>1, PlacesFinite
  <2>3. QED BY <1>2, <2>1, <2>2
<1>8. QED BY <1>3, <1>4, <1>5, <1>6, <1>7 DEF DeliveryInv

-----------------------------------------------------------------------------
(* The invariant and what follows from it.                                 *)

\* Nothing is handed before the first call.
LEMMA InitDeliveryInv == DeliveryInit => DeliveryInv
<1> SUFFICES ASSUME DeliveryInit PROVE DeliveryInv
  OBVIOUS
<1>1. Init /\ LogInv /\ DOMAIN events = {} /\ Len(events) = 0
  BY InitLogInv DEF DeliveryInit, Init
<1>2. DeliveryTypeOK
  BY <1>1, RestartsAssumption DEF DeliveryInit, DeliveryTypeOK, LogInv, Inv
<1>3. CursorsInLog /\ HandedInOrder
  BY <1>1 DEF DeliveryInit, CursorsInLog, HandedInOrder, Ids
<1>4. CountedByServers
  <2>1. \A k \in Listeners, i \in Nat : Places(received[k], i) = {}
    BY DEF DeliveryInit, Places
  <2>2. Cardinality({}) = 0
    BY FS_EmptySet
  <2>3. restarts = 0
    BY DEF DeliveryInit
  <2>4. \A k \in Listeners, i \in Nat :
           Cardinality(Places(received[k], i)) = 0
    BY <2>1, <2>2
  <2>5. \A k \in Listeners, i \in Nat : 0 <= restarts + IF i \in Ids(handed[k]) THEN 1 ELSE 0
    BY <2>3
  <2>6. QED BY <2>4, <2>5 DEF CountedByServers
<1>5. QED BY <1>1, <1>2, <1>3, <1>4 DEF DeliveryInv

\* No step of the store, of a listener or of the process breaks the invariant.
LEMMA StepKeepsDelivery == DeliveryInv /\ [DeliveryNext]_allVars => DeliveryInv'
<1> SUFFICES ASSUME DeliveryInv, [DeliveryNext]_allVars PROVE DeliveryInv'
  OBVIOUS
<1>1. CASE UNCHANGED allVars
  BY <1>1, StoreStepKeepsDelivery DEF allVars, vars, deliveryVars
<1>2. CASE Next /\ UNCHANGED deliveryVars
  BY <1>2, StoreStepKeepsDelivery
<1>3. ASSUME NEW k \in Listeners, Listen(k) PROVE DeliveryInv'
  BY <1>3, ListenKeepsDelivery
<1>4. CASE Restart
  BY <1>4, RestartKeepsDelivery
<1>5. QED BY <1>1, <1>2, <1>3, <1>4 DEF DeliveryNext

\* Log, cursors and answers of the running server fit together in every behaviour.
THEOREM DeliveryInvariance == DeliverySpec => []DeliveryInv
BY InitDeliveryInv, StepKeepsDelivery, PTL DEF DeliverySpec

\* Cursors, answers and restarts have their types.
THEOREM DeliveryTypeCorrect == DeliverySpec => []DeliveryTypeOK
<1>1. DeliveryInv => DeliveryTypeOK
  BY DEF DeliveryInv
<1>2. QED BY <1>1, DeliveryInvariance, PTL

\* Each listener is handed what it may see in the order of the log, each request once.
THEOREM HandedInOrderAlways == DeliverySpec => []HandedInOrder
<1>1. DeliveryInv => HandedInOrder
  BY DEF DeliveryInv
<1>2. QED BY <1>1, DeliveryInvariance, PTL

\* A listener handed a cancel was handed the execute by the same server before, for
\* both have one subject and the log has the execute first.
LEMMA HandedExecuteFirst == DeliveryInv => ExecuteHandedFirst
<1> SUFFICES ASSUME DeliveryInv, NEW k \in Listeners, NEW n \in DOMAIN handed[k],
                    events[handed[k][n]].type = "CancelRequest",
                    ~events[handed[k][n]].payload.elsewhere
             PROVE  \E m \in 1..(n - 1) :
                       /\ events[handed[k][m]].type = "ExecuteRequest"
                       /\ events[handed[k][m]].task = events[handed[k][n]].task
  BY DEF ExecuteHandedFirst
<1> DEFINE j == handed[k][n]
<1>1. /\ handed[k] \in Seq(Nat \ {0}) /\ cursor[k] \in Nat
      /\ events \in Seq(Event) /\ DOMAIN events = 1..Len(events) /\ Len(events) \in Nat
      /\ DOMAIN handed[k] = 1..Len(handed[k]) /\ Len(handed[k]) \in Nat
  BY DEF DeliveryInv, DeliveryTypeOK, LogInv, Inv, TypeOK
<1>2. /\ Ids(handed[k]) = {i \in DOMAIN events : i <= cursor[k] /\ Visible(k, i)}
      /\ \A m, o \in DOMAIN handed[k] : m < o => handed[k][m] < handed[k][o]
  BY DEF DeliveryInv, HandedInOrder
<1>3. j \in DOMAIN events /\ j <= cursor[k] /\ Visible(k, j)
  BY <1>2 DEF Ids
<1>4. ToldOfRows /\ ExecuteBeforeCancel
  BY DEF DeliveryInv, LogInv
<1>5. PICK i \in 1..j :
        /\ events[i].task = events[j].task
        /\ \/ events[i].type = "ExecuteRequest" /\ events[i].subject = events[j].subject
           \/ events[i].type = "CREATE" /\ events[i].payload.elsewhere
  BY <1>3, <1>4 DEF ExecuteBeforeCancel
<1>6. i \in DOMAIN events /\ i <= j
  BY <1>1, <1>3
<1>7. events[i].payload.elsewhere = events[j].payload.elsewhere
  BY <1>3, <1>4, <1>5, <1>6 DEF ToldOfRows
<1>8. events[i].type = "ExecuteRequest" /\ events[i].subject = events[j].subject
  BY <1>5, <1>7
<1>9. Visible(k, i)
  <2>1. events[i].stream = "agent"
    BY <1>4, <1>6, <1>8 DEF ToldOfRows
  <2>2. QED BY <1>3, <1>8, <2>1 DEF Visible
<1>10. i # j /\ i < j /\ i <= cursor[k]
  <2>1. i # j
    BY <1>8
  <2>2. QED BY <1>1, <1>3, <1>6, <2>1
<1>11. PICK m \in DOMAIN handed[k] : handed[k][m] = i
  BY <1>2, <1>6, <1>9, <1>10 DEF Ids
<1>12. m < n
  <2>1. m # n
    BY <1>10, <1>11
  <2>2. ~(n < m)
    <3>1. n < m => j < i
      BY <1>2, <1>11
    <3>2. QED BY <1>1, <1>3, <1>6, <1>10, <3>1
  <2>3. QED BY <1>1, <2>1, <2>2
<1>13. m \in 1..(n - 1)
  BY <1>1, <1>12
<1>14. QED BY <1>5, <1>8, <1>11, <1>13

\* No listener is handed the cancel of a task whose execute it was not handed before.
THEOREM ExecuteHandedFirstAlways == DeliverySpec => []ExecuteHandedFirst
BY HandedExecuteFirst, DeliveryInvariance, PTL

\* However answers are lost, one request reaches one listener at most once for every
\* server process there has been.
THEOREM RepeatsNeedRestartsAlways == DeliverySpec => []RepeatsNeedRestarts
<1>1. DeliveryInv => RepeatsNeedRestarts
  <2> SUFFICES ASSUME DeliveryInv, NEW k \in Listeners, NEW i \in DOMAIN events
               PROVE  Cardinality(Places(received[k], i)) <= restarts + 1
    BY DEF RepeatsNeedRestarts, Places
  <2>1. /\ i \in Nat /\ restarts \in Nat /\ received[k] \in Seq(Nat)
    BY RestartsAssumption DEF DeliveryInv, DeliveryTypeOK, LogInv, Inv, TypeOK
  <2>2. Cardinality(Places(received[k], i)) <= restarts + IF i \in Ids(handed[k]) THEN 1 ELSE 0
    BY <2>1 DEF DeliveryInv, CountedByServers
  <2>3. Cardinality(Places(received[k], i)) \in Nat
    BY <2>1, PlacesFinite
  <2>4. QED BY <2>1, <2>2, <2>3
<1>2. QED BY <1>1, DeliveryInvariance, PTL
=============================================================================
