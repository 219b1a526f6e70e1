---------------------------- MODULE AgentDelivery ----------------------------
(***************************************************************************)
(* POST /agent/listen: the REST server hands each agent the requests the   *)
(* task store has logged for it, one per call.                             *)
(*                                                                         *)
(* The place an agent has reached is kept in memory, one cursor per        *)
(* listening name, and is moved before the answer leaves the server: an    *)
(* answer can be lost on its way, and a restart of the server forgets      *)
(* every cursor while the log stays.  Listen handlers run on the event     *)
(* loop, so two of them never interleave; the requests that write the log  *)
(* are those of TaskStore.                                                 *)
(***************************************************************************)
EXTENDS TaskStore, FiniteSets

CONSTANT MaxRestarts    \* bound on the restarts of the REST server

ASSUME RestartsAssumption == MaxRestarts \in Nat

\* Whom a listener says it is: an agent, or nobody (Anyone), which hears all.
Listeners == Addressees

VARIABLES
    cursor,     \* _agent_delivery_sequences, by listening name
    handed,     \* answers since the server started, as event ids
    received,   \* what reached the listener, over all restarts
    restarts

deliveryVars == <<cursor, handed, received, restarts>>
allVars == <<rows, events, staged, reply, cursor, handed, received, restarts>>

DeliveryInit ==
    /\ Init
    /\ cursor = [k \in Listeners |-> 0]
    /\ handed = [k \in Listeners |-> <<>>]
    /\ received = [k \in Listeners |-> <<>>]
    /\ restarts = 0

-----------------------------------------------------------------------------
\* poll_agent(): requests for the agent itself and those for anyone; a listener
\* without a name sees every request.
Visible(k, i) ==
    /\ events[i].stream = "agent"
    /\ k # Anyone => events[i].subject \in {k, Anyone}

Pending(k) == {i \in DOMAIN events : i > cursor[k] /\ Visible(k, i)}

\* The first event of the batch: every agent event carries a request.
Claimed(k) == CHOOSE i \in Pending(k) : \A j \in Pending(k) : i <= j

\* Mutants: the whole batch counts as claimed; one cursor for all listeners; the
\* cursor is not moved.
AdvancedPastBatch(k)   == [cursor EXCEPT ![k] = Len(events)]
AdvancedForEveryone(k) == [l \in Listeners |-> Claimed(k)]
NotAdvanced(k)         == cursor

Advanced(k) == [cursor EXCEPT ![k] = Claimed(k)]

\* claim_agent_request(): a heartbeat, which changes nothing, if none is pending.
Listen(k) ==
    /\ Pending(k) # {}
    /\ cursor' = Advanced(k)
    /\ handed' = [handed EXCEPT ![k] = Append(@, Claimed(k))]
    /\ \/ received' = [received EXCEPT ![k] = Append(@, Claimed(k))]
       \/ UNCHANGED received              \* the connection broke
    /\ UNCHANGED <<rows, events, staged, reply, restarts>>

\* The REST process is replaced: its requests in flight roll back.
Restart ==
    /\ restarts < MaxRestarts
    /\ restarts' = restarts + 1
    /\ cursor' = [k \in Listeners |-> 0]
    /\ handed' = [k \in Listeners |-> <<>>]
    /\ staged' = [w \in Workers |-> IF w \in RestWorkers THEN Idle ELSE staged[w]]
    /\ UNCHANGED <<rows, events, reply, received>>

DeliveryNext ==
    \/ Next /\ UNCHANGED deliveryVars
    \/ \E k \in Listeners : Listen(k)
    \/ Restart

\* Each agent calls again after every answer, and the server is up to answer it.
Fairness == \A k \in Listeners : WF_allVars(Listen(k))

DeliverySpec == DeliveryInit /\ [][DeliveryNext]_allVars /\ Fairness

-----------------------------------------------------------------------------
Ids(s) == {s[n] : n \in DOMAIN s}

\* Every variable has its type.
DeliveryTypeOK ==
    /\ TypeOK
    /\ cursor \in [Listeners -> Nat]
    /\ handed \in [Listeners -> Seq(Nat \ {0})]
    /\ received \in [Listeners -> Seq(Nat \ {0})]
    /\ restarts \in 0..MaxRestarts

\* Between restarts each listener is handed every request it may see up to its
\* cursor, in the order they were committed and each once, whatever the other
\* listeners claim meanwhile.
HandedInOrder == \A k \in Listeners :
    /\ Ids(handed[k]) = {i \in DOMAIN events : i <= cursor[k] /\ Visible(k, i)}
    /\ \A m, n \in DOMAIN handed[k] : m < n => handed[k][m] < handed[k][n]

\* No listener is handed the cancel of a task whose execute it was not handed
\* before, in the life of one server, unless the task runs elsewhere.
ExecuteHandedFirst == \A k \in Listeners : \A n \in DOMAIN handed[k] :
    events[handed[k][n]].type = "CancelRequest" =>
        \/ events[handed[k][n]].payload.elsewhere
        \/ \E m \in 1..(n - 1) :
              /\ events[handed[k][m]].type = "ExecuteRequest"
              /\ events[handed[k][m]].task = events[handed[k][n]].task

\* Only a restart of the server makes it repeat itself: one request reaches one
\* listener at most once more than the server was restarted.
RepeatsNeedRestarts == \A k \in Listeners, i \in DOMAIN events :
    Cardinality({n \in DOMAIN received[k] : received[k][n] = i}) <= restarts + 1

\* Every request a listener may see is handed to it in the end, restarts or not.
EveryRequestHanded ==
    \A k \in Listeners, i \in 1..MaxEvents :
        (i \in DOMAIN events /\ Visible(k, i)) ~> (i \in Ids(handed[k]))
=============================================================================
