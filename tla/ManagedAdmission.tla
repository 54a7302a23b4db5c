-------------------------- MODULE ManagedAdmission --------------------------
(***************************************************************************)
(* The service-owned admission domain for managed physical leaves          *)
(* (crates/recursive-agent-runner/src/managed_admission.rs).               *)
(*                                                                         *)
(* One mutex guards the whole AdmissionState, so one critical section of   *)
(* the code is one action here.  Threads that call the domain are the      *)
(* Clients; a client's program counter, request and ticket are the local   *)
(* variables of its call of reserve() and of the reservation it returned.  *)
(*                                                                         *)
(* A request keeps every field that a decision reads.  A lane that is not  *)
(* declared has zero units, a lane that is not configured a zero cap.      *)
(* "spend" stands for the five usage dimensions other than attempts, which *)
(* the code treats alike.                                                  *)
(***************************************************************************)
EXTENDS Naturals, FiniteSets

CONSTANTS
    Clients,        \* threads that reserve, work and release
    Ids,            \* operation, parent and budget scope identities
    NoId,           \* None of an optional identity
    Parents,        \* identities that may be cancelled as a parent
    Lanes,          \* lane names
    ProviderLane,   \* PROVIDER_LANE
    Requests,       \* the admission requests clients may submit
    NoRequest,      \* a client that has no call in progress
    Configs,        \* configurations that may be installed, all revisions
    InitConfig,     \* the configuration the domain is built with
    Deltas,         \* usage deltas that may be charged
    U64Max,         \* where saturating u64 arithmetic stops
    MaxTicket       \* bound: tickets issued before the model stops queueing

Classes == {"interactive", "normal"}

Budget == [max_attempts : Nat, max_spend : Nat,
           max_artifact_bytes : Nat, max_context_bytes : Nat]

Request == [operation_id : Ids, parent_operation_id : Ids \cup {NoId},
            budget_scope_id : Ids \cup {NoId}, lanes : [Lanes -> Nat],
            context_bytes : Nat, estimated_artifact_bytes : Nat,
            budget : Budget, queue_class : Classes,
            may_wait : BOOLEAN, simultaneous : Nat]

Config == [revision : Nat, global_max_active : Nat, lane_caps : [Lanes -> Nat],
           max_queued : Nat, max_materialized_context_bytes : Nat,
           max_reserved_artifact_bytes : Nat]

ValidConfig(cfg) ==
    /\ cfg.revision > 0
    /\ cfg.global_max_active > 0
    /\ cfg.max_queued > 0
    /\ cfg.max_materialized_context_bytes > 0
    /\ cfg.max_reserved_artifact_bytes > 0
    /\ \A l \in Lanes : cfg.lane_caps[l] <= cfg.global_max_active

ASSUME ClientsAssumption == IsFiniteSet(Clients)
ASSUME LanesAssumption == ProviderLane \in Lanes
ASSUME RequestsAssumption == Requests \subseteq Request /\ NoRequest \notin Requests
ASSUME IdsAssumption == NoId \notin Ids /\ Parents \subseteq Ids
ASSUME ConfigsAssumption ==
    /\ Configs \subseteq Config
    /\ InitConfig \in Config
    /\ ValidConfig(InitConfig)
ASSUME BoundsAssumption ==
    /\ U64Max \in Nat
    /\ MaxTicket \in Nat
    /\ Deltas \subseteq [attempts : Nat, spend : Nat]

VARIABLES
    config,         \* the installed configuration
    next_ticket,    \* the next queue ticket
    selected,       \* operations selected by the domain
    queue,          \* the waiting leaves: set of [ticket, request]
    active,         \* requests of the active leaves
    draining,       \* requests of the draining leaves
    in_flight,      \* operations whose leaf has provider_in_flight set
    cancelled,      \* operations cancelled, queued or active
    fenced_parents, \* parents that admit no further descendant
    usage,          \* operation -> usage record, kept after release
    scope_budgets,  \* scope -> retained budget
    pc, req, ticket, \* per client: control state, request and queue ticket
    granted         \* operation -> attempts that charge_attempt accepted

domain == <<config, next_ticket, selected, queue, active, draining, in_flight,
            cancelled, fenced_parents, usage, scope_budgets>>
vars == <<domain, pc, req, ticket, granted>>

-----------------------------------------------------------------------------
(* What the decisions of the domain read.                                  *)

ScopeOf(r) ==
    IF r.budget_scope_id = NoId THEN r.operation_id ELSE r.budget_scope_id

Operations(leaves) == {r.operation_id : r \in leaves}

Queued == {e.request : e \in queue}

(* The sum of n[r] over the leaves of S, as the size of the set of units   *)
(* that the leaves hold.                                                   *)
Units(S, n) == UNION {{r} \X (1 .. n[r]) : r \in S}
Total(S, n) == Cardinality(Units(S, n))

LaneUnits(l) == [r \in Requests |-> r.lanes[l]]
ContextBytes == [r \in Requests |-> r.context_bytes]
ArtifactBytes == [r \in Requests |-> r.estimated_artifact_bytes]

Occupied == active \cup draining
Occupancy == Cardinality(active) + Cardinality(draining)
LaneUse(l) == Total(Occupied, LaneUnits(l))
SelectedContextBytes == Total(Queued \cup Occupied, ContextBytes)
SelectedArtifactBytes == Total(Queued \cup Occupied, ArtifactBytes)

(* Mutant of CanFit: draining leaves hold no lane units.                   *)
CanFitIgnoringDraining(r) ==
    /\ Occupancy < config.global_max_active
    /\ \A l \in Lanes :
          r.lanes[l] > 0 =>
             Total(active, LaneUnits(l)) + r.lanes[l] <= config.lane_caps[l]

CanFit(r) ==
    /\ Occupancy < config.global_max_active
    /\ \A l \in Lanes :
          r.lanes[l] > 0 => LaneUse(l) + r.lanes[l] <= config.lane_caps[l]

(* Mutant of Precedes: leaves of one class are not ordered.                *)
PrecedesByClassOnly(e, f) ==
    e.request.queue_class = "interactive" /\ f.request.queue_class = "normal"

(* Interactive leaves go first; within a class the lower ticket does.      *)
Precedes(e, f) ==
    \/ e.request.queue_class = "interactive" /\ f.request.queue_class = "normal"
    \/ e.request.queue_class = f.request.queue_class /\ e.ticket < f.ticket

(* next_admissible_ticket(q) = e.ticket: leaves that do not fit are skipped. *)
IsNextAdmissible(e, q) ==
    /\ e \in q
    /\ CanFit(e.request)
    /\ \A f \in q : CanFit(f.request) => ~Precedes(f, e)

(* cleanup_scope_if_unused, with the collections as they are when it runs. *)
ScopeInUse(s, q, act, dra) ==
    \/ \E e \in q : ScopeOf(e.request) = s
    \/ \E r \in act \cup dra : ScopeOf(r) = s
    \/ \E o \in DOMAIN usage : usage[o].scope_id = s

WithoutUnusedScopes(scopes, q, act, dra) ==
    LET kept == {s \in DOMAIN scope_budgets :
                    s \in scopes => ScopeInUse(s, q, act, dra)}
    IN  [s \in kept |-> scope_budgets[s]]

(* notify_all: every thread asleep on the condition variable wakes up.     *)
NotifyAll(p) == [c \in Clients |-> IF p[c] = "asleep" THEN "awake" ELSE p[c]]

Waiting(c) == pc[c] \in {"asleep", "awake"}
Leaf(c) == [ticket |-> ticket[c], request |-> req[c]]

(* The call of c returns (or its reservation is consumed) as outcome.      *)
Returns(c, p, outcome) ==
    /\ pc' = [p EXCEPT ![c] = outcome]
    /\ req' = [req EXCEPT ![c] = NoRequest]
    /\ ticket' = [ticket EXCEPT ![c] = 0]

-----------------------------------------------------------------------------
(* reserve(): validation, then selection, queueing and admission.          *)

Init ==
    /\ config = InitConfig
    /\ next_ticket = 1
    /\ selected = {}
    /\ queue = {}
    /\ active = {}
    /\ draining = {}
    /\ in_flight = {}
    /\ cancelled = {}
    /\ fenced_parents = {}
    /\ usage = [o \in {} |-> 0]
    /\ scope_budgets = [s \in {} |-> 0]
    /\ pc = [c \in Clients |-> "idle"]
    /\ req = [c \in Clients |-> NoRequest]
    /\ ticket = [c \in Clients |-> 0]
    /\ granted = [o \in Ids |-> 0]

(* The checks that validate_request makes before it drops the lock again.  *)
RequestIsValid(r) ==
    /\ r.parent_operation_id # r.operation_id
    /\ r.budget.max_attempts > 0
    /\ r.budget.max_artifact_bytes > 0
    /\ r.budget.max_context_bytes > 0
    /\ r.estimated_artifact_bytes <= r.budget.max_artifact_bytes
    /\ r.context_bytes <= r.budget.max_context_bytes
    /\ r.context_bytes <= config.max_materialized_context_bytes
    /\ \A l \in Lanes : r.lanes[l] <= config.lane_caps[l]

ValidateRequest(c, r) ==
    /\ pc[c] \in {"idle", "parent_fenced", "queue_timeout"}
    /\ RequestIsValid(r)
    /\ pc' = [pc EXCEPT ![c] = "validated"]
    /\ req' = [req EXCEPT ![c] = r]
    /\ UNCHANGED <<domain, ticket, granted>>

AlreadyKnown(o) ==
    \/ o \in selected
    \/ o \in Operations(Queued \cup Occupied)
    \/ o \in cancelled
    \/ o \in DOMAIN usage

(* Mutant of Selectable: the parent fence is checked by the caller only.   *)
SelectableThroughFence(r) ==
    /\ ~AlreadyKnown(r.operation_id)
    /\ r.simultaneous <= config.global_max_active
    /\ ScopeOf(r) \in DOMAIN scope_budgets
          => scope_budgets[ScopeOf(r)] = r.budget

Selectable(r) ==
    /\ r.parent_operation_id \notin fenced_parents
    /\ ~AlreadyKnown(r.operation_id)
    /\ r.simultaneous <= config.global_max_active
    /\ \/ r.context_bytes = 0
       \/ SelectedContextBytes + r.context_bytes
             <= config.max_materialized_context_bytes
    /\ \/ r.estimated_artifact_bytes = 0
       \/ SelectedArtifactBytes + r.estimated_artifact_bytes
             <= config.max_reserved_artifact_bytes
    /\ ScopeOf(r) \in DOMAIN scope_budgets
          => scope_budgets[ScopeOf(r)] = r.budget

(* The call fails before it touches the state.                             *)
ReserveRefused(c) ==
    /\ pc[c] = "validated"
    /\ ~Selectable(req[c])
    /\ Returns(c, pc, "idle")
    /\ UNCHANGED <<domain, granted>>

(* What the rest of the critical section works on: the leaf pushed at the  *)
(* back of the queue under a fresh ticket, its scope budget retained.      *)
NewLeaf(c) == [ticket |-> next_ticket, request |-> req[c]]
Pushed(c) == queue \cup {NewLeaf(c)}
WithScopeBudget(r) ==
    [s \in DOMAIN scope_budgets \cup {ScopeOf(r)} |->
        IF s \in DOMAIN scope_budgets THEN scope_budgets[s] ELSE r.budget]

Selects(c) ==
    /\ pc[c] = "validated"
    /\ Selectable(req[c])
    /\ next_ticket <= MaxTicket
    /\ next_ticket' = next_ticket + 1

(* The queue is over its limit, or the leaf would have to wait and may     *)
(* not: the leaf, its selection and an unused scope budget are taken back. *)
ReserveUndone(c) ==
    /\ Selects(c)
    /\ \/ Cardinality(Pushed(c)) > config.max_queued
       \/ ~IsNextAdmissible(NewLeaf(c), Pushed(c)) /\ ~req[c].may_wait
    /\ scope_budgets' =
          LET s == ScopeOf(req[c]) IN
          IF ScopeInUse(s, queue, active, draining)
          THEN WithScopeBudget(req[c])
          ELSE [x \in DOMAIN scope_budgets \ {s} |-> scope_budgets[x]]
    /\ Returns(c, pc, "idle")
    /\ UNCHANGED <<config, selected, queue, active, draining, in_flight,
                   cancelled, fenced_parents, usage, granted>>

(* Mutant of Admits: nobody is notified when the queue advances.           *)
AdmitsSilently(c, e, q) ==
    /\ queue' = q \ {e}
    /\ usage' = [o \in DOMAIN usage \cup {e.request.operation_id} |->
                    IF o = e.request.operation_id
                    THEN [scope_id |-> ScopeOf(e.request), attempts |-> 0,
                          spend |-> 0, unknown_spend |-> FALSE]
                    ELSE usage[o]]
    /\ active' = active \cup {e.request}
    /\ pc' = [pc EXCEPT ![c] = "holding"]
    /\ ticket' = [ticket EXCEPT ![c] = 0]

(* The leaf e of c leaves q and becomes active.                            *)
Admits(c, e, q) ==
    /\ queue' = q \ {e}
    /\ usage' = [o \in DOMAIN usage \cup {e.request.operation_id} |->
                    IF o = e.request.operation_id
                    THEN [scope_id |-> ScopeOf(e.request), attempts |-> 0,
                          spend |-> 0, unknown_spend |-> FALSE]
                    ELSE usage[o]]
    /\ active' = active \cup {e.request}
    /\ pc' = [NotifyAll(pc) EXCEPT ![c] = "holding"]
    /\ ticket' = [ticket EXCEPT ![c] = 0]

ReserveAdmitted(c) ==
    /\ Selects(c)
    /\ Cardinality(Pushed(c)) <= config.max_queued
    /\ IsNextAdmissible(NewLeaf(c), Pushed(c))
    /\ Admits(c, NewLeaf(c), Pushed(c))
    /\ selected' = selected \cup {req[c].operation_id}
    /\ scope_budgets' = WithScopeBudget(req[c])
    /\ UNCHANGED <<config, draining, in_flight, cancelled, fenced_parents,
                   req, granted>>

ReserveQueued(c) ==
    /\ Selects(c)
    /\ Cardinality(Pushed(c)) <= config.max_queued
    /\ ~IsNextAdmissible(NewLeaf(c), Pushed(c))
    /\ req[c].may_wait
    /\ queue' = Pushed(c)
    /\ selected' = selected \cup {req[c].operation_id}
    /\ scope_budgets' = WithScopeBudget(req[c])
    /\ pc' = [pc EXCEPT ![c] = "asleep"]
    /\ ticket' = [ticket EXCEPT ![c] = next_ticket]
    /\ UNCHANGED <<config, active, draining, in_flight, cancelled,
                   fenced_parents, usage, req, granted>>

-----------------------------------------------------------------------------
(* The wait loop of reserve().                                             *)

(* The thread runs after a notification: fenced, admitted or asleep again. *)
WakeFenced(c) ==
    /\ pc[c] = "awake"
    /\ Leaf(c) \notin queue
    /\ Returns(c, pc, "parent_fenced")
    /\ UNCHANGED <<domain, granted>>

WakeAdmitted(c) ==
    /\ pc[c] = "awake"
    /\ IsNextAdmissible(Leaf(c), queue)
    /\ Admits(c, Leaf(c), queue)
    /\ UNCHANGED <<config, next_ticket, selected, draining, in_flight,
                   cancelled, fenced_parents, scope_budgets, req, granted>>

WakeWaits(c) ==
    /\ pc[c] = "awake"
    /\ Leaf(c) \in queue
    /\ ~IsNextAdmissible(Leaf(c), queue)
    /\ pc' = [pc EXCEPT ![c] = "asleep"]
    /\ UNCHANGED <<domain, req, ticket, granted>>

(* wait_timeout reports that the time is up.  A leaf whose turn it is goes *)
(* round the loop and is admitted; any other is taken back, whether or not *)
(* it is still queued.                                                     *)
TimeoutAdmitted(c) ==
    /\ Waiting(c)
    /\ IsNextAdmissible(Leaf(c), queue)
    /\ Admits(c, Leaf(c), queue)
    /\ UNCHANGED <<config, next_ticket, selected, draining, in_flight,
                   cancelled, fenced_parents, scope_budgets, req, granted>>

TimeoutUndone(c) ==
    /\ Waiting(c)
    /\ ~IsNextAdmissible(Leaf(c), queue)
    /\ queue' = queue \ {Leaf(c)}
    /\ selected' = selected \ {req[c].operation_id}
    /\ scope_budgets' = WithoutUnusedScopes({ScopeOf(req[c])}, queue', active, draining)
    /\ Returns(c, pc, "queue_timeout")
    /\ UNCHANGED <<config, next_ticket, active, draining, in_flight, cancelled,
                   fenced_parents, usage, granted>>

-----------------------------------------------------------------------------
(* The life of a reservation and of its leaf.                              *)

(* Mutant of Frees: the capacity is freed without a notification.          *)
FreesSilently(r, p) ==
    /\ active' = active \ {r}
    /\ draining' = draining \ {r}
    /\ in_flight' = in_flight \ {r.operation_id}
    /\ selected' = selected \ {r.operation_id}
    /\ pc' = p
    /\ UNCHANGED <<config, next_ticket, queue, cancelled, fenced_parents, usage,
                   scope_budgets, granted>>

(* The leaf of an operation leaves the domain and frees what it held.      *)
Frees(r, p) ==
    /\ active' = active \ {r}
    /\ draining' = draining \ {r}
    /\ in_flight' = in_flight \ {r.operation_id}
    /\ selected' = selected \ {r.operation_id}
    /\ pc' = NotifyAll(p)
    /\ UNCHANGED <<config, next_ticket, queue, cancelled, fenced_parents, usage,
                   scope_budgets, granted>>

(* release() and Drop: an active leaf is released, whatever its provider   *)
(* does; one that a cancellation moved to draining is reconciled, which    *)
(* fails, and keeps the capacity, while the provider is in flight.         *)
ReleaseReservation(c) ==
    /\ pc[c] = "holding"
    /\ LET p == [pc EXCEPT ![c] = "idle"]
           r == req[c]
       IN  IF r \in active \/ (r \in draining /\ r.operation_id \notin in_flight)
           THEN Frees(r, p)
           ELSE pc' = p /\ UNCHANGED <<domain, granted>>
    /\ req' = [req EXCEPT ![c] = NoRequest]
    /\ UNCHANGED ticket

(* The active leaves in R turn to draining without freeing anything.       *)
Drains(R) ==
    /\ active' = active \ R
    /\ draining' = draining \cup R
    /\ usage' = [o \in DOMAIN usage |->
                    IF o \in Operations(R) \cap in_flight
                    THEN [usage[o] EXCEPT !.unknown_spend = TRUE]
                    ELSE usage[o]]

(* mark_draining(self): the reservation is consumed, its leaf stays.  When *)
(* the leaf was already draining the call fails and Drop reconciles it.    *)
MarkDraining(c) ==
    /\ pc[c] = "holding"
    /\ req[c] \in active
    /\ Drains({req[c]})
    /\ cancelled' = cancelled \cup {req[c].operation_id}
    /\ pc' = NotifyAll([pc EXCEPT ![c] = "idle"])
    /\ req' = [req EXCEPT ![c] = NoRequest]
    /\ UNCHANGED <<config, next_ticket, selected, queue, in_flight,
                   fenced_parents, scope_budgets, ticket, granted>>

(* mark_active_draining(): a cancellation from outside the reservation.    *)
MarkActiveDraining(r) ==
    /\ r \in active
    /\ Drains({r})
    /\ cancelled' = cancelled \cup {r.operation_id}
    /\ pc' = NotifyAll(pc)
    /\ UNCHANGED <<config, next_ticket, selected, queue, in_flight,
                   fenced_parents, scope_budgets, req, ticket, granted>>

(* mark_descendants_draining(): fence the parent, drop its queued          *)
(* descendants, drain its active ones.                                     *)
MarkDescendantsDraining(parent) ==
    LET evicted == {e \in queue : e.request.parent_operation_id = parent}
        drained == {r \in active : r.parent_operation_id = parent}
        removed == {e.request : e \in evicted}
        kept    == queue \ evicted
    IN  /\ fenced_parents' = fenced_parents \cup {parent}
        /\ queue' = kept
        /\ selected' = selected \ Operations(removed)
        /\ cancelled' = cancelled \cup Operations(removed \cup drained)
        /\ scope_budgets' =
              WithoutUnusedScopes({ScopeOf(r) : r \in removed}, kept, active, draining)
        /\ Drains(drained)
        /\ pc' = IF removed \cup drained = {} THEN pc ELSE NotifyAll(pc)
        /\ UNCHANGED <<config, next_ticket, in_flight, req, ticket, granted>>

(* mark_provider_in_flight() by the reservation's owner: active or         *)
(* draining, provided the leaf declared the provider lane.                 *)
MarkProviderInFlight(c) ==
    /\ pc[c] = "holding"
    /\ req[c] \in Occupied
    /\ req[c].lanes[ProviderLane] > 0
    /\ in_flight' = in_flight \cup {req[c].operation_id}
    /\ pc' = NotifyAll(pc)
    /\ UNCHANGED <<config, next_ticket, selected, queue, active, draining,
                   cancelled, fenced_parents, usage, scope_budgets, req, ticket,
                   granted>>

(* mark_provider_complete() and observe_provider_complete().               *)
ObserveProviderComplete(r) ==
    /\ r \in Occupied
    /\ r.lanes[ProviderLane] > 0
    /\ in_flight' = in_flight \ {r.operation_id}
    /\ pc' = NotifyAll(pc)
    /\ UNCHANGED <<config, next_ticket, selected, queue, active, draining,
                   cancelled, fenced_parents, usage, scope_budgets, req, ticket,
                   granted>>

(* reconcile_draining().                                                   *)
ReconcileDraining(r) ==
    /\ r \in draining
    /\ r.operation_id \notin in_flight
    /\ Frees(r, pc)
    /\ UNCHANGED <<req, ticket>>

-----------------------------------------------------------------------------
(* Usage accounting and configuration.                                     *)

(* Adding numbers one after the other with saturating_add saturates their  *)
(* sum.                                                                    *)
Saturated(n) == IF n > U64Max THEN U64Max ELSE n
SaturatingAdd(a, b) == Saturated(a + b)

(* What the operations of a scope have used so far, in one dimension.      *)
OperationsIn(u, s) == {o \in DOMAIN u : u[o].scope_id = s}
ScopeUsage(u, s, amount) ==
    Saturated(Total(OperationsIn(u, s), [o \in DOMAIN u |-> u[o][amount]]))

(* Mutant of WithinBudget: each operation has the scope's budget to itself. *)
WithinBudgetPerOperation(u, s, budget) ==
    \A o \in DOMAIN u : u[o].scope_id = s =>
        u[o].attempts <= budget.max_attempts /\ u[o].spend <= budget.max_spend

WithinBudget(u, s, budget) ==
    /\ ScopeUsage(u, s, "attempts") <= budget.max_attempts
    /\ ScopeUsage(u, s, "spend") <= budget.max_spend

(* charge_attempt() and settle_usage(): the usage is recorded first, then  *)
(* compared; a charge over the budget is recorded and denied.              *)
Charge(c, delta) ==
    /\ pc[c] = "holding"
    /\ req[c] \in Occupied
    /\ LET o == req[c].operation_id
           s == usage[o].scope_id
       IN  /\ usage' = [usage EXCEPT
                  ![o].attempts = SaturatingAdd(@, delta.attempts),
                  ![o].spend = SaturatingAdd(@, delta.spend)]
           /\ granted' = [granted EXCEPT ![o] =
                  IF WithinBudget(usage', s, scope_budgets[s])
                  THEN SaturatingAdd(@, delta.attempts) ELSE @]
    /\ UNCHANGED <<config, next_ticket, selected, queue, active, draining,
                   in_flight, cancelled, fenced_parents, scope_budgets, pc, req,
                   ticket>>

Reconfigure(cfg) ==
    /\ ValidConfig(cfg)
    /\ cfg.revision > config.revision
    /\ config' = [cfg EXCEPT !.max_queued =
                     IF Cardinality(queue) > @ THEN Cardinality(queue) ELSE @]
    /\ pc' = NotifyAll(pc)
    /\ UNCHANGED <<next_ticket, selected, queue, active, draining, in_flight,
                   cancelled, fenced_parents, usage, scope_budgets, req, ticket,
                   granted>>

-----------------------------------------------------------------------------
ClientStep(c) ==
    \/ \E r \in Requests : ValidateRequest(c, r)
    \/ ReserveRefused(c)
    \/ ReserveUndone(c)
    \/ ReserveAdmitted(c)
    \/ ReserveQueued(c)
    \/ WakeFenced(c)
    \/ WakeAdmitted(c)
    \/ WakeWaits(c)
    \/ TimeoutAdmitted(c)
    \/ TimeoutUndone(c)
    \/ ReleaseReservation(c)
    \/ MarkDraining(c)
    \/ MarkProviderInFlight(c)
    \/ \E d \in Deltas : Charge(c, d)

ControlStep ==
    \/ \E r \in active : MarkActiveDraining(r)
    \/ \E r \in Occupied : ObserveProviderComplete(r)
    \/ \E r \in draining : ReconcileDraining(r)
    \/ \E parent \in Parents : MarkDescendantsDraining(parent)
    \/ \E cfg \in Configs : Reconfigure(cfg)

Next == (\E c \in Clients : ClientStep(c)) \/ ControlStep

Spec == Init /\ [][Next]_vars

-----------------------------------------------------------------------------
(* Safety.                                                                 *)

UsageRecord == [scope_id : Ids, attempts : Nat, spend : Nat, unknown_spend : BOOLEAN]

(* Type invariant of the AdmissionState and of the calling threads.        *)
TypeOK ==
    /\ config \in Config
    /\ next_ticket \in Nat
    /\ selected \subseteq Ids
    /\ queue \subseteq [ticket : Nat, request : Requests]
    /\ active \subseteq Requests
    /\ draining \subseteq Requests
    /\ in_flight \subseteq Ids
    /\ cancelled \subseteq Ids
    /\ fenced_parents \subseteq Ids
    /\ DOMAIN usage \subseteq Ids
    /\ usage \in [DOMAIN usage -> UsageRecord]
    /\ DOMAIN scope_budgets \subseteq Ids
    /\ scope_budgets \in [DOMAIN scope_budgets -> Budget]
    /\ pc \in [Clients -> {"idle", "validated", "asleep", "awake", "holding",
                           "parent_fenced", "queue_timeout"}]
    /\ req \in [Clients -> Requests \cup {NoRequest}]
    /\ ticket \in [Clients -> Nat]
    /\ granted \in [Ids -> Nat]

(* An operation has at most one leaf, in one of queue, active and          *)
(* draining, and `selected` names exactly the operations that have one:    *)
(* whatever order reserve, timeout, cancellation, release and Drop ran in, *)
(* nothing stays selected without a leaf and no leaf is counted twice.     *)
OneLeafPerOperation ==
    /\ \A e, f \in queue : e.request.operation_id = f.request.operation_id => e = f
    /\ \A r, t \in Occupied : r.operation_id = t.operation_id => r = t
    /\ active \cap draining = {}
    /\ Operations(Queued) \cap Operations(Occupied) = {}
    /\ selected = Operations(Queued \cup Occupied)

(* Every queued leaf belongs to a thread that still waits for it and every *)
(* active leaf to a reservation that will release it: a call of reserve()  *)
(* that returned an error left nothing behind that could hold capacity.    *)
EveryLeafIsOwned ==
    /\ \A e \in queue : \E c \in Clients : Waiting(c) /\ Leaf(c) = e
    /\ \A r \in active : \E c \in Clients : pc[c] = "holding" /\ req[c] = r

(* A cancellation is final: a cancelled operation is neither queued nor    *)
(* active, a draining leaf is cancelled, and no descendant of a fenced     *)
(* parent is queued or active, including those whose reserve() raced the   *)
(* fence.                                                                  *)
CancellationIsFinal ==
    /\ cancelled \cap Operations(Queued \cup active) = {}
    /\ Operations(draining) \subseteq cancelled
    /\ \A r \in Queued \cup active : r.parent_operation_id \notin fenced_parents

(* Queue, active and draining leaves, the selections and the threads that  *)
(* wait for leaves or hold them agree, in whatever order reserve(),        *)
(* timeouts, cancellations, releases and Drop run: one leaf per operation, *)
(* an owner per leaf, no leaf of what was cancelled.                       *)
LeavesAreConsistent == OneLeafPerOperation /\ EveryLeafIsOwned /\ CancellationIsFinal

(* The retained scope budgets are exactly those of scopes in use, and each *)
(* leaf runs under the budget it asked for: charge() always finds a budget *)
(* and an abandoned scope never pins one.                                  *)
ScopeBudgetsMatchUse ==
    /\ DOMAIN scope_budgets =
          {ScopeOf(r) : r \in Queued \cup Occupied}
             \cup {usage[o].scope_id : o \in DOMAIN usage}
    /\ \A r \in Queued \cup Occupied : scope_budgets[ScopeOf(r)] = r.budget

(* No lost wake-up on the condition variable: the thread whose leaf is the *)
(* next admissible one, and a thread whose leaf was evicted by a fence,    *)
(* are never left asleep, although the paths that give up waiting do not   *)
(* notify anybody.                                                         *)
NoLostWakeup ==
    \A c \in Clients :
        pc[c] = "asleep" => /\ Leaf(c) \in queue
                            /\ ~IsNextAdmissible(Leaf(c), queue)

(* Attempts that charge_attempt accepted, over all operations of a scope,  *)
(* never exceed the scope's max_attempts, however reservations of the      *)
(* scope come and go.                                                      *)
GrantedWithinScopeBudget ==
    \A s \in DOMAIN scope_budgets :
        Saturated(Total(OperationsIn(usage, s), granted)) <= scope_budgets[s].max_attempts

(* The budget of a scope is there as long as a leaf or a past use refers   *)
(* to the scope, and all its operations together are granted no more than  *)
(* it: the budget outlives the reservations that share it, and neither a   *)
(* failed nor a finished call takes it away or resets it.                  *)
ScopeBudgetsHold == ScopeBudgetsMatchUse /\ GrantedWithinScopeBudget

-----------------------------------------------------------------------------
(* Action properties.                                                      *)

(* Capacity is only ever raised within the caps installed at that moment:  *)
(* a step that adds a leaf, lane units or reserved bytes ends within the   *)
(* global, lane, context and artifact capacities, even when a restrictive  *)
(* reconfiguration left the domain above them.                             *)
NoOvercommit ==
    [][ /\ Occupancy' > Occupancy => Occupancy' <= config.global_max_active
        /\ \A l \in Lanes :
              LaneUse(l)' > LaneUse(l) => LaneUse(l)' <= config.lane_caps[l]
        /\ SelectedContextBytes' > SelectedContextBytes =>
              SelectedContextBytes' <= config.max_materialized_context_bytes
        /\ SelectedArtifactBytes' > SelectedArtifactBytes =>
              SelectedArtifactBytes' <= config.max_reserved_artifact_bytes
      ]_vars

(* An operation becomes active at most once in the life of the domain, and *)
(* never after it was cancelled: retries after a timeout are possible,     *)
(* retries after an admission are not.                                     *)
AdmittedAtMostOnce ==
    [][ /\ DOMAIN usage \subseteq DOMAIN usage'
        /\ cancelled \subseteq cancelled'
        /\ \A r \in active' \ active :
              r.operation_id \notin DOMAIN usage \cup cancelled ]_vars

(* Among leaves of one class that ask for the same lanes the queue is      *)
(* first come, first served: no leaf, queued or just arriving, becomes     *)
(* active ahead of one that was queued before it.                          *)
FifoWithinClass ==
    [][ \A r \in active' \ active : \A f \in queue :
            /\ f.request # r
            /\ f.request.queue_class = r.queue_class
            /\ f.request.lanes = r.lanes
            => \E e \in queue : e.request = r /\ e.ticket < f.ticket ]_vars

(* The leaf of a cancelled operation keeps its slot while its provider     *)
(* request is in flight: no step of any thread frees it.                   *)
DrainingKeepsCapacity ==
    [][ \A r \in draining : r.operation_id \in in_flight =>
            r \in draining' /\ r \notin active' ]_vars

(* A cancellation that finds the provider in flight reports the spend of   *)
(* the operation as unknown, and nothing withdraws the report: not the     *)
(* reconciliation of the leaf, nor a later charge or reservation.          *)
LostSpendIsReported ==
    [][ /\ \A r \in active \cap draining' :
              r.operation_id \in in_flight => usage'[r.operation_id].unknown_spend
        /\ \A o \in DOMAIN usage :
              usage[o].unknown_spend => usage'[o].unknown_spend ]_vars

(* "A racing waiter observes the fence and exits with a typed error": a    *)
(* thread whose leaf a fence evicted returns ParentFenced.  The code does  *)
(* not do this: when the wait timed out as well, it returns QueueTimeout.  *)
EvictedWaiterSeesFence ==
    [][ \A c \in Clients :
            Waiting(c) /\ Leaf(c) \notin queue => pc'[c] # "queue_timeout" ]_vars

-----------------------------------------------------------------------------
(* Liveness.                                                               *)

(* A thread in reserve() runs when it holds the mutex or was woken, and a  *)
(* wait_timeout ends: the operating system schedules it.                   *)
Reserves(c) == ReserveRefused(c) \/ ReserveUndone(c) \/ ReserveAdmitted(c) \/ ReserveQueued(c)
Wakes(c) == WakeFenced(c) \/ WakeAdmitted(c) \/ WakeWaits(c)
TimesOut(c) == TimeoutAdmitted(c) \/ TimeoutUndone(c)

ReserveFairness == \A c \in Clients : WF_vars(Reserves(c)) /\ WF_vars(Wakes(c))
TimeoutFairness == \A c \in Clients : WF_vars(TimesOut(c))

TimedSpec == Spec /\ ReserveFairness /\ TimeoutFairness

(* c no longer waits, or a draining leaf retains capacity, or the          *)
(* installed caps cannot hold the leaf at all.                             *)
ServedOrBlocked(c) ==
    \/ ~Waiting(c)
    \/ draining # {}
    \/ \E l \in Lanes : req[c].lanes[l] > config.lane_caps[l]
=============================================================================
