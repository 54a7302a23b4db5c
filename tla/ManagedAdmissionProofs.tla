----------------------- MODULE ManagedAdmissionProofs -----------------------
(***************************************************************************)
(* The inductive invariant of the admission domain, and what follows from  *)
(* it: types, one leaf per operation, owned leaves, final cancellations.   *)
(* One lemma per conjunct, one step per critical section.                  *)
(***************************************************************************)
EXTENDS ManagedAdmission, FiniteSetTheorems, TLAPS

(* The conjuncts that type and bound the state.                            *)

(* What the locals of a call say about the domain: a waiting thread has    *)
(* its own ticket and its leaf is queued, unless a cancellation removed    *)
(* it.                                                                     *)
CallsOK ==
    \A c \in Clients :
        /\ pc[c] \in {"validated", "asleep", "awake", "holding"} => req[c] \in Requests
        /\ Waiting(c) => ticket[c] < next_ticket
        /\ Waiting(c) => \/ Leaf(c) \in queue
                         \/ /\ req[c].operation_id \in cancelled
                            /\ req[c].operation_id \notin DOMAIN usage
        /\ \A d \in Clients : Waiting(c) /\ Waiting(d) /\ c # d => ticket[c] # ticket[d]

(* There are finitely many leaves, so that they can be counted.            *)
LeavesFinite == IsFiniteSet(queue) /\ IsFiniteSet(active) /\ IsFiniteSet(draining)

(* A leaf that was admitted has a usage record; one that still waits has   *)
(* none.                                                                   *)
UsageCoversLeaves ==
    /\ Operations(Occupied) \subseteq DOMAIN usage
    /\ Operations(Queued) \cap DOMAIN usage = {}

(* next_ticket was never issued.                                           *)
TicketsBelowNext == \A e \in queue : e.ticket < next_ticket

(* The fields of a request have their types; its scope is an identity.     *)
LEMMA RequestFields ==
    ASSUME NEW r \in Requests
    PROVE  /\ r.operation_id \in Ids
           /\ ScopeOf(r) \in Ids
           /\ r.budget \in Budget
           /\ \A l \in Lanes : r.lanes[l] \in Nat
           /\ r.context_bytes \in Nat
           /\ r.estimated_artifact_bytes \in Nat
  BY RequestsAssumption DEF Request, ScopeOf

(* saturating_add returns a number.                                        *)
LEMMA SaturatingAddType ==
    ASSUME NEW a \in Nat, NEW b \in Nat
    PROVE  SaturatingAdd(a, b) \in Nat
  BY BoundsAssumption DEF SaturatingAdd, Saturated

(* Turning leaves to draining keeps the types and the usage records,       *)
(* except for the unknown_spend flag.                                      *)
LEMMA DrainsFacts ==
    ASSUME TypeOK, NEW R \in SUBSET active, Drains(R)
    PROVE  /\ active' \subseteq Requests /\ draining' \subseteq Requests
           /\ usage' \in [DOMAIN usage -> UsageRecord]
           /\ DOMAIN usage' = DOMAIN usage
           /\ \A o \in DOMAIN usage : usage'[o].scope_id = usage[o].scope_id
<1> DEFINE flagged == Operations(R) \cap in_flight
<1>1. \A o \in DOMAIN usage : usage[o] \in UsageRecord
  BY DEF TypeOK
<1>2. \A o \in DOMAIN usage : [usage[o] EXCEPT !.unknown_spend = TRUE] \in UsageRecord
  BY ZenonT(90), <1>1 DEF UsageRecord
<1>3. usage' = [o \in DOMAIN usage |-> IF o \in flagged
                   THEN [usage[o] EXCEPT !.unknown_spend = TRUE] ELSE usage[o]]
  BY DEF Drains
<1>4. \A o \in DOMAIN usage :
         [usage[o] EXCEPT !.unknown_spend = TRUE].scope_id = usage[o].scope_id
  BY <1>1 DEF UsageRecord
<1> HIDE DEF flagged
<1> QED
  BY <1>1, <1>2, <1>3, <1>4 DEF Drains, TypeOK

(* Every critical section of the domain keeps the types.                   *)
LEMMA TypeStep ==
    ASSUME TypeOK, CallsOK, LeavesFinite, UsageCoversLeaves, [Next]_vars
    PROVE  TypeOK'
<1> USE DEF TypeOK
<1>1. ASSUME NEW c \in Clients, NEW r \in Requests, ValidateRequest(c, r)
      PROVE TypeOK'
  BY ZenonT(90), <1>1 DEF ValidateRequest, domain
<1>2. ASSUME NEW c \in Clients, ReserveRefused(c) PROVE TypeOK'
  BY <1>2 DEF ReserveRefused, Returns, domain, Occupied
<1>3. ASSUME NEW c \in Clients, ReserveUndone(c) PROVE TypeOK'
  BY <1>3, RequestFields DEF ReserveUndone, Selects, Returns, WithScopeBudget,
     domain, CallsOK, Occupied
<1>4. ASSUME NEW c \in Clients, ReserveAdmitted(c) PROVE TypeOK'
  BY <1>4, RequestFields DEF ReserveAdmitted, Selects, Admits, NewLeaf, Pushed,
     WithScopeBudget, NotifyAll, domain, CallsOK, UsageRecord, Occupied
<1>5. ASSUME NEW c \in Clients, ReserveQueued(c) PROVE TypeOK'
  BY <1>5, RequestFields DEF ReserveQueued, Selects, NewLeaf, Pushed,
     WithScopeBudget, domain, CallsOK, Occupied
<1>6. ASSUME NEW c \in Clients, WakeFenced(c) PROVE TypeOK'
  BY <1>6 DEF WakeFenced, Returns, domain
<1>7. ASSUME NEW c \in Clients, WakeAdmitted(c) PROVE TypeOK'
  BY ZenonT(90), <1>7, RequestFields DEF WakeAdmitted, Admits, Leaf, NotifyAll,
     domain, CallsOK, UsageRecord, Occupied
<1>8. ASSUME NEW c \in Clients, WakeWaits(c) PROVE TypeOK'
  BY <1>8 DEF WakeWaits, domain, Occupied
<1>9. ASSUME NEW c \in Clients, TimeoutAdmitted(c) PROVE TypeOK'
  BY ZenonT(90), <1>9, RequestFields DEF TimeoutAdmitted, Waiting, Admits, Leaf, NotifyAll,
     domain, CallsOK, UsageRecord, Occupied
<1>10. ASSUME NEW c \in Clients, TimeoutUndone(c) PROVE TypeOK'
  BY <1>10 DEF TimeoutUndone, Waiting, Returns, Leaf, WithoutUnusedScopes,
     domain, Occupied
<1>11. ASSUME NEW c \in Clients, ReleaseReservation(c) PROVE TypeOK'
  BY <1>11 DEF ReleaseReservation, Frees, NotifyAll, domain
<1>12. ASSUME NEW c \in Clients, MarkDraining(c) PROVE TypeOK'
  BY ZenonT(90), <1>12, RequestFields, DrainsFacts DEF MarkDraining, NotifyAll
<1>13. ASSUME NEW c \in Clients, MarkProviderInFlight(c) PROVE TypeOK'
  BY ZenonT(90), <1>13, RequestFields DEF MarkProviderInFlight, NotifyAll, domain, Occupied
<1>14. ASSUME NEW c \in Clients, NEW d \in Deltas, Charge(c, d) PROVE TypeOK'
  <2> DEFINE o == req[c].operation_id
  <2>1. o \in DOMAIN usage /\ o \in Ids /\ usage[o] \in UsageRecord
    BY ZenonT(90), <1>14 DEF Charge, UsageCoversLeaves, Operations
  <2>2. d.attempts \in Nat /\ d.spend \in Nat
    BY ZenonT(90), BoundsAssumption
  <2>3. \A u \in UsageRecord :
           [u EXCEPT !.attempts = SaturatingAdd(@, d.attempts),
                     !.spend = SaturatingAdd(@, d.spend)] \in UsageRecord
    BY ZenonT(90), <2>2, SaturatingAddType DEF UsageRecord
  <2>4. \A n \in Nat : SaturatingAdd(n, d.attempts) \in Nat
    BY ZenonT(90), <2>2, SaturatingAddType
  <2>5. usage' \in [DOMAIN usage -> UsageRecord] /\ DOMAIN usage' = DOMAIN usage
    BY ZenonT(90), <1>14, <2>1, <2>3 DEF Charge
  <2>6. granted' \in [Ids -> Nat]
    BY ZenonT(90), <1>14, <2>4 DEF Charge
  <2> QED
    BY ZenonT(90), <1>14, <2>5, <2>6 DEF Charge
<1>15. ASSUME NEW r \in active, MarkActiveDraining(r) PROVE TypeOK'
  BY ZenonT(90), <1>15, RequestFields, DrainsFacts DEF MarkActiveDraining, NotifyAll
<1>16. ASSUME NEW r \in Occupied, ObserveProviderComplete(r) PROVE TypeOK'
  BY ZenonT(90), <1>16 DEF ObserveProviderComplete, NotifyAll, domain, Occupied
<1>17. ASSUME NEW r \in draining, ReconcileDraining(r) PROVE TypeOK'
  BY <1>17 DEF ReconcileDraining, Frees, NotifyAll, domain
<1>18. ASSUME NEW p \in Parents, MarkDescendantsDraining(p) PROVE TypeOK'
  <2> DEFINE drained == {r \in active : r.parent_operation_id = p}
  <2>1. Drains(drained)
    BY ZenonT(90), <1>18 DEF MarkDescendantsDraining
  <2> HIDE DEF drained
  <2>2. /\ active' \subseteq Requests /\ draining' \subseteq Requests
        /\ usage' \in [DOMAIN usage' -> UsageRecord] /\ DOMAIN usage' \subseteq Ids
    <3>1. drained \in SUBSET active
      BY DEF drained
    <3> QED
      BY <2>1, <3>1, DrainsFacts
  <2>3. /\ selected' \subseteq Ids /\ cancelled' \subseteq Ids /\ fenced_parents' \subseteq Ids
        /\ queue' \subseteq [ticket : Nat, request : Requests]
    BY <1>18, RequestFields, IdsAssumption DEF MarkDescendantsDraining,
       Operations
  <2>4. /\ DOMAIN scope_budgets' \subseteq Ids
        /\ scope_budgets' \in [DOMAIN scope_budgets' -> Budget]
    BY ZenonT(90), <1>18 DEF MarkDescendantsDraining, WithoutUnusedScopes
  <2>5. pc' \in [Clients -> {"idle", "validated", "asleep", "awake", "holding",
                           "parent_fenced", "queue_timeout"}]
    BY ZenonT(90), <1>18 DEF MarkDescendantsDraining, NotifyAll
  <2> QED
    BY ZenonT(90), <1>18, <2>2, <2>3, <2>4, <2>5 DEF MarkDescendantsDraining
<1>19. ASSUME NEW cfg \in Configs, Reconfigure(cfg) PROVE TypeOK'
  BY ZenonT(90), <1>19, ConfigsAssumption, FS_CardinalityType DEF Reconfigure,
     NotifyAll, Config, LeavesFinite
<1>20. CASE UNCHANGED vars
  BY ZenonT(90), <1>20 DEF vars, domain
<1> QED
  BY ZenonT(90), <1>1, <1>2, <1>3, <1>4, <1>5, <1>6, <1>7, <1>8, <1>9, <1>10,
     <1>11, <1>12, <1>13, <1>14, <1>15, <1>16, <1>17, <1>18, <1>19, <1>20
     DEF Next, ClientStep, ControlStep

(* Every critical section keeps the leaves finitely many.                  *)
LEMMA FiniteStep ==
    ASSUME TypeOK, LeavesFinite, [Next]_vars
    PROVE  LeavesFinite'
<1> USE DEF LeavesFinite
<1>1. ASSUME NEW c \in Clients, NEW r \in Requests, ValidateRequest(c, r)
      PROVE LeavesFinite'
  BY ZenonT(90), <1>1 DEF ValidateRequest, domain
<1>2. ASSUME NEW c \in Clients, ReserveRefused(c) PROVE LeavesFinite'
  BY <1>2 DEF ReserveRefused, Returns, domain
<1>3. ASSUME NEW c \in Clients, ReserveUndone(c) PROVE LeavesFinite'
  BY ZenonT(90), <1>3 DEF ReserveUndone, Selects, Returns, WithScopeBudget, domain
<1>4. ASSUME NEW c \in Clients, ReserveAdmitted(c) PROVE LeavesFinite'
  BY ZenonT(90), <1>4, FS_AddElement, FS_RemoveElement DEF ReserveAdmitted,
     Selects, Admits, NewLeaf, Pushed, WithScopeBudget, NotifyAll, domain
<1>5. ASSUME NEW c \in Clients, ReserveQueued(c) PROVE LeavesFinite'
  BY ZenonT(90), <1>5, FS_AddElement DEF ReserveQueued, Selects, NewLeaf,
     Pushed, WithScopeBudget, domain
<1>6. ASSUME NEW c \in Clients, WakeFenced(c) PROVE LeavesFinite'
  BY ZenonT(90), <1>6 DEF WakeFenced, Returns, domain
<1>7. ASSUME NEW c \in Clients, WakeAdmitted(c) PROVE LeavesFinite'
  BY ZenonT(90), <1>7, FS_AddElement, FS_RemoveElement DEF WakeAdmitted,
     Admits, Leaf, NotifyAll, domain
<1>8. ASSUME NEW c \in Clients, WakeWaits(c) PROVE LeavesFinite'
  BY <1>8 DEF WakeWaits, domain
<1>9. ASSUME NEW c \in Clients, TimeoutAdmitted(c) PROVE LeavesFinite'
  BY ZenonT(90), <1>9, FS_AddElement, FS_RemoveElement DEF TimeoutAdmitted,
     Waiting, Admits, Leaf, NotifyAll, domain
<1>10. ASSUME NEW c \in Clients, TimeoutUndone(c) PROVE LeavesFinite'
  BY ZenonT(90), <1>10, FS_RemoveElement DEF TimeoutUndone, Waiting, Returns, Leaf,
     WithoutUnusedScopes, domain
<1>11. ASSUME NEW c \in Clients, ReleaseReservation(c) PROVE LeavesFinite'
  BY <1>11, FS_RemoveElement DEF ReleaseReservation, Frees, NotifyAll, domain
<1>12. ASSUME NEW c \in Clients, MarkDraining(c) PROVE LeavesFinite'
  BY ZenonT(90), <1>12, FS_AddElement, FS_RemoveElement DEF MarkDraining,
     Drains, Operations, NotifyAll, domain
<1>13. ASSUME NEW c \in Clients, MarkProviderInFlight(c) PROVE LeavesFinite'
  BY ZenonT(90), <1>13 DEF MarkProviderInFlight, NotifyAll, domain
<1>14. ASSUME NEW c \in Clients, NEW d \in Deltas, Charge(c, d)
       PROVE LeavesFinite'
  BY ZenonT(90), <1>14 DEF Charge, domain
<1>15. ASSUME NEW r \in active, MarkActiveDraining(r) PROVE LeavesFinite'
  BY ZenonT(90), <1>15, FS_AddElement, FS_RemoveElement DEF MarkActiveDraining,
     Drains, NotifyAll, domain
<1>16. ASSUME NEW r \in Occupied, ObserveProviderComplete(r)
       PROVE LeavesFinite'
  BY <1>16 DEF ObserveProviderComplete, NotifyAll, domain
<1>17. ASSUME NEW r \in draining, ReconcileDraining(r) PROVE LeavesFinite'
  BY <1>17, FS_RemoveElement DEF ReconcileDraining, Frees, NotifyAll, domain
<1>18. ASSUME NEW p \in Parents, MarkDescendantsDraining(p) PROVE LeavesFinite'
  <2> DEFINE drained == {r \in active : r.parent_operation_id = p}
  <2>1. active' = active \ drained /\ draining' = draining \cup drained
    BY <1>18 DEF MarkDescendantsDraining, Drains
  <2>2. queue' \in SUBSET queue /\ active' \in SUBSET active /\ drained \in SUBSET active
    BY <2>1, <1>18 DEF MarkDescendantsDraining
  <2> HIDE DEF drained
  <2> QED
    BY ZenonT(90), <2>1, <2>2, FS_Subset, FS_Union
<1>19. ASSUME NEW cfg \in Configs, Reconfigure(cfg) PROVE LeavesFinite'
  BY <1>19 DEF Reconfigure, NotifyAll, domain
<1>20. CASE UNCHANGED vars
  BY <1>20 DEF vars, domain
<1> QED
  BY ZenonT(90), <1>1, <1>2, <1>3, <1>4, <1>5, <1>6, <1>7, <1>8, <1>9, <1>10,
     <1>11, <1>12,
     <1>13, <1>14, <1>15, <1>16, <1>17, <1>18, <1>19, <1>20 DEF Next,
     ClientStep, ControlStep

(* Every critical section keeps issued tickets below next_ticket.          *)
LEMMA TicketsStep ==
    ASSUME TypeOK, TicketsBelowNext, [Next]_vars
    PROVE  TicketsBelowNext'
<1> USE DEF TicketsBelowNext, TypeOK
<1>1. ASSUME NEW c \in Clients, NEW r \in Requests, ValidateRequest(c, r)
      PROVE TicketsBelowNext'
  BY ZenonT(90), <1>1 DEF ValidateRequest, domain
<1>2. ASSUME NEW c \in Clients, ReserveRefused(c) PROVE TicketsBelowNext'
  BY <1>2 DEF ReserveRefused, Returns, domain
<1>3. ASSUME NEW c \in Clients, ReserveUndone(c) PROVE TicketsBelowNext'
  BY <1>3 DEF ReserveUndone, Selects, Returns, WithScopeBudget, domain
<1>4. ASSUME NEW c \in Clients, ReserveAdmitted(c) PROVE TicketsBelowNext'
  BY <1>4 DEF ReserveAdmitted, Selects, Admits, NewLeaf, Pushed,
     WithScopeBudget, NotifyAll, domain
<1>5. ASSUME NEW c \in Clients, ReserveQueued(c) PROVE TicketsBelowNext'
  BY <1>5 DEF ReserveQueued, Selects, NewLeaf, Pushed, WithScopeBudget, domain
<1>6. ASSUME NEW c \in Clients, WakeFenced(c) PROVE TicketsBelowNext'
  BY <1>6 DEF WakeFenced, Returns, domain
<1>7. ASSUME NEW c \in Clients, WakeAdmitted(c) PROVE TicketsBelowNext'
  BY ZenonT(90), <1>7 DEF WakeAdmitted, Admits, Leaf, NotifyAll, domain
<1>8. ASSUME NEW c \in Clients, WakeWaits(c) PROVE TicketsBelowNext'
  BY <1>8 DEF WakeWaits, domain
<1>9. ASSUME NEW c \in Clients, TimeoutAdmitted(c) PROVE TicketsBelowNext'
  BY ZenonT(90), <1>9 DEF TimeoutAdmitted, Waiting, Admits, Leaf, NotifyAll, domain
<1>10. ASSUME NEW c \in Clients, TimeoutUndone(c) PROVE TicketsBelowNext'
  BY ZenonT(90), <1>10 DEF TimeoutUndone, Waiting, Returns, Leaf, WithoutUnusedScopes,
     domain
<1>11. ASSUME NEW c \in Clients, ReleaseReservation(c) PROVE TicketsBelowNext'
  BY <1>11 DEF ReleaseReservation, Frees, NotifyAll, domain
<1>12. ASSUME NEW c \in Clients, MarkDraining(c) PROVE TicketsBelowNext'
  BY <1>12 DEF MarkDraining, Drains, Operations, NotifyAll, domain
<1>13. ASSUME NEW c \in Clients, MarkProviderInFlight(c)
       PROVE TicketsBelowNext'
  BY <1>13 DEF MarkProviderInFlight, NotifyAll, domain
<1>14. ASSUME NEW c \in Clients, NEW d \in Deltas, Charge(c, d)
       PROVE TicketsBelowNext'
  BY ZenonT(90), <1>14 DEF Charge, domain
<1>15. ASSUME NEW r \in active, MarkActiveDraining(r) PROVE TicketsBelowNext'
  BY <1>15 DEF MarkActiveDraining, Drains, NotifyAll, domain
<1>16. ASSUME NEW r \in Occupied, ObserveProviderComplete(r)
       PROVE TicketsBelowNext'
  BY <1>16 DEF ObserveProviderComplete, NotifyAll, domain
<1>17. ASSUME NEW r \in draining, ReconcileDraining(r) PROVE TicketsBelowNext'
  BY <1>17 DEF ReconcileDraining, Frees, NotifyAll, domain
<1>18. ASSUME NEW p \in Parents, MarkDescendantsDraining(p)
       PROVE TicketsBelowNext'
  BY <1>18 DEF MarkDescendantsDraining, Drains, WithoutUnusedScopes, NotifyAll,
     domain
<1>19. ASSUME NEW cfg \in Configs, Reconfigure(cfg) PROVE TicketsBelowNext'
  BY <1>19 DEF Reconfigure, NotifyAll, domain
<1>20. CASE UNCHANGED vars
  BY SMTT(30), <1>20 DEF vars, domain
<1> QED
  BY ZenonT(90), <1>1, <1>2, <1>3, <1>4, <1>5, <1>6, <1>7, <1>8, <1>9, <1>10,
     <1>11, <1>12, <1>13, <1>14, <1>15, <1>16, <1>17, <1>18, <1>19, <1>20
     DEF Next, ClientStep, ControlStep

(* Usage records appear with admission and are never dropped.              *)
LEMMA UsageStep ==
    ASSUME TypeOK, CallsOK, OneLeafPerOperation, UsageCoversLeaves, [Next]_vars
    PROVE  UsageCoversLeaves'
<1> USE DEF UsageCoversLeaves, Operations, Queued, Occupied
<1>1. ASSUME NEW c \in Clients, NEW r \in Requests, ValidateRequest(c, r)
      PROVE UsageCoversLeaves'
  BY ZenonT(90), <1>1 DEF ValidateRequest, domain
<1>2. ASSUME NEW c \in Clients, ReserveRefused(c) PROVE UsageCoversLeaves'
  BY <1>2 DEF ReserveRefused, Returns, domain, Selectable, AlreadyKnown
<1>3. ASSUME NEW c \in Clients, ReserveUndone(c) PROVE UsageCoversLeaves'
  BY ZenonT(90), <1>3 DEF ReserveUndone, Selects, Returns, WithScopeBudget,
     domain, Selectable, AlreadyKnown, IsNextAdmissible
<1>4. ASSUME NEW c \in Clients, ReserveAdmitted(c) PROVE UsageCoversLeaves'
  BY SMTT(30), <1>4 DEF ReserveAdmitted, Selects, Admits, NewLeaf, Pushed,
     WithScopeBudget, NotifyAll, domain, Selectable, AlreadyKnown,
     IsNextAdmissible
<1>5. ASSUME NEW c \in Clients, ReserveQueued(c) PROVE UsageCoversLeaves'
  BY <1>5 DEF ReserveQueued, Selects, NewLeaf, Pushed, WithScopeBudget, domain,
     Selectable, AlreadyKnown, IsNextAdmissible
<1>6. ASSUME NEW c \in Clients, WakeFenced(c) PROVE UsageCoversLeaves'
  BY ZenonT(90), <1>6 DEF WakeFenced, Returns, domain
<1>7. ASSUME NEW c \in Clients, WakeAdmitted(c) PROVE UsageCoversLeaves'
  BY <1>7 DEF WakeAdmitted, Admits, Leaf, NotifyAll, domain,
     OneLeafPerOperation, IsNextAdmissible
<1>8. ASSUME NEW c \in Clients, WakeWaits(c) PROVE UsageCoversLeaves'
  BY <1>8 DEF WakeWaits, domain, IsNextAdmissible
<1>9. ASSUME NEW c \in Clients, TimeoutAdmitted(c) PROVE UsageCoversLeaves'
  BY <1>9 DEF TimeoutAdmitted, Waiting, Admits, Leaf, NotifyAll, domain,
     OneLeafPerOperation, IsNextAdmissible
<1>10. ASSUME NEW c \in Clients, TimeoutUndone(c) PROVE UsageCoversLeaves'
  BY <1>10 DEF TimeoutUndone, Waiting, Returns, Leaf, WithoutUnusedScopes,
     domain, IsNextAdmissible
<1>11. ASSUME NEW c \in Clients, ReleaseReservation(c) PROVE UsageCoversLeaves'
  BY ZenonT(90), <1>11 DEF ReleaseReservation, Frees, NotifyAll, domain
<1>12. ASSUME NEW c \in Clients, MarkDraining(c) PROVE UsageCoversLeaves'
  BY <1>12 DEF MarkDraining, Drains, Operations, NotifyAll, domain
<1>13. ASSUME NEW c \in Clients, MarkProviderInFlight(c)
       PROVE UsageCoversLeaves'
  BY SMTT(30), <1>13 DEF MarkProviderInFlight, NotifyAll, domain
<1>14. ASSUME NEW c \in Clients, NEW d \in Deltas, Charge(c, d)
       PROVE UsageCoversLeaves'
  BY ZenonT(90), <1>14 DEF Charge, domain
<1>15. ASSUME NEW r \in active, MarkActiveDraining(r) PROVE UsageCoversLeaves'
  BY <1>15 DEF MarkActiveDraining, Drains, NotifyAll, domain
<1>16. ASSUME NEW r \in Occupied, ObserveProviderComplete(r)
       PROVE UsageCoversLeaves'
  BY <1>16 DEF ObserveProviderComplete, NotifyAll, domain
<1>17. ASSUME NEW r \in draining, ReconcileDraining(r) PROVE UsageCoversLeaves'
  BY <1>17 DEF ReconcileDraining, Frees, NotifyAll, domain
<1>18. ASSUME NEW p \in Parents, MarkDescendantsDraining(p)
       PROVE UsageCoversLeaves'
  BY <1>18 DEF MarkDescendantsDraining, Drains, WithoutUnusedScopes, NotifyAll,
     domain
<1>19. ASSUME NEW cfg \in Configs, Reconfigure(cfg) PROVE UsageCoversLeaves'
  BY <1>19 DEF Reconfigure, NotifyAll, domain
<1>20. CASE UNCHANGED vars
  BY SMTT(30), <1>20 DEF vars, domain
<1> QED
  BY ZenonT(90), <1>1, <1>2, <1>3, <1>4, <1>5, <1>6, <1>7, <1>8, <1>9, <1>10,
     <1>11, <1>12, <1>13, <1>14, <1>15, <1>16, <1>17, <1>18, <1>19, <1>20
     DEF Next, ClientStep, ControlStep

-----------------------------------------------------------------------------
(* OneLeafPerOperation, element by element, of any collections q, a, d, s.  *)
Partition(q, a, d, s) ==
    /\ \A e, f \in q : e.request.operation_id = f.request.operation_id => e = f
    /\ \A r, t \in a \cup d : r.operation_id = t.operation_id => r = t
    /\ \A r \in a : r \notin d
    /\ \A e \in q : \A r \in a \cup d : e.request.operation_id # r.operation_id
    /\ \A e \in q : e.request.operation_id \in s
    /\ \A r \in a \cup d : r.operation_id \in s
    /\ \A o \in s : \/ \E e \in q : e.request.operation_id = o
                    \/ \E r \in a \cup d : r.operation_id = o

(* Partition states OneLeafPerOperation of the current state.              *)
LEMMA PartitionMeaning ==
    OneLeafPerOperation <=> Partition(queue, active, draining, selected)
<1>1. Operations(Queued) \cap Operations(Occupied) = {} <=>
         \A e \in queue : \A r \in active \cup draining : e.request.operation_id # r.operation_id
  BY DEF Operations, Queued, Occupied
<1>2. selected = Operations(Queued \cup Occupied) <=>
         /\ \A e \in queue : e.request.operation_id \in selected
         /\ \A r \in active \cup draining : r.operation_id \in selected
         /\ \A o \in selected : \/ \E e \in queue : e.request.operation_id = o
                                \/ \E r \in active \cup draining : r.operation_id = o
  BY DEF Operations, Queued, Occupied
<1>3. active \cap draining = {} <=> \A r \in active : r \notin draining
  OBVIOUS
<1> QED
  BY ZenonT(90), <1>1, <1>2, <1>3 DEF OneLeafPerOperation, Partition, Occupied

(* Partition states OneLeafPerOperation of the next state.                 *)
LEMMA PartitionMeaningNext ==
    OneLeafPerOperation' <=> Partition(queue', active', draining', selected')
  BY DEF OneLeafPerOperation, Partition, Operations, Queued, Occupied

(* A new leaf is queued (reserve).                                         *)
LEMMA PartitionAddQueued ==
    ASSUME NEW q, NEW a, NEW d, NEW s, Partition(q, a, d, s),
           NEW e, e.request.operation_id \notin s
    PROVE  Partition(q \cup {e}, a, d, s \cup {e.request.operation_id})
  BY DEF Partition

(* A new leaf is admitted at once (reserve).                               *)
LEMMA PartitionAddActive ==
    ASSUME NEW q, NEW a, NEW d, NEW s, Partition(q, a, d, s),
           NEW r, r.operation_id \notin s
    PROVE  Partition(q, a \cup {r}, d, s \cup {r.operation_id})
  BY DEF Partition

(* A queued leaf is admitted (a waiter that is its turn).                  *)
LEMMA PartitionAdmit ==
    ASSUME NEW q, NEW a, NEW d, NEW s, Partition(q, a, d, s), NEW e \in q
    PROVE  Partition(q \ {e}, a \cup {e.request}, d, s)
  BY DEF Partition

(* Queued leaves are given up (timeout) or evicted (fence).                *)
LEMMA PartitionDropQueued ==
    ASSUME NEW q, NEW a, NEW d, NEW s, Partition(q, a, d, s),
           NEW E \in SUBSET q
    PROVE  Partition(q \ E, a, d, s \ {e.request.operation_id : e \in E})
  BY DEF Partition

(* A leaf is released or reconciled.                                       *)
LEMMA PartitionFree ==
    ASSUME NEW q, NEW a, NEW d, NEW s, Partition(q, a, d, s),
           NEW r \in a \cup d
    PROVE  Partition(q, a \ {r}, d \ {r}, s \ {r.operation_id})
  BY DEF Partition

(* Active leaves turn to draining (cancellation).                          *)
LEMMA PartitionDrain ==
    ASSUME NEW q, NEW a, NEW d, NEW s, Partition(q, a, d, s),
           NEW R \in SUBSET a
    PROVE  Partition(q, a \ R, d \cup R, s)
  BY SMTT(30) DEF Partition

(* A leaf is added whose operation is not cancelled and whose parent is    *)
(* not fenced.                                                             *)
LEMMA FinalIfFresh ==
    ASSUME CancellationIsFinal, NEW r, r.operation_id \notin cancelled,
           r.parent_operation_id \notin fenced_parents,
           Queued' \cup active' \subseteq Queued \cup active \cup {r},
           draining' = draining, cancelled' = cancelled, fenced_parents' = fenced_parents
    PROVE  CancellationIsFinal'
<1>1. Operations(draining)' \subseteq cancelled'
  BY ZenonT(90) DEF CancellationIsFinal, Operations
<1>2. \A t \in Queued' \cup active' : t \in Queued \cup active \/ t = r
  OBVIOUS
<1>3. \A t \in Queued' \cup active' :
         t.operation_id \notin cancelled' /\ t.parent_operation_id \notin fenced_parents'
  BY ZenonT(90), <1>2 DEF CancellationIsFinal, Operations
<1> QED
  BY ZenonT(90), <1>1, <1>3 DEF CancellationIsFinal, Operations

(* An active leaf turns to draining and its operation is cancelled.        *)
LEMMA FinalIfDrained ==
    ASSUME CancellationIsFinal, OneLeafPerOperation, NEW r \in active,
           active' = active \ {r}, draining' = draining \cup {r},
           cancelled' = cancelled \cup {r.operation_id},
           queue' = queue, fenced_parents' = fenced_parents
    PROVE  CancellationIsFinal'
<1>1. \A t \in Queued \cup (active \ {r}) :
         /\ t.operation_id \notin cancelled /\ t.operation_id # r.operation_id
         /\ t.parent_operation_id \notin fenced_parents
  BY DEF CancellationIsFinal, OneLeafPerOperation, Operations, Occupied
<1>2. Queued' = Queued
  BY ZenonT(90) DEF Queued
<1>3. Operations(draining)' \subseteq cancelled'
  BY ZenonT(90) DEF CancellationIsFinal, Operations
<1> QED
  BY <1>1, <1>2, <1>3 DEF CancellationIsFinal, Operations

(* No critical section queues or admits a cancelled operation or a         *)
(* descendant of a fenced parent.                                          *)
LEMMA CancellationStep ==
    ASSUME TypeOK, CallsOK, OneLeafPerOperation, CancellationIsFinal,
           [Next]_vars
    PROVE  CancellationIsFinal'
<1> USE DEF CancellationIsFinal, Operations, Queued, Occupied
<1>1. ASSUME NEW c \in Clients, NEW r \in Requests, ValidateRequest(c, r)
      PROVE CancellationIsFinal'
  BY ZenonT(90), <1>1 DEF ValidateRequest, domain
<1>2. ASSUME NEW c \in Clients, ReserveRefused(c) PROVE CancellationIsFinal'
  BY ZenonT(90), <1>2 DEF ReserveRefused, Returns, domain, Selectable,
     AlreadyKnown
<1>3. ASSUME NEW c \in Clients, ReserveUndone(c) PROVE CancellationIsFinal'
  BY ZenonT(90), <1>3 DEF ReserveUndone, Selects, Returns, WithScopeBudget,
     domain, Selectable, AlreadyKnown, IsNextAdmissible
<1>4. ASSUME NEW c \in Clients, ReserveAdmitted(c) PROVE CancellationIsFinal'
  <2>1. queue' = Pushed(c) \ {NewLeaf(c)} /\ active' = active \cup {req[c]}
    BY ZenonT(90), <1>4 DEF ReserveAdmitted, Admits, NewLeaf
  <2>2. Queued' \cup active' \subseteq Queued \cup active \cup {req[c]}
    BY ZenonT(90), <2>1 DEF Pushed, NewLeaf
  <2> QED
    BY ZenonT(90), <1>4, <2>2, FinalIfFresh
       DEF ReserveAdmitted, Selects, Selectable, AlreadyKnown
<1>5. ASSUME NEW c \in Clients, ReserveQueued(c) PROVE CancellationIsFinal'
  <2>1. Queued' \cup active' \subseteq Queued \cup active \cup {req[c]}
    BY <1>5 DEF ReserveQueued, Pushed, NewLeaf
  <2> QED
    BY ZenonT(90), <1>5, <2>1, FinalIfFresh
       DEF ReserveQueued, Selects, Selectable, AlreadyKnown
<1>6. ASSUME NEW c \in Clients, WakeFenced(c) PROVE CancellationIsFinal'
  BY ZenonT(90), <1>6 DEF WakeFenced, Returns, domain
<1>7. ASSUME NEW c \in Clients, WakeAdmitted(c) PROVE CancellationIsFinal'
  BY <1>7 DEF WakeAdmitted, Admits, Leaf, NotifyAll, domain, IsNextAdmissible
<1>8. ASSUME NEW c \in Clients, WakeWaits(c) PROVE CancellationIsFinal'
  BY ZenonT(90), <1>8 DEF WakeWaits, domain, IsNextAdmissible
<1>9. ASSUME NEW c \in Clients, TimeoutAdmitted(c) PROVE CancellationIsFinal'
  BY <1>9 DEF TimeoutAdmitted, Waiting, Admits, Leaf, NotifyAll, domain,
     IsNextAdmissible
<1>10. ASSUME NEW c \in Clients, TimeoutUndone(c) PROVE CancellationIsFinal'
  BY <1>10 DEF TimeoutUndone, Waiting, Returns, Leaf, WithoutUnusedScopes,
     domain, IsNextAdmissible
<1>11. ASSUME NEW c \in Clients, ReleaseReservation(c)
       PROVE CancellationIsFinal'
  BY <1>11 DEF ReleaseReservation, Frees, NotifyAll, domain
<1>12. ASSUME NEW c \in Clients, MarkDraining(c) PROVE CancellationIsFinal'
  BY ZenonT(90), <1>12, FinalIfDrained DEF MarkDraining, Drains
<1>13. ASSUME NEW c \in Clients, MarkProviderInFlight(c)
       PROVE CancellationIsFinal'
  BY ZenonT(90), <1>13 DEF MarkProviderInFlight, NotifyAll, domain
<1>14. ASSUME NEW c \in Clients, NEW d \in Deltas, Charge(c, d)
       PROVE CancellationIsFinal'
  BY ZenonT(90), <1>14 DEF Charge, domain
<1>15. ASSUME NEW r \in active, MarkActiveDraining(r)
       PROVE CancellationIsFinal'
  BY ZenonT(90), <1>15, FinalIfDrained DEF MarkActiveDraining, Drains
<1>16. ASSUME NEW r \in Occupied, ObserveProviderComplete(r)
       PROVE CancellationIsFinal'
  BY ZenonT(90), <1>16 DEF ObserveProviderComplete, NotifyAll, domain
<1>17. ASSUME NEW r \in draining, ReconcileDraining(r)
       PROVE CancellationIsFinal'
  BY ZenonT(90), <1>17 DEF ReconcileDraining, Frees, NotifyAll, domain
<1>18. ASSUME NEW p \in Parents, MarkDescendantsDraining(p)
       PROVE CancellationIsFinal'
  <2>1. /\ active' = {r \in active : r.parent_operation_id # p}
        /\ draining' = draining \cup {r \in active : r.parent_operation_id = p}
    BY ZenonT(90), <1>18 DEF MarkDescendantsDraining, Drains
  <2>2. /\ queue' = {e \in queue : e.request.parent_operation_id # p}
        /\ fenced_parents' = fenced_parents \cup {p}
        /\ cancelled' = cancelled
              \cup {r.operation_id : r \in {e.request : e \in {e \in queue : e.request.parent_operation_id = p}}
                                           \cup {r \in active : r.parent_operation_id = p}}
    BY ZenonT(90), <1>18 DEF MarkDescendantsDraining
  <2>3. /\ \A e \in queue' : e \in queue /\ e.request.parent_operation_id # p
        /\ \A r \in active' : r \in active /\ r.parent_operation_id # p
    BY ZenonT(90), <2>1, <2>2
  <2>4. \A r \in Queued' \cup active' : r.parent_operation_id \notin fenced_parents'
    BY ZenonT(90), <2>2, <2>3
  <2>5. Operations(draining') \subseteq cancelled'
    BY ZenonT(90), <2>1, <2>2
  <2>6. ASSUME NEW o \in cancelled', o \in Operations(Queued' \cup active')
        PROVE FALSE
    <3>1. PICK t \in Queued \cup active : t.operation_id = o /\ t.parent_operation_id # p
      BY ZenonT(90), <2>3, <2>6
    <3>2. CASE o \in cancelled
      BY ZenonT(90), <3>1, <3>2
    <3>3. CASE o \notin cancelled
      <4>1. PICK u \in Queued \cup active : u.operation_id = o /\ u.parent_operation_id = p
        BY <2>2, <2>6, <3>3
      <4>2. u = t
        BY <3>1, <4>1 DEF OneLeafPerOperation
      <4> QED
        BY ZenonT(90), <3>1, <4>1, <4>2
    <3> QED
      BY ZenonT(90), <3>2, <3>3
  <2> QED
    BY ZenonT(90), <2>4, <2>5, <2>6
<1>19. ASSUME NEW cfg \in Configs, Reconfigure(cfg) PROVE CancellationIsFinal'
  BY ZenonT(90), <1>19 DEF Reconfigure, NotifyAll, domain
<1>20. CASE UNCHANGED vars
  BY ZenonT(90), <1>20 DEF vars, domain
<1> QED
  BY ZenonT(90), <1>1, <1>2, <1>3, <1>4, <1>5, <1>6, <1>7, <1>8, <1>9, <1>10,
     <1>11, <1>12, <1>13, <1>14, <1>15, <1>16, <1>17, <1>18, <1>19, <1>20
     DEF Next, ClientStep, ControlStep

(* Every critical section moves whole leaves: an operation keeps at most   *)
(* one, and selected names those that have one.                            *)
LEMMA OneLeafStep ==
    ASSUME TypeOK, CallsOK, UsageCoversLeaves, OneLeafPerOperation,
           CancellationIsFinal, [Next]_vars
    PROVE  OneLeafPerOperation'
<1>1. ASSUME NEW c \in Clients, NEW r \in Requests, ValidateRequest(c, r)
      PROVE OneLeafPerOperation'
  BY ZenonT(90), <1>1, PartitionMeaning, PartitionMeaningNext DEF ValidateRequest, domain
<1>2. ASSUME NEW c \in Clients, ReserveRefused(c) PROVE OneLeafPerOperation'
  BY ZenonT(90), <1>2, PartitionMeaning, PartitionMeaningNext DEF ReserveRefused,
     Returns, domain
<1>3. ASSUME NEW c \in Clients, ReserveUndone(c) PROVE OneLeafPerOperation'
  BY ZenonT(90), <1>3, PartitionMeaning, PartitionMeaningNext DEF ReserveUndone, Selects,
     Returns, WithScopeBudget, domain
<1>4. ASSUME NEW c \in Clients, ReserveAdmitted(c) PROVE OneLeafPerOperation'
  <2> DEFINE r == req[c]  e == NewLeaf(c)
  <2>1. r.operation_id \notin selected
    BY ZenonT(90), <1>4 DEF ReserveAdmitted, Selects, Selectable, AlreadyKnown
  <2>2. e \notin queue /\ e.request = r
    BY SMTT(30), <2>1 DEF NewLeaf, OneLeafPerOperation, Operations, Queued
  <2>3. /\ queue' = queue /\ active' = active \cup {r} /\ draining' = draining
        /\ selected' = selected \cup {r.operation_id}
    BY ZenonT(90), <1>4, <2>2 DEF ReserveAdmitted, Admits, Pushed
  <2> HIDE DEF r, e
  <2> QED
    BY ZenonT(90), <2>1, <2>3, PartitionAddActive, PartitionMeaning,
       PartitionMeaningNext
<1>5. ASSUME NEW c \in Clients, ReserveQueued(c) PROVE OneLeafPerOperation'
  <2> DEFINE e == NewLeaf(c)
  <2>1. e.request.operation_id \notin selected
    BY ZenonT(90), <1>5 DEF ReserveQueued, Selects, Selectable, AlreadyKnown, NewLeaf
  <2>2. /\ queue' = queue \cup {e} /\ active' = active /\ draining' = draining
        /\ selected' = selected \cup {e.request.operation_id}
    BY ZenonT(90), <1>5 DEF ReserveQueued, Pushed, NewLeaf
  <2> HIDE DEF e
  <2> QED
    BY ZenonT(90), <2>1, <2>2, PartitionAddQueued, PartitionMeaning,
       PartitionMeaningNext
<1>6. ASSUME NEW c \in Clients, WakeFenced(c) PROVE OneLeafPerOperation'
  BY <1>6, PartitionMeaning, PartitionMeaningNext DEF WakeFenced, Returns,
     domain
<1>7. ASSUME NEW c \in Clients, WakeAdmitted(c) \/ TimeoutAdmitted(c)
      PROVE OneLeafPerOperation'
  <2> DEFINE e == Leaf(c)
  <2>1. /\ e \in queue /\ queue' = queue \ {e} /\ active' = active \cup {e.request}
        /\ draining' = draining /\ selected' = selected
    BY ZenonT(90), <1>7 DEF WakeAdmitted, TimeoutAdmitted, Waiting, IsNextAdmissible, Admits
  <2> HIDE DEF e
  <2> QED
    BY ZenonT(90), <2>1, PartitionAdmit, PartitionMeaning, PartitionMeaningNext
<1>8. ASSUME NEW c \in Clients, WakeWaits(c) PROVE OneLeafPerOperation'
  BY ZenonT(90), <1>8, PartitionMeaning, PartitionMeaningNext DEF WakeWaits,
     domain
<1>9. ASSUME NEW c \in Clients, TimeoutUndone(c) PROVE OneLeafPerOperation'
  <2> DEFINE e == Leaf(c)  o == req[c].operation_id
  <2>1. /\ queue' = queue \ {e} /\ active' = active /\ draining' = draining
        /\ selected' = selected \ {o} /\ e.request.operation_id = o /\ Waiting(c)
    BY ZenonT(90), <1>9 DEF TimeoutUndone, Leaf
  <2>2. CASE e \in queue
    <3>1. {e} \in SUBSET queue /\ {f.request.operation_id : f \in {e}} = {o}
      BY ZenonT(90), <2>1, <2>2
    <3> HIDE DEF e, o
    <3> QED
      BY ZenonT(90), <2>1, <3>1, PartitionDropQueued, PartitionMeaning,
         PartitionMeaningNext
  <2>3. CASE e \notin queue
    <3>1. o \in cancelled /\ o \notin DOMAIN usage
      BY ZenonT(90), <2>1, <2>3 DEF CallsOK
    <3>2. o \notin selected
      BY <3>1 DEF OneLeafPerOperation, CancellationIsFinal, UsageCoversLeaves,
         Operations, Queued, Occupied
    <3>3. queue' = queue /\ selected' = selected
      BY ZenonT(90), <2>1, <2>3, <3>2
    <3> QED
      BY ZenonT(90), <2>1, <3>3, PartitionMeaning, PartitionMeaningNext
  <2> QED
    BY ZenonT(90), <2>2, <2>3
<1>10. ASSUME NEW c \in Clients, ReleaseReservation(c)
       PROVE OneLeafPerOperation'
  <2> DEFINE r == req[c]
  <2>1. CASE r \in active \/ (r \in draining /\ r.operation_id \notin in_flight)
    <3>1. /\ queue' = queue /\ active' = active \ {r} /\ draining' = draining \ {r}
          /\ selected' = selected \ {r.operation_id}
      BY ZenonT(90), <1>10, <2>1 DEF ReleaseReservation, Frees
    <3>2. r \in active \cup draining
      BY <2>1
    <3> HIDE DEF r
    <3> QED
      BY ZenonT(90), <3>1, <3>2, PartitionFree, PartitionMeaning, PartitionMeaningNext
  <2>2. CASE ~(r \in active \/ (r \in draining /\ r.operation_id \notin in_flight))
    BY ZenonT(90), <1>10, <2>2, PartitionMeaning, PartitionMeaningNext
       DEF ReleaseReservation, domain
  <2> QED
    BY ZenonT(90), <2>1, <2>2
<1>11. ASSUME NEW c \in Clients, MarkDraining(c) PROVE OneLeafPerOperation'
  <2>1. /\ queue' = queue /\ active' = active \ {req[c]} /\ selected' = selected
        /\ draining' = draining \cup {req[c]} /\ {req[c]} \in SUBSET active
    BY ZenonT(90), <1>11 DEF MarkDraining, Drains
  <2> QED
    BY ZenonT(90), <2>1, PartitionDrain, PartitionMeaning, PartitionMeaningNext
<1>12. ASSUME NEW c \in Clients, MarkProviderInFlight(c)
       PROVE OneLeafPerOperation'
  BY ZenonT(90), <1>12, PartitionMeaning, PartitionMeaningNext DEF MarkProviderInFlight,
     NotifyAll, domain
<1>13. ASSUME NEW c \in Clients, NEW d \in Deltas, Charge(c, d)
       PROVE OneLeafPerOperation'
  BY ZenonT(90), <1>13, PartitionMeaning, PartitionMeaningNext DEF Charge, domain
<1>14. ASSUME NEW r \in active, MarkActiveDraining(r)
       PROVE OneLeafPerOperation'
  <2>1. /\ queue' = queue /\ active' = active \ {r} /\ selected' = selected
        /\ draining' = draining \cup {r} /\ {r} \in SUBSET active
    BY ZenonT(90), <1>14 DEF MarkActiveDraining, Drains
  <2> QED
    BY ZenonT(90), <2>1, PartitionDrain, PartitionMeaning, PartitionMeaningNext
<1>15. ASSUME NEW r \in Occupied, ObserveProviderComplete(r)
       PROVE OneLeafPerOperation'
  BY ZenonT(90), <1>15, PartitionMeaning, PartitionMeaningNext DEF ObserveProviderComplete,
     NotifyAll, domain
<1>16. ASSUME NEW r \in draining, ReconcileDraining(r)
       PROVE OneLeafPerOperation'
  <2>1. /\ queue' = queue /\ active' = active \ {r} /\ draining' = draining \ {r}
        /\ selected' = selected \ {r.operation_id}
    BY ZenonT(90), <1>16 DEF ReconcileDraining, Frees
  <2> QED
    BY ZenonT(90), <2>1, PartitionFree, PartitionMeaning, PartitionMeaningNext
<1>17. ASSUME NEW p \in Parents, MarkDescendantsDraining(p)
       PROVE OneLeafPerOperation'
  <2> DEFINE E == {e \in queue : e.request.parent_operation_id = p}
             R == {r \in active : r.parent_operation_id = p}
             gone == {e.request.operation_id : e \in E}
  <2>1. /\ queue' = queue \ E /\ active' = active \ R /\ draining' = draining \cup R
        /\ selected' = selected \ Operations({e.request : e \in E})
    BY <1>17 DEF MarkDescendantsDraining, Drains
  <2>2. E \in SUBSET queue /\ R \in SUBSET active /\ Operations({e.request : e \in E}) = gone
    BY ZenonT(90) DEF Operations
  <2>3. Partition(queue \ E, active, draining, selected \ gone)
    <3> HIDE DEF E
    <3> QED
      BY ZenonT(90), <2>2, PartitionDropQueued, PartitionMeaning
  <2>4. Partition(queue', active', draining', selected')
    <3> HIDE DEF E, R, gone
    <3> QED
      BY ZenonT(90), <2>1, <2>2, <2>3, PartitionDrain
  <2> QED
    BY <2>4, PartitionMeaningNext
<1>18. ASSUME NEW cfg \in Configs, Reconfigure(cfg) PROVE OneLeafPerOperation'
  BY ZenonT(90), <1>18, PartitionMeaning, PartitionMeaningNext DEF Reconfigure, NotifyAll,
     domain
<1>19. CASE UNCHANGED vars
  BY ZenonT(90), <1>19, PartitionMeaning, PartitionMeaningNext DEF vars, domain
<1> QED
  BY ZenonT(90), <1>1, <1>2, <1>3, <1>4, <1>5, <1>6, <1>7, <1>8, <1>9,
     <1>10, <1>11, <1>12, <1>13, <1>14, <1>15, <1>16, <1>17, <1>18, <1>19
     DEF Next, ClientStep, ControlStep

(* A step that leaves the leaves alone, and the calls that own one.        *)
LEMMA OwnersStay ==
    ASSUME EveryLeafIsOwned, queue' = queue, active' = active,
           \A d \in Clients : Waiting(d) \/ pc[d] = "holding" =>
               pc'[d] = pc[d] /\ req'[d] = req[d] /\ ticket'[d] = ticket[d]
    PROVE  EveryLeafIsOwned'
<1>1. \A d \in Clients : Waiting(d) => Waiting(d)' /\ Leaf(d)' = Leaf(d)
  BY ZenonT(90) DEF Waiting, Leaf
<1>2. \A e \in queue' : \E d \in Clients : Waiting(d)' /\ Leaf(d)' = e
  BY ZenonT(90), <1>1 DEF EveryLeafIsOwned
<1>3. \A r \in active' : \E d \in Clients : pc'[d] = "holding" /\ req'[d] = r
  BY ZenonT(90) DEF EveryLeafIsOwned
<1> QED
  BY ZenonT(90), <1>2, <1>3 DEF EveryLeafIsOwned, Waiting, Leaf

(* Every critical section that ends a wait or a reservation takes its leaf *)
(* along.                                                                  *)
LEMMA OwnedStep ==
    ASSUME TypeOK, EveryLeafIsOwned, [Next]_vars
    PROVE  EveryLeafIsOwned'
<1> USE DEF EveryLeafIsOwned, Queued, Occupied, Leaf, Waiting
<1>1. ASSUME NEW c \in Clients, NEW r \in Requests, ValidateRequest(c, r)
      PROVE EveryLeafIsOwned'
  <2>1. queue' = queue /\ active' = active /\ ticket' = ticket
    BY ZenonT(90), <1>1 DEF ValidateRequest, domain
  <2>2. \A d \in Clients : Waiting(d) \/ pc[d] = "holding" =>
            pc'[d] = pc[d] /\ req'[d] = req[d]
    BY ZenonT(90), <1>1 DEF ValidateRequest, TypeOK
  <2> QED
    BY ZenonT(90), <2>1, <2>2, OwnersStay
<1>2. ASSUME NEW c \in Clients, ReserveRefused(c) PROVE EveryLeafIsOwned'
  BY <1>2 DEF ReserveRefused, Returns, domain
<1>3. ASSUME NEW c \in Clients, ReserveUndone(c) PROVE EveryLeafIsOwned'
  BY ZenonT(90), <1>3 DEF ReserveUndone, Selects, Returns, WithScopeBudget,
     domain, TypeOK
<1>4. ASSUME NEW c \in Clients, ReserveAdmitted(c) PROVE EveryLeafIsOwned'
  BY ZenonT(90), <1>4 DEF ReserveAdmitted, Selects, Admits, NewLeaf, Pushed,
     WithScopeBudget, NotifyAll, domain, TypeOK
<1>5. ASSUME NEW c \in Clients, ReserveQueued(c) PROVE EveryLeafIsOwned'
  BY ZenonT(90), <1>5 DEF ReserveQueued, Selects, NewLeaf, Pushed, WithScopeBudget, domain,
     TypeOK
<1>6. ASSUME NEW c \in Clients, WakeFenced(c) PROVE EveryLeafIsOwned'
  BY <1>6 DEF WakeFenced, Returns, domain
<1>7. ASSUME NEW c \in Clients, WakeAdmitted(c) PROVE EveryLeafIsOwned'
  BY ZenonT(90), <1>7 DEF WakeAdmitted, Admits, Leaf, NotifyAll, domain, TypeOK
<1>8. ASSUME NEW c \in Clients, WakeWaits(c) PROVE EveryLeafIsOwned'
  BY ZenonT(90), <1>8 DEF WakeWaits, domain, TypeOK
<1>9. ASSUME NEW c \in Clients, TimeoutAdmitted(c) PROVE EveryLeafIsOwned'
  BY ZenonT(90), <1>9 DEF TimeoutAdmitted, Waiting, Admits, Leaf, NotifyAll,
     domain, TypeOK
<1>10. ASSUME NEW c \in Clients, TimeoutUndone(c) PROVE EveryLeafIsOwned'
  BY ZenonT(90), <1>10 DEF TimeoutUndone, Waiting, Returns, Leaf, WithoutUnusedScopes,
     domain, TypeOK
<1>11. ASSUME NEW c \in Clients, ReleaseReservation(c) PROVE EveryLeafIsOwned'
  BY SMTT(30), <1>11 DEF ReleaseReservation, Frees, NotifyAll, domain, TypeOK
<1>12. ASSUME NEW c \in Clients, MarkDraining(c) PROVE EveryLeafIsOwned'
  BY SMTT(30), <1>12 DEF MarkDraining, Drains, Operations, NotifyAll, domain
<1>13. ASSUME NEW c \in Clients, MarkProviderInFlight(c)
       PROVE EveryLeafIsOwned'
  BY ZenonT(90), <1>13 DEF MarkProviderInFlight, NotifyAll, domain
<1>14. ASSUME NEW c \in Clients, NEW d \in Deltas, Charge(c, d)
       PROVE EveryLeafIsOwned'
  BY ZenonT(90), <1>14 DEF Charge, domain
<1>15. ASSUME NEW r \in active, MarkActiveDraining(r) PROVE EveryLeafIsOwned'
  BY <1>15 DEF MarkActiveDraining, Drains, NotifyAll, domain
<1>16. ASSUME NEW r \in Occupied, ObserveProviderComplete(r)
       PROVE EveryLeafIsOwned'
  BY ZenonT(90), <1>16 DEF ObserveProviderComplete, NotifyAll, domain
<1>17. ASSUME NEW r \in draining, ReconcileDraining(r) PROVE EveryLeafIsOwned'
  BY ZenonT(90), <1>17 DEF ReconcileDraining, Frees, NotifyAll, domain
<1>18. ASSUME NEW p \in Parents, MarkDescendantsDraining(p)
       PROVE EveryLeafIsOwned'
  BY ZenonT(90), <1>18 DEF MarkDescendantsDraining, Drains, WithoutUnusedScopes, NotifyAll,
     domain
<1>19. ASSUME NEW cfg \in Configs, Reconfigure(cfg) PROVE EveryLeafIsOwned'
  BY <1>19 DEF Reconfigure, NotifyAll, domain
<1>20. CASE UNCHANGED vars
  BY ZenonT(90), <1>20 DEF vars, domain
<1> QED
  BY ZenonT(90), <1>1, <1>2, <1>3, <1>4, <1>5, <1>6, <1>7, <1>8, <1>9, <1>10,
     <1>11, <1>12, <1>13, <1>14, <1>15, <1>16, <1>17, <1>18, <1>19, <1>20
     DEF Next, ClientStep, ControlStep

(* The call of d is over, starts, or goes on as it was, perhaps woken up.  *)
CallKept(d) ==
    \/ pc'[d] \in {"idle", "parent_fenced", "queue_timeout"}
    \/ pc'[d] = "validated" /\ req'[d] \in Requests
    \/ /\ req'[d] = req[d] /\ ticket'[d] = ticket[d]
       /\ \/ pc'[d] = pc[d]
          \/ Waiting(d) /\ pc'[d] \in {"asleep", "awake"}

(* A step that leaves the queue alone keeps the locals of all calls in     *)
(* step with it.                                                           *)
LEMMA CallsKept ==
    ASSUME TypeOK, CallsOK, queue' = queue, cancelled \subseteq cancelled',
           DOMAIN usage' = DOMAIN usage,
           next_ticket' \in Nat, next_ticket <= next_ticket',
           \A d \in Clients : CallKept(d)
    PROVE  CallsOK'
<1>1. \A d \in Clients : Waiting(d)' =>
         Waiting(d) /\ Leaf(d)' = Leaf(d) /\ req'[d] = req[d] /\ ticket'[d] = ticket[d]
  BY ZenonT(90) DEF CallKept, Waiting, Leaf
<1>2. \A d \in Clients : pc'[d] \in {"validated", "asleep", "awake", "holding"} => req'[d] \in Requests
  BY ZenonT(90) DEF CallKept, CallsOK, Waiting
<1>3. \A d \in Clients : Waiting(d)' => ticket'[d] < next_ticket'
  BY <1>1 DEF CallsOK, TypeOK
<1>4. \A b, d \in Clients : Waiting(b)' /\ Waiting(d)' /\ b # d => ticket'[b] # ticket'[d]
  BY ZenonT(90), <1>1 DEF CallsOK
<1>5. ASSUME NEW d \in Clients, Waiting(d)'
      PROVE  \/ Leaf(d)' \in queue'
             \/ req'[d].operation_id \in cancelled' /\ req'[d].operation_id \notin DOMAIN usage'
  BY ZenonT(90), <1>1, <1>5 DEF CallsOK
<1> QED
  BY ZenonT(90), <1>2, <1>3, <1>4, <1>5 DEF CallsOK

(* Most critical sections issue no ticket either.                          *)
LEMMA CallsUntouched ==
    ASSUME TypeOK, CallsOK, queue' = queue, next_ticket' = next_ticket,
           cancelled \subseteq cancelled', DOMAIN usage' = DOMAIN usage,
           \A d \in Clients : CallKept(d)
    PROVE  CallsOK'
<1>1. next_ticket' \in Nat /\ next_ticket <= next_ticket'
  BY DEF TypeOK
<1> QED
  BY ZenonT(90), <1>1, CallsKept

(* Every critical section keeps the locals of all calls in step with the   *)
(* queue.                                                                  *)
LEMMA CallsStep ==
    ASSUME TypeOK, CallsOK, TicketsBelowNext, UsageCoversLeaves,
           OneLeafPerOperation, CancellationIsFinal, [Next]_vars
    PROVE  CallsOK'
<1>1. ASSUME NEW c \in Clients, NEW r \in Requests, ValidateRequest(c, r)
      PROVE CallsOK'
  <2>1. \A d \in Clients : CallKept(d)
    BY ZenonT(90), <1>1 DEF ValidateRequest, CallKept, TypeOK
  <2> QED
    BY ZenonT(90), <1>1, <2>1, CallsUntouched DEF ValidateRequest, domain
<1>2. ASSUME NEW c \in Clients, ReserveRefused(c) \/ WakeFenced(c) PROVE CallsOK'
  <2>1. \A d \in Clients : CallKept(d)
    BY ZenonT(90), <1>2 DEF ReserveRefused, WakeFenced, Returns, CallKept, TypeOK
  <2> QED
    BY ZenonT(90), <1>2, <2>1, CallsUntouched DEF ReserveRefused, WakeFenced, domain
<1>3. ASSUME NEW c \in Clients, ReserveUndone(c) PROVE CallsOK'
  <2>1. \A d \in Clients : CallKept(d)
    BY ZenonT(90), <1>3 DEF ReserveUndone, Returns, CallKept, TypeOK
  <2> QED
    BY SMTT(30), <1>3, <2>1, CallsKept DEF ReserveUndone, Selects, TypeOK
<1>4. ASSUME NEW c \in Clients, ReserveAdmitted(c) PROVE CallsOK'
  <2>1. /\ queue' = (queue \cup {NewLeaf(c)}) \ {NewLeaf(c)}
        /\ pc' = [NotifyAll(pc) EXCEPT ![c] = "holding"] /\ ticket' = [ticket EXCEPT ![c] = 0]
        /\ req' = req /\ next_ticket' = next_ticket + 1 /\ cancelled' = cancelled
        /\ DOMAIN usage' = DOMAIN usage \cup {req[c].operation_id}
        /\ pc[c] = "validated"
    BY ZenonT(90), <1>4 DEF ReserveAdmitted, Selects, Admits, Pushed, NewLeaf
  <2>2. req[c].operation_id \notin cancelled
    BY ZenonT(90), <1>4 DEF ReserveAdmitted, Selects, Selectable, AlreadyKnown
  <2>3. \A d \in Clients : Waiting(d)' => d # c /\ Waiting(d) /\ Leaf(d)' = Leaf(d) /\ ticket'[d] = ticket[d]
    BY ZenonT(90), <2>1 DEF Waiting, NotifyAll, Leaf, TypeOK
  <2>4. \A d \in Clients : pc'[d] \in {"validated", "asleep", "awake", "holding"} => req'[d] \in Requests
    BY ZenonT(90), <2>1 DEF NotifyAll, CallsOK, TypeOK
  <2>5. \A d \in Clients : Waiting(d)' => ticket'[d] < next_ticket'
    BY <2>1, <2>3 DEF CallsOK, TypeOK
  <2>6. \A b, d \in Clients : Waiting(b)' /\ Waiting(d)' /\ b # d => ticket'[b] # ticket'[d]
    BY ZenonT(90), <2>3 DEF CallsOK
  <2>7. ASSUME NEW d \in Clients, Waiting(d)'
        PROVE  \/ Leaf(d)' \in queue'
               \/ req'[d].operation_id \in cancelled' /\ req'[d].operation_id \notin DOMAIN usage'
    <3>1. Waiting(d) /\ Leaf(d)' = Leaf(d) /\ ticket[d] < next_ticket
      BY ZenonT(90), <2>3, <2>7 DEF CallsOK
    <3>2. Leaf(d) # NewLeaf(c)
      BY <3>1 DEF Leaf, NewLeaf, TypeOK
    <3>3. \/ Leaf(d) \in queue
          \/ req[d].operation_id \in cancelled /\ req[d].operation_id \notin DOMAIN usage
      BY ZenonT(90), <3>1 DEF CallsOK
    <3> QED
      BY ZenonT(90), <2>1, <2>2, <3>1, <3>2, <3>3
  <2> QED
    BY ZenonT(90), <2>4, <2>5, <2>6, <2>7 DEF CallsOK
<1>5. ASSUME NEW c \in Clients, ReserveQueued(c) PROVE CallsOK'
  <2>1. /\ queue' = queue \cup {[ticket |-> next_ticket, request |-> req[c]]}
        /\ pc' = [pc EXCEPT ![c] = "asleep"] /\ ticket' = [ticket EXCEPT ![c] = next_ticket]
        /\ req' = req /\ next_ticket' = next_ticket + 1 /\ cancelled' = cancelled
        /\ usage' = usage /\ pc[c] = "validated"
    BY ZenonT(90), <1>5 DEF ReserveQueued, Selects, Pushed, NewLeaf
  <2>2. \A d \in Clients : d # c /\ Waiting(d)' => Waiting(d) /\ Leaf(d)' = Leaf(d) /\ ticket'[d] = ticket[d]
    BY ZenonT(90), <2>1 DEF Waiting, Leaf, TypeOK
  <2>3. Leaf(c)' \in queue' /\ ticket'[c] = next_ticket
    BY ZenonT(90), <2>1 DEF Leaf, TypeOK
  <2>4. \A d \in Clients : pc'[d] \in {"validated", "asleep", "awake", "holding"} => req'[d] \in Requests
    BY ZenonT(90), <2>1 DEF CallsOK, TypeOK
  <2>5. \A d \in Clients : Waiting(d)' => ticket'[d] < next_ticket'
    BY SMTT(30), <2>1, <2>2, <2>3 DEF CallsOK, TypeOK
  <2>6. \A b, d \in Clients : Waiting(b)' /\ Waiting(d)' /\ b # d => ticket'[b] # ticket'[d]
    BY SMTT(30), <2>1, <2>2, <2>3 DEF CallsOK, TypeOK
  <2>7. ASSUME NEW d \in Clients, Waiting(d)'
        PROVE  \/ Leaf(d)' \in queue'
               \/ req'[d].operation_id \in cancelled' /\ req'[d].operation_id \notin DOMAIN usage'
    <3>1. CASE d = c
      BY ZenonT(90), <2>3, <3>1
    <3>2. CASE d # c
      <4>1. Waiting(d) /\ Leaf(d)' = Leaf(d)
        BY ZenonT(90), <2>2, <2>7, <3>2
      <4>2. \/ Leaf(d) \in queue
            \/ req[d].operation_id \in cancelled /\ req[d].operation_id \notin DOMAIN usage
        BY ZenonT(90), <4>1 DEF CallsOK
      <4> QED
        BY ZenonT(90), <2>1, <4>1, <4>2
    <3> QED
      BY ZenonT(90), <3>1, <3>2
  <2> QED
    BY ZenonT(90), <2>4, <2>5, <2>6, <2>7 DEF CallsOK
<1>7. ASSUME NEW c \in Clients, WakeAdmitted(c) \/ TimeoutAdmitted(c)
      PROVE CallsOK'
  <2>1. /\ Leaf(c) \in queue /\ queue' = queue \ {Leaf(c)}
        /\ pc' = [NotifyAll(pc) EXCEPT ![c] = "holding"] /\ ticket' = [ticket EXCEPT ![c] = 0]
        /\ req' = req /\ next_ticket' = next_ticket /\ cancelled' = cancelled
        /\ DOMAIN usage' = DOMAIN usage \cup {req[c].operation_id}
        /\ Waiting(c)
    BY ZenonT(90), <1>7 DEF WakeAdmitted, TimeoutAdmitted,
       IsNextAdmissible, Admits, Leaf, Waiting
  <2>2. \A d \in Clients : Waiting(d)' => d # c /\ Waiting(d) /\ Leaf(d)' = Leaf(d) /\ ticket'[d] = ticket[d]
    BY ZenonT(90), <2>1 DEF Waiting, NotifyAll, Leaf, TypeOK
  <2>3. \A d \in Clients : pc'[d] \in {"validated", "asleep", "awake", "holding"} => req'[d] \in Requests
    BY ZenonT(90), <2>1 DEF Waiting, NotifyAll, CallsOK, TypeOK
  <2>4. ASSUME NEW d \in Clients, Waiting(d)'
        PROVE  \/ Leaf(d)' \in queue'
               \/ req'[d].operation_id \in cancelled' /\ req'[d].operation_id \notin DOMAIN usage'
    <3>1. d # c /\ Waiting(d) /\ ticket[d] # ticket[c] /\ Leaf(d)' = Leaf(d)
      BY ZenonT(90), <2>1, <2>2, <2>4 DEF CallsOK
    <3>2. Leaf(d) # Leaf(c)
      BY ZenonT(90), <3>1 DEF Leaf
    <3>3. CASE Leaf(d) \in queue
      BY ZenonT(90), <2>1, <3>1, <3>2, <3>3
    <3>4. CASE Leaf(d) \notin queue
      <4>1. req[d].operation_id \in cancelled /\ req[d].operation_id \notin DOMAIN usage
        BY ZenonT(90), <3>1, <3>4 DEF CallsOK
      <4>2. req[c].operation_id \notin cancelled
        BY ZenonT(90), <2>1 DEF CancellationIsFinal, Operations, Queued, Leaf
      <4> QED
        BY ZenonT(90), <2>1, <4>1, <4>2
    <3> QED
      BY ZenonT(90), <3>3, <3>4
  <2>5. \A d \in Clients : Waiting(d)' => ticket'[d] < next_ticket'
    BY ZenonT(90), <2>1, <2>2 DEF CallsOK
  <2>6. \A b, d \in Clients : Waiting(b)' /\ Waiting(d)' /\ b # d => ticket'[b] # ticket'[d]
    BY <2>2 DEF CallsOK
  <2> QED
    BY ZenonT(90), <2>3, <2>4, <2>5, <2>6 DEF CallsOK
<1>8. ASSUME NEW c \in Clients, WakeWaits(c) PROVE CallsOK'
  <2>1. \A d \in Clients : CallKept(d)
    BY ZenonT(90), <1>8 DEF WakeWaits, CallKept, Waiting, TypeOK
  <2> QED
    BY ZenonT(90), <1>8, <2>1, CallsUntouched DEF WakeWaits, domain
<1>9. ASSUME NEW c \in Clients, TimeoutUndone(c) PROVE CallsOK'
  BY ZenonT(90), <1>9 DEF TimeoutUndone, Waiting, Returns, Leaf,
     WithoutUnusedScopes, domain, CallsOK, TypeOK
<1>10. ASSUME NEW c \in Clients, ReleaseReservation(c) PROVE CallsOK'
  <2>1. \A d \in Clients : CallKept(d)
    BY ZenonT(90), <1>10 DEF ReleaseReservation, Frees, NotifyAll, CallKept, Waiting, TypeOK
  <2> QED
    BY ZenonT(90), <1>10, <2>1, CallsUntouched DEF ReleaseReservation, Frees, domain
<1>11. ASSUME NEW c \in Clients, MarkDraining(c) PROVE CallsOK'
  <2>1. \A d \in Clients : CallKept(d)
    BY ZenonT(90), <1>11 DEF MarkDraining, NotifyAll, CallKept, Waiting, TypeOK
  <2> QED
    BY ZenonT(90), <1>11, <2>1, CallsUntouched DEF MarkDraining, Drains
<1>12. ASSUME NEW c \in Clients, MarkProviderInFlight(c) PROVE CallsOK'
  <2>1. \A d \in Clients : CallKept(d)
    BY ZenonT(90), <1>12 DEF MarkProviderInFlight, NotifyAll, CallKept, Waiting, TypeOK
  <2> QED
    BY ZenonT(90), <1>12, <2>1, CallsUntouched DEF MarkProviderInFlight
<1>13. ASSUME NEW c \in Clients, NEW d \in Deltas, Charge(c, d) PROVE CallsOK'
  <2>1. \A b \in Clients : CallKept(b)
    BY ZenonT(90), <1>13 DEF Charge, CallKept
  <2>2. DOMAIN usage' = DOMAIN usage
    BY ZenonT(90), <1>13 DEF Charge
  <2> QED
    BY ZenonT(90), <1>13, <2>1, <2>2, CallsUntouched DEF Charge
<1>14. ASSUME NEW r \in active, MarkActiveDraining(r) PROVE CallsOK'
  <2>1. \A d \in Clients : CallKept(d)
    BY ZenonT(90), <1>14 DEF MarkActiveDraining, NotifyAll, CallKept, Waiting, TypeOK
  <2> QED
    BY ZenonT(90), <1>14, <2>1, CallsUntouched DEF MarkActiveDraining, Drains
<1>15. ASSUME NEW r \in Occupied, ObserveProviderComplete(r) PROVE CallsOK'
  <2>1. \A d \in Clients : CallKept(d)
    BY ZenonT(90), <1>15 DEF ObserveProviderComplete, NotifyAll, CallKept, Waiting, TypeOK
  <2> QED
    BY ZenonT(90), <1>15, <2>1, CallsUntouched DEF ObserveProviderComplete
<1>16. ASSUME NEW r \in draining, ReconcileDraining(r) PROVE CallsOK'
  <2>1. \A d \in Clients : CallKept(d)
    BY ZenonT(90), <1>16 DEF ReconcileDraining, Frees, NotifyAll, CallKept, Waiting, TypeOK
  <2> QED
    BY ZenonT(90), <1>16, <2>1, CallsUntouched DEF ReconcileDraining, Frees
<1>17. ASSUME NEW p \in Parents, MarkDescendantsDraining(p) PROVE CallsOK'
  BY <1>17 DEF MarkDescendantsDraining, Drains, WithoutUnusedScopes, NotifyAll,
     domain, Operations, Queued, Leaf, Waiting, CallsOK, TypeOK,
     TicketsBelowNext, UsageCoversLeaves
<1>18. ASSUME NEW cfg \in Configs, Reconfigure(cfg) PROVE CallsOK'
  <2>1. \A d \in Clients : CallKept(d)
    BY ZenonT(90), <1>18 DEF Reconfigure, NotifyAll, CallKept, Waiting, TypeOK
  <2> QED
    BY ZenonT(90), <1>18, <2>1, CallsUntouched DEF Reconfigure
<1>19. CASE UNCHANGED vars
  <2>1. \A d \in Clients : CallKept(d)
    BY ZenonT(90), <1>19 DEF vars, CallKept
  <2> QED
    BY ZenonT(90), <1>19, <2>1, CallsUntouched DEF vars, domain
<1> QED
  BY ZenonT(90), <1>1, <1>2, <1>3, <1>4, <1>5, <1>7, <1>8, <1>9,
     <1>10, <1>11, <1>12, <1>13, <1>14, <1>15, <1>16, <1>17, <1>18, <1>19
     DEF Next, ClientStep, ControlStep

-----------------------------------------------------------------------------
(* The inductive invariant.                                                *)
IInv ==
    /\ TypeOK
    /\ CallsOK
    /\ LeavesFinite
    /\ UsageCoversLeaves
    /\ TicketsBelowNext
    /\ OneLeafPerOperation
    /\ EveryLeafIsOwned
    /\ CancellationIsFinal

(* The empty domain satisfies the invariant.                               *)
LEMMA InitIInv == Init => IInv
<1> SUFFICES ASSUME Init PROVE IInv
  OBVIOUS
<1> USE DEF Init
<1>1. TypeOK
  BY ZenonT(90), ConfigsAssumption DEF TypeOK
<1>2. LeavesFinite
  BY ZenonT(90), FS_EmptySet DEF LeavesFinite
<1>3. CallsOK /\ TicketsBelowNext
  BY ZenonT(90) DEF CallsOK, TicketsBelowNext, Waiting
<1>4. UsageCoversLeaves /\ OneLeafPerOperation /\ EveryLeafIsOwned /\ CancellationIsFinal
  BY ZenonT(90) DEF UsageCoversLeaves, OneLeafPerOperation, EveryLeafIsOwned,
     CancellationIsFinal,
     Operations, Queued, Occupied
<1> QED
  BY <1>1, <1>2, <1>3, <1>4 DEF IInv

(* Every critical section, and every stutter, preserves the invariant.     *)
LEMMA NextIInv == IInv /\ [Next]_vars => IInv'
  BY TypeStep, CallsStep, FiniteStep, UsageStep, TicketsStep, OneLeafStep,
     OwnedStep,
     CancellationStep DEF IInv

(* The inductive invariant holds throughout: every critical section of     *)
(* managed_admission.rs keeps leaves, selections, usage and the calls that *)
(* wait for them consistent.                                               *)
THEOREM IInvInvariant == Spec => []IInv
  BY InitIInv, NextIInv, PTL DEF Spec

(* The AdmissionState and the locals of its callers stay well typed.       *)
THEOREM TypeCorrect == Spec => []TypeOK
<1>1. IInv => TypeOK
  BY DEF IInv
<1> QED
  BY <1>1, IInvInvariant, PTL

(* Whatever order reserve, timeout, cancellation, release and Drop run in, *)
(* an operation has at most one leaf.                                      *)
THEOREM OperationsHaveOneLeaf == Spec => []OneLeafPerOperation
<1>1. IInv => OneLeafPerOperation
  BY DEF IInv
<1> QED
  BY <1>1, IInvInvariant, PTL

(* Every queued or active leaf has a thread that waits for it or holds it. *)
THEOREM LeavesStayOwned == Spec => []EveryLeafIsOwned
<1>1. IInv => EveryLeafIsOwned
  BY DEF IInv
<1> QED
  BY <1>1, IInvInvariant, PTL

(* No race with a cancellation or a fence brings a leaf back.              *)
THEOREM CancellationStaysFinal == Spec => []CancellationIsFinal
<1>1. IInv => CancellationIsFinal
  BY DEF IInv
<1> QED
  BY <1>1, IInvInvariant, PTL

(* For any number of threads, requests and configurations the leaves of    *)
(* managed_admission.rs, their selections and their owners agree, and      *)
(* nothing cancelled comes back.                                           *)
THEOREM LeavesStayConsistent == Spec => []LeavesAreConsistent
<1>1. IInv => LeavesAreConsistent
  BY DEF IInv, LeavesAreConsistent
<1> QED
  BY <1>1, IInvInvariant, PTL
=============================================================================
