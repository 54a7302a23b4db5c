---------------------- MODULE ManagedAdmissionCapacity ----------------------
(***************************************************************************)
(* Totals over the leaves of the domain, for every set of clients,         *)
(* requests and configurations: it never overcommits its capacity, admits  *)
(* an operation at most once and in turn, and never leaves the thread      *)
(* whose turn it is asleep; what was used is not taken back, draining      *)
(* leaves keep their capacity, and the budget of a scope is retained while *)
(* it is used and never exceeded.                                          *)
(***************************************************************************)
EXTENDS ManagedAdmissionProofs

(* Totals over leaves.                                                     *)

(* The units of one leaf are as many as it asks for.                       *)
LEMMA BlockFinite ==
    ASSUME NEW r, NEW k \in Nat
    PROVE  IsFiniteSet({r} \X (1 .. k)) /\ Cardinality({r} \X (1 .. k)) = k
<1>1. IsFiniteSet({r}) /\ Cardinality({r}) = 1
  BY FS_Singleton
<1>2. IsFiniteSet(1 .. k) /\ Cardinality(1 .. k) = k
  BY FS_Interval
<1>3. /\ IsFiniteSet({r} \X (1 .. k))
      /\ Cardinality({r} \X (1 .. k)) = Cardinality({r}) * Cardinality(1 .. k)
  BY ZenonT(90), <1>1, <1>2, FS_Product
<1> QED
  BY <1>1, <1>2, <1>3

(* The image of a finite set is finite.                                    *)
LEMMA ImageFinite ==
    ASSUME NEW S, IsFiniteSet(S), NEW f, DOMAIN f = S, f = [x \in S |-> f[x]]
    PROVE  IsFiniteSet({f[x] : x \in S})
<1>1. f \in Surjection(S, {f[x] : x \in S})
  BY DEF Surjection
<1> QED
  BY <1>1, FS_Surjection

(* The units of finitely many leaves are finitely many.                    *)
LEMMA UnitsFinite ==
    ASSUME NEW S, IsFiniteSet(S), NEW n, \A r \in S : n[r] \in Nat
    PROVE  IsFiniteSet(Units(S, n))
<1> DEFINE block == [r \in S |-> {r} \X (1 .. n[r])]
<1>1. IsFiniteSet({block[r] : r \in S})
  <2>1. DOMAIN block = S /\ block = [r \in S |-> block[r]]
    OBVIOUS
  <2> HIDE DEF block
  <2> QED
    BY <2>1, ImageFinite
<1>2. \A r \in S : IsFiniteSet(block[r])
  BY ZenonT(90), BlockFinite
<1>3. Units(S, n) = UNION {block[r] : r \in S}
  BY DEF Units
<1> HIDE DEF block
<1> QED
  BY <1>1, <1>2, <1>3, FS_UNION

(* A total over fewer leaves is not larger.                                *)
LEMMA TotalShrinks ==
    ASSUME NEW S, IsFiniteSet(S), NEW n, \A r \in S : n[r] \in Nat,
           NEW T \in SUBSET S
    PROVE  Total(T, n) \in Nat /\ Total(S, n) \in Nat /\ Total(T, n) <= Total(S, n)
<1>1. IsFiniteSet(Units(S, n))
  BY UnitsFinite
<1>2. Units(T, n) \in SUBSET Units(S, n)
  BY DEF Units
<1> QED
  BY <1>1, <1>2, FS_Subset, FS_CardinalityType DEF Total

(* A new leaf adds its units to a total.                                   *)
LEMMA TotalGrows ==
    ASSUME NEW S, IsFiniteSet(S), NEW n, NEW r, r \notin S,
           \A t \in S \cup {r} : n[t] \in Nat
    PROVE  Total(S \cup {r}, n) = Total(S, n) + n[r]
<1> DEFINE B == {r} \X (1 .. n[r])
<1>1. IsFiniteSet(B) /\ Cardinality(B) = n[r]
  BY ZenonT(90), BlockFinite
<1>2. Units(S \cup {r}, n) = Units(S, n) \cup B
  BY DEF Units
<1>3. Units(S, n) \cap B = {}
  BY DEF Units
<1>4. IsFiniteSet(Units(S, n))
  BY UnitsFinite
<1>5. Cardinality(Units(S, n) \cap B) = 0
  BY <1>3, FS_EmptySet
<1> HIDE DEF B
<1>6. Cardinality(Units(S, n) \cup B)
         = Cardinality(Units(S, n)) + Cardinality(B) - Cardinality(Units(S, n) \cap B)
  BY <1>1, <1>4, FS_Union
<1>7. Cardinality(Units(S, n)) \in Nat
  BY <1>4, FS_CardinalityType
<1>8. n[r] \in Nat
  OBVIOUS
<1>9. Cardinality(Units(S, n) \cup B) = Cardinality(Units(S, n)) + n[r]
  BY <1>1, <1>5, <1>6, <1>7, <1>8
<1> QED
  BY ZenonT(90), <1>2, <1>9 DEF Total

-----------------------------------------------------------------------------
(* The step admits r, a leaf that fits, for the first time.                *)
Admission(r) ==
    /\ r \in Requests /\ r \notin Occupied
    /\ CanFit(r)
    /\ r.operation_id \notin DOMAIN usage \cup cancelled
    /\ active' = active \cup {r} /\ draining' = draining
    /\ DOMAIN usage' = DOMAIN usage \cup {r.operation_id}
    /\ cancelled' = cancelled

(* The step admits nothing and occupies nothing more.                      *)
NoAdmission ==
    /\ active' \subseteq active
    /\ Occupied' \subseteq Occupied
    /\ Occupancy' <= Occupancy
    /\ DOMAIN usage' = DOMAIN usage
    /\ cancelled \subseteq cancelled'

(* Releasing or reconciling a leaf admits nothing.                         *)
LEMMA FreesNoAdmission ==
    ASSUME IInv, NEW r, NEW p, Frees(r, p)
    PROVE  NoAdmission
<1>1. active' = active \ {r} /\ draining' = draining \ {r} /\ usage' = usage /\ cancelled' = cancelled
  BY DEF Frees
<1>2. Cardinality(active') <= Cardinality(active) /\ Cardinality(draining') <= Cardinality(draining)
  BY <1>1, FS_Subset DEF IInv, LeavesFinite
<1>3. /\ Cardinality(active) \in Nat /\ Cardinality(active') \in Nat
      /\ Cardinality(draining) \in Nat /\ Cardinality(draining') \in Nat
  BY ZenonT(90), <1>1, FS_RemoveElement, FS_CardinalityType DEF IInv, LeavesFinite
<1>4. Occupancy' <= Occupancy
  BY <1>2, <1>3 DEF Occupancy
<1> QED
  BY ZenonT(90), <1>1, <1>4 DEF NoAdmission, Occupied

(* Turning leaves to draining admits nothing and frees nothing.            *)
LEMMA DrainsNoAdmission ==
    ASSUME IInv, NEW R \in SUBSET active, Drains(R),
           cancelled \subseteq cancelled'
    PROVE  NoAdmission
<1>1. active' = active \ R /\ draining' = draining \cup R
  BY DEF Drains
<1>2. IsFiniteSet(R) /\ IsFiniteSet(active) /\ IsFiniteSet(draining)
  BY FS_Subset DEF IInv, LeavesFinite
<1>3. active \cap R = R /\ draining \cap R = {}
  BY DEF IInv, OneLeafPerOperation
<1>4. Cardinality(active') = Cardinality(active) - Cardinality(R)
  BY <1>1, <1>2, <1>3, FS_Difference
<1>5. Cardinality(draining') = Cardinality(draining) + Cardinality(R) - Cardinality({})
  BY <1>1, <1>2, <1>3, FS_Union
<1>6. /\ Cardinality(active) \in Nat /\ Cardinality(draining) \in Nat
      /\ Cardinality(R) \in Nat /\ Cardinality({}) = 0
  BY <1>2, FS_CardinalityType, FS_EmptySet
<1>7. Occupancy' = Occupancy
  BY <1>4, <1>5, <1>6 DEF Occupancy
<1>8. DOMAIN usage' = DOMAIN usage
  BY DEF Drains
<1>9. Occupancy \in Nat
  BY <1>6 DEF Occupancy
<1> QED
  BY <1>1, <1>7, <1>8, <1>9 DEF NoAdmission, Occupied

(* A step that leaves the leaves alone admits nothing.                     *)
LEMMA KeepsNoAdmission ==
    ASSUME IInv, active' = active, draining' = draining,
           DOMAIN usage' = DOMAIN usage,
           cancelled' = cancelled
    PROVE  NoAdmission
<1>1. Cardinality(active) \in Nat /\ Cardinality(draining) \in Nat
  BY FS_CardinalityType DEF IInv, LeavesFinite
<1> QED
  BY <1>1 DEF NoAdmission, Occupied, Occupancy

(* A step of the domain admits one leaf that fits, or none.                *)
LEMMA AdmissionShape ==
    ASSUME IInv, [Next]_vars
    PROVE  (\E r \in Requests : Admission(r)) \/ NoAdmission
<1>1. ASSUME NEW c \in Clients, ReserveAdmitted(c) PROVE Admission(req[c])
  <2>1. /\ req[c] \in Requests /\ ~AlreadyKnown(req[c].operation_id)
        /\ IsNextAdmissible(NewLeaf(c), Pushed(c)) /\ Admits(c, NewLeaf(c), Pushed(c))
        /\ draining' = draining /\ cancelled' = cancelled
    BY ZenonT(90), <1>1 DEF ReserveAdmitted, Selects, Selectable, IInv, CallsOK
  <2>2. CanFit(req[c]) /\ active' = active \cup {req[c]}
        /\ DOMAIN usage' = DOMAIN usage \cup {req[c].operation_id}
    BY ZenonT(90), <2>1 DEF IsNextAdmissible, Admits, NewLeaf
  <2> QED
    BY ZenonT(90), <2>1, <2>2 DEF Admission, AlreadyKnown, Operations
<1>2. ASSUME NEW c \in Clients, WakeAdmitted(c) \/ TimeoutAdmitted(c)
      PROVE Admission(req[c])
  <2>1. /\ IsNextAdmissible(Leaf(c), queue) /\ Admits(c, Leaf(c), queue)
        /\ draining' = draining /\ cancelled' = cancelled
    BY ZenonT(90), <1>2 DEF WakeAdmitted, TimeoutAdmitted
  <2>2. Leaf(c) \in queue /\ CanFit(req[c]) /\ active' = active \cup {req[c]}
        /\ DOMAIN usage' = DOMAIN usage \cup {req[c].operation_id}
    BY ZenonT(90), <2>1 DEF IsNextAdmissible, Admits, Leaf
  <2>3. req[c] \in Queued /\ req[c] \in Requests
    BY <2>2 DEF Queued, Leaf, IInv, TypeOK
  <2>4. req[c].operation_id \notin DOMAIN usage \cup cancelled /\ req[c] \notin Occupied
    BY <2>3 DEF IInv, UsageCoversLeaves, CancellationIsFinal, Operations
  <2> QED
    BY <2>1, <2>2, <2>3, <2>4 DEF Admission
<1>3. ASSUME NEW c \in Clients, ReleaseReservation(c) PROVE NoAdmission
  BY <1>3, FreesNoAdmission, KeepsNoAdmission DEF ReleaseReservation, domain
<1>4. ASSUME NEW r \in draining, ReconcileDraining(r) PROVE NoAdmission
  BY <1>4, FreesNoAdmission DEF ReconcileDraining
<1>5. ASSUME NEW c \in Clients, MarkDraining(c) PROVE NoAdmission
  BY <1>5, DrainsNoAdmission DEF MarkDraining
<1>6. ASSUME NEW r \in active, MarkActiveDraining(r) PROVE NoAdmission
  BY <1>6, DrainsNoAdmission DEF MarkActiveDraining
<1>7. ASSUME NEW p \in Parents, MarkDescendantsDraining(p) PROVE NoAdmission
  BY ZenonT(90), <1>7, DrainsNoAdmission DEF MarkDescendantsDraining
<1>8. ASSUME NEW c \in Clients, NEW d \in Deltas, Charge(c, d)
      PROVE NoAdmission
  BY ZenonT(90), <1>8, KeepsNoAdmission DEF Charge
<1>9. ASSUME NEW c \in Clients,
            (\E r \in Requests : ValidateRequest(c, r)) \/ ReserveRefused(c) \/ ReserveUndone(c) \/ ReserveQueued(c)
              \/ WakeFenced(c) \/ WakeWaits(c) \/ TimeoutUndone(c) \/ MarkProviderInFlight(c)
      PROVE NoAdmission
  BY ZenonT(90), <1>9, KeepsNoAdmission DEF ValidateRequest, ReserveRefused,
     ReserveUndone, ReserveQueued,
     WakeFenced, WakeWaits, TimeoutUndone, MarkProviderInFlight, domain
<1>10. ASSUME NEW r \in Occupied, ObserveProviderComplete(r) PROVE NoAdmission
  BY ZenonT(90), <1>10, KeepsNoAdmission DEF ObserveProviderComplete
<1>11. ASSUME NEW cfg \in Configs, Reconfigure(cfg) PROVE NoAdmission
  BY <1>11, KeepsNoAdmission DEF Reconfigure
<1>12. CASE UNCHANGED vars
  BY ZenonT(90), <1>12, KeepsNoAdmission DEF vars, domain
<1>13. ASSUME NEW c \in Clients, ClientStep(c)
       PROVE  (\E r \in Requests : Admission(r)) \/ NoAdmission
  <2>1. CASE ReserveAdmitted(c) \/ WakeAdmitted(c) \/ TimeoutAdmitted(c)
    <3>1. Admission(req[c])
      BY <1>1, <1>2, <2>1
    <3> QED
      BY ZenonT(90), <3>1 DEF Admission
  <2>2. CASE \E r \in Requests : ValidateRequest(c, r)
    BY <1>9, <2>2
  <2>3. CASE ReserveRefused(c) \/ ReserveUndone(c) \/ ReserveQueued(c) \/ WakeFenced(c)
               \/ WakeWaits(c) \/ TimeoutUndone(c) \/ MarkProviderInFlight(c)
    BY <1>9, <2>3
  <2>4. CASE ReleaseReservation(c) \/ MarkDraining(c) \/ \E d \in Deltas : Charge(c, d)
    BY <1>3, <1>5, <1>8, <2>4
  <2> QED
    BY ZenonT(90), <1>13, <2>1, <2>2, <2>3, <2>4 DEF ClientStep
<1>14. ASSUME ControlStep PROVE NoAdmission
  BY ZenonT(90), <1>4, <1>6, <1>7, <1>10, <1>11, <1>14 DEF ControlStep
<1> QED
  BY <1>12, <1>13, <1>14 DEF Next

-----------------------------------------------------------------------------
(* All leaves of the domain, waiting or occupying.                         *)
Held == Queued \cup Occupied

(* The step selects r, a leaf new to the domain.                           *)
Selection(r) ==
    /\ r \in Requests /\ r \notin Held
    /\ Selectable(r)
    /\ Held' = Held \cup {r}

(* The leaves are finitely many requests.                                  *)
LEMMA HeldFinite ==
    ASSUME IInv
    PROVE  IsFiniteSet(Held) /\ Held \subseteq Requests /\ IsFiniteSet(Occupied)
<1>1. IsFiniteSet(Queued)
  <2> DEFINE f == [e \in queue |-> e.request]
  <2>1. DOMAIN f = queue /\ f = [e \in queue |-> f[e]]
    OBVIOUS
  <2>2. Queued = {f[e] : e \in queue}
    BY DEF Queued
  <2> HIDE DEF f
  <2> QED
    BY <2>1, <2>2, ImageFinite DEF IInv, LeavesFinite
<1>2. IsFiniteSet(Occupied)
  BY ZenonT(90), FS_Union DEF IInv, LeavesFinite, Occupied
<1>3. IsFiniteSet(Held)
  BY ZenonT(90), <1>1, <1>2, FS_Union DEF Held
<1> QED
  BY ZenonT(90), <1>2, <1>3 DEF IInv, TypeOK, Held, Queued, Occupied

(* reserve selects a leaf that is new to the domain.                       *)
LEMMA SelectsShape ==
    ASSUME IInv, NEW c \in Clients, ReserveAdmitted(c) \/ ReserveQueued(c)
    PROVE  Selection(req[c])
<1>1. req[c] \in Requests /\ Selectable(req[c]) /\ draining' = draining
  BY ZenonT(90) DEF ReserveAdmitted, ReserveQueued, Selects, IInv, CallsOK
<1>2. req[c] \notin Held
  BY ZenonT(90), <1>1 DEF Selectable, AlreadyKnown, Operations, Held
<1>3. CASE ReserveAdmitted(c)
  <2>1. queue' = Pushed(c) \ {NewLeaf(c)} /\ active' = active \cup {req[c]}
    BY ZenonT(90), <1>3 DEF ReserveAdmitted, Admits, NewLeaf
  <2>2. NewLeaf(c) \notin queue
    BY <1>2 DEF NewLeaf, Held, Queued
  <2>3. queue' = queue
    BY <2>1, <2>2 DEF Pushed
  <2> QED
    BY ZenonT(90), <1>1, <1>2, <2>1, <2>3 DEF Selection, Held, Queued, Occupied
<1>4. CASE ReserveQueued(c)
  <2>1. queue' = queue \cup {NewLeaf(c)} /\ active' = active
    BY ZenonT(90), <1>4 DEF ReserveQueued, Pushed
  <2>2. Queued' = Queued \cup {req[c]}
    <3>1. NewLeaf(c).request = req[c]
      BY DEF NewLeaf
    <3> QED
      BY <2>1, <3>1 DEF Queued
  <2> QED
    BY <1>1, <1>2, <2>1, <2>2 DEF Selection, Held, Occupied
<1> QED
  BY ZenonT(90), <1>3, <1>4

(* A step of the domain selects one leaf that was checked against the byte *)
(* capacities, or none.                                                    *)
LEMMA SelectionShape ==
    ASSUME IInv, [Next]_vars
    PROVE  (\E r \in Requests : Selection(r)) \/ Held' \subseteq Held
<1>1. ASSUME NEW c \in Clients, ReserveAdmitted(c) \/ ReserveQueued(c)
      PROVE  Selection(req[c])
  BY ZenonT(90), <1>1, SelectsShape
<1>2. ASSUME NEW c \in Clients, WakeAdmitted(c) \/ TimeoutAdmitted(c)
      PROVE Held' \subseteq Held
  <2>1. queue' \subseteq queue /\ active' = active \cup {req[c]} /\ draining' = draining
    BY ZenonT(90), <1>2 DEF WakeAdmitted, TimeoutAdmitted, Admits, Leaf
  <2>2. Leaf(c) \in queue
    BY ZenonT(90), <1>2 DEF WakeAdmitted, TimeoutAdmitted, IsNextAdmissible
  <2>3. req[c] \in Queued
    BY <2>2 DEF Leaf, Queued
  <2> QED
    BY <2>1, <2>3 DEF Held, Queued, Occupied
<1>3. ASSUME queue' \subseteq queue, Occupied' \subseteq Occupied
      PROVE Held' \subseteq Held
  BY <1>3 DEF Held, Queued
<1>4. ASSUME NEW c \in Clients, ClientStep(c), ~ReserveAdmitted(c),
             ~ReserveQueued(c),
             ~WakeAdmitted(c), ~TimeoutAdmitted(c)
      PROVE  queue' \subseteq queue
  BY ZenonT(90), <1>4 DEF ClientStep, ValidateRequest, ReserveRefused, ReserveUndone,
     WakeFenced, WakeWaits,
     TimeoutUndone, ReleaseReservation, Frees, MarkDraining,
     MarkProviderInFlight, Charge, domain
<1>5. ASSUME ControlStep PROVE queue' \subseteq queue
  BY ZenonT(90), <1>5 DEF ControlStep, MarkActiveDraining, ObserveProviderComplete,
     ReconcileDraining, Frees,
     MarkDescendantsDraining, Reconfigure
<1>6. ASSUME NEW c \in Clients, ClientStep(c), ~ReserveAdmitted(c),
             ~WakeAdmitted(c), ~TimeoutAdmitted(c)
      PROVE  Occupied' \subseteq Occupied
  <2>1. CASE ReleaseReservation(c)
    BY ZenonT(90), <2>1 DEF ReleaseReservation, Frees, domain, Occupied
  <2>2. CASE MarkDraining(c)
    BY <2>2 DEF MarkDraining, Drains, Occupied
  <2>3. CASE \E d \in Deltas : Charge(c, d)
    BY ZenonT(90), <2>3 DEF Charge, Occupied
  <2> QED
    BY ZenonT(90), <1>6, <2>1, <2>2, <2>3 DEF ClientStep, ValidateRequest, ReserveRefused,
       ReserveUndone,
       ReserveQueued, WakeFenced, WakeWaits, TimeoutUndone,
       MarkProviderInFlight, domain, Occupied
<1>7. ASSUME ControlStep PROVE Occupied' \subseteq Occupied
  BY ZenonT(90), <1>7 DEF ControlStep, MarkActiveDraining, ObserveProviderComplete,
     ReconcileDraining, Frees,
     MarkDescendantsDraining, Reconfigure, Drains, Occupied
<1>8. CASE UNCHANGED vars
  BY ZenonT(90), <1>8 DEF vars, domain, Held, Queued, Occupied
<1>9. ASSUME NEW c \in Clients, ClientStep(c)
      PROVE  (\E r \in Requests : Selection(r)) \/ Held' \subseteq Held
  <2>1. CASE ReserveAdmitted(c) \/ ReserveQueued(c)
    <3>1. Selection(req[c])
      BY <1>1, <2>1
    <3> QED
      BY ZenonT(90), <3>1 DEF Selection
  <2>2. CASE WakeAdmitted(c) \/ TimeoutAdmitted(c)
    BY <1>2, <2>2
  <2> QED
    BY <1>3, <1>4, <1>6, <1>9, <2>1, <2>2
<1> QED
  BY <1>3, <1>5, <1>7, <1>8, <1>9 DEF Next

(* A total over all leaves grows by what one selected leaf asks for.       *)
LEMMA HeldTotal ==
    ASSUME IInv, [Next]_vars, NEW n \in [Requests -> Nat], Total(Held,
           n)' > Total(Held, n)
    PROVE  \E r \in Requests : /\ Selectable(r) /\ n[r] > 0
                               /\ Total(Held, n)' = Total(Held, n) + n[r]
<1>1. IsFiniteSet(Held) /\ Held \subseteq Requests
  BY ZenonT(90), HeldFinite
<1>2. ~(Held' \subseteq Held)
  <2> SUFFICES ASSUME Held' \subseteq Held PROVE FALSE
    OBVIOUS
  <2>1. /\ Total(Held', n) <= Total(Held, n)
        /\ Total(Held, n) \in Nat /\ Total(Held', n) \in Nat
    BY <1>1, TotalShrinks
  <2> QED
    BY <2>1
<1>3. PICK r \in Requests : Selection(r)
  BY <1>2, SelectionShape
<1>4. Total(Held', n) = Total(Held, n) + n[r]
  BY <1>1, <1>3, TotalGrows DEF Selection
<1>5. Total(Held, n) \in Nat /\ n[r] \in Nat
  BY ZenonT(90), <1>1, TotalShrinks
<1>6. n[r] > 0
  BY <1>4, <1>5
<1> QED
  BY ZenonT(90), <1>3, <1>4, <1>6 DEF Selection

(* A step that raises the use of a lane ends within its cap: draining      *)
(* leaves count, and can_fit compares the sum.                             *)
LEMMA LaneUseStep ==
    ASSUME IInv, [Next]_vars, NEW l \in Lanes, LaneUse(l)' > LaneUse(l)
    PROVE  LaneUse(l)' <= config.lane_caps[l]
<1> DEFINE n == LaneUnits(l)
<1>1. IsFiniteSet(Occupied) /\ Occupied \subseteq Requests
  BY ZenonT(90), HeldFinite DEF Held
<1>2. n \in [Requests -> Nat] /\ \A r \in Requests : n[r] = r.lanes[l]
  BY RequestFields DEF LaneUnits
<1> HIDE DEF n
<1>3. LaneUse(l) = Total(Occupied, n) /\ LaneUse(l)' = Total(Occupied', n)
  BY DEF LaneUse, n
<1>4. Total(Occupied, n) \in Nat
  BY <1>1, <1>2, TotalShrinks
<1>5. ~(Occupied' \subseteq Occupied)
  <2> SUFFICES ASSUME Occupied' \subseteq Occupied PROVE FALSE
    OBVIOUS
  <2>1. Total(Occupied', n) <= Total(Occupied, n) /\ Total(Occupied', n) \in Nat
    BY <1>1, <1>2, TotalShrinks
  <2> QED
    BY <1>3, <1>4, <2>1
<1>6. PICK r \in Requests : Admission(r)
  BY ZenonT(90), <1>5, AdmissionShape DEF NoAdmission
<1>7. Occupied' = Occupied \cup {r} /\ r \notin Occupied /\ CanFit(r)
  BY ZenonT(90), <1>6 DEF Admission, Occupied
<1>8. Total(Occupied', n) = Total(Occupied, n) + n[r] /\ n[r] \in Nat
  BY <1>1, <1>2, <1>7, TotalGrows
<1>9. r.lanes[l] > 0
  BY <1>2, <1>3, <1>4, <1>8
<1> QED
  BY ZenonT(90), <1>2, <1>3, <1>7, <1>8, <1>9 DEF CanFit

(* A step that raises the occupancy ends within global_max_active.         *)
LEMMA OccupancyStep ==
    ASSUME IInv, [Next]_vars, Occupancy' > Occupancy
    PROVE  Occupancy' <= config.global_max_active
<1>1. /\ IsFiniteSet(active) /\ IsFiniteSet(draining)
      /\ Cardinality(active) \in Nat /\ Cardinality(draining) \in Nat
  BY ZenonT(90), FS_CardinalityType DEF IInv, LeavesFinite
<1>2. ~(Occupancy' <= Occupancy)
  <2> SUFFICES ASSUME Occupancy' <= Occupancy PROVE FALSE
    OBVIOUS
  <2>1. IsFiniteSet(active') /\ IsFiniteSet(draining')
    BY NextIInv DEF IInv, LeavesFinite
  <2>2. Cardinality(active') \in Nat /\ Cardinality(draining') \in Nat
    BY <2>1, FS_CardinalityType
  <2> QED
    BY <1>1, <2>2 DEF Occupancy
<1>3. PICK r \in Requests : Admission(r)
  BY <1>2, AdmissionShape DEF NoAdmission
<1>4. active' = active \cup {r} /\ draining' = draining /\ r \notin active /\ CanFit(r)
  BY ZenonT(90), <1>3 DEF Admission, Occupied
<1>5. Cardinality(active') = Cardinality(active) + 1
  BY ZenonT(90), <1>1, <1>4, FS_AddElement
<1>6. Occupancy < config.global_max_active /\ config.global_max_active \in Nat
  BY ZenonT(90), <1>4 DEF CanFit, IInv, TypeOK, Config
<1> QED
  BY <1>1, <1>4, <1>5, <1>6 DEF Occupancy

(* A step that raises the reserved context or artifact bytes ends within   *)
(* their capacity.                                                         *)
LEMMA ReservedBytesStep ==
    ASSUME IInv, [Next]_vars
    PROVE  /\ SelectedContextBytes' > SelectedContextBytes =>
                 SelectedContextBytes' <= config.max_materialized_context_bytes
           /\ SelectedArtifactBytes' > SelectedArtifactBytes =>
                 SelectedArtifactBytes' <= config.max_reserved_artifact_bytes
<1>1. ASSUME SelectedContextBytes' > SelectedContextBytes
      PROVE  SelectedContextBytes' <= config.max_materialized_context_bytes
  <2> DEFINE n == ContextBytes
  <2>1. n \in [Requests -> Nat] /\ \A r \in Requests : n[r] = r.context_bytes
    BY ZenonT(90), RequestFields DEF ContextBytes
  <2>2. SelectedContextBytes = Total(Held, n) /\ SelectedContextBytes' = Total(Held', n)
    BY DEF SelectedContextBytes, Held
  <2> HIDE DEF n
  <2>3. PICK r \in Requests : Selectable(r) /\ n[r] > 0 /\ Total(Held', n) = Total(Held, n) + n[r]
    BY <1>1, <2>1, <2>2, HeldTotal
  <2> QED
    BY <2>1, <2>2, <2>3 DEF Selectable
<1>2. ASSUME SelectedArtifactBytes' > SelectedArtifactBytes
      PROVE  SelectedArtifactBytes' <= config.max_reserved_artifact_bytes
  <2> DEFINE n == ArtifactBytes
  <2>1. n \in [Requests -> Nat] /\ \A r \in Requests : n[r] = r.estimated_artifact_bytes
    BY ZenonT(90), RequestFields DEF ArtifactBytes
  <2>2. SelectedArtifactBytes = Total(Held, n) /\ SelectedArtifactBytes' = Total(Held', n)
    BY DEF SelectedArtifactBytes, Held
  <2> HIDE DEF n
  <2>3. PICK r \in Requests : Selectable(r) /\ n[r] > 0 /\ Total(Held', n) = Total(Held, n) + n[r]
    BY <1>2, <2>1, <2>2, HeldTotal
  <2> QED
    BY <2>1, <2>2, <2>3 DEF Selectable
<1> QED
  BY <1>1, <1>2

(* No critical section raises the occupancy, a lane or the reserved bytes  *)
(* above the capacity installed at that moment, even after a               *)
(* reconfiguration below the current use.                                  *)
THEOREM CapacityIsNeverOvercommitted == Spec => NoOvercommit
<1> DEFINE A == /\ Occupancy' > Occupancy => Occupancy' <= config.global_max_active
                /\ \A l \in Lanes :
                      LaneUse(l)' > LaneUse(l) => LaneUse(l)' <= config.lane_caps[l]
                /\ SelectedContextBytes' > SelectedContextBytes =>
                      SelectedContextBytes' <= config.max_materialized_context_bytes
                /\ SelectedArtifactBytes' > SelectedArtifactBytes =>
                      SelectedArtifactBytes' <= config.max_reserved_artifact_bytes
<1>1. IInv /\ [Next]_vars => [A]_vars
  BY ZenonT(90), OccupancyStep, LaneUseStep, ReservedBytesStep
<1> QED
  BY <1>1, IInvInvariant, PTL DEF Spec, NoOvercommit

(* reserve never admits an operation twice, nor after its cancellation:    *)
(* usage records outlive the release of a leaf.                            *)
THEOREM OperationsAreAdmittedAtMostOnce == Spec => AdmittedAtMostOnce
<1> DEFINE A == /\ DOMAIN usage \subseteq DOMAIN usage'
                /\ cancelled \subseteq cancelled'
                /\ \A r \in active' \ active :
                      r.operation_id \notin DOMAIN usage \cup cancelled
<1>1. IInv /\ [Next]_vars => [A]_vars
  BY ZenonT(90), AdmissionShape DEF Admission, NoAdmission
<1> QED
  BY <1>1, IInvInvariant, PTL DEF Spec, AdmittedAtMostOnce

-----------------------------------------------------------------------------
(* Whether a leaf fits depends on the configuration and the occupying      *)
(* leaves only.                                                            *)
LEMMA SameFit ==
    ASSUME UNCHANGED <<config, active, draining>>, NEW r
    PROVE  CanFit(r)' <=> CanFit(r)
  BY ZenonT(90) DEF CanFit, Occupancy, LaneUse, Total, Units, LaneUnits, Occupied

(* Whether a leaf fits depends on its lanes only.                          *)
LEMMA FitByLanes ==
    ASSUME NEW r, NEW t, r.lanes = t.lanes
    PROVE  CanFit(r) <=> CanFit(t)
  BY DEF CanFit

(* The order in which next_admissible_ticket scans is a strict order.      *)
LEMMA PrecedesOrder ==
    ASSUME NEW e \in [ticket : Nat, request : Requests],
           NEW f \in [ticket : Nat, request : Requests],
           NEW g \in [ticket : Nat, request : Requests]
    PROVE  /\ ~Precedes(e, e)
           /\ Precedes(e, f) /\ Precedes(f, g) => Precedes(e, g)
  BY DEF Precedes

(* What keeps a waiting thread waiting.                                    *)
Blocked(c) ==
    /\ Leaf(c) \in queue
    /\ \/ ~CanFit(req[c])
       \/ \E f \in queue : CanFit(f.request) /\ Precedes(f, Leaf(c))

(* NoLostWakeup says that sleeping threads are blocked.                    *)
LEMMA BlockedMeaning ==
    ASSUME NEW c
    PROVE  Leaf(c) \in queue /\ ~IsNextAdmissible(Leaf(c), queue) <=> Blocked(c)
  BY ZenonT(90) DEF Blocked, IsNextAdmissible, Leaf

(* So NoLostWakeup is about blocked threads only.                          *)
LEMMA NoLostWakeupIs == NoLostWakeup <=> \A c \in Clients : pc[c] = "asleep" => Blocked(c)
  BY BlockedMeaning DEF NoLostWakeup

(* The same of the next state.                                             *)
LEMMA NoLostWakeupNext ==
    NoLostWakeup' <=> \A c \in Clients : pc'[c] = "asleep" => Blocked(c)'
  BY ZenonT(90) DEF NoLostWakeup, Blocked, IsNextAdmissible, Leaf

(* A step that notifies leaves nobody asleep.                              *)
LEMMA NotifiedStep ==
    ASSUME NEW c, NEW p, NEW outcome,
           pc' = NotifyAll(p) \/ pc' = [NotifyAll(p) EXCEPT ![c] = "holding"]
    PROVE  NoLostWakeup'
<1>1. \A d \in Clients : pc'[d] # "asleep"
  BY ZenonT(90) DEF NotifyAll
<1> QED
  BY <1>1 DEF NoLostWakeup

(* A step that puts nobody to sleep and changes nothing a sleeper waits    *)
(* for.                                                                    *)
LEMMA QuietStep ==
    ASSUME NoLostWakeup, UNCHANGED <<config, active, draining, queue>>,
           \A d \in Clients : pc'[d] = "asleep" =>
               pc[d] = "asleep" /\ ticket'[d] = ticket[d] /\ req'[d] = req[d]
    PROVE  NoLostWakeup'
<1> SUFFICES ASSUME NEW d \in Clients, pc'[d] = "asleep" PROVE Blocked(d)'
  BY ZenonT(90), NoLostWakeupNext
<1>1. Blocked(d)
  BY ZenonT(90), NoLostWakeupIs
<1>2. Leaf(d)' = Leaf(d) /\ req'[d] = req[d] /\ queue' = queue
  BY ZenonT(90) DEF Leaf
<1> QED
  BY ZenonT(90), <1>1, <1>2, SameFit DEF Blocked

(* A leaf that joins the queue admits no sleeper, and sleeps only if it is *)
(* not the next admissible one itself.                                     *)
LEMMA QueuedSleeper ==
    ASSUME IInv, NoLostWakeup, NEW c \in Clients, ReserveQueued(c)
    PROVE  NoLostWakeup'
<1>1. /\ UNCHANGED <<config, active, draining, req>>
      /\ queue' = queue \cup {NewLeaf(c)}
      /\ pc' = [pc EXCEPT ![c] = "asleep"] /\ ticket' = [ticket EXCEPT ![c] = next_ticket]
      /\ ~IsNextAdmissible(NewLeaf(c), queue \cup {NewLeaf(c)})
  BY ZenonT(90) DEF ReserveQueued, Pushed
<1> SUFFICES ASSUME NEW d \in Clients, pc'[d] = "asleep" PROVE Blocked(d)'
  BY NoLostWakeupNext
<1>2. CASE d = c
  <2>1. Leaf(c)' = NewLeaf(c) /\ req'[c] = req[c] /\ NewLeaf(c).request = req[c]
    BY ZenonT(90), <1>1 DEF Leaf, NewLeaf, IInv, TypeOK
  <2>2. ~CanFit(req[c]) \/ \E f \in queue' : CanFit(f.request) /\ Precedes(f, NewLeaf(c))
    BY ZenonT(90), <1>1, <2>1 DEF IsNextAdmissible
  <2> QED
    BY ZenonT(90), <1>1, <1>2, <2>1, <2>2, SameFit DEF Blocked
<1>3. CASE d # c
  <2>1. Leaf(d)' = Leaf(d) /\ req'[d] = req[d] /\ pc[d] = "asleep"
    BY ZenonT(90), <1>1, <1>3 DEF Leaf, IInv, TypeOK
  <2>2. Blocked(d)
    BY ZenonT(90), <2>1, NoLostWakeupIs
  <2> QED
    BY ZenonT(90), <1>1, <2>1, <2>2, SameFit DEF Blocked
<1> QED
  BY <1>2, <1>3

(* A thread that goes back to sleep looked at the queue first.             *)
LEMMA WakeSleeper ==
    ASSUME IInv, NoLostWakeup, NEW c \in Clients, WakeWaits(c)
    PROVE  NoLostWakeup'
<1>1. /\ UNCHANGED <<config, active, draining, queue, req, ticket>>
      /\ pc' = [pc EXCEPT ![c] = "asleep"]
      /\ Blocked(c)
  BY ZenonT(90), BlockedMeaning DEF WakeWaits, domain
<1> SUFFICES ASSUME NEW d \in Clients, pc'[d] = "asleep" PROVE Blocked(d)'
  BY NoLostWakeupNext
<1>2. Blocked(d)
  BY ZenonT(90), <1>1, NoLostWakeupIs DEF IInv, TypeOK
<1>3. Leaf(d)' = Leaf(d)
  BY ZenonT(90), <1>1 DEF Leaf
<1> QED
  BY ZenonT(90), <1>1, <1>2, <1>3, SameFit DEF Blocked

(* A thread that gives up notifies nobody, and need not: its leaf was not  *)
(* the next admissible one, so whoever was behind it is also behind        *)
(* another leaf that fits.                                                 *)
LEMMA TimeoutSleeper ==
    ASSUME IInv, NoLostWakeup, NEW c \in Clients, TimeoutUndone(c)
    PROVE  NoLostWakeup'
<1>1. /\ UNCHANGED <<config, active, draining>>
      /\ queue' = queue \ {Leaf(c)}
      /\ pc' = [pc EXCEPT ![c] = "queue_timeout"]
      /\ req' = [req EXCEPT ![c] = NoRequest] /\ ticket' = [ticket EXCEPT ![c] = 0]
      /\ Waiting(c) /\ ~IsNextAdmissible(Leaf(c), queue)
  BY ZenonT(90) DEF TimeoutUndone, Returns
<1>2. queue \subseteq [ticket : Nat, request : Requests]
  BY DEF IInv, TypeOK
<1> SUFFICES ASSUME NEW d \in Clients, pc'[d] = "asleep" PROVE Blocked(d)'
  BY NoLostWakeupNext
<1>3. d # c /\ pc[d] = "asleep" /\ Leaf(d)' = Leaf(d) /\ req'[d] = req[d]
  BY ZenonT(90), <1>1 DEF Leaf, IInv, TypeOK
<1>4. Blocked(d)
  BY ZenonT(90), <1>3, NoLostWakeupIs
<1>5. Leaf(d) # Leaf(c)
  <2>1. ticket[c] # ticket[d]
    BY ZenonT(90), <1>1, <1>3 DEF IInv, CallsOK, Waiting
  <2> QED
    BY ZenonT(90), <2>1 DEF Leaf
<1>6. Leaf(d) \in queue'
  BY ZenonT(90), <1>1, <1>4, <1>5 DEF Blocked
<1>7. ASSUME CanFit(req[d])
      PROVE  \E f \in queue' : CanFit(f.request) /\ Precedes(f, Leaf(d))
  <2>1. PICK f \in queue : CanFit(f.request) /\ Precedes(f, Leaf(d))
    BY ZenonT(90), <1>4, <1>7 DEF Blocked
  <2>2. CASE f # Leaf(c)
    BY ZenonT(90), <1>1, <2>1, <2>2
  <2>3. CASE f = Leaf(c)
    <3>1. PICK g \in queue : CanFit(g.request) /\ Precedes(g, f)
      BY ZenonT(90), <1>1, <2>1, <2>3 DEF IsNextAdmissible
    <3>2. g # f /\ Precedes(g, Leaf(d))
      BY ZenonT(90), <1>2, <1>4, <2>1, <3>1, PrecedesOrder DEF Blocked
    <3> QED
      BY ZenonT(90), <1>1, <2>3, <3>1, <3>2
  <2> QED
    BY ZenonT(90), <2>2, <2>3
<1> QED
  BY ZenonT(90), <1>1, <1>3, <1>6, <1>7, SameFit DEF Blocked

(* Every critical section keeps sleepers blocked, or notifies.             *)
LEMMA WakeupStep ==
    ASSUME IInv, NoLostWakeup, [Next]_vars
    PROVE  NoLostWakeup'
<1> USE DEF IInv, TypeOK
<1>1. ASSUME NEW c \in Clients,
             (\E r \in Requests : ValidateRequest(c, r)) \/ ReserveRefused(c) \/ ReserveUndone(c)
                \/ WakeFenced(c) \/ (\E d \in Deltas : Charge(c, d))
      PROVE  NoLostWakeup'
  BY ZenonT(90),
     <1>1, QuietStep DEF ValidateRequest, ReserveRefused, ReserveUndone, WakeFenced, Charge,
     Returns, domain
<1>2. ASSUME NEW c \in Clients, ReserveAdmitted(c) \/ WakeAdmitted(c) \/ TimeoutAdmitted(c)
      PROVE  NoLostWakeup'
  BY ZenonT(90), <1>2, NotifiedStep DEF ReserveAdmitted, WakeAdmitted, TimeoutAdmitted, Admits
<1>3. ASSUME NEW c \in Clients, ReleaseReservation(c) PROVE NoLostWakeup'
  <2>1. CASE Frees(req[c], [pc EXCEPT ![c] = "idle"])
    BY ZenonT(90), <2>1, NotifiedStep DEF Frees
  <2>2. CASE pc' = [pc EXCEPT ![c] = "idle"] /\ UNCHANGED domain
    BY ZenonT(90), <1>3, <2>2, QuietStep DEF ReleaseReservation, domain
  <2> QED
    BY ZenonT(90), <1>3, <2>1, <2>2 DEF ReleaseReservation
<1>4. ASSUME NEW c \in Clients, MarkDraining(c) \/ MarkProviderInFlight(c)
      PROVE  NoLostWakeup'
  BY ZenonT(90), <1>4, NotifiedStep DEF MarkDraining, MarkProviderInFlight
<1>5. ASSUME NEW r, MarkActiveDraining(r) \/ ObserveProviderComplete(r) \/ ReconcileDraining(r)
      PROVE  NoLostWakeup'
  BY ZenonT(90),
     <1>5, NotifiedStep DEF MarkActiveDraining, ObserveProviderComplete, ReconcileDraining, Frees
<1>6. ASSUME NEW cfg, Reconfigure(cfg) PROVE NoLostWakeup'
  BY ZenonT(90), <1>6, NotifiedStep DEF Reconfigure
<1>7. ASSUME NEW parent, MarkDescendantsDraining(parent) PROVE NoLostWakeup'
  <2> DEFINE evicted == {e \in queue : e.request.parent_operation_id = parent}
             drained == {r \in active : r.parent_operation_id = parent}
             removed == {e.request : e \in evicted}
  <2>1. CASE removed \cup drained = {}
    <3>1. evicted = {} /\ drained = {}
      BY ZenonT(90), <2>1
    <3>2. queue' = queue /\ active' = active /\ draining' = draining /\ pc' = pc
      BY ZenonT(90), <1>7, <2>1, <3>1 DEF MarkDescendantsDraining, Drains
    <3> QED
      BY ZenonT(90), <1>7, <3>2, QuietStep DEF MarkDescendantsDraining
  <2>2. CASE removed \cup drained # {}
    BY ZenonT(90), <1>7, <2>2, NotifiedStep DEF MarkDescendantsDraining
  <2> QED
    BY ZenonT(90), <2>1, <2>2
<1>8. CASE UNCHANGED vars
  BY ZenonT(90), <1>8, QuietStep DEF vars, domain
<1> QED
  BY ZenonT(90), <1>1, <1>2, <1>3, <1>4, <1>5, <1>6, <1>7, <1>8, QueuedSleeper, WakeSleeper,
     TimeoutSleeper DEF Next, ClientStep, ControlStep

(* No interleaving of notifications, time-outs and reconfigurations leaves *)
(* the thread whose turn it is asleep.                                     *)
THEOREM WakeupsAreNotLost == Spec => []NoLostWakeup
<1>1. Init => NoLostWakeup
  BY ZenonT(90) DEF Init, NoLostWakeup
<1> QED
  BY <1>1, WakeupStep, IInvInvariant, PTL DEF Spec
-----------------------------------------------------------------------------
(* Usage records, draining leaves and the budgets of scopes.               *)

(* u became v: in the same scope, with the report of a lost spend and with *)
(* no attempt taken back.                                                  *)
RecordKept(u, v) ==
    /\ v.scope_id = u.scope_id
    /\ u.unknown_spend => v.unknown_spend
    /\ u.attempts <= U64Max => u.attempts <= v.attempts /\ v.attempts <= U64Max

(* Every record is kept; that of a newly admitted leaf is empty and in the *)
(* scope of the leaf.                                                      *)
RecordsKept ==
    /\ DOMAIN usage \subseteq DOMAIN usage'
    /\ \A o \in DOMAIN usage : RecordKept(usage[o], usage'[o])
    /\ \A r \in active' \ active : /\ usage'[r.operation_id].scope_id = ScopeOf(r)
                                   /\ usage'[r.operation_id].attempts = 0

(* A record that does not change is kept.                                  *)
LEMMA UnchangedRecord ==
    ASSUME NEW u \in UsageRecord
    PROVE  RecordKept(u, u)
  BY BoundsAssumption DEF RecordKept, UsageRecord

(* Turning leaves to draining keeps the records and flags those whose      *)
(* provider is in flight.                                                  *)
LEMMA DrainsRecords ==
    ASSUME IInv, NEW R \in SUBSET active, Drains(R)
    PROVE  /\ RecordsKept
           /\ \A r \in R : r.operation_id \in in_flight =>
                              usage'[r.operation_id].unknown_spend
<1>1. /\ active' = active \ R
      /\ usage' = [o \in DOMAIN usage |-> IF o \in Operations(R) \cap in_flight
                      THEN [usage[o] EXCEPT !.unknown_spend = TRUE] ELSE usage[o]]
  BY DEF Drains
<1>2. \A o \in DOMAIN usage : usage[o] \in UsageRecord
  BY DEF IInv, TypeOK
<1>3. ASSUME NEW u \in UsageRecord
      PROVE  /\ RecordKept(u, [u EXCEPT !.unknown_spend = TRUE])
             /\ [u EXCEPT !.unknown_spend = TRUE].unknown_spend
  <2>1. [u EXCEPT !.unknown_spend = TRUE].attempts = u.attempts /\ u.attempts \in Nat
    BY DEF UsageRecord
  <2> QED
    BY <2>1, BoundsAssumption DEF RecordKept, UsageRecord
<1>4. \A r \in R : r.operation_id \in DOMAIN usage
  BY DEF IInv, UsageCoversLeaves, Operations, Occupied
<1>5. DOMAIN usage' = DOMAIN usage
  BY <1>1
<1>6. ASSUME NEW o \in DOMAIN usage
      PROVE  /\ RecordKept(usage[o], usage'[o])
             /\ o \in Operations(R) \cap in_flight => usage'[o].unknown_spend
  <2>1. CASE o \in Operations(R) \cap in_flight
    <3>1. usage'[o] = [usage[o] EXCEPT !.unknown_spend = TRUE]
      BY <1>1, <2>1
    <3> QED
      BY <1>2, <1>3, <3>1
  <2>2. CASE o \notin Operations(R) \cap in_flight
    <3>1. usage'[o] = usage[o]
      BY ZenonT(90), <1>1, <2>2
    <3> QED
      BY <1>2, <2>2, <3>1, UnchangedRecord
  <2> QED
    BY <2>1, <2>2
<1> QED
  BY <1>1, <1>4, <1>5, <1>6 DEF RecordsKept, Operations

(* Admitting a leaf adds one record, and the leaf had none.                *)
LEMMA AdmitsRecords ==
    ASSUME IInv, NEW c \in Clients, NEW e, NEW q, Admits(c, e, q),
           e.request.operation_id \notin DOMAIN usage
    PROVE  RecordsKept
<1>1. DOMAIN usage' = DOMAIN usage \cup {e.request.operation_id}
  BY ZenonT(90) DEF Admits
<1>2. \A o \in DOMAIN usage : usage'[o] = usage[o] /\ usage[o] \in UsageRecord
  BY DEF Admits, IInv, TypeOK
<1>3. /\ usage'[e.request.operation_id].scope_id = ScopeOf(e.request)
      /\ usage'[e.request.operation_id].attempts = 0
  BY DEF Admits
<1>4. active' \ active \subseteq {e.request}
  BY DEF Admits
<1> QED
  BY ZenonT(90), <1>1, <1>2, <1>3, <1>4, UnchangedRecord DEF RecordsKept

(* A step that leaves the records alone and admits nothing.                *)
LEMMA KeepsRecords ==
    ASSUME IInv, usage' = usage, active' \subseteq active
    PROVE  RecordsKept
  BY UnchangedRecord DEF RecordsKept, IInv, TypeOK

(* A charge adds to a record's amounts only.                               *)
LEMMA ChargeRecords ==
    ASSUME IInv, NEW c \in Clients, NEW d \in Deltas, Charge(c, d)
    PROVE  RecordsKept
<1> DEFINE o == req[c].operation_id
           u == [usage[o] EXCEPT !.attempts = SaturatingAdd(@, d.attempts),
                                 !.spend = SaturatingAdd(@, d.spend)]
<1>1. o \in DOMAIN usage /\ usage[o] \in UsageRecord
  BY ZenonT(90) DEF Charge, IInv, TypeOK, UsageCoversLeaves, Operations
<1>2. usage' = [usage EXCEPT ![o] = u] /\ active' = active
  BY ZenonT(90) DEF Charge
<1>3. RecordKept(usage[o], u)
  <2>1. /\ u.scope_id = usage[o].scope_id /\ u.unknown_spend = usage[o].unknown_spend
        /\ u.attempts = SaturatingAdd(usage[o].attempts, d.attempts)
    BY ZenonT(90), <1>1 DEF UsageRecord
  <2>2. usage[o].attempts \in Nat /\ d.attempts \in Nat
    BY <1>1, BoundsAssumption DEF UsageRecord
  <2> QED
    BY <2>1, <2>2, BoundsAssumption DEF RecordKept, SaturatingAdd, Saturated
<1> HIDE DEF u, o
<1>4. usage \in [DOMAIN usage -> UsageRecord]
  BY ZenonT(90) DEF IInv, TypeOK
<1> QED
  BY <1>1, <1>2, <1>3, <1>4, UnchangedRecord DEF RecordsKept

(* Every critical section keeps the usage records.                         *)
LEMMA RecordsStep ==
    ASSUME IInv, [Next]_vars
    PROVE  RecordsKept
<1>1. ASSUME NEW c \in Clients, ReserveAdmitted(c) PROVE RecordsKept
  BY ZenonT(90), <1>1, AdmitsRecords DEF ReserveAdmitted, Selects, Selectable, AlreadyKnown, NewLeaf
<1>2. ASSUME NEW c \in Clients, WakeAdmitted(c) \/ TimeoutAdmitted(c)
      PROVE RecordsKept
  <2>1. Leaf(c) \in queue /\ Admits(c, Leaf(c), queue)
    BY ZenonT(90), <1>2 DEF WakeAdmitted, TimeoutAdmitted, IsNextAdmissible
  <2>2. Leaf(c).request.operation_id \notin DOMAIN usage
    BY <2>1 DEF IInv, UsageCoversLeaves, Operations, Queued
  <2> QED
    BY ZenonT(90), <2>1, <2>2, AdmitsRecords
<1>3. ASSUME NEW c \in Clients, MarkDraining(c) PROVE RecordsKept
  BY <1>3, DrainsRecords DEF MarkDraining
<1>4. ASSUME NEW r \in active, MarkActiveDraining(r) PROVE RecordsKept
  BY <1>4, DrainsRecords DEF MarkActiveDraining
<1>5. ASSUME NEW p \in Parents, MarkDescendantsDraining(p) PROVE RecordsKept
  BY ZenonT(90), <1>5, DrainsRecords DEF MarkDescendantsDraining
<1>6. ASSUME NEW c \in Clients, ReleaseReservation(c) PROVE RecordsKept
  BY ZenonT(90), <1>6, KeepsRecords DEF ReleaseReservation, Frees, domain
<1>7. ASSUME NEW c \in Clients,
             (\E r \in Requests : ValidateRequest(c, r)) \/ ReserveRefused(c) \/ ReserveUndone(c)
               \/ ReserveQueued(c) \/ WakeFenced(c) \/ WakeWaits(c) \/ TimeoutUndone(c)
               \/ MarkProviderInFlight(c)
      PROVE  RecordsKept
  BY ZenonT(90), <1>7, KeepsRecords DEF ValidateRequest, ReserveRefused, ReserveUndone, ReserveQueued,
     WakeFenced, WakeWaits, TimeoutUndone, MarkProviderInFlight, domain
<1>8. ASSUME NEW r, ObserveProviderComplete(r) \/ ReconcileDraining(r) PROVE RecordsKept
  BY ZenonT(90), <1>8, KeepsRecords DEF ObserveProviderComplete, ReconcileDraining, Frees
<1>9. ASSUME NEW cfg, Reconfigure(cfg) PROVE RecordsKept
  BY <1>9, KeepsRecords DEF Reconfigure
<1>10. CASE UNCHANGED vars
  BY <1>10, KeepsRecords DEF vars, domain
<1> QED
  BY ZenonT(90), ChargeRecords, <1>1, <1>2, <1>3, <1>4, <1>5, <1>6, <1>7, <1>8, <1>9, <1>10
     DEF Next, ClientStep, ControlStep

(* The step turns leaves to draining, or leaves the draining ones alone,   *)
(* or frees a leaf that is active or whose provider is not in flight.      *)
LEMMA DrainingShape ==
    ASSUME IInv, [Next]_vars
    PROVE  \/ draining' = draining
           \/ \E R \in SUBSET active : Drains(R)
           \/ \E r \in Occupied : /\ draining' = draining \ {r}
                                  /\ r \in active \/ r.operation_id \notin in_flight
<1>1. ASSUME NEW c \in Clients, ReleaseReservation(c)
      PROVE  \/ draining' = draining
             \/ \E r \in Occupied : /\ draining' = draining \ {r}
                                    /\ r \in active \/ r.operation_id \notin in_flight
  BY ZenonT(90), <1>1 DEF ReleaseReservation, Frees, domain, Occupied
<1>2. ASSUME NEW r \in draining, ReconcileDraining(r)
      PROVE  r \in Occupied /\ draining' = draining \ {r} /\ r.operation_id \notin in_flight
  BY <1>2 DEF ReconcileDraining, Frees, Occupied
<1>3. ASSUME NEW c \in Clients, MarkDraining(c) PROVE \E R \in SUBSET active : Drains(R)
  BY <1>3 DEF MarkDraining
<1>4. ASSUME NEW r \in active, MarkActiveDraining(r) PROVE \E R \in SUBSET active : Drains(R)
  BY <1>4 DEF MarkActiveDraining
<1>5. ASSUME NEW p \in Parents, MarkDescendantsDraining(p)
      PROVE \E R \in SUBSET active : Drains(R)
  BY ZenonT(90), <1>5 DEF MarkDescendantsDraining
<1>6. ASSUME NEW c \in Clients,
             (\E r \in Requests : ValidateRequest(c, r)) \/ ReserveRefused(c) \/ ReserveUndone(c)
               \/ ReserveAdmitted(c) \/ ReserveQueued(c) \/ WakeFenced(c) \/ WakeAdmitted(c)
               \/ WakeWaits(c) \/ TimeoutAdmitted(c) \/ TimeoutUndone(c)
               \/ MarkProviderInFlight(c) \/ (\E d \in Deltas : Charge(c, d))
      PROVE  draining' = draining
  BY ZenonT(90),
     <1>6 DEF ValidateRequest, ReserveRefused, ReserveUndone, ReserveAdmitted, ReserveQueued,
     WakeFenced, WakeAdmitted, WakeWaits, TimeoutAdmitted, TimeoutUndone, MarkProviderInFlight,
     Charge, domain
<1>7. ASSUME NEW r, ObserveProviderComplete(r) PROVE draining' = draining
  BY ZenonT(90), <1>7 DEF ObserveProviderComplete
<1>8. ASSUME NEW cfg, Reconfigure(cfg) PROVE draining' = draining
  BY <1>8 DEF Reconfigure
<1>9. CASE UNCHANGED vars
  BY <1>9 DEF vars, domain
<1> QED
  BY ZenonT(90), <1>1, <1>2, <1>3, <1>4, <1>5, <1>6, <1>7, <1>8, <1>9
     DEF Next, ClientStep, ControlStep

(* A draining leaf keeps its slot while its provider request is in flight, *)
(* whichever of release, Drop, reconciliation and cancellation runs.       *)
THEOREM DrainingLeavesKeepCapacity == Spec => DrainingKeepsCapacity
<1>1. ASSUME IInv, [Next]_vars, NEW r \in draining, r.operation_id \in in_flight
      PROVE  r \in draining' /\ r \notin active'
  <2>1. r \notin active /\ r \in Occupied
    BY ZenonT(90), <1>1 DEF IInv, OneLeafPerOperation, Occupied
  <2>2. r \notin active'
    BY ZenonT(90), <1>1, <2>1, AdmissionShape DEF Admission, NoAdmission
  <2>3. r \in draining'
    BY ZenonT(90), <1>1, <2>1, DrainingShape DEF Drains
  <2> QED
    BY ZenonT(90), <2>2, <2>3
<1> DEFINE A == \A r \in draining : r.operation_id \in in_flight =>
                   r \in draining' /\ r \notin active'
<1>2. IInv /\ [Next]_vars => [A]_vars
  BY ZenonT(90), <1>1
<1> QED
  BY <1>2, IInvInvariant, PTL DEF Spec, DrainingKeepsCapacity

(* A cancellation that finds the provider in flight reports the spend as   *)
(* unknown, and neither a later charge nor reserve withdraws the report.   *)
THEOREM LostSpendStaysReported == Spec => LostSpendIsReported
<1>1. ASSUME IInv, [Next]_vars, NEW r \in active \cap draining', r.operation_id \in in_flight
      PROVE  usage'[r.operation_id].unknown_spend
  <2>1. r \notin draining
    BY ZenonT(90), <1>1 DEF IInv, OneLeafPerOperation
  <2>2. PICK R \in SUBSET active : Drains(R)
    <3>1. ~(draining' \subseteq draining)
      BY <2>1
    <3> QED
      BY <1>1, <3>1, DrainingShape
  <2>3. r \in R
    BY <2>1, <2>2 DEF Drains
  <2> QED
    BY ZenonT(90), <1>1, <2>2, <2>3, DrainsRecords
<1> DEFINE A == /\ \A r \in active \cap draining' :
                      r.operation_id \in in_flight => usage'[r.operation_id].unknown_spend
                /\ \A o \in DOMAIN usage :
                      usage[o].unknown_spend => usage'[o].unknown_spend
<1>2. IInv /\ [Next]_vars => [A]_vars
  BY ZenonT(90), <1>1, RecordsStep DEF RecordsKept, RecordKept
<1> QED
  BY <1>2, IInvInvariant, PTL DEF Spec, LostSpendIsReported

(* Only an admission makes a leaf active.                                  *)
LEMMA AdmittersOnly ==
    ASSUME [Next]_vars, ~(active' \subseteq active)
    PROVE  \E c \in Clients : ReserveAdmitted(c) \/ WakeAdmitted(c) \/ TimeoutAdmitted(c)
<1>1. ASSUME NEW c \in Clients, ClientStep(c)
      PROVE  ReserveAdmitted(c) \/ WakeAdmitted(c) \/ TimeoutAdmitted(c)
  BY ZenonT(90), <1>1 DEF ClientStep, ValidateRequest, ReserveRefused, ReserveUndone, ReserveQueued,
     WakeFenced, WakeWaits, TimeoutUndone, ReleaseReservation, Frees, MarkDraining, Drains,
     MarkProviderInFlight, Charge, domain
<1>2. ~ControlStep
  BY ZenonT(90)
     DEF ControlStep, MarkActiveDraining, ObserveProviderComplete, ReconcileDraining, Frees,
     MarkDescendantsDraining, Reconfigure, Drains
<1>3. ~UNCHANGED vars
  BY DEF vars, domain
<1> QED
  BY <1>1, <1>2, <1>3 DEF Next

(* Two leaves of the queue never carry the same ticket.                    *)
LEMMA TicketsDiffer ==
    ASSUME IInv, NEW e \in queue, NEW f \in queue, e.ticket = f.ticket
    PROVE  e = f
<1>1. PICK c \in Clients : Waiting(c) /\ Leaf(c) = e
  BY ZenonT(90) DEF IInv, EveryLeafIsOwned
<1>2. PICK d \in Clients : Waiting(d) /\ Leaf(d) = f
  BY DEF IInv, EveryLeafIsOwned
<1>3. ticket[c] = ticket[d]
  BY <1>1, <1>2 DEF Leaf
<1> QED
  BY <1>1, <1>2, <1>3 DEF IInv, CallsOK

(* Among queued leaves of one class that ask for the same lanes, reserve   *)
(* admits in the order of their tickets: a new call never overtakes one    *)
(* that waits, and no waiting thread overtakes an earlier one.             *)
THEOREM AdmissionIsFifoWithinClass == Spec => FifoWithinClass
<1>1. ASSUME IInv, [Next]_vars, NEW r \in active' \ active, NEW f \in queue,
             f.request # r, f.request.queue_class = r.queue_class,
             f.request.lanes = r.lanes
      PROVE  \E e \in queue : e.request = r /\ e.ticket < f.ticket
  <2>1. queue \subseteq [ticket : Nat, request : Requests] /\ next_ticket \in Nat
    BY ZenonT(90), <1>1 DEF IInv, TypeOK
  <2>2. ASSUME NEW c \in Clients, ReserveAdmitted(c) PROVE FALSE
    <3>1. r = req[c] /\ IsNextAdmissible(NewLeaf(c), Pushed(c))
      BY ZenonT(90), <2>2 DEF ReserveAdmitted, Admits, NewLeaf
    <3>2. NewLeaf(c).request = r /\ NewLeaf(c).ticket = next_ticket
      BY <3>1 DEF NewLeaf
    <3>3. CanFit(f.request) /\ ~Precedes(f, NewLeaf(c))
      BY ZenonT(90), <1>1, <3>1, <3>2, FitByLanes DEF IsNextAdmissible, Pushed
    <3>4. f.ticket < next_ticket
      BY ZenonT(90), <1>1 DEF IInv, TicketsBelowNext
    <3>5. f.request.queue_class = NewLeaf(c).request.queue_class
      BY <1>1, <3>2
    <3> QED
      BY <3>2, <3>3, <3>4, <3>5 DEF Precedes
  <2>3. ASSUME NEW c \in Clients, WakeAdmitted(c) \/ TimeoutAdmitted(c)
        PROVE  \E e \in queue : e.request = r /\ e.ticket < f.ticket
    <3>1. r = req[c] /\ IsNextAdmissible(Leaf(c), queue)
      BY ZenonT(90), <2>3 DEF WakeAdmitted, TimeoutAdmitted, Admits, Leaf
    <3>2. Leaf(c) \in queue /\ Leaf(c).request = r
      BY ZenonT(90), <3>1 DEF IsNextAdmissible, Leaf
    <3>3. CanFit(f.request) /\ ~Precedes(f, Leaf(c))
      BY ZenonT(90), <1>1, <3>1, <3>2, FitByLanes DEF IsNextAdmissible
    <3>4. f.ticket # Leaf(c).ticket
      BY ZenonT(90), <1>1, <3>2, TicketsDiffer
    <3>5. f.ticket \in Nat /\ Leaf(c).ticket \in Nat
      BY ZenonT(90), <2>1, <3>2
    <3>6. Leaf(c).ticket < f.ticket
      BY <1>1, <3>2, <3>3, <3>4, <3>5 DEF Precedes
    <3> QED
      BY ZenonT(90), <3>2, <3>6
  <2>4. ~(active' \subseteq active)
    OBVIOUS
  <2> QED
    BY ZenonT(90), <1>1, <2>2, <2>3, <2>4, AdmittersOnly
<1> DEFINE A == \A r \in active' \ active : \A f \in queue :
                    /\ f.request # r
                    /\ f.request.queue_class = r.queue_class
                    /\ f.request.lanes = r.lanes
                    => \E e \in queue : e.request = r /\ e.ticket < f.ticket
<1>2. IInv /\ [Next]_vars => [A]_vars
  BY <1>1
<1> QED
  BY <1>2, IInvInvariant, PTL DEF Spec, FifoWithinClass

-----------------------------------------------------------------------------
(* The usage record of an admitted leaf is in the scope of the leaf, so    *)
(* that releasing the leaf leaves its scope in use.                        *)
AdmittedScopes == \A r \in Occupied : usage[r.operation_id].scope_id = ScopeOf(r)

HeldScopes == {ScopeOf(r) : r \in Held}
UsageScopes == {usage[o].scope_id : o \in DOMAIN usage}

(* Every critical section keeps the records of the admitted leaves.        *)
LEMMA AdmittedScopesStep ==
    ASSUME IInv, AdmittedScopes, [Next]_vars
    PROVE  AdmittedScopes'
<1>1. RecordsKept
  BY RecordsStep
<1>2. ASSUME NEW r \in Occupied
      PROVE  usage'[r.operation_id].scope_id = ScopeOf(r)
  BY ZenonT(90), <1>1 DEF RecordsKept, RecordKept, AdmittedScopes, IInv, UsageCoversLeaves, Operations
<1>3. \A r \in Occupied' : r \in Occupied \/ r \in active' \ active
  BY ZenonT(90), AdmissionShape DEF Admission, NoAdmission, Occupied
<1>4. \A r \in Occupied' : usage'[r.operation_id].scope_id = ScopeOf(r)
  BY ZenonT(90), <1>1, <1>2, <1>3 DEF RecordsKept
<1> QED
  BY ZenonT(90), <1>4 DEF AdmittedScopes, ScopeOf

(* ScopeBudgetsMatchUse in terms of the scopes in use.                     *)
LEMMA MatchMeaning ==
    ScopeBudgetsMatchUse <=>
        /\ DOMAIN scope_budgets = HeldScopes \cup UsageScopes
        /\ \A r \in Held : scope_budgets[ScopeOf(r)] = r.budget
  BY ZenonT(90) DEF ScopeBudgetsMatchUse, HeldScopes, UsageScopes, Held

(* The same of the next state.                                             *)
LEMMA MatchMeaningNext ==
    ScopeBudgetsMatchUse' <=>
        /\ DOMAIN scope_budgets' = HeldScopes' \cup UsageScopes'
        /\ \A r \in Held' : scope_budgets'[ScopeOf(r)] = r.budget
  BY DEF ScopeBudgetsMatchUse, HeldScopes, UsageScopes, Held, ScopeOf

(* A step adds to the scopes of the usage records only the scope of a leaf *)
(* that it admits.                                                         *)
LEMMA ScopesNext ==
    ASSUME IInv, [Next]_vars
    PROVE  /\ HeldScopes' = {ScopeOf(r) : r \in Held'}
           /\ HeldScopes' \cup UsageScopes' = HeldScopes' \cup UsageScopes
<1>1. HeldScopes' = {ScopeOf(r) : r \in Held'}
  BY ZenonT(90) DEF HeldScopes, ScopeOf
<1>2. RecordsKept
  BY RecordsStep
<1>3. UsageScopes \subseteq UsageScopes'
  BY ZenonT(90), <1>2 DEF RecordsKept, RecordKept, UsageScopes
<1>4. ASSUME NEW o \in DOMAIN usage' PROVE usage'[o].scope_id \in HeldScopes' \cup UsageScopes
  <2>1. CASE o \in DOMAIN usage
    BY ZenonT(90), <1>2, <2>1 DEF RecordsKept, RecordKept, UsageScopes
  <2>2. CASE o \notin DOMAIN usage
    <3>1. PICK r \in Requests : Admission(r)
      BY <2>2, AdmissionShape DEF NoAdmission
    <3>2. o = r.operation_id /\ r \in active' \ active
      BY ZenonT(90), <2>2, <3>1 DEF Admission, Occupied
    <3>3. usage'[o].scope_id = ScopeOf(r) /\ r \in Held'
      BY ZenonT(90), <1>2, <3>2 DEF RecordsKept, RecordKept, Held, Occupied
    <3> QED
      BY ZenonT(90), <1>1, <3>3
  <2> QED
    BY ZenonT(90), <2>1, <2>2
<1>5. UsageScopes' \subseteq HeldScopes' \cup UsageScopes
  BY <1>4 DEF UsageScopes
<1> QED
  BY <1>1, <1>3, <1>5

(* The ways in which a step changes the retained budgets: it keeps them    *)
(* and frees at most a leaf that usage still covers; it retains the budget *)
(* of the leaf it selects; it drops those of removed leaves that nothing   *)
(* uses any longer.                                                        *)
KeepsBudgets ==
    /\ scope_budgets' = scope_budgets
    /\ Held' \subseteq Held /\ Held \ Held' \subseteq Occupied

RetainsBudget(r) == Selection(r) /\ scope_budgets' = WithScopeBudget(r)

DropsBudgets ==
    /\ Held' \subseteq Held /\ Occupied' = Occupied /\ UsageScopes' = UsageScopes
    /\ \E scopes : /\ scope_budgets' = WithoutUnusedScopes(scopes, queue', active, draining)
                   /\ \A r \in Held \ Held' : ScopeOf(r) \in scopes

(* A step that keeps the budgets keeps them matched to their use.          *)
LEMMA KeepsMatch ==
    ASSUME IInv, AdmittedScopes, ScopeBudgetsMatchUse, [Next]_vars, KeepsBudgets
    PROVE  ScopeBudgetsMatchUse'
<1>1. /\ DOMAIN scope_budgets = HeldScopes \cup UsageScopes
      /\ \A r \in Held : scope_budgets[ScopeOf(r)] = r.budget
  BY ZenonT(90), MatchMeaning
<1>2. \A r \in Occupied : ScopeOf(r) \in UsageScopes
  BY ZenonT(90) DEF AdmittedScopes, UsageScopes, IInv, UsageCoversLeaves, Operations
<1>3. HeldScopes' \cup UsageScopes = HeldScopes \cup UsageScopes
  BY <1>2, ScopesNext DEF KeepsBudgets, HeldScopes
<1> QED
  BY ZenonT(90), <1>1, <1>3, ScopesNext, MatchMeaningNext DEF KeepsBudgets

(* So does a step that retains the budget of a new leaf.                   *)
LEMMA RetainsMatch ==
    ASSUME IInv, ScopeBudgetsMatchUse, [Next]_vars, NEW r \in Requests, RetainsBudget(r)
    PROVE  ScopeBudgetsMatchUse'
<1>1. /\ DOMAIN scope_budgets = HeldScopes \cup UsageScopes
      /\ \A t \in Held : scope_budgets[ScopeOf(t)] = t.budget
  BY ZenonT(90), MatchMeaning
<1>2. /\ Held' = Held \cup {r}
      /\ ScopeOf(r) \in DOMAIN scope_budgets => scope_budgets[ScopeOf(r)] = r.budget
      /\ scope_budgets' = WithScopeBudget(r)
  BY ZenonT(90) DEF RetainsBudget, Selection, Selectable
<1>3. DOMAIN scope_budgets' = DOMAIN scope_budgets \cup {ScopeOf(r)}
  BY <1>2 DEF WithScopeBudget
<1>4. /\ \A s \in DOMAIN scope_budgets : scope_budgets'[s] = scope_budgets[s]
      /\ scope_budgets'[ScopeOf(r)] = r.budget
  BY ZenonT(90), <1>2 DEF WithScopeBudget
<1>5. HeldScopes' = HeldScopes \cup {ScopeOf(r)}
  BY <1>2, ScopesNext DEF HeldScopes
<1>6. \A t \in Held : ScopeOf(t) \in DOMAIN scope_budgets
  BY ZenonT(90), <1>1 DEF HeldScopes
<1>7. \A t \in Held' : scope_budgets'[ScopeOf(t)] = t.budget
  BY ZenonT(90), <1>1, <1>2, <1>4, <1>6
<1> QED
  BY ZenonT(90), <1>1, <1>3, <1>5, <1>7, ScopesNext, MatchMeaningNext

(* So does a step that drops the budgets no longer used.                   *)
LEMMA DropsMatch ==
    ASSUME IInv, ScopeBudgetsMatchUse, [Next]_vars, DropsBudgets
    PROVE  ScopeBudgetsMatchUse'
<1>1. /\ DOMAIN scope_budgets = HeldScopes \cup UsageScopes
      /\ \A r \in Held : scope_budgets[ScopeOf(r)] = r.budget
  BY ZenonT(90), MatchMeaning
<1>2. PICK scopes : /\ scope_budgets' = WithoutUnusedScopes(scopes, queue', active, draining)
                    /\ \A r \in Held \ Held' : ScopeOf(r) \in scopes
  BY DEF DropsBudgets
<1>3. \A s : ScopeInUse(s, queue', active, draining) <=> s \in HeldScopes' \cup UsageScopes
  <2>1. Held' = {e.request : e \in queue'} \cup active \cup draining
    BY ZenonT(90) DEF DropsBudgets, Held, Queued, Occupied
  <2> QED
    BY <2>1, ScopesNext DEF ScopeInUse, UsageScopes
<1>4. DOMAIN scope_budgets' = {s \in DOMAIN scope_budgets :
                                 s \in scopes => s \in HeldScopes' \cup UsageScopes}
  BY <1>2, <1>3 DEF WithoutUnusedScopes
<1>5. HeldScopes' \subseteq HeldScopes /\ HeldScopes \subseteq HeldScopes' \cup scopes
  BY ZenonT(90), <1>2, ScopesNext DEF DropsBudgets, HeldScopes
<1>6. DOMAIN scope_budgets' = HeldScopes' \cup UsageScopes
  BY ZenonT(90), <1>1, <1>4, <1>5
<1>7. \A s \in DOMAIN scope_budgets' : scope_budgets'[s] = scope_budgets[s]
  BY ZenonT(90), <1>2 DEF WithoutUnusedScopes
<1>8. \A r \in Held' : r \in Held /\ ScopeOf(r) \in DOMAIN scope_budgets'
  BY ZenonT(90), <1>6, ScopesNext DEF DropsBudgets
<1>9. \A r \in Held' : scope_budgets'[ScopeOf(r)] = r.budget
  BY ZenonT(90), <1>1, <1>7, <1>8
<1> QED
  BY ZenonT(90), <1>6, <1>9, ScopesNext, MatchMeaningNext

(* A call that is taken back leaves the retained budgets as it found them. *)
LEMMA UndoneBudgets ==
    ASSUME IInv, ScopeBudgetsMatchUse, NEW c \in Clients, ReserveUndone(c)
    PROVE  scope_budgets' = scope_budgets
<1> DEFINE s == ScopeOf(req[c])
<1>1. DOMAIN scope_budgets = HeldScopes \cup UsageScopes
  BY ZenonT(90), MatchMeaning
<1>2. ScopeInUse(s, queue, active, draining) <=> s \in DOMAIN scope_budgets
  BY ZenonT(90), <1>1 DEF ScopeInUse, HeldScopes, UsageScopes, Held, Queued, Occupied
<1>3. scope_budgets = [x \in DOMAIN scope_budgets |-> scope_budgets[x]]
  BY ZenonT(90) DEF IInv, TypeOK
<1>4. CASE s \in DOMAIN scope_budgets
  <2>1. scope_budgets' = WithScopeBudget(req[c])
    BY ZenonT(90), <1>2, <1>4 DEF ReserveUndone
  <2>2. DOMAIN scope_budgets \cup {s} = DOMAIN scope_budgets
    BY <1>4
  <2> QED
    BY <1>3, <2>1, <2>2 DEF WithScopeBudget
<1>5. CASE s \notin DOMAIN scope_budgets
  <2>1. scope_budgets' = [x \in DOMAIN scope_budgets \ {s} |-> scope_budgets[x]]
    BY ZenonT(90), <1>2, <1>5 DEF ReserveUndone
  <2>2. DOMAIN scope_budgets \ {s} = DOMAIN scope_budgets
    BY <1>5
  <2> QED
    BY <1>3, <2>1, <2>2
<1> QED
  BY ZenonT(90), <1>4, <1>5

(* Every critical section changes the retained budgets in one of the three *)
(* ways.                                                                   *)
LEMMA BudgetsShape ==
    ASSUME IInv, ScopeBudgetsMatchUse, [Next]_vars
    PROVE  KeepsBudgets \/ (\E r \in Requests : RetainsBudget(r)) \/ DropsBudgets
<1>1. ASSUME NEW c \in Clients, ReserveAdmitted(c) \/ ReserveQueued(c)
      PROVE  \E r \in Requests : RetainsBudget(r)
  <2>1. Selection(req[c])
    BY ZenonT(90), <1>1, SelectsShape
  <2> QED
    BY ZenonT(90), <1>1, <2>1 DEF Selection, RetainsBudget, ReserveAdmitted, ReserveQueued
<1>2. ASSUME queue' = queue, Occupied' \subseteq Occupied, scope_budgets' = scope_budgets
      PROVE  KeepsBudgets
  BY ZenonT(90), <1>2 DEF KeepsBudgets, Held, Queued
<1>3. ASSUME NEW c \in Clients, WakeAdmitted(c) \/ TimeoutAdmitted(c) PROVE KeepsBudgets
  <2>1. /\ queue' = queue \ {Leaf(c)} /\ active' = active \cup {req[c]}
        /\ draining' = draining /\ scope_budgets' = scope_budgets
    BY ZenonT(90), <1>3 DEF WakeAdmitted, TimeoutAdmitted, Admits, Leaf
  <2>2. Leaf(c) \in queue /\ Leaf(c).request = req[c]
    BY ZenonT(90), <1>3 DEF WakeAdmitted, TimeoutAdmitted, IsNextAdmissible, Leaf
  <2>3. Queued' \subseteq Queued /\ Queued \subseteq Queued' \cup {req[c]} /\ req[c] \in Queued
    BY ZenonT(90), <2>1, <2>2 DEF Queued
  <2>4. Held' = Held
    BY ZenonT(90), <2>1, <2>3 DEF Held, Occupied
  <2> QED
    BY <2>1, <2>4 DEF KeepsBudgets
<1>4. ASSUME NEW c \in Clients, TimeoutUndone(c) PROVE DropsBudgets
  <2>1. /\ queue' = queue \ {Leaf(c)} /\ active' = active /\ draining' = draining
        /\ usage' = usage
        /\ scope_budgets' = WithoutUnusedScopes({ScopeOf(req[c])}, queue', active, draining)
    BY ZenonT(90), <1>4 DEF TimeoutUndone
  <2>2. Queued' \subseteq Queued /\ Queued \ Queued' \subseteq {req[c]}
    BY SMTT(30), <2>1 DEF Queued, Leaf
  <2>3. Held' \subseteq Held /\ Held \ Held' \subseteq {req[c]} /\ Occupied' = Occupied
    BY ZenonT(90), <2>1, <2>2 DEF Held, Occupied
  <2>4. UsageScopes' = UsageScopes
    BY ZenonT(90), <2>1 DEF UsageScopes
  <2> QED
    BY <2>1, <2>3, <2>4 DEF DropsBudgets
<1>5. ASSUME NEW p \in Parents, MarkDescendantsDraining(p) PROVE DropsBudgets
  <2> DEFINE evicted == {e \in queue : e.request.parent_operation_id = p}
             drained == {r \in active : r.parent_operation_id = p}
             removed == {e.request : e \in evicted}
             scopes  == {ScopeOf(r) : r \in removed}
  <2>1. /\ queue' = queue \ evicted /\ Drains(drained)
        /\ scope_budgets' = WithoutUnusedScopes(scopes, queue', active, draining)
    BY ZenonT(90), <1>5 DEF MarkDescendantsDraining
  <2>2. Queued' \subseteq Queued /\ Queued \ Queued' \subseteq removed
    BY ZenonT(90), <2>1 DEF Queued
  <2>3. Occupied' = Occupied
    BY ZenonT(90), <2>1 DEF Drains, Occupied
  <2>4. UsageScopes' = UsageScopes
    <3>1. DOMAIN usage' = DOMAIN usage
      BY <2>1 DEF Drains
    <3> QED
      BY ZenonT(90), <3>1, RecordsStep DEF RecordsKept, RecordKept, UsageScopes
  <2>5. Held' \subseteq Held /\ \A r \in Held \ Held' : ScopeOf(r) \in scopes
    BY <2>2, <2>3 DEF Held
  <2> HIDE DEF scopes
  <2> QED
    BY ZenonT(90), <2>1, <2>3, <2>4, <2>5 DEF DropsBudgets
<1>6. ASSUME NEW c \in Clients, ReleaseReservation(c) PROVE KeepsBudgets
  BY ZenonT(90), <1>2, <1>6 DEF ReleaseReservation, Frees, domain, Occupied
<1>7. ASSUME NEW c \in Clients, MarkDraining(c) PROVE KeepsBudgets
  BY ZenonT(90), <1>2, <1>7 DEF MarkDraining, Drains, Occupied
<1>8. ASSUME NEW r \in active, MarkActiveDraining(r) PROVE KeepsBudgets
  BY ZenonT(90), <1>2, <1>8 DEF MarkActiveDraining, Drains, Occupied
<1>9. ASSUME NEW c \in Clients,
             (\E r \in Requests : ValidateRequest(c, r)) \/ ReserveRefused(c) \/ WakeFenced(c)
               \/ WakeWaits(c) \/ MarkProviderInFlight(c) \/ (\E d \in Deltas : Charge(c, d))
      PROVE  KeepsBudgets
  BY ZenonT(90), <1>2, <1>9 DEF ValidateRequest, ReserveRefused, WakeFenced, WakeWaits,
     MarkProviderInFlight, Charge, domain, Occupied
<1>10. ASSUME NEW c \in Clients, ReserveUndone(c) PROVE KeepsBudgets
  BY ZenonT(90), <1>2, <1>10, UndoneBudgets DEF ReserveUndone, Occupied
<1>11. ASSUME NEW r, ObserveProviderComplete(r) \/ ReconcileDraining(r) PROVE KeepsBudgets
  BY ZenonT(90), <1>2, <1>11 DEF ObserveProviderComplete, ReconcileDraining, Frees, Occupied
<1>12. ASSUME NEW cfg, Reconfigure(cfg) PROVE KeepsBudgets
  BY ZenonT(90), <1>2, <1>12 DEF Reconfigure, Occupied
<1>13. CASE UNCHANGED vars
  BY ZenonT(90), <1>2, <1>13 DEF vars, domain, Occupied
<1> QED
  BY ZenonT(90), <1>1, <1>3, <1>4, <1>5, <1>6, <1>7, <1>8, <1>9, <1>10, <1>11, <1>12, <1>13
     DEF Next, ClientStep, ControlStep

(* The domain retains a budget for exactly the scopes that a leaf or a     *)
(* usage record refers to, and every leaf of a scope has that budget, in   *)
(* whatever order calls are taken back, evicted, released and charged.     *)
THEOREM RetainedBudgetsMatchUse == Spec => []ScopeBudgetsMatchUse
<1>1. Init => AdmittedScopes /\ ScopeBudgetsMatchUse
  BY DEF Init, AdmittedScopes, ScopeBudgetsMatchUse, Queued, Occupied
<1>2. IInv /\ AdmittedScopes /\ ScopeBudgetsMatchUse /\ [Next]_vars
        => AdmittedScopes' /\ ScopeBudgetsMatchUse'
  BY AdmittedScopesStep, BudgetsShape, KeepsMatch, RetainsMatch, DropsMatch
<1> QED
  BY <1>1, <1>2, IInvInvariant, PTL DEF Spec

-----------------------------------------------------------------------------
(* A total grows with its terms.                                           *)
LEMMA TotalMonotone ==
    ASSUME NEW S, IsFiniteSet(S), NEW n, NEW m,
           \A r \in S : n[r] \in Nat /\ m[r] \in Nat /\ n[r] <= m[r]
    PROVE  Total(S, n) \in Nat /\ Total(S, m) \in Nat /\ Total(S, n) <= Total(S, m)
<1>1. IsFiniteSet(Units(S, n)) /\ IsFiniteSet(Units(S, m))
  BY ZenonT(90), UnitsFinite
<1>2. \A r \in S : (1 .. n[r]) \subseteq (1 .. m[r])
  OBVIOUS
<1>3. Units(S, n) \subseteq Units(S, m)
  BY <1>2 DEF Units
<1> QED
  BY ZenonT(90), <1>1, <1>3, FS_Subset, FS_CardinalityType DEF Total

(* Terms that are zero add nothing to a total.                             *)
LEMMA TotalOfZeroes ==
    ASSUME NEW S, NEW T, S \subseteq T, NEW n, NEW m,
           \A r \in S : n[r] = m[r], \A r \in T \ S : m[r] = 0
    PROVE  Total(S, n) = Total(T, m)
<1>1. \A r \in T \ S : 1 .. m[r] = {}
  OBVIOUS
<1>2. Units(S, n) = Units(T, m)
  BY <1>1 DEF Units
<1> QED
  BY ZenonT(90), <1>2 DEF Total

(* Totals of equal terms.                                                  *)
LEMMA TotalOfEquals ==
    ASSUME NEW S, NEW n, NEW m, \A r \in S : n[r] = m[r]
    PROVE  Total(S, n) = Total(S, m)
  BY TotalOfZeroes

(* What saturating_add returns is a u64, and no less than what was added   *)
(* to; it grows with that.                                                 *)
LEMMA SaturatingAddBounds ==
    ASSUME NEW g \in Nat, NEW u \in Nat, NEW a \in Nat, g <= u, u <= U64Max
    PROVE  /\ SaturatingAdd(g, a) <= SaturatingAdd(u, a)
           /\ g <= SaturatingAdd(u, a)
           /\ SaturatingAdd(u, a) <= U64Max
  BY BoundsAssumption DEF SaturatingAdd, Saturated

(* What the attempts granted have to do with those recorded: every granted *)
(* attempt was recorded, and recorded amounts are u64.                     *)
GrantsOK ==
    /\ IsFiniteSet(DOMAIN usage)
    /\ \A o \in Ids \ DOMAIN usage : granted[o] = 0
    /\ \A o \in DOMAIN usage : granted[o] <= usage[o].attempts /\ usage[o].attempts <= U64Max

(* Only a charge grants attempts.                                          *)
LEMMA GrantersOnly ==
    ASSUME [Next]_vars
    PROVE  granted' = granted \/ \E c \in Clients, d \in Deltas : Charge(c, d)
<1>1. ASSUME NEW c \in Clients, ClientStep(c)
      PROVE  granted' = granted \/ \E d \in Deltas : Charge(c, d)
  BY ZenonT(90),
     <1>1 DEF ClientStep, ValidateRequest, ReserveRefused, ReserveUndone, ReserveAdmitted,
     ReserveQueued, WakeFenced, WakeAdmitted, WakeWaits, TimeoutAdmitted, TimeoutUndone,
     ReleaseReservation, Frees, MarkDraining, MarkProviderInFlight
<1>2. ControlStep => granted' = granted
  BY ZenonT(90)
     DEF ControlStep, MarkActiveDraining, ObserveProviderComplete, ReconcileDraining, Frees,
     MarkDescendantsDraining, Reconfigure
<1>3. UNCHANGED vars => granted' = granted
  BY DEF vars
<1> QED
  BY <1>1, <1>2, <1>3 DEF Next

(* A record that appears is that of an admitted leaf, and empty.           *)
LEMMA NewRecords ==
    ASSUME IInv, [Next]_vars, NEW o \in DOMAIN usage', o \notin DOMAIN usage
    PROVE  usage'[o].attempts = 0 /\ o \in Ids
<1>1. PICK r \in Requests : Admission(r)
  BY ZenonT(90), AdmissionShape DEF NoAdmission
<1>2. o = r.operation_id /\ r \in active' \ active
  BY ZenonT(90), <1>1 DEF Admission, Occupied
<1> QED
  BY ZenonT(90), <1>2, RecordsStep, RequestFields DEF RecordsKept

(* A step adds at most one usage record.                                   *)
LEMMA UsageStaysFinite ==
    ASSUME IInv, IsFiniteSet(DOMAIN usage), [Next]_vars
    PROVE  IsFiniteSet(DOMAIN usage')
<1>1. DOMAIN usage' = DOMAIN usage
        \/ \E r \in Requests : DOMAIN usage' = DOMAIN usage \cup {r.operation_id}
  BY ZenonT(90), AdmissionShape DEF Admission, NoAdmission
<1>2. \A o : IsFiniteSet(DOMAIN usage \cup {o})
  BY ZenonT(90), FS_AddElement
<1> QED
  BY ZenonT(90), <1>1, <1>2

(* Every critical section keeps the grants within the recorded attempts.   *)
LEMMA GrantsStep ==
    ASSUME IInv, GrantsOK, [Next]_vars
    PROVE  GrantsOK'
<1>1. RecordsKept /\ granted \in [Ids -> Nat] /\ DOMAIN usage \subseteq Ids
      /\ usage \in [DOMAIN usage -> UsageRecord]
  BY ZenonT(90), RecordsStep DEF IInv, TypeOK
<1>2. CASE granted' = granted
  <2>1. ASSUME NEW o \in Ids \ DOMAIN usage' PROVE granted'[o] = 0
    BY ZenonT(90), <1>1, <1>2 DEF RecordsKept, GrantsOK
  <2>2. ASSUME NEW o \in DOMAIN usage'
        PROVE  granted'[o] <= usage'[o].attempts /\ usage'[o].attempts <= U64Max
    <3>1. CASE o \in DOMAIN usage
      <4>1. /\ usage[o].attempts <= usage'[o].attempts /\ usage'[o].attempts <= U64Max
            /\ granted[o] <= usage[o].attempts
        BY ZenonT(90), <1>1, <3>1 DEF RecordsKept, RecordKept, GrantsOK
      <4>2. usage[o].attempts \in Nat /\ usage'[o].attempts \in Nat /\ granted[o] \in Nat
        BY ZenonT(90), <1>1, <3>1, NextIInv DEF IInv, TypeOK, UsageRecord
      <4> QED
        BY <1>2, <4>1, <4>2
    <3>2. CASE o \notin DOMAIN usage
      BY SMTT(30), <1>2, <3>2, NewRecords, BoundsAssumption DEF GrantsOK
    <3> QED
      BY ZenonT(90), <3>1, <3>2
  <2> QED
    BY ZenonT(90), <2>1, <2>2, UsageStaysFinite DEF GrantsOK
<1>3. ASSUME NEW c \in Clients, NEW d \in Deltas, Charge(c, d) PROVE GrantsOK'
  <2> DEFINE o == req[c].operation_id
             s == usage[o].scope_id
             within == WithinBudget(usage', s, scope_budgets[s])
  <2>1. o \in DOMAIN usage /\ o \in Ids
    BY ZenonT(90), <1>1, <1>3 DEF Charge, IInv, UsageCoversLeaves, Operations
  <2>2. /\ granted' = [granted EXCEPT ![o] = IF within THEN SaturatingAdd(@, d.attempts) ELSE @]
        /\ DOMAIN usage' = DOMAIN usage
        /\ \A p \in DOMAIN usage : p # o => usage'[p] = usage[p]
    BY ZenonT(90), <1>3 DEF Charge
  <2>3. usage'[o].attempts = SaturatingAdd(usage[o].attempts, d.attempts)
    <3>1. usage' = [usage EXCEPT ![o] = [usage[o] EXCEPT
                       !.attempts = SaturatingAdd(@, d.attempts),
                       !.spend = SaturatingAdd(@, d.spend)]]
      BY ZenonT(90), <1>3 DEF Charge
    <3>2. usage[o] \in UsageRecord
      BY ZenonT(90), <1>1, <2>1
    <3> QED
      BY ZenonT(90), <2>1, <3>1, <3>2 DEF UsageRecord
  <2>4. /\ usage[o].attempts \in Nat /\ d.attempts \in Nat /\ granted[o] \in Nat
        /\ granted[o] <= usage[o].attempts /\ usage[o].attempts <= U64Max
    BY ZenonT(90), <1>1, <2>1, BoundsAssumption DEF GrantsOK, UsageRecord
  <2>5. granted'[o] = SaturatingAdd(granted[o], d.attempts) \/ granted'[o] = granted[o]
    BY ZenonT(90), <1>1, <2>1, <2>2
  <2>6. granted'[o] <= usage'[o].attempts /\ usage'[o].attempts <= U64Max
    BY ZenonT(90), <2>3, <2>4, <2>5, SaturatingAddBounds
  <2>7. \A p \in Ids : p # o => granted'[p] = granted[p]
    BY ZenonT(90), <1>1, <2>2
  <2> HIDE DEF o
  <2>8. \A p \in Ids \ DOMAIN usage : granted'[p] = 0
    BY ZenonT(90), <2>1, <2>7 DEF GrantsOK
  <2>9. \A p \in DOMAIN usage : granted'[p] <= usage'[p].attempts /\ usage'[p].attempts <= U64Max
    BY ZenonT(90), <1>1, <2>2, <2>6, <2>7 DEF GrantsOK
  <2> QED
    BY ZenonT(90), <2>2, <2>8, <2>9 DEF GrantsOK
<1> QED
  BY <1>2, <1>3, GrantersOnly

(* A step never changes the budget of a scope that has one before and      *)
(* after it.                                                               *)
LEMMA BudgetsStay ==
    ASSUME IInv, ScopeBudgetsMatchUse, [Next]_vars,
           NEW s \in DOMAIN scope_budgets, s \in DOMAIN scope_budgets'
    PROVE  scope_budgets'[s] = scope_budgets[s]
<1>1. CASE KeepsBudgets
  BY ZenonT(90), <1>1 DEF KeepsBudgets
<1>2. ASSUME NEW r, RetainsBudget(r) PROVE scope_budgets'[s] = scope_budgets[s]
  BY ZenonT(90), <1>2 DEF RetainsBudget, WithScopeBudget
<1>3. CASE DropsBudgets
  BY ZenonT(90), <1>3 DEF DropsBudgets, WithoutUnusedScopes
<1> QED
  BY ZenonT(90), <1>1, <1>2, <1>3, BudgetsShape

(* Saturating a number does not reverse an order.                          *)
LEMMA SaturatedMonotone ==
    ASSUME NEW a \in Nat, NEW b \in Nat, a <= b
    PROVE  /\ Saturated(a) \in Nat /\ Saturated(b) \in Nat
           /\ \A c \in Nat : Saturated(b) <= c => Saturated(a) <= c
  BY BoundsAssumption DEF Saturated

(* A step that charges nothing changes what a scope was granted only by    *)
(* adding operations that were granted nothing.                            *)
LEMMA UnchargedScopes ==
    ASSUME IInv, GrantsOK, ScopeBudgetsMatchUse, GrantedWithinScopeBudget, [Next]_vars,
           granted' = granted, NEW s \in DOMAIN scope_budgets'
    PROVE  Saturated(Total(OperationsIn(usage', s), granted)) <= scope_budgets'[s].max_attempts
<1> DEFINE T == OperationsIn(usage, s)
           U == OperationsIn(usage', s)
<1>1. RecordsKept /\ scope_budgets'[s].max_attempts \in Nat
  BY ZenonT(90), RecordsStep, NextIInv DEF IInv, TypeOK, Budget
<1>2. T \subseteq U
  BY ZenonT(90), <1>1 DEF RecordsKept, RecordKept, OperationsIn
<1>3. \A o \in U \ T : granted[o] = 0
  <2> SUFFICES ASSUME NEW o \in U \ T PROVE granted[o] = 0
    OBVIOUS
  <2>1. o \in DOMAIN usage' /\ o \notin DOMAIN usage
    BY ZenonT(90), <1>1 DEF RecordsKept, RecordKept, OperationsIn
  <2> QED
    BY ZenonT(90), <2>1, NewRecords DEF GrantsOK
<1>4. Total(T, granted) = Total(U, granted)
  BY <1>2, <1>3, TotalOfZeroes
<1>5. CASE T = {}
  <2>1. Units(T, granted) = {}
    BY ZenonT(90), <1>5 DEF Units
  <2>2. Total(T, granted) = 0
    BY ZenonT(90), <2>1, FS_EmptySet DEF Total
  <2> QED
    BY <1>1, <1>4, <2>2, BoundsAssumption DEF Saturated
<1>6. CASE T # {}
  <2>1. s \in DOMAIN scope_budgets
    BY ZenonT(90), <1>6 DEF OperationsIn, ScopeBudgetsMatchUse
  <2>2. scope_budgets'[s] = scope_budgets[s]
    BY ZenonT(90), <2>1, BudgetsStay
  <2> QED
    BY ZenonT(90), <1>4, <2>1, <2>2 DEF GrantedWithinScopeBudget
<1> QED
  BY ZenonT(90), <1>5, <1>6

(* A charge is granted only if what the scope's operations used, which is  *)
(* at least what they were granted, is within the budget.                  *)
LEMMA ChargedScopes ==
    ASSUME IInv, GrantsOK, GrantsOK', GrantedWithinScopeBudget, [Next]_vars,
           NEW c \in Clients, NEW d \in Deltas, Charge(c, d), NEW s \in DOMAIN scope_budgets'
    PROVE  Saturated(Total(OperationsIn(usage', s), granted')) <= scope_budgets'[s].max_attempts
<1> DEFINE o == req[c].operation_id
           T == OperationsIn(usage, s)
<1>1. /\ scope_budgets' = scope_budgets /\ DOMAIN usage' = DOMAIN usage
      /\ \/ WithinBudget(usage', usage[o].scope_id, scope_budgets[usage[o].scope_id])
         \/ granted' = [granted EXCEPT ![o] = @]
      /\ \A p \in Ids : p # o => granted'[p] = granted[p]
  BY ZenonT(90) DEF Charge, IInv, TypeOK
<1>2. RecordsKept /\ granted \in [Ids -> Nat] /\ granted' \in [Ids -> Nat]
      /\ DOMAIN usage \subseteq Ids /\ usage' \in [DOMAIN usage' -> UsageRecord]
  BY ZenonT(90), RecordsStep, NextIInv DEF IInv, TypeOK
<1>3. OperationsIn(usage', s) = T
  BY ZenonT(90), <1>1, <1>2 DEF RecordsKept, RecordKept, OperationsIn
<1>4. Saturated(Total(T, granted)) <= scope_budgets[s].max_attempts
  BY ZenonT(90), <1>1 DEF GrantedWithinScopeBudget
<1>5. ASSUME \A p \in T : granted'[p] = granted[p]
      PROVE  Saturated(Total(T, granted')) <= scope_budgets[s].max_attempts
  <2>1. Total(T, granted) = Total(T, granted')
    BY ZenonT(90), <1>5, TotalOfEquals
  <2> QED
    BY ZenonT(90), <1>4, <2>1
<1>6. CASE s # usage[o].scope_id
  <2>1. \A p \in T : granted'[p] = granted[p]
    BY ZenonT(90), <1>1, <1>2, <1>6 DEF OperationsIn
  <2> QED
    BY ZenonT(90), <1>1, <1>3, <1>5, <2>1
<1>7. CASE granted' = [granted EXCEPT ![o] = @]
  <2>1. \A p \in T : granted'[p] = granted[p]
    BY ZenonT(90), <1>2, <1>7 DEF OperationsIn
  <2> QED
    BY ZenonT(90), <1>1, <1>3, <1>5, <2>1
<1>8. CASE s = usage[o].scope_id /\ WithinBudget(usage', s, scope_budgets[s])
  <2> DEFINE m == [p \in DOMAIN usage' |-> usage'[p]["attempts"]]
  <2>1. Saturated(Total(T, m)) <= scope_budgets[s].max_attempts
    BY ZenonT(90), <1>3, <1>8 DEF WithinBudget, ScopeUsage
  <2>2. IsFiniteSet(T)
    BY ZenonT(90), FS_Subset DEF OperationsIn, GrantsOK
  <2>3. \A p \in T : granted'[p] \in Nat /\ m[p] \in Nat /\ granted'[p] <= m[p]
    BY ZenonT(90), <1>1, <1>2 DEF OperationsIn, GrantsOK, UsageRecord
  <2> HIDE DEF m
  <2>4. /\ Total(T, granted') \in Nat /\ Total(T, m) \in Nat
        /\ Total(T, granted') <= Total(T, m)
    BY ZenonT(90), <2>2, <2>3, TotalMonotone
  <2>5. scope_budgets[s].max_attempts \in Nat
    BY ZenonT(90), <1>1 DEF IInv, TypeOK, Budget
  <2>6. Saturated(Total(T, granted')) <= scope_budgets[s].max_attempts
    BY ZenonT(90), <2>1, <2>4, <2>5, SaturatedMonotone
  <2> QED
    BY ZenonT(90), <1>1, <1>3, <2>6
<1> QED
  BY ZenonT(90), <1>1, <1>6, <1>7, <1>8

(* charge_attempt never grants the operations of a scope more attempts in  *)
(* all than the scope's budget allows, however many reservations of the    *)
(* scope are admitted, released, cancelled and charged.                    *)
THEOREM GrantsStayWithinBudget == Spec => []GrantedWithinScopeBudget
<1>1. Init => GrantsOK /\ GrantedWithinScopeBudget
  BY ZenonT(90), FS_EmptySet DEF Init, GrantsOK, GrantedWithinScopeBudget
<1>2. ASSUME IInv, GrantsOK, ScopeBudgetsMatchUse, GrantedWithinScopeBudget, [Next]_vars
      PROVE  GrantsOK' /\ GrantedWithinScopeBudget'
  <2>1. GrantsOK'
    BY ZenonT(90), <1>2, GrantsStep
  <2>2. ASSUME NEW s \in DOMAIN scope_budgets'
        PROVE  Saturated(Total(OperationsIn(usage', s), granted')) <= scope_budgets'[s].max_attempts
    BY ZenonT(90), <1>2, <2>1, <2>2, GrantersOnly, UnchargedScopes, ChargedScopes
  <2> QED
    BY ZenonT(90), <2>1, <2>2 DEF GrantedWithinScopeBudget, OperationsIn, Saturated, Total, Units
<1> QED
  BY <1>1, <1>2, IInvInvariant, RetainedBudgetsMatchUse, PTL DEF Spec

(* For any number of operations and charges the budget of a scope is       *)
(* retained while it is referred to and never exceeded.                    *)
THEOREM BudgetsOfScopesHold == Spec => []ScopeBudgetsHold
<1>1. ScopeBudgetsMatchUse /\ GrantedWithinScopeBudget => ScopeBudgetsHold
  BY ZenonT(90) DEF ScopeBudgetsHold
<1> QED
  BY <1>1, RetainedBudgetsMatchUse, GrantsStayWithinBudget, PTL
=============================================================================
