----------------------------- MODULE MCScheduler ----------------------------
(***************************************************************************)
(* Instances of SchedulerStore for TLC.  A behaviour is of one instance,   *)
(* which part names, so the states of the run are the union of theirs.     *)
(***************************************************************************)
EXTENDS SchedulerStore, TLC

CONSTANTS o1, o2, o3, k1, k2, k3    \* the members of Operations and of Keys

VARIABLE part

(* Two processes acquire and transfer the lease of one operation.          *)
Lease == INSTANCE SchedulerStore WITH
    Operations <- {o1}, Keys <- {k1}, Roots <- {}, Faults <- {"io", "crash", "power"}

(* Two operations compete for one key, while the file may vanish.          *)
OneKey == INSTANCE SchedulerStore WITH
    Operations <- {o1, o2}, Keys <- {k1}, Holders <- {}, Roots <- {}, Cursors <- {},
    Faults <- {"io", "crash", "vanish"}

(* One process, with two operations and two keys.                          *)
TwoKeys == INSTANCE SchedulerStore WITH
    Operations <- {o1, o2}, Keys <- {k1, k2}, Holders <- {}, Roots <- {}, Cursors <- {},
    Faults <- {"io", "crash", "power"}

(* One process projects children of competing parents and roots; every     *)
(* operation has a key of its own.                                         *)
Family == INSTANCE SchedulerStore WITH Holders <- {}, Cursors <- {}, Faults <- {}
KeyOf == o1 :> k1 @@ o2 :> k2 @@ o3 :> k3

Alone(h) == \A k \in Handles \ {h} : mode[k] = "closed"

TwoKeysNext == (\E h \in Handles : Alone(h) /\ TwoKeys!Process(h)) \/ TwoKeys!PowerLoss

FamilyNext ==
    \E h \in Handles :
        /\ Alone(h)
        /\ \/ Family!Open(h)
           \/ \E o \in Operations : Family!Admit(h, o, KeyOf[o]) \/ Family!Quarantine(h, o)
           \/ \E parent, child \in Operations, root \in Roots :
                 Family!ProjectChild(h, parent, root, child)

PartsInit == Init /\ part \in {"lease", "one key", "two keys", "family"}

PartsNext ==
    \/ part = "lease" /\ Lease!Next /\ UNCHANGED part
    \/ part = "one key" /\ OneKey!Next /\ UNCHANGED part
    \/ part = "two keys" /\ TwoKeysNext /\ UNCHANGED part
    \/ part = "family" /\ FamilyNext /\ UNCHANGED part

PartsSpec == PartsInit /\ [][PartsNext]_<<vars, part>>

Symmetry == Permutations(Handles) \cup Permutations(Holders)
=============================================================================
