----------------------------- MODULE MCAdmission ----------------------------
(***************************************************************************)
(* Instances of ManagedAdmission for TLC.  A behaviour is of one instance, *)
(* which part names, so the states of the run are the union of theirs.     *)
(***************************************************************************)
EXTENDS MCManagedAdmission

CONSTANT Pair       \* two of the clients

VARIABLE part

AllRequests == QueueRequests \cup CapacityRequests \cup BudgetRequests

(* Three clients queue, time out, retry, are fenced and drain.             *)
Queueing == INSTANCE ManagedAdmission WITH
    Requests <- QueueRequests, Configs <- {}, Deltas <- {}

(* Two clients, while the configuration narrows and widens.                *)
Capacity == INSTANCE ManagedAdmission WITH
    Requests <- CapacityRequests, InitConfig <- CapacityConfig, Deltas <- {}

(* Two clients charge the budget they share.                               *)
Budgets == INSTANCE ManagedAdmission WITH
    Requests <- BudgetRequests, InitConfig <- BudgetConfig, Configs <- {}, MaxTicket <- 3

PartsInit ==
    \/ part = "queueing" /\ Queueing!Init
    \/ part = "capacity" /\ Capacity!Init
    \/ part = "budgets" /\ Budgets!Init

PartsNext ==
    \/ part = "queueing" /\ Queueing!Next /\ UNCHANGED part
    \/ /\ part = "capacity"
       /\ (\E c \in Pair : Capacity!ClientStep(c)) \/ Capacity!ControlStep
       /\ UNCHANGED part
    \/ /\ part = "budgets"
       /\ (\E c \in Pair : Budgets!ClientStep(c)) \/ Budgets!ControlStep
       /\ UNCHANGED part

PartsSpec == PartsInit /\ [][PartsNext]_<<vars, part>>
=============================================================================
