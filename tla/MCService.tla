----------------------------- MODULE MCService ------------------------------
(***************************************************************************)
(* The daemon and the calls its workers make, for TLC.  A behaviour is of  *)
(* one instance, which part names: of DaemonServer, in which a call is one *)
(* step; of RuntimeService, in which the admission of a leaf is one step;  *)
(* or of ManagedAdmission, in which it is the whole of it.                 *)
(***************************************************************************)
EXTENDS DaemonServer, TLC

CONSTANTS c1, c2, c3, i1, i2, i3    \* the members of Clients and of Ids
CONSTANTS t1, t2, p1, o1, k1

VARIABLES rows, snapshot, uncertain, mutex, leaf, run, call, executions, answers
VARIABLES config, next_ticket, selected, queue, leaves, draining, in_flight, cancelled,
          fenced_parents, usage, scope_budgets, pc, req, ticket, granted
VARIABLE part

runtimeVars == <<rows, snapshot, uncertain, mutex, leaf, run, call, executions, answers>>
admissionVars == <<config, next_ticket, selected, queue, leaves, draining, in_flight, cancelled,
                   fenced_parents, usage, scope_budgets, pc, req, ticket, granted>>

(* Two threads of one process, and calls that share an operation.          *)
Runtime == INSTANCE RuntimeService WITH
    Threads <- {t1, t2}, Processes <- {p1}, Home <- t1 :> p1 @@ t2 :> p1,
    Operations <- {o1}, Keys <- {k1}, Profile <- None, Capacity <- 1,
    MaxCalls <- 2, Faults <- {"io"},
    Calls <- {[kind |-> "submit", op |-> o1, key |-> None],
              [kind |-> "keyed", op |-> o1, key |-> k1],
              [kind |-> "cancel", op |-> o1, key |-> None]}

(* What the instances of ManagedAdmission have in common.                  *)
NoId == "none"
Parents == {"p"}
Lanes == {"provider", "tool"}
ProviderLane == "provider"
NoRequest == None
Configs == {}
Deltas == {}
U64Max == 3
MaxTicket == 3

Leaves == INSTANCE MCManagedAdmission WITH
    Clients <- {t1, t2}, Ids <- {"a", "b", "d", "p"}, Requests <- {}, InitConfig <- None,
    active <- leaves

(* Two threads that wait for capacity, with timeouts that expire, for a    *)
(* narrow leaf and a wide one.                                             *)
Timed == INSTANCE ManagedAdmission WITH
    Clients <- {t1, t2}, Ids <- {"a", "b", "d", "p"}, active <- leaves,
    Requests <- {r \in Leaves!QueueRequests : r.operation_id # "d"},
    InitConfig <- Leaves!QueueConfig

(* Without timeouts; a second narrow leaf, which the wide one makes room   *)
(* for.                                                                    *)
Patient == INSTANCE ManagedAdmission WITH
    Clients <- {t1, t2}, Ids <- {"a", "b", "d", "p"}, active <- leaves,
    Requests <- Leaves!QueueRequests, InitConfig <- Leaves!QueueConfig, MaxTicket <- 2

(* Every client whose frames are read sends at most one; the daemon dies   *)
(* and is poisoned.                                                        *)
Crowd ==
    \A c \in Clients : conn'[c].sent = << >> \/ (c \in Owners /\ conn'[c].sent = <<i1>>)

(* One client sends ahead and reuses identifiers.                          *)
Pipeline ==
    /\ \A c \in Clients \ {c1} : conn'[c] = NoConn
    /\ daemon # daemon' => \A d \in Daemons : daemon[d] # "listening"
    /\ poisoned' = {}

PartsInit ==
    /\ Init /\ Runtime!Init /\ Patient!Init
    /\ part \in {"crowd", "pipeline", "runtime", "timed", "patient"}

PartsNext ==
    /\ UNCHANGED part
    /\ \/ /\ Next
          /\ (part = "crowd" /\ Crowd) \/ (part = "pipeline" /\ Pipeline)
          /\ UNCHANGED <<runtimeVars, admissionVars>>
       \/ part = "runtime" /\ Runtime!Next /\ UNCHANGED <<vars, admissionVars>>
       \/ /\ (part = "timed" /\ Timed!Next) \/ (part = "patient" /\ Patient!Next)
          /\ UNCHANGED <<vars, runtimeVars>>

allVars == <<vars, runtimeVars, admissionVars, part>>

(* A worker that can go on eventually does, and so does a call; and the    *)
(* timeouts expire, or those that were admitted return.                    *)
PartsFairness ==
    /\ \A c \in Clients : WF_vars(part \in {"crowd", "pipeline"} /\ Serve(c))
    /\ \A t \in {t1, t2} :
          /\ WF_runtimeVars(part = "runtime" /\ Runtime!Step(t))
          /\ WF_admissionVars(part = "timed" /\ (Timed!Reserves(t) \/ Timed!Wakes(t)))
          /\ WF_admissionVars(part = "timed" /\ Timed!TimesOut(t))
          /\ WF_admissionVars(part = "patient" /\ (Patient!Reserves(t) \/ Patient!Wakes(t)))
          /\ WF_admissionVars(part = "patient" /\ Patient!ReleaseReservation(t))

PartsSpec == PartsInit /\ [][PartsNext]_allVars /\ PartsFairness

-----------------------------------------------------------------------------
(* ConnectionsEnd is checked of the daemon.                                *)

(* Every call into the runtime returns: idempotent_submit verifies a prior *)
(* run, and cancel writes the projection, inside the scheduler mutex,      *)
(* which is not reentrant, and no error leaves it held.                    *)
CallsReturn == Runtime!CallsReturn

(* A call that waits in reserve() does not wait for ever.  When timeouts   *)
(* expire it returns, whoever holds the capacity.  Without any timeout     *)
(* expiring its leaf is served by wake-ups alone, once workers return,     *)
(* unless a draining leaf retains capacity or the installed caps cannot    *)
(* hold it at all.                                                         *)
WaitsEnd ==
    \A t \in {t1, t2} :
        /\ part = "timed" /\ Timed!Waiting(t) ~> ~Timed!Waiting(t)
        /\ part = "patient" /\ Patient!Waiting(t) ~> Patient!ServedOrBlocked(t)
=============================================================================
