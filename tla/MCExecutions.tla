---------------------------- MODULE MCExecutions ----------------------------
(***************************************************************************)
(* Instances of RunExecution, LiveParent and RuntimeService for TLC.  A    *)
(* behaviour is of one instance, which part names, so the states of the    *)
(* run are the union of theirs.  The three share nothing.                  *)
(***************************************************************************)
EXTENDS RuntimeService, TLC

CONSTANTS r1, r2, c1, c2, k1, k2, t1, t2, t3, p1, p2, o1, o2

VARIABLES chain, permits, progress, wall, mono, revoked, effects, reported
VARIABLES links, control, owner, family, children, table, parentLeaf, cancels
VARIABLE part

runVars == <<chain, permits, progress, wall, mono, revoked, effects, reported>>
parentVars == <<links, control, owner, family, children, table, parentLeaf, cancels>>

Symmetry == Permutations({r1, r2}) \cup Permutations({c1, c2})

-----------------------------------------------------------------------------
(* Runs.                                                                   *)

(* A child of a family runs two steps, of which the second is a command.   *)
TwoSteps == INSTANCE RunExecution WITH
    Runners <- {r1}, StepIds <- {0, 1, 2}, Shells <- {2}, WallTime <- 1, StepSlack <- 1,
    RunSlack <- 1, Guarded <- TRUE, AdmittedUntil <- None, MaxTime <- 4, Faults <- {}, run <- progress

(* A completion whose admission may end before the call does.              *)
Provider == INSTANCE RunExecution WITH
    Runners <- {r1}, StepIds <- {0, 1}, Shells <- {}, WallTime <- 2, StepSlack <- 1,
    RunSlack <- 1, Guarded <- FALSE, AdmittedUntil <- 3, MaxTime <- 4, Faults <- {}, run <- progress

(* Two processes execute the same operation and die.                       *)
Crashes == INSTANCE RunExecution WITH
    Runners <- {r1, r2}, StepIds <- {0, 1}, Shells <- {1}, WallTime <- 1, StepSlack <- 1,
    RunSlack <- 1, Guarded <- FALSE, AdmittedUntil <- None, MaxTime <- 3,
    Faults <- {"crash"}, run <- progress

(* One process, failing stores and a clock that jumps.                     *)
Failures == INSTANCE RunExecution WITH
    Runners <- {r1}, StepIds <- {0, 1}, Shells <- {}, WallTime <- 1, StepSlack <- 1,
    RunSlack <- 1, Guarded <- FALSE, AdmittedUntil <- None, MaxTime <- 2,
    Faults <- {"crash", "io", "clock"}, run <- progress

-----------------------------------------------------------------------------
(* Live parents.                                                           *)

(* Two children and two cancellations; the process may die.                *)
Parent == INSTANCE LiveParent WITH
    StepIds <- {0, 1}, Proposals <- {c1, c2}, Cancellers <- {k1, k2}, Scheduled <- TRUE,
    MaxFinalizes <- 2, Faults <- {"crash"}, chain <- links, leaf <- parentLeaf

(* Finalizing is retried over failing stores.                              *)
FailingParent == INSTANCE LiveParent WITH
    StepIds <- {0, 1}, Proposals <- {c1, c2}, Cancellers <- {k1}, Scheduled <- FALSE,
    MaxFinalizes <- 3, Faults <- {"io"}, chain <- links, leaf <- parentLeaf

-----------------------------------------------------------------------------
(* Calls of the runtime service.                                           *)

Submits(o) == [kind |-> "submit", op |-> o, key |-> None]
Keyed(o, k) == [kind |-> "keyed", op |-> o, key |-> k]
Provides(o) == [kind |-> "provider", op |-> o, key |-> None]
Cancels(o) == [kind |-> "cancel", op |-> o, key |-> None]

(* t1 and t3 are threads of one process, t2 is one of another.             *)
TwoProcesses == t1 :> p1 @@ t2 :> p2 @@ t3 :> p1

(* With the constants of the configuration, two processes with a closed    *)
(* profile compete for one key.                                            *)
OneKey == {Keyed(o1, k1), Keyed(o2, k1), Cancels(o1), Provides(o1)}

(* Two processes fail and die in calls that share an operation.            *)
Shared == INSTANCE RuntimeService WITH
    Calls <- {Submits(o1), Keyed(o1, k1), Keyed(o1, k2), Cancels(o1)},
    Profile <- None, MaxCalls <- 2, Faults <- {"io", "crash"}

(* Two threads of one process.                                             *)
OneProcess == INSTANCE RuntimeService WITH
    Calls <- {Submits(o1), Keyed(o2, k2), Cancels(o2), Provides(o2)},
    Profile <- None, MaxCalls <- 2, Faults <- {"io", "crash"}

(* The other threads make no call.                                         *)
CallsOf(threads) == \A t \in Threads \ threads : call'[t] = call[t]

-----------------------------------------------------------------------------
PartsInit ==
    /\ Init
    /\ \/ part \in {"two steps", "parent", "keys", "shared", "threads"} /\ TwoSteps!Init /\ Parent!Init
       \/ part = "provider" /\ Provider!Init /\ Parent!Init
       \/ part = "crashes" /\ Crashes!Init /\ Parent!Init
       \/ part = "failures" /\ Failures!Init /\ Parent!Init
       \/ part = "failing parent" /\ TwoSteps!Init /\ FailingParent!Init

RunNext ==
    \/ part = "two steps" /\ TwoSteps!Next
    \/ part = "provider" /\ Provider!Next
    \/ part = "crashes" /\ Crashes!Next
    \/ part = "failures" /\ Failures!Next

ParentNext ==
    \/ part = "parent" /\ Parent!Next
    \/ part = "failing parent" /\ FailingParent!Next

CallNext ==
    \/ part = "keys" /\ Next /\ CallsOf({t1, t2})
    \/ part = "shared" /\ Shared!Next /\ CallsOf({t1, t2})
    \/ part = "threads" /\ OneProcess!Next /\ CallsOf({t1, t3})

PartsNext ==
    \/ RunNext /\ UNCHANGED <<parentVars, vars, part>>
    \/ ParentNext /\ UNCHANGED <<runVars, vars, part>>
    \/ CallNext /\ UNCHANGED <<runVars, parentVars, part>>

PartsSpec == PartsInit /\ [][PartsNext]_<<runVars, parentVars, vars, part>>

-----------------------------------------------------------------------------
(* Properties of runs.                                                     *)

(* The verifier accepts every receipt its own runner writes: while clocks  *)
(* move forward and I/O succeeds, append refuses a receipt of run_step     *)
(* only because another process got ahead.                                 *)
NeverRefused ==
    /\ part = "two steps" => TwoSteps!NeverRefused
    /\ part = "provider" => Provider!NeverRefused
    /\ part = "crashes" => Crashes!NeverRefused

(* Whatever crashes, retries and second processes there are, a step is     *)
(* dispatched at most once, with its consumption on the chain and every    *)
(* earlier step completed.                                                 *)
EffectsAreRecordedOnce ==
    /\ part = "two steps" => TwoSteps!EffectsAreRecordedOnce
    /\ part = "provider" => Provider!EffectsAreRecordedOnce
    /\ part = "crashes" => Crashes!EffectsAreRecordedOnce
    /\ part = "failures" => Failures!EffectsAreRecordedOnce

(* What callers are told is one terminal state, and it is what happened:   *)
(* success needs a good result of every step, a denial none of the denied  *)
(* step, and a failure its own kind of result.                             *)
ReportsAreTrue ==
    /\ part = "two steps" => TwoSteps!ReportsAreTrue
    /\ part = "provider" => Provider!ReportsAreTrue
    /\ part = "crashes" => Crashes!ReportsAreTrue
    /\ part = "failures" => Failures!ReportsAreTrue

-----------------------------------------------------------------------------
(* Properties of live parents.                                             *)

(* A family lives as long as its handle: while the handle is in its        *)
(* owner's reach the run can be found and cancelled, out of reach it takes *)
(* no more children, and an error of begin_parent_v2 leaves a run          *)
(* registered that nobody owns only when a cancellation that was answered  *)
(* drained its leaf before the release.  A parent that verifies as         *)
(* succeeded has closed every child its family ever reserved, and each     *)
(* closure says how that child's own run ended.                            *)
FamiliesAreClosed ==
    /\ part = "parent" =>
           /\ Parent!SuccessClosesChildren /\ Parent!RegisteredWhileOwned
           /\ Parent!OrphansWereCancelled
    /\ part = "failing parent" =>
           FailingParent!SuccessClosesChildren /\ FailingParent!OrphansWereCancelled
=============================================================================
