--------------------------- MODULE RuntimeService ---------------------------
(***************************************************************************)
(* The entry points of RuntimeService in                                   *)
(* crates/recursive-agent-runner/src/runtime.rs that execute one           *)
(* operation: submit, idempotent_submit, submit_provider_egress_v3 and its *)
(* replay, and cancel.                                                     *)
(*                                                                         *)
(* Threads of several processes share the directory of runs and the        *)
(* scheduler file; the admission domain, the mutex around the scheduler    *)
(* handle and the handle's snapshot belong to one process.  What a run     *)
(* does is in RunExecution, what the store writes in SchedulerStore, how   *)
(* leaves are granted in ManagedAdmission: here a run is absent, created   *)
(* (its directory exists), open (it has receipts) or ended (it verifies),  *)
(* a row is the key it was admitted with and its cancellation flag.        *)
(***************************************************************************)
EXTENDS Naturals, FiniteSets

CONSTANTS
    Threads,    \* callers
    Processes,  \* runtime services over one output root and scheduler file
    Home,       \* the process of each thread
    Operations,
    Keys,       \* idempotency keys
    Calls,      \* the calls threads make: [kind, op, key]
    Profile,    \* the closed commands of the services, or None
    Capacity,   \* leaves of one admission domain
    MaxCalls,   \* bound: calls of one thread
    Faults,     \* subset of {"io", "crash"}
    None

(* A call of idempotent_submit has a key, a thread stays in its process,   *)
(* and None is no row.                                                     *)
ASSUME CallsAssumption ==
    /\ Home \in [Threads -> Processes]
    /\ Calls \subseteq [kind : {"submit", "keyed", "provider", "cancel"}, op : Operations,
                       key : Keys \cup {None}]
    /\ \A c \in Calls : c.kind = "keyed" => c.key \in Keys
    /\ None \notin [key : Keys, cancel : BOOLEAN]

VARIABLES
    rows,       \* the scheduler file: per operation, None or its row
    snapshot,   \* per process, the rows its handle saw last
    uncertain,  \* per process, the handle refuses further use
    mutex,      \* per process, the thread in the scheduler critical section
    leaf,       \* per process and operation: absent, active, draining or spent
    run,        \* per operation
    call,       \* per thread: [pc, call, count]
    executions, \* history: per operation, how often its effects were started
    answers     \* history: [call, result] of the calls that returned

vars == <<rows, snapshot, uncertain, mutex, leaf, run, call, executions, answers>>
store == <<rows, snapshot, uncertain>>
histories == <<executions, answers>>

Init ==
    /\ rows = [o \in Operations |-> None]
    /\ snapshot = [p \in Processes |-> rows]
    /\ uncertain = [p \in Processes |-> FALSE]
    /\ mutex = [p \in Processes |-> None]
    /\ leaf = [p \in Processes |-> [o \in Operations |-> "absent"]]
    /\ run = [o \in Operations |-> "absent"]
    /\ call = [t \in Threads |-> [pc |-> "idle", call |-> None, count |-> 0]]
    /\ executions = [o \in Operations |-> 0]
    /\ answers = {}

Op(t) == call[t].call.op
Key(t) == call[t].call.key
At(t, pc) == call[t].pc = pc
Goes(t, pc) == call' = [call EXCEPT ![t].pc = pc]

(* The call of t returns.                                                  *)
Returns(t, result) ==
    /\ Goes(t, "idle")
    /\ answers' = answers \cup {[call |-> call[t].call, result |-> result]}

-----------------------------------------------------------------------------
(* A call begins.                                                          *)

(* A closed profile admits the operations it lists and no other way to    *)
(* execute.                                                                *)
Permits(c) ==
    Profile = None \/ c.kind = "cancel" \/ (c.kind # "provider" /\ c.op \in Profile)

FirstStep(c) ==
    CASE ~Permits(c) -> "denied"
      [] c.kind = "submit" -> "acquire"
      [] c.kind = "keyed" -> "lookup"
      [] c.kind = "provider" -> "locate"
      [] c.kind = "cancel" -> "status"

Begin(t, c) ==
    /\ At(t, "idle") /\ call[t].count < MaxCalls
    /\ call' = [call EXCEPT ![t] = [pc |-> FirstStep(c), call |-> c, count |-> @.count + 1]]
    /\ UNCHANGED <<store, mutex, leaf, run, histories>>

Deny(t) ==
    /\ At(t, "denied") /\ Returns(t, "refused")
    /\ UNCHANGED <<store, mutex, leaf, run, executions>>

-----------------------------------------------------------------------------
(* idempotent_submit.                                                      *)

(* Under the mutex, the rows this handle saw last are searched for the     *)
(* key.                                                                    *)
LookUp(t) ==
    LET p == Home[t]
        prior == {o \in Operations : snapshot[p][o] # None /\ snapshot[p][o].key = Key(t)}
    IN /\ At(t, "lookup") /\ mutex[p] = None
       /\ \/ /\ prior \notin {{}, {Op(t)}}
             /\ Returns(t, "conflict")
             /\ UNCHANGED mutex
          \/ /\ prior = {Op(t)}
             /\ Goes(t, "prior") /\ mutex' = [mutex EXCEPT ![p] = t]
             /\ UNCHANGED answers
          \/ /\ prior = {}
             /\ Goes(t, "admit") /\ mutex' = [mutex EXCEPT ![p] = t]
             /\ UNCHANGED answers
       /\ UNCHANGED <<store, leaf, run, executions>>

Unlock(t) == mutex' = [mutex EXCEPT ![Home[t]] = None]

(* Mutant of VerifyPrior: the verification takes the scheduler mutex, too. *)
VerifyPriorLocks(t) ==
    /\ At(t, "prior") /\ mutex[Home[t]] = None
    /\ Returns(t, IF run[Op(t)] = "ended" THEN "handle" ELSE "refused")
    /\ Unlock(t)
    /\ UNCHANGED <<store, leaf, run, executions>>

(* An exact duplicate is answered from the verified run.                   *)
VerifyPrior(t) ==
    /\ At(t, "prior")
    /\ Returns(t, IF run[Op(t)] = "ended" THEN "handle" ELSE "refused")
    /\ Unlock(t)
    /\ UNCHANGED <<store, leaf, run, executions>>

(* Mutant of Admissible: the key is compared with the handle's snapshot.   *)
AdmissibleBySnapshot(t) ==
    IF rows[Op(t)] # None THEN rows[Op(t)].key = Key(t)
    ELSE \A o \in Operations :
            snapshot[Home[t]][o] # None => snapshot[Home[t]][o].key # Key(t)

(* SchedulerStore::admit, over the file.                                   *)
Admissible(t) ==
    IF rows[Op(t)] # None THEN rows[Op(t)].key = Key(t)
    ELSE \A o \in Operations : rows[o] # None => rows[o].key # Key(t)

Admit(t) ==
    LET p == Home[t]
        new == IF rows[Op(t)] # None THEN rows
               ELSE [rows EXCEPT ![Op(t)] = [key |-> Key(t), cancel |-> FALSE]]
    IN /\ At(t, "admit")
       /\ \/ /\ Admissible(t) /\ ~uncertain[p]
             /\ rows' = new /\ snapshot' = [snapshot EXCEPT ![p] = new]
             /\ Goes(t, "acquire")
             /\ UNCHANGED <<uncertain, answers>>
          \/ /\ ~Admissible(t) \/ uncertain[p]
             /\ Returns(t, "poisoned")
             /\ UNCHANGED store
          \/ /\ "io" \in Faults /\ Admissible(t) /\ ~uncertain[p]
             /\ rows' \in {rows, new} /\ uncertain' = [uncertain EXCEPT ![p] = TRUE]
             /\ Returns(t, "poisoned")
             /\ UNCHANGED snapshot
       /\ Unlock(t)
       /\ UNCHANGED <<leaf, run, executions>>

-----------------------------------------------------------------------------
(* submit, and what idempotent_submit ends with.                           *)

IsActive(p, o) == leaf[p][o] \in {"active", "draining"}
Free(p) == Cardinality({o \in Operations : IsActive(p, o)}) < Capacity

(* acquire_tool_operation: refused when the operation had a leaf of this   *)
(* domain before, or none is free.                                         *)
Acquire(t) ==
    LET p == Home[t] IN
    /\ At(t, "acquire")
    /\ IF leaf[p][Op(t)] = "absent" /\ Free(p)
       THEN /\ leaf' = [leaf EXCEPT ![p][Op(t)] = "active"]
            /\ Goes(t, "open")
            /\ UNCHANGED answers
       ELSE Returns(t, "refused") /\ UNCHANGED leaf
    /\ UNCHANGED <<store, mutex, run, executions>>

(* Mutant of Release: only an active leaf is given back.                   *)
ReleaseActive(t) ==
    leaf' = [leaf EXCEPT ![Home[t]][Op(t)] = IF @ = "active" THEN "spent" ELSE @]

(* The reservation is dropped, whatever state its leaf is in; its use      *)
(* stays on record.                                                        *)
Release(t) == leaf' = [leaf EXCEPT ![Home[t]][Op(t)] = "spent"]

(* The runner creates the directory and its first receipts, or finds some: *)
(* then it reports how the run ended, or that it did not.                  *)
Open(t) ==
    /\ At(t, "open")
    /\ \/ /\ run[Op(t)] \in {"absent", "created"}
          /\ run' = [run EXCEPT ![Op(t)] = "open"]
          /\ executions' = [executions EXCEPT ![Op(t)] = @ + 1]
          /\ Goes(t, "execute")
          /\ UNCHANGED <<leaf, answers>>
       \/ /\ run[Op(t)] \in {"open", "ended"}
          /\ Returns(t, IF run[Op(t)] = "ended" THEN "handle" ELSE "refused")
          /\ Release(t)
          /\ UNCHANGED <<run, executions>>
       \/ /\ "io" \in Faults /\ run[Op(t)] = "absent"
          /\ run' = [run EXCEPT ![Op(t)] = "created"]
          /\ Returns(t, "refused") /\ Release(t)
          /\ UNCHANGED executions
    /\ UNCHANGED <<store, mutex>>

(* The run ends with a terminal receipt, or without one after an error.    *)
Execute(t) ==
    /\ At(t, "execute")
    /\ \/ run' = [run EXCEPT ![Op(t)] = "ended"] /\ Returns(t, "handle")
       \/ "io" \in Faults /\ Returns(t, "refused") /\ UNCHANGED run
    /\ Release(t)
    /\ UNCHANGED <<store, mutex, executions>>

-----------------------------------------------------------------------------
(* submit_provider_egress_v3, and replay_provider_egress_v3.               *)

(* A run whose directory exists is replayed, never executed.               *)
Locate(t) ==
    /\ At(t, "locate")
    /\ Goes(t, IF run[Op(t)] = "absent" THEN "authorize" ELSE "replay")
    /\ UNCHANGED <<store, mutex, leaf, run, histories>>

(* The current policy admits the egress, or does not.                      *)
Authorize(t) ==
    /\ At(t, "authorize")
    /\ \/ Goes(t, "queue") /\ UNCHANGED answers
       \/ Returns(t, "refused")
    /\ UNCHANGED <<store, mutex, leaf, run, executions>>

(* acquire_provider_operation waits for a leaf, for a bounded time.        *)
Queue(t) ==
    LET p == Home[t] IN
    /\ At(t, "queue")
    /\ \/ /\ leaf[p][Op(t)] = "absent" /\ Free(p)
          /\ leaf' = [leaf EXCEPT ![p][Op(t)] = "active"]
          /\ Goes(t, "open")
          /\ UNCHANGED answers
       \/ /\ leaf[p][Op(t)] # "absent" \/ ~Free(p)
          /\ Returns(t, "refused")
          /\ UNCHANGED leaf
    /\ UNCHANGED <<store, mutex, run, executions>>

(* verified_provider_replay_v3: the evidence is verified first, then the   *)
(* current policy is asked.                                                *)
Replay(t) ==
    /\ At(t, "replay")
    /\ IF run[Op(t)] = "ended" THEN Goes(t, "reauthorize") /\ UNCHANGED answers
       ELSE Returns(t, "refused")
    /\ UNCHANGED <<store, mutex, leaf, run, executions>>

Reauthorize(t) ==
    /\ At(t, "reauthorize")
    /\ \E result \in {"handle", "refused"} : Returns(t, result)
    /\ UNCHANGED <<store, mutex, leaf, run, executions>>

-----------------------------------------------------------------------------
(* cancel, of an operation that is no live parent (LiveParent has those).  *)

Status(t) ==
    /\ At(t, "status")
    /\ IF IsActive(Home[t], Op(t)) THEN Goes(t, "request") /\ UNCHANGED answers
       ELSE Returns(t, IF run[Op(t)] = "ended" THEN "terminal" ELSE "refused")
    /\ UNCHANGED <<store, mutex, leaf, run, executions>>

(* SchedulerStore::request_cancel, under the mutex.                        *)
RequestCancel(t) ==
    LET p == Home[t]
        known == rows[Op(t)] # None
        new == IF known THEN [rows EXCEPT ![Op(t)].cancel = TRUE] ELSE rows
    IN /\ At(t, "request") /\ mutex[p] = None
       /\ \/ /\ known /\ ~uncertain[p]
             /\ rows' = new /\ snapshot' = [snapshot EXCEPT ![p] = new]
             /\ Goes(t, "drain") /\ mutex' = [mutex EXCEPT ![p] = t]
             /\ UNCHANGED <<uncertain, answers>>
          \/ /\ ~known \/ uncertain[p]
             /\ Returns(t, "poisoned")
             /\ UNCHANGED <<store, mutex>>
          \/ /\ "io" \in Faults /\ known /\ ~uncertain[p]
             /\ rows' \in {rows, new} /\ uncertain' = [uncertain EXCEPT ![p] = TRUE]
             /\ Returns(t, "poisoned")
             /\ UNCHANGED <<snapshot, mutex>>
       /\ UNCHANGED <<leaf, run, executions>>

(* mark_active_draining, which fails for a leaf that is no longer active.  *)
Drain(t) ==
    LET p == Home[t] IN
    /\ At(t, "drain")
    /\ IF leaf[p][Op(t)] = "active"
       THEN leaf' = [leaf EXCEPT ![p][Op(t)] = "draining"] /\ Returns(t, "requested")
       ELSE UNCHANGED leaf /\ Returns(t, "refused")
    /\ Unlock(t)
    /\ UNCHANGED <<store, run, executions>>

-----------------------------------------------------------------------------
(* The process of p ends and is started again, with a new handle.          *)
Crash(p) ==
    /\ "crash" \in Faults
    /\ snapshot' = [snapshot EXCEPT ![p] = rows]
    /\ uncertain' = [uncertain EXCEPT ![p] = FALSE]
    /\ mutex' = [mutex EXCEPT ![p] = None]
    /\ leaf' = [leaf EXCEPT ![p] = [o \in Operations |-> "absent"]]
    /\ call' = [t \in Threads |-> IF Home[t] = p THEN [call[t] EXCEPT !.pc = "idle"] ELSE call[t]]
    /\ \E t \in Threads : Home[t] = p /\ ~At(t, "idle")
    /\ UNCHANGED <<rows, run, histories>>

Step(t) ==
    \/ Deny(t)
    \/ LookUp(t) \/ VerifyPrior(t) \/ Admit(t)
    \/ Acquire(t) \/ Open(t) \/ Execute(t)
    \/ Locate(t) \/ Authorize(t) \/ Queue(t) \/ Replay(t) \/ Reauthorize(t)
    \/ Status(t) \/ RequestCancel(t) \/ Drain(t)

(* Between calls the services rest.                                        *)
Done == (\A t \in Threads : At(t, "idle")) /\ UNCHANGED vars

Next ==
    \/ \E t \in Threads : Step(t) \/ \E c \in Calls : Begin(t, c)
    \/ \E p \in Processes : Crash(p)
    \/ Done

Spec == Init /\ [][Next]_vars

(* A thread that can go on eventually does.                                *)
FairSpec == Spec /\ \A t \in Threads : WF_vars(Step(t))

-----------------------------------------------------------------------------
Answered(kind, result) == {a.call : a \in {b \in answers : b.call.kind = kind /\ b.result = result}}

(* No operation is executed twice, whichever of submit, idempotent_submit  *)
(* and submit_provider_egress_v3 the callers of whichever process use, and *)
(* whatever fails or crashes; and a caller is given a handle only for a    *)
(* run that was executed and verifies.                                     *)
ExecutesAtMostOnce ==
    /\ \A o \in Operations : executions[o] <= 1
    /\ \A a \in answers : a.result = "handle" =>
          run[a.call.op] = "ended" /\ executions[a.call.op] = 1

(* A key names one operation for good: two calls of idempotent_submit that *)
(* were given handles under one key name the same operation, though each   *)
(* looked the key up in a snapshot of its own process, and every handle is *)
(* backed by the row that binds the key.                                   *)
KeysNameOneOperation ==
    /\ \A o, q \in Operations :
          rows[o] # None /\ rows[q] # None /\ rows[o].key = rows[q].key => o = q
    /\ \A c \in Answered("keyed", "handle") : rows[c.op] # None /\ rows[c.op].key = c.key

(* A leaf is occupied exactly while a thread of its process executes the   *)
(* operation: no answer, error or cancellation leaves capacity behind.     *)
LeavesFollowExecutions ==
    \A p \in Processes, o \in Operations :
        IsActive(p, o) <=>
            \E t \in Threads : Home[t] = p /\ (At(t, "open") \/ At(t, "execute")) /\ Op(t) = o

(* A cancellation reported as requested is in the scheduler file, whatever *)
(* other handles wrote since.                                              *)
RequestedCancelsAreRecorded ==
    \A c \in Answered("cancel", "requested") : rows[c.op] # None /\ rows[c.op].cancel

(* What callers are told is true for good.                                 *)
AnswersAreTrue == ExecutesAtMostOnce /\ KeysNameOneOperation /\ RequestedCancelsAreRecorded

(* Every call returns: idempotent_submit verifies a prior run, and cancel  *)
(* writes the projection, inside the scheduler mutex, and no error leaves  *)
(* it held.                                                                *)
CallsReturn == \A t \in Threads : ~At(t, "idle") ~> At(t, "idle")
=============================================================================
