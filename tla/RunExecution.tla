---------------------------- MODULE RunExecution ----------------------------
(***************************************************************************)
(* The execution of one operation in one run directory: execute_spec and   *)
(* run_step of crates/recursive-agent-runner/src/lib.rs, between the       *)
(* permit store and the receipt chain.                                     *)
(*                                                                         *)
(* A runner is a process that was asked to execute the operation.  Several *)
(* may be: a retry after a crash, a second process on the same directory.  *)
(* Each call into a store is one action, so runners, the clocks, a         *)
(* revocation of the family and crashes interleave with every such call.   *)
(*                                                                         *)
(* An append is durable or it fails (ReceiptChain); so is a change of a    *)
(* permit record (PermitStore).  A chain digest is the length of the chain *)
(* it digests.  Artifacts are stored before the receipt that names them.   *)
(***************************************************************************)
EXTENDS ReceiptSequence

CONSTANTS
    Runners,        \* processes that execute the operation
    Shells,         \* the steps that are shell commands
    WallTime,       \* max_wall_time_ms of every step
    StepSlack,      \* validity of an effect permit beyond its wall time
    RunSlack,       \* validity of the control permit beyond all wall times
    Guarded,        \* the run is the child of a family
    AdmittedUntil,  \* end of the provider admission; None: no provider egress
    MaxTime,        \* bound: the last instant of the clocks
    Faults          \* subset of {"crash", "io", "clock"}

LastStep == Cardinality(StepIds) - 1
Steps == 1 .. LastStep
RunStep == 0        \* the lifecycle step of the run itself

(* RunTerminalStateV1.                                                     *)
TerminalStates ==
    {"succeeded", "failed", "denied", "timed_out", "sandbox_failed", "cancelled"}

Times == 0 .. MaxTime

VARIABLES
    chain,      \* the receipts of the run
    permits,    \* per step, the record of its permit
    run,        \* per runner, the locals of its call
    wall,       \* the clock of receipts and permits
    mono,       \* the monotonic clock
    revoked,    \* the family was revoked
    effects,    \* history: per step, the results of its dispatches
    reported    \* history: terminal states told to callers

clocks == <<wall, mono>>
histories == <<effects, reported>>
vars == <<chain, permits, run, clocks, revoked, histories>>

Init ==
    /\ chain = << >>
    /\ permits = [i \in StepIds |-> None]
    /\ run = [r \in Runners |->
                 [pc |-> "idle", head |-> 0, step |-> 0, started |-> 0, started_mono |-> 0,
                  issued |-> 0, issued_mono |-> 0, consumed_mono |-> 0, observed |-> 0,
                  result |-> None, terminal |-> None]]
    /\ wall = 0 /\ mono = 0
    /\ revoked = FALSE
    /\ effects = [i \in Steps |-> << >>]
    /\ reported = {}

Goes(r, pc) == run' = [run EXCEPT ![r].pc = pc]

-----------------------------------------------------------------------------
(* Permits: lifecycle_authority and permit_binding.                        *)

ControlBudget == LastStep * WallTime
RunValidity == ControlBudget + RunSlack

(* The instants up to which the control permit of a runner lasts, on the   *)
(* wall clock and on the monotonic one, which it samples later.            *)
RunExpires(l) == l.started + RunValidity
RunDeadline(l) == l.started_mono + RunValidity

MinOf(a, b) == IF a < b THEN a ELSE b

NewPermit(issued_at, expires_at) ==
    [issued_at |-> issued_at, expires_at |-> expires_at, state |-> "issued",
     at |-> issued_at, reason |-> None, allocations |-> {}]

ControlPermit(l) == NewPermit(l.started, RunExpires(l))

EffectPermit(l) ==
    NewPermit(l.issued, MinOf(l.issued + WallTime + StepSlack, RunExpires(l)))

(* PermitEvidenceV1::from_record.                                          *)
Evidence(i, p) ==
    [permit |-> i, step |-> i, parent |-> IF i = RunStep THEN None ELSE RunStep,
     purpose |-> IF i = RunStep THEN "control" ELSE "effect",
     budget |-> IF i = RunStep THEN ControlBudget ELSE WallTime,
     network |-> i # RunStep /\ AdmittedUntil # None,
     issued_at |-> p.issued_at, expires_at |-> p.expires_at,
     state |-> p.state, at |-> p.at, reason |-> p.reason, allocations |-> p.allocations]

(* validate_parent_binding of an effect against the control permit.        *)
ParentHolds(p, now) ==
    LET c == permits[RunStep] IN
    /\ c # None /\ c.state = "issued"
    /\ c.issued_at <= now /\ now < c.expires_at
    /\ c.issued_at <= p.issued_at /\ p.expires_at <= c.expires_at

(* guard_child_dispatch of the family, when there is one.                  *)
FamilyHolds == ~(Guarded /\ revoked)

-----------------------------------------------------------------------------
(* Receipts: append_receipt_draft, make_receipt, put_string.               *)

(* The valid time is kept where a walk reads it.                           *)
Receipt(kind, i, outcome, time, artifacts, evidence) ==
    [kind |-> kind, step |-> i, outcome |-> outcome, time |-> time, proposal |-> None,
     artifacts |-> artifacts, evidence |-> evidence]

Marker(kind, i, outcome) == Receipt(kind, i, outcome, None, {}, None)

EvidenceReceipt(kind, i, outcome, time, evidence) ==
    Receipt(kind, i, outcome, time, {<<i, kind>>}, evidence)

ObservationOf(kind, i, time) == Receipt(kind, i, "ok", time, {<<i, "observation">>}, None)

Stored(receipts) == UNION {receipts[n].artifacts : n \in 1 .. Len(receipts)}

Accepts(l, receipt) ==
    LET proposed == Append(chain, receipt) IN
    /\ l.head = Len(chain)
    /\ Appendable(proposed, Stored(proposed))

(* A runner appends and goes on, or its caller gets an error: its head is  *)
(* not the chain's, the receipt is refused, or I/O fails before or after   *)
(* the write.                                                              *)
Appends(r, receipt, after) ==
    LET l == run[r] IN
    /\ \/ /\ Accepts(l, receipt)
          /\ chain' = Append(chain, receipt)
          /\ run' = [run EXCEPT ![r] = [after EXCEPT !.head = @ + 1]]
       \/ /\ ~Accepts(l, receipt)
          /\ Goes(r, IF l.head = Len(chain) THEN "refused" ELSE "failed")
          /\ UNCHANGED chain
       \/ /\ "io" \in Faults /\ Accepts(l, receipt)
          /\ chain' \in {chain, Append(chain, receipt)}
          /\ Goes(r, "failed")
    /\ UNCHANGED <<permits, clocks, revoked, histories>>

(* A call to the permit store that steps through the contents ps and goes  *)
(* on with after, or goes on with failing; an I/O error may come after any *)
(* of its writes.                                                          *)
Stores(r, allowed, ps, after, failing) ==
    /\ \/ allowed /\ permits' = ps[Len(ps)] /\ run' = [run EXCEPT ![r] = after]
       \/ ~allowed /\ run' = [run EXCEPT ![r] = failing] /\ UNCHANGED permits
       \/ /\ "io" \in Faults /\ allowed
          /\ permits' \in {permits} \cup {ps[k] : k \in 1 .. Len(ps)}
          /\ run' = [run EXCEPT ![r] = failing]
    /\ UNCHANGED <<chain, clocks, revoked, histories>>

To(l, pc) == [l EXCEPT !.pc = pc]

-----------------------------------------------------------------------------
(* execute_spec_with_run_id up to its first step.                          *)

(* The control permit is dated before the directory is opened.             *)
Begin(r) ==
    /\ run[r].pc = "idle"
    /\ run' = [run EXCEPT ![r].pc = "opening", ![r].started = wall]
    /\ UNCHANGED <<chain, permits, clocks, revoked, histories>>

(* verified_summary: the terminal state of the run, when it has one and it *)
(* is an expected one, or an error.                                        *)
Reports(r, expected) ==
    LET found == Verified(chain, Stored(chain)) \cap expected IN
    /\ reported' = reported \cup found
    /\ Goes(r, IF found = {} THEN "failed" ELSE "done")
    /\ UNCHANGED <<chain, permits, clocks, revoked, effects>>

(* A run that has receipts is not executed again.                          *)
Open(r) ==
    /\ run[r].pc = "opening"
    /\ IF chain # << >> THEN Reports(r, TerminalStates)
       ELSE /\ run' = [run EXCEPT ![r].pc = "issue_control", ![r].started_mono = mono]
            /\ UNCHANGED <<chain, permits, clocks, revoked, histories>>

(* The same permit is issued again only at the same instant.               *)
IssueControlPermit(r) ==
    LET l == run[r] IN
    /\ l.pc = "issue_control"
    /\ Stores(r, permits[RunStep] \in {None, ControlPermit(l)},
              <<[permits EXCEPT ![RunStep] = ControlPermit(l)]>>,
              To(l, "run_started"), To(l, "failed"))

RecordRunStarted(r) ==
    /\ run[r].pc = "run_started"
    /\ Appends(r, Marker("RunStarted", RunStep, "ok"), To(run[r], "control_started"))

RecordControlStarted(r) ==
    /\ run[r].pc = "control_started"
    /\ Appends(r, Marker("StepStarted", RunStep, "ok"), To(run[r], "control_issued"))

NextStep(l) ==
    IF l.step = LastStep THEN [To(l, "revoke_control") EXCEPT !.terminal = "succeeded"]
    ELSE [To(l, "step") EXCEPT !.step = @ + 1, !.result = None]

RecordControlIssued(r) ==
    LET l == run[r] IN
    /\ l.pc = "control_issued"
    /\ Appends(r, EvidenceReceipt("PermitIssued", RunStep, "ok", l.started,
                          Evidence(RunStep, permits[RunStep])),
               IF AdmittedUntil = None THEN NextStep(l) ELSE To(l, "admission"))

(* The admission was verified before the run, at the start of time.        *)
RecordAdmission(r) ==
    LET l == run[r] IN
    /\ l.pc = "admission"
    /\ Appends(r, EvidenceReceipt("ProviderEgressAdmitted", 1, "ok", 0,
                          [verified_at |-> 0, not_after |-> AdmittedUntil]),
               NextStep(l))

-----------------------------------------------------------------------------
(* run_step up to the dispatch.                                            *)

Ends(l, terminal) == [To(l, "revoke_control") EXCEPT !.terminal = terminal]

(* The step starts and is denied when the parent's lease is over on either *)
(* clock, or the effect permit is asked for.                               *)
StartStep(r) ==
    LET l == run[r] IN
    /\ l.pc = "step"
    /\ Appends(r, Marker("StepStarted", l.step, "ok"),
               IF /\ l.started_mono <= mono /\ mono < RunDeadline(l)
                  /\ wall < RunExpires(l)
               THEN [To(l, "issue_effect") EXCEPT !.issued = wall]
               ELSE To(l, "denied"))

DenyStep(r) ==
    LET l == run[r] IN
    /\ l.pc = "denied"
    /\ Appends(r, Marker("StepFailed", l.step, "denied"), Ends(l, "denied"))

(* issue_effect or issue_provider_egress; the allocation of the parent is  *)
(* written before the permit.                                              *)
IssueEffectPermit(r) ==
    LET l == run[r]
        p == EffectPermit(l)
        allocated == [permits EXCEPT ![RunStep].allocations = @ \cup {l.step}]
    IN /\ l.pc = "issue_effect"
       /\ Stores(r, /\ permits[l.step] \in {None, p}
                    /\ ParentHolds(p, l.issued)
                    /\ AdmittedUntil # None => p.expires_at <= AdmittedUntil,
                 <<allocated, [allocated EXCEPT ![l.step] = p]>>,
                 [To(l, "permit_issued") EXCEPT !.issued_mono = mono], To(l, "denied"))

RecordIssued(r) ==
    LET l == run[r] IN
    /\ l.pc = "permit_issued"
    /\ Appends(r, EvidenceReceipt("PermitIssued", l.step, "ok", l.issued,
                          Evidence(l.step, permits[l.step])),
               To(l, "consume"))

PermitDeadline(l) == l.issued_mono + WallTime

(* Whatever keeps the permit from being consumed rejects it.               *)
ConsumePermit(r) ==
    LET l == [run[r] EXCEPT !.observed = wall, !.consumed_mono = mono]
        p == permits[l.step]
    IN /\ l.pc = "consume"
       /\ Stores(r, /\ l.issued_mono <= mono /\ mono < PermitDeadline(l)
                    /\ p.state = "issued" /\ p.issued_at <= wall /\ wall < p.expires_at
                    /\ ParentHolds(p, wall),
                 <<[permits EXCEPT ![l.step].state = "consumed", ![l.step].at = wall]>>,
                 To(l, "consumed"), To(l, "rejected"))

RecordRejected(r) ==
    LET l == run[r] IN
    /\ l.pc = "rejected"
    /\ Appends(r, EvidenceReceipt("PermitRejected", l.step, "denied", l.observed,
                          Evidence(l.step, [EffectPermit(l) EXCEPT !.state = "rejected",
                                                                   !.at = l.observed])),
               Ends(l, "denied"))

(* Mutant of RecordConsumed: the effect does not wait for the receipt.     *)
RecordConsumedLater(r) ==
    /\ run[r].pc = "consumed"
    /\ Goes(r, "dispatch")
    /\ UNCHANGED <<chain, permits, clocks, revoked, histories>>

RecordConsumed(r) ==
    LET l == run[r] IN
    /\ l.pc = "consumed"
    /\ Appends(r, EvidenceReceipt("PermitConsumed", l.step, "ok", l.observed,
                          Evidence(l.step, [EffectPermit(l) EXCEPT !.state = "consumed",
                                                                   !.at = l.observed])),
               To(l, "dispatch"))

-----------------------------------------------------------------------------
(* run_step from the dispatch on.                                          *)

(* An error here, after the permit was consumed, ends the call at once.    *)
Dispatch(r) ==
    LET l == run[r]
        leased == /\ l.consumed_mono <= mono
                  /\ mono < PermitDeadline(l) /\ mono < RunDeadline(l)
                  /\ FamilyHolds
    IN /\ l.pc = "dispatch"
       /\ run' = [run EXCEPT ![r] =
                     IF ~leased THEN [To(l, "observe") EXCEPT !.result = "expired"]
                     ELSE IF ~ParentHolds(permits[l.step], wall) THEN To(l, "failed")
                     ELSE To(l, "running")]
       /\ effects' = IF run'[r].pc = "running"
                     THEN [effects EXCEPT ![l.step] = Append(@, "running")] ELSE effects
       /\ UNCHANGED <<chain, permits, clocks, revoked, reported>>

(* What the tool answers: an output within its budget, or an error, with   *)
(* or without an observation of what happened, in time or not.             *)
Results == {"ok", "observed_failure", "observed_timeout", "error", "expired"}

ToolReturns(r, result) ==
    LET l == run[r] IN
    /\ l.pc = "running"
    /\ run' = [run EXCEPT ![r] = [To(l, "observe") EXCEPT !.result = result]]
    /\ effects' = [effects EXCEPT ![l.step] = [@ EXCEPT ![Len(@)] = result]]
    /\ UNCHANGED <<chain, permits, clocks, revoked, reported>>

(* The end of the family, of the lease or of the parent during the effect  *)
(* replaces its result; one wall-clock sample decides and dates it.        *)
Observe(r) ==
    LET l == run[r]
        holds == FamilyHolds /\ mono < RunDeadline(l) /\ ParentHolds(permits[l.step], wall)
    IN /\ l.pc = "observe"
       /\ run' = [run EXCEPT ![r] = [To(l, "record") EXCEPT
                     !.observed = wall, !.result = IF holds THEN @ ELSE "expired"]]
       /\ UNCHANGED <<chain, permits, clocks, revoked, histories>>

HasObservation(result) == result \in {"ok", "observed_failure", "observed_timeout"}

(* Mutant of FailureState: an expired lease is a failure of the tool.      *)
FailureStateUntyped(l) ==
    IF l.result = "observed_timeout" THEN "timed_out" ELSE "failed"

FailureState(l) ==
    CASE l.result \in {"expired", "observed_timeout"} -> "timed_out"
      [] l.result = "error" /\ l.step \in Shells -> "sandbox_failed"
      [] OTHER -> "failed"

(* Mutant of ObservationTime: the receipt is dated when it is written.     *)
ObservationTimeNow(l) == wall

ObservationTime(l) == l.observed

RecordObservation(r) ==
    LET l == run[r] IN
    /\ l.pc = "record" /\ HasObservation(l.result)
    /\ Appends(r, ObservationOf("ArtifactStored", l.step, ObservationTime(l)),
               To(l, IF l.result = "ok" THEN "complete" ELSE "fail"))

RecordCompleted(r) ==
    LET l == run[r] IN
    /\ l.pc = "complete"
    /\ Appends(r, ObservationOf("StepCompleted", l.step, ObservationTime(l)),
               NextStep(l))

RecordFailure(r) ==
    LET l == run[r] IN
    /\ \/ l.pc = "fail"
       \/ l.pc = "record" /\ ~HasObservation(l.result)
    /\ Appends(r, Marker("StepFailed", l.step, FailureState(l)), Ends(l, FailureState(l)))

-----------------------------------------------------------------------------
(* The end of execute_spec_with_run_id.                                    *)

RevokeControlPermit(r) ==
    LET l == run[r] IN
    /\ l.pc = "revoke_control"
    /\ Stores(r, permits[RunStep].state = "issued" /\ permits[RunStep].issued_at <= wall,
              <<[permits EXCEPT ![RunStep] =
                    [@ EXCEPT !.state = "revoked", !.at = wall,
                              !.reason = IF l.terminal = "succeeded"
                                         THEN "operator" ELSE "cancelled"]]>>,
              To(l, "revoked"), To(l, "failed"))

RecordRevoked(r) ==
    LET l == run[r]
        p == permits[RunStep]
    IN /\ l.pc = "revoked"
       /\ Appends(r, EvidenceReceipt("PermitRevoked", RunStep, "ok", p.at, Evidence(RunStep, p)),
                  To(l, "finalize"))

RecordFinalized(r) ==
    LET l == run[r] IN
    /\ l.pc = "finalize"
    /\ Appends(r, Marker("RunFinalized", RunStep,
                         IF l.terminal = "succeeded" THEN "ok" ELSE l.terminal),
               To(l, "summary"))

Summarize(r) == run[r].pc = "summary" /\ Reports(r, {run[r].terminal})

-----------------------------------------------------------------------------
(* The environment.                                                        *)

Tick ==
    /\ wall < MaxTime /\ mono < MaxTime
    /\ wall' = wall + 1 /\ mono' = mono + 1
    /\ UNCHANGED <<chain, permits, run, revoked, histories>>

ClockJumps ==
    /\ "clock" \in Faults
    /\ wall' \in Times \ {wall}
    /\ UNCHANGED <<chain, permits, run, mono, revoked, histories>>

RevokeFamily ==
    /\ Guarded /\ ~revoked
    /\ revoked' = TRUE
    /\ UNCHANGED <<chain, permits, run, clocks, histories>>

Crash(r) ==
    /\ "crash" \in Faults
    /\ run[r].pc \notin {"idle", "done", "failed", "refused"}
    /\ Goes(r, "failed")
    /\ UNCHANGED <<chain, permits, clocks, revoked, histories>>

-----------------------------------------------------------------------------
Step(r) ==
    \/ Begin(r) \/ Open(r) \/ IssueControlPermit(r)
    \/ RecordRunStarted(r) \/ RecordControlStarted(r) \/ RecordControlIssued(r)
    \/ RecordAdmission(r)
    \/ StartStep(r) \/ DenyStep(r) \/ IssueEffectPermit(r) \/ RecordIssued(r)
    \/ ConsumePermit(r) \/ RecordRejected(r) \/ RecordConsumed(r)
    \/ Dispatch(r) \/ \E result \in Results : ToolReturns(r, result)
    \/ Observe(r) \/ RecordObservation(r) \/ RecordCompleted(r) \/ RecordFailure(r)
    \/ RevokeControlPermit(r) \/ RecordRevoked(r) \/ RecordFinalized(r) \/ Summarize(r)

Next ==
    \/ \E r \in Runners : Step(r) \/ Crash(r)
    \/ Tick \/ ClockJumps \/ RevokeFamily

Spec == Init /\ [][Next]_vars

(* A call that began goes on: every store call returns and every tool ends *)
(* by its deadline.                                                        *)
FairSpec == Spec /\ \A r \in Runners : WF_vars(Step(r))

-----------------------------------------------------------------------------
(* Properties.                                                             *)

(* The verifier accepts every receipt its own runner writes: while clocks  *)
(* move forward and I/O succeeds, append refuses a receipt of run_step     *)
(* only because another process got ahead.                                 *)
NeverRefused == \A r \in Runners : run[r].pc # "refused"

Recorded(kind, i) == \E n \in 1 .. Len(chain) : chain[n].kind = kind /\ chain[n].step = i

(* Whatever crashes, retries and second processes there are, a step is     *)
(* dispatched at most once, with its consumption on the chain and every    *)
(* earlier step completed.                                                 *)
EffectsAreRecordedOnce ==
    \A i \in Steps : effects[i] # << >> =>
        /\ Len(effects[i]) = 1
        /\ Recorded("PermitConsumed", i)
        /\ \A j \in 1 .. i - 1 : Recorded("StepCompleted", j)

(* What callers are told is one terminal state, and it is what happened:   *)
(* success needs a good result of every step, a denial none of the denied  *)
(* step, and a failure its own kind of result.                             *)
ReportsAreTrue ==
    /\ Cardinality(reported) <= 1
    /\ \A state \in reported : state \in Verified(chain, Stored(chain))
    /\ "succeeded" \in reported => \A i \in Steps : effects[i] = <<"ok">>
    /\ "denied" \in reported => \E i \in Steps : effects[i] = << >>
    /\ "failed" \in reported =>
          \E i \in Steps : effects[i] \in {<<"observed_failure">>, <<"error">>}
    /\ "sandbox_failed" \in reported => \E i \in Shells : effects[i] = <<"error">>
=============================================================================
