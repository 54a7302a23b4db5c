-------------------------- MODULE ReceiptSequence ---------------------------
(***************************************************************************)
(* What a sequence of receipts must be for the ledger to append to it and  *)
(* to verify it: validate_receipt_sequence of                              *)
(* crates/recursive-agent-contracts/src/lib.rs and                         *)
(* validate_permit_continuity of crates/recursive-agent-ledger/src/lib.rs. *)
(*                                                                         *)
(* Both walk the receipts with a state of what they have seen.  A step of  *)
(* a walk gives the set of states it may continue with: one, or none when  *)
(* the receipt is refused.                                                 *)
(*                                                                         *)
(* A receipt is a record of kind, step, outcome, valid time, artifacts,    *)
(* child proposal (its args_digest) and evidence (the permit evidence or   *)
(* the provider admission its artifact holds).  All receipts of a chain    *)
(* belong to one run, and their ids and lineages are well formed.          *)
(***************************************************************************)
EXTENDS Naturals, Sequences, FiniteSetsExt

CONSTANTS
    StepIds,        \* the steps of the run, its lifecycle step among them
    None            \* an Option that is None

When(accepted, s) == IF accepted THEN {s} ELSE {}

-----------------------------------------------------------------------------
(* The lifecycle walk.                                                     *)

Unseen ==
    [steps |-> [i \in StepIds |-> "absent"], stored |-> [i \in StepIds |-> {}],
     terminal |-> None, finalized |-> FALSE, admitted |-> {},
     prepared |-> {}, linked |-> {}, closed |-> {}]

(* ReceiptOutcomeV1::terminal_state.                                       *)
TerminalState(outcome) ==
    CASE outcome = "ok" -> "succeeded"
      [] outcome = "degraded" -> None
      [] OTHER -> outcome

(* require_step_state, and the state the receipt moves its step to.        *)
At(s, r, states) == s.steps[r.step] \in states
Moved(s, r, state) == [s EXCEPT !.steps[r.step] = state]

(* set_terminal: a run has one terminal cause.                             *)
Ended(s, state) == When(s.terminal = None, [s EXCEPT !.terminal = state])

AdmissionReceipt(s, r) ==
    When(/\ s.terminal = None /\ r.outcome = "ok"
         /\ Cardinality(r.artifacts) = 1
         /\ At(s, r, {"absent"})
         /\ r.step \notin s.admitted,
         [s EXCEPT !.admitted = @ \cup {r.step}])

(* A revocation is orderly, or it denies the run as a rejection does.      *)
PermitReceipt(s, r) ==
    CASE r.kind = "PermitIssued" ->
            When(r.outcome = "ok" /\ At(s, r, {"started"}), Moved(s, r, "issued"))
      [] r.kind = "PermitConsumed" ->
            When(r.outcome = "ok" /\ At(s, r, {"issued"}), Moved(s, r, "consumed"))
      [] r.kind = "PermitRevoked" /\ r.outcome = "ok" ->
            When(At(s, r, {"issued"}), Moved(s, r, "complete"))
      [] r.kind \in {"PermitRejected", "PermitRevoked"} /\ r.outcome # "ok" ->
            IF r.outcome = "denied" /\ At(s, r, {"issued"})
            THEN Ended(Moved(s, r, "complete"), "denied") ELSE {}
      [] OTHER -> {}

StartReceipt(s, r) ==
    When(s.terminal = None /\ r.outcome = "ok" /\ At(s, r, {"absent"}),
         Moved(s, r, "started"))

ObservationReceipt(s, r) ==
    IF r.kind = "ArtifactStored"
    THEN When(/\ At(s, r, {"consumed", "stored"})
              /\ r.outcome = "ok" /\ r.artifacts # {},
              [Moved(s, r, "stored") EXCEPT !.stored[r.step] = @ \cup r.artifacts])
    ELSE When(/\ At(s, r, {"stored"})
              /\ r.outcome = "ok" /\ r.artifacts # {}
              /\ r.artifacts \subseteq s.stored[r.step],
              Moved(s, r, "complete"))

(* A denial precedes the permit, any other failure follows its use.        *)
FailureReceipt(s, r) ==
    LET state == TerminalState(r.outcome) IN
    IF /\ state \notin {None, "succeeded"}
       /\ At(s, r, IF state = "denied" THEN {"started"} ELSE {"consumed", "stored"})
    THEN Ended(Moved(s, r, "complete"), state) ELSE {}

CancellationReceipt(s, r) ==
    IF r.outcome = "cancelled" /\ r.artifacts = {} THEN Ended(s, "cancelled") ELSE {}

ChildReceipt(s, r) ==
    IF s.terminal # None \/ r.outcome # "ok" THEN {}
    ELSE CASE r.kind = "ChildAdmissionPrepared" ->
                 When(r.artifacts = {} /\ r.proposal \notin s.prepared,
                      [s EXCEPT !.prepared = @ \cup {r.proposal}])
           [] r.kind = "ChildLinked" ->
                 When(/\ r.artifacts # {}
                      /\ r.proposal \in s.prepared \ s.linked,
                      [s EXCEPT !.linked = @ \cup {r.proposal}])
           [] r.kind = "ChildClosed" ->
                 When(/\ r.artifacts # {}
                      /\ r.proposal \in s.linked \ s.closed,
                      [s EXCEPT !.closed = @ \cup {r.proposal}])

FinalReceipt(s, r) ==
    LET state == TerminalState(r.outcome) IN
    When(/\ state = (IF s.terminal = None THEN "succeeded" ELSE s.terminal)
         /\ \A i \in StepIds : s.steps[i] \in {"absent", "complete"}
         /\ state = "succeeded" => s.prepared = s.closed,
         [s EXCEPT !.terminal = state, !.finalized = TRUE])

LifecycleStep(s, r, n) ==
    IF s.finalized \/ (n = 1) # (r.kind = "RunStarted") THEN {}
    ELSE CASE r.kind = "RunStarted" -> When(r.outcome = "ok", s)
           [] r.kind = "ProviderEgressAdmitted" -> AdmissionReceipt(s, r)
           [] r.kind = "StepStarted" -> StartReceipt(s, r)
           [] r.kind \in {"PermitIssued", "PermitConsumed", "PermitRejected", "PermitRevoked"} ->
                 PermitReceipt(s, r)
           [] r.kind \in {"ArtifactStored", "StepCompleted"} -> ObservationReceipt(s, r)
           [] r.kind = "StepFailed" -> FailureReceipt(s, r)
           [] r.kind = "ParentCancelled" -> CancellationReceipt(s, r)
           [] r.kind \in {"ChildAdmissionPrepared", "ChildLinked", "ChildClosed"} ->
                 ChildReceipt(s, r)
           [] r.kind = "RunFinalized" -> FinalReceipt(s, r)

(* validate_receipt_sequence: the state after the last receipt, if every   *)
(* receipt is accepted.                                                    *)
Lifecycle(receipts) ==
    LET after[n \in 0 .. Len(receipts)] ==
            IF n = 0 THEN {Unseen}
            ELSE UNION {LifecycleStep(s, receipts[n], n) : s \in after[n - 1]}
    IN after[Len(receipts)]

-----------------------------------------------------------------------------
(* The permit walk: per step, the permit it retains, and the provider      *)
(* admissions seen.                                                        *)

NoPermits ==
    [retained |-> [i \in StepIds |-> None], admissions |-> [i \in StepIds |-> None]]

(* The times of PermitEvidenceV1::validate.                                *)
EvidenceIsTimely(e) ==
    /\ e.issued_at < e.expires_at
    /\ CASE e.state = "issued" -> e.at = e.issued_at
         [] e.state = "consumed" -> e.issued_at <= e.at /\ e.at < e.expires_at
         [] OTHER -> e.issued_at <= e.at

Retained(t) == {t.retained[i] : i \in StepIds} \ {None}

(* The issued evidence of a control permit; its later state is beside it.  *)
Controls(t) == {p \in Retained(t) : p.evidence.purpose = "control"}
ControlOf(t, e) == {p \in Controls(t) : p.evidence.permit = e.parent}

(* Recomputed from the receipts: what the children of e were allocated.    *)
Allocations(t, e) ==
    {p.evidence : p \in {q \in Retained(t) : q.evidence.purpose = "effect"
                                          /\ q.evidence.parent = e.permit}}

(* validate_delegation_evidence of a child issued under a control permit.  *)
Delegates(parent, child) ==
    /\ parent.issued_at <= child.issued_at /\ child.issued_at < parent.expires_at
    /\ child.expires_at <= parent.expires_at
    /\ child.budget <= parent.budget

WithinCeiling(t, parent, child) ==
    MapThenSumSet(LAMBDA e : e.budget, Allocations(t, parent) \cup {child}) <= parent.budget

(* A network permit needs an admission that covers it.                     *)
AdmissionCovers(a, e) ==
    a # None /\ a.verified_at <= e.issued_at /\ e.expires_at <= a.not_after

Issued(t, r) ==
    LET e == r.evidence
        parents == ControlOf(t, e)
        retained == [t EXCEPT !.retained[r.step] = [evidence |-> e, state |-> "issued", reason |-> None]]
    IN When(/\ t.retained[r.step] = None
            /\ IF e.purpose = "control"
               THEN \A p \in Controls(t) : p.evidence.permit # e.permit
               ELSE /\ e.network => AdmissionCovers(t.admissions[r.step], e)
                    /\ \E p \in parents :
                          /\ Delegates(p.evidence, e)
                          /\ e.permit \notin {a.permit : a \in Allocations(t, p.evidence)}
                          /\ WithinCeiling(t, p.evidence, e),
            retained)

(* A permit is consumed, rejected or revoked once; the revocation of a     *)
(* control permit names exactly the children the receipts show.            *)
Settled(t, r) ==
    LET e == r.evidence
        p == t.retained[r.step]
    IN When(/\ p # None /\ p.state = "issued"
            /\ [p.evidence EXCEPT !.state = e.state, !.at = e.at, !.reason = e.reason,
                                  !.allocations = e.allocations] = e
            /\ e.state = "revoked" /\ e.purpose = "control" =>
                  e.allocations = {a.permit : a \in Allocations(t, e)},
            [t EXCEPT !.retained[r.step].state = e.state,
                      !.retained[r.step].reason = e.reason])

(* Parent expiry or revocation dominates an observed effect.               *)
Observed(t, r) ==
    LET p == t.retained[r.step] IN
    When(/\ p # None /\ p.evidence.purpose = "effect" /\ p.state = "consumed"
         /\ \E c \in ControlOf(t, p.evidence) :
               /\ c.state = "issued"
               /\ c.evidence.issued_at <= r.time /\ r.time < c.evidence.expires_at,
         t)

(* Success needs every effect consumed and every control closed in order.  *)
Finalized(t, r) ==
    When(r.outcome = "ok" =>
            \A p \in Retained(t) :
               IF p.evidence.purpose = "effect" THEN p.state = "consumed"
               ELSE p.state = "revoked" /\ p.reason = "operator",
         t)

(* The evidence binds the receipt that carries it.                         *)
StateOfKind ==
    [PermitIssued |-> "issued", PermitConsumed |-> "consumed",
     PermitRejected |-> "rejected", PermitRevoked |-> "revoked"]

PermitEvent(t, r) ==
    IF /\ Cardinality(r.artifacts) = 1
       /\ EvidenceIsTimely(r.evidence)
       /\ r.evidence.state = StateOfKind[r.kind]
       /\ r.evidence.at = r.time
       /\ r.evidence.step = r.step
    THEN IF r.kind = "PermitIssued" THEN Issued(t, r) ELSE Settled(t, r)
    ELSE {}

ContinuityStep(t, r) ==
    CASE r.kind = "ProviderEgressAdmitted" ->
            When(/\ r.evidence.verified_at = r.time
                 /\ t.admissions[r.step] = None,
                 [t EXCEPT !.admissions[r.step] = r.evidence])
      [] r.kind \in {"ArtifactStored", "StepCompleted"} -> Observed(t, r)
      [] r.kind = "RunFinalized" -> Finalized(t, r)
      [] r.kind \in DOMAIN StateOfKind -> PermitEvent(t, r)
      [] OTHER -> {t}

(* validate_permit_continuity.                                             *)
Continuity(receipts) ==
    LET after[n \in 0 .. Len(receipts)] ==
            IF n = 0 THEN {NoPermits}
            ELSE UNION {ContinuityStep(t, receipts[n]) : t \in after[n - 1]}
    IN after[Len(receipts)]

-----------------------------------------------------------------------------
(* validate_authoritative_sequence of receipts whose artifacts are stored, *)
(* while a run goes on, and of a run that ended (StrictCurrent).           *)
Appendable(receipts, stored) ==
    /\ Lifecycle(receipts) # {}
    /\ \A n \in 1 .. Len(receipts) : receipts[n].artifacts \subseteq stored
    /\ Continuity(receipts) # {}

(* The terminal states verify_scan_locked may report: one, or none.        *)
Verified(receipts, stored) ==
    IF ~Appendable(receipts, stored) THEN {}
    ELSE {s.terminal : s \in {x \in Lifecycle(receipts) : x.finalized}}
=============================================================================
