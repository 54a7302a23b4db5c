----------------------------- MODULE LiveParent -----------------------------
(***************************************************************************)
(* A live parent run: RuntimeService::begin_parent_v2, RuntimeLiveParentV2 *)
(* (submit_child, finalize, Drop) and RuntimeService::cancel of            *)
(* crates/recursive-agent-runner/src/runtime.rs, over LiveParentRun of     *)
(* lib.rs and the child links of crates/recursive-agent-ledger/src/lib.rs. *)
(*                                                                         *)
(* One owner holds the parent and calls it; other threads cancel the run   *)
(* and every call into a store is one action.  The parent's own steps are  *)
(* those of RunExecution; here they leave a chain that ended one way.  The *)
(* times of leases are left to RunExecution and FamilyAuthority.           *)
(***************************************************************************)
EXTENDS ReceiptSequence

CONSTANTS
    Proposals,      \* children the owner may submit
    Cancellers,     \* threads that cancel the run
    Scheduled,      \* the scheduler projection has a row of the operation
    MaxFinalizes,   \* bound: calls of finalize
    Faults          \* subset of {"io", "crash"}

Outcomes == {"succeeded", "failed", "timed_out"}

VARIABLES
    chain,      \* the receipts of the parent
    control,    \* state of its control permit
    owner,      \* the thread of begin_parent_v2 and of the handle's calls
    family,     \* the family store: configured, revoked, children
    children,   \* per proposal, how the run of the child stands
    table,      \* the run is in live_families
    leaf,       \* the parent's leaf: absent, active or draining
    cancels     \* per canceller, the point of its call

vars == <<chain, control, owner, family, children, table, leaf, cancels>>

Init ==
    /\ chain = << >>
    /\ control = "issued"
    /\ owner = [pc |-> "idle", child |-> None, terminal |-> None, finalizes |-> 0]
    /\ family = [configured |-> FALSE, revoked |-> FALSE, reserved |-> {}]
    /\ children = [c \in Proposals |-> "absent"]
    /\ table = FALSE
    /\ leaf = "absent"
    /\ cancels = [k \in Cancellers |-> "idle"]

Owner(pc) == owner' = [owner EXCEPT !.pc = pc]

-----------------------------------------------------------------------------
(* Receipts.                                                               *)

Evidence(i, state, reason) ==
    [permit |-> i, step |-> i, parent |-> IF i = 0 THEN None ELSE 0,
     purpose |-> IF i = 0 THEN "control" ELSE "effect", budget |-> 1, network |-> FALSE,
     issued_at |-> 0, expires_at |-> 1, state |-> state, at |-> 0, reason |-> reason,
     allocations |-> IF i = 0 /\ state = "revoked" THEN {1} ELSE {}]

Receipt(kind, i, outcome, artifacts, proposal, evidence) ==
    [kind |-> kind, step |-> i, outcome |-> outcome, time |-> 0, artifacts |-> artifacts,
     proposal |-> proposal, evidence |-> evidence]

Marker(kind, i, outcome) == Receipt(kind, i, outcome, {}, None, None)
PermitReceiptOf(kind, i, e) == Receipt(kind, i, "ok", {<<i, kind>>}, None, e)
ObservationOf(kind) == Receipt(kind, 1, "ok", {<<1, "observation">>}, None, None)

(* A link names its proposal; a closure also how the child ended.          *)
ChildReceiptOf(kind, c, ended) ==
    Receipt(kind, 0, "ok", IF kind = "ChildAdmissionPrepared" THEN {} ELSE {<<c, kind>>},
            c, ended)

(* What the parent's own steps leave.                                      *)
Executed(terminal) ==
    <<Marker("RunStarted", 0, "ok"), Marker("StepStarted", 0, "ok"),
      PermitReceiptOf("PermitIssued", 0, Evidence(0, "issued", None)),
      Marker("StepStarted", 1, "ok"),
      PermitReceiptOf("PermitIssued", 1, Evidence(1, "issued", None)),
      PermitReceiptOf("PermitConsumed", 1, Evidence(1, "consumed", None))>>
    \o (IF terminal = "succeeded"
        THEN <<ObservationOf("ArtifactStored"), ObservationOf("StepCompleted")>>
        ELSE <<Marker("StepFailed", 1, terminal)>>)

Stored(receipts) == UNION {receipts[n].artifacts : n \in 1 .. Len(receipts)}

Accepts(receipt) == Appendable(Append(chain, receipt), Stored(Append(chain, receipt)))

(* The owner appends and goes on, or its call returns an error to it.      *)
Appends(receipt, after) ==
    \/ Accepts(receipt) /\ chain' = Append(chain, receipt) /\ owner' = after
    \/ ~Accepts(receipt) /\ UNCHANGED chain /\ Owner("ready")
    \/ /\ "io" \in Faults /\ Accepts(receipt)
       /\ chain' \in {chain, Append(chain, receipt)} /\ Owner("ready")

To(pc) == [owner EXCEPT !.pc = pc]

-----------------------------------------------------------------------------
(* verify_child_links_in_runtime_root with require_closure.                *)

OfKind(kind) == {n \in 1 .. Len(chain) : chain[n].kind = kind}
Prepared == {chain[n].proposal : n \in OfKind("ChildAdmissionPrepared")}

(* A link of the proposal follows its preparation (a closure, like a link, *)
(* without one is refused when it is appended).                            *)
Linked(c) == \E n \in OfKind("ChildLinked") : chain[n].proposal = c

(* Every prepared child has a link and a closure that says how its own run *)
(* ended.                                                                  *)
LinksVerify ==
    \A c \in Prepared :
        /\ Linked(c)
        /\ \E n \in OfKind("ChildClosed") :
              chain[n].proposal = c /\ chain[n].evidence = children[c]

(* RuntimeService::verify.                                                 *)
Verifies == Verified(chain, Stored(chain)) # {} /\ LinksVerify

-----------------------------------------------------------------------------
(* begin_parent_v2.                                                        *)

(* The leaf is taken, or the call is refused for want of capacity.         *)
AcquireLeaf ==
    /\ owner.pc = "idle"
    /\ \/ leaf' = "active" /\ Owner("executing")
       \/ leaf' = leaf /\ Owner("failed")
    /\ UNCHANGED <<chain, control, family, children, table, cancels>>

(* An error drops the reservation: its leaf is released, or reconciled     *)
(* when a cancellation moved it to draining.                               *)
BeginFails == Owner("failed") /\ leaf' = "absent"

ExecuteSteps ==
    /\ owner.pc = "executing"
    /\ \/ /\ chain' \in {Executed(t) : t \in Outcomes \ {"timed_out"}}
          /\ owner' = [To("configuring") EXCEPT
                !.terminal = IF chain' = Executed("succeeded") THEN "succeeded" ELSE "failed"]
          /\ UNCHANGED leaf
       \/ "io" \in Faults /\ BeginFails /\ chain' = <<Marker("RunStarted", 0, "ok")>>
    /\ UNCHANGED <<control, family, children, table, cancels>>

ConfigureFamily ==
    /\ owner.pc = "configuring"
    /\ \/ family' = [family EXCEPT !.configured = TRUE] /\ Owner("registering") /\ UNCHANGED leaf
       \/ "io" \in Faults /\ BeginFails /\ UNCHANGED family
    /\ UNCHANGED <<chain, control, children, table, cancels>>

RegisterLiveFamily ==
    /\ owner.pc = "registering"
    /\ table' = TRUE
    /\ Owner("releasing")
    /\ UNCHANGED <<chain, control, family, children, leaf, cancels>>

(* release_active fails on a leaf that a cancellation moved to draining,   *)
(* and the family stays registered.                                        *)
ReleaseLeaf ==
    /\ owner.pc = "releasing"
    /\ leaf' = "absent"
    /\ Owner(IF leaf = "active" THEN "ready" ELSE "failed")
    /\ UNCHANGED <<chain, control, family, children, table, cancels>>

-----------------------------------------------------------------------------
(* submit_child.                                                           *)

SubmitChild(c) ==
    /\ owner.pc = "ready"
    /\ owner.terminal = "succeeded" /\ ~family.revoked
    /\ Appendable(chain, Stored(chain))
    /\ owner' = [To("prepare") EXCEPT !.child = c]
    /\ UNCHANGED <<chain, control, family, children, table, leaf, cancels>>

PrepareChild ==
    /\ owner.pc = "prepare"
    /\ Appends(ChildReceiptOf("ChildAdmissionPrepared", owner.child, None), To("acquire"))
    /\ UNCHANGED <<control, family, children, table, leaf, cancels>>

(* The child's leaf is another operation's; it is had or not.              *)
AcquireChildLeaf ==
    /\ owner.pc = "acquire"
    /\ Owner("reserve") \/ Owner("ready")
    /\ UNCHANGED <<chain, control, family, children, table, leaf, cancels>>

ReserveChild ==
    LET reserved == [family EXCEPT !.reserved = @ \cup {owner.child}] IN
    /\ owner.pc = "reserve"
    /\ \/ ~family.revoked /\ family' = reserved /\ Owner("link")
       \/ family.revoked /\ UNCHANGED family /\ Owner("ready")
       \/ /\ "io" \in Faults /\ ~family.revoked
          /\ family' \in {family, reserved} /\ Owner("ready")
    /\ UNCHANGED <<chain, control, children, table, leaf, cancels>>

LinkChild ==
    /\ owner.pc = "link"
    /\ Appends(ChildReceiptOf("ChildLinked", owner.child, None), To("run"))
    /\ UNCHANGED <<control, family, children, table, leaf, cancels>>

(* The family guard lets the child's effect begin or ends the child.       *)
StartChild ==
    /\ owner.pc = "run"
    /\ children' = [children EXCEPT ![owner.child] =
                       IF family.revoked THEN "timed_out" ELSE "running"]
    /\ Owner(IF family.revoked THEN "close" ELSE "running")
    /\ UNCHANGED <<chain, control, family, table, leaf, cancels>>

(* The child ends some way, or run_child_spec fails with no terminal       *)
(* receipt (RunExecution).                                                 *)
ChildEnds(outcome) ==
    /\ owner.pc = "running"
    /\ children' = [children EXCEPT ![owner.child] = outcome]
    /\ Owner(IF outcome = "open" THEN "ready" ELSE "close")
    /\ UNCHANGED <<chain, control, family, table, leaf, cancels>>

CloseChild ==
    /\ owner.pc = "close"
    /\ Appends(ChildReceiptOf("ChildClosed", owner.child, children[owner.child]), To("ready"))
    /\ UNCHANGED <<control, family, children, table, leaf, cancels>>

-----------------------------------------------------------------------------
(* finalize, and the drop of the handle.                                   *)

Finalize ==
    /\ owner.pc = "ready" /\ owner.finalizes < MaxFinalizes
    /\ owner' = [owner EXCEPT !.pc = IF LinksVerify THEN "finalize" ELSE @, !.finalizes = @ + 1]
    /\ UNCHANGED <<chain, control, family, children, table, leaf, cancels>>

ReadFamily ==
    /\ owner.pc = "finalize"
    /\ Owner(IF family.revoked THEN "mark" ELSE "revoke")
    /\ UNCHANGED <<chain, control, family, children, table, leaf, cancels>>

MarkCancelled ==
    /\ owner.pc = "mark"
    /\ Appends(Marker("ParentCancelled", 0, "cancelled"),
               [To("finish") EXCEPT !.terminal = "cancelled"])
    /\ UNCHANGED <<control, family, children, table, leaf, cancels>>

RevokeOwnFamily ==
    /\ owner.pc = "revoke"
    /\ \/ family' = [family EXCEPT !.revoked = TRUE] /\ Owner("finish")
       \/ /\ "io" \in Faults
          /\ family' \in {family, [family EXCEPT !.revoked = TRUE]} /\ Owner("ready")
    /\ UNCHANGED <<chain, control, children, table, leaf, cancels>>

(* finish_chain.                                                           *)
RevokeControl ==
    LET revoked == IF owner.terminal = "succeeded" THEN "operator" ELSE "cancelled" IN
    /\ owner.pc = "finish"
    /\ \/ control = "issued" /\ control' = revoked /\ Owner("revoked")
       \/ control # "issued" /\ UNCHANGED control /\ Owner("ready")
       \/ /\ "io" \in Faults /\ control = "issued"
          /\ control' \in {control, revoked} /\ Owner("ready")
    /\ UNCHANGED <<chain, family, children, table, leaf, cancels>>

RecordRevoked ==
    /\ owner.pc = "revoked"
    /\ Appends(PermitReceiptOf("PermitRevoked", 0, Evidence(0, "revoked", control)), To("end"))
    /\ UNCHANGED <<control, family, children, table, leaf, cancels>>

RecordFinalized ==
    /\ owner.pc = "end"
    /\ Appends(Marker("RunFinalized", 0,
                      IF owner.terminal = "succeeded" THEN "ok" ELSE owner.terminal),
               To("check"))
    /\ UNCHANGED <<control, family, children, table, leaf, cancels>>

UnregisterLiveFamily ==
    /\ owner.pc = "check"
    /\ IF Verifies THEN table' = FALSE /\ Owner("finalized")
       ELSE UNCHANGED table /\ Owner("ready")
    /\ UNCHANGED <<chain, control, family, children, leaf, cancels>>

(* Mutant of Drop: the family of a dropped parent is not revoked.          *)
DropQuietly ==
    /\ owner.pc = "ready"
    /\ table' = FALSE
    /\ Owner("dropped")
    /\ UNCHANGED <<chain, control, family, children, leaf, cancels>>

(* The result of the revocation is ignored.                                *)
Drop ==
    /\ owner.pc = "ready"
    /\ \/ family' = [family EXCEPT !.revoked = TRUE]
       \/ "io" \in Faults /\ UNCHANGED family
    /\ table' = FALSE
    /\ Owner("dropped")
    /\ UNCHANGED <<chain, control, children, leaf, cancels>>

-----------------------------------------------------------------------------
(* cancel.                                                                 *)

Cancel(k, pc) == cancels' = [cancels EXCEPT ![k] = pc]

(* status: the leaf or the registration says whether the run is active.    *)
CancelLooks(k) ==
    /\ cancels[k] = "idle"
    /\ Cancel(k, IF table \/ leaf # "absent" THEN "active"
                 ELSE IF Verifies THEN "already_terminal" ELSE "refused")
    /\ UNCHANGED <<chain, control, owner, family, children, table, leaf>>

(* The family of the run as it is registered now.                          *)
CancelFinds(k) ==
    /\ cancels[k] = "active"
    /\ Cancel(k, IF table THEN "revoke" ELSE IF Scheduled THEN "drain" ELSE "refused")
    /\ UNCHANGED <<chain, control, owner, family, children, table, leaf>>

CancelRevokes(k) ==
    /\ cancels[k] = "revoke"
    /\ \/ family' = [family EXCEPT !.revoked = TRUE] /\ Cancel(k, "requested")
       \/ /\ "io" \in Faults /\ Cancel(k, "refused")
          /\ family' \in {family, [family EXCEPT !.revoked = TRUE]}
    /\ UNCHANGED <<chain, control, owner, children, table, leaf>>

(* The request is written to the scheduler projection and the leaf, if it  *)
(* is still there, moved to draining.                                      *)
CancelDrains(k) ==
    /\ cancels[k] = "drain"
    /\ leaf' = IF leaf = "active" THEN "draining" ELSE leaf
    /\ Cancel(k, IF leaf = "active" THEN "requested" ELSE "refused")
    /\ UNCHANGED <<chain, control, owner, family, children, table>>

Crash ==
    /\ "crash" \in Faults
    /\ owner.pc \notin {"idle", "crashed"}
    /\ Owner("crashed")
    /\ table' = FALSE /\ leaf' = "absent"
    /\ cancels' = [k \in Cancellers |->
                      IF cancels[k] \in {"active", "revoke", "drain"} THEN "refused" ELSE cancels[k]]
    /\ UNCHANGED <<chain, control, family, children>>

-----------------------------------------------------------------------------
OwnerStep ==
    \/ AcquireLeaf \/ ExecuteSteps \/ ConfigureFamily \/ RegisterLiveFamily \/ ReleaseLeaf
    \/ \E c \in Proposals : SubmitChild(c)
    \/ PrepareChild \/ AcquireChildLeaf \/ ReserveChild \/ LinkChild \/ StartChild
    \/ \E outcome \in Outcomes \cup {"open"} : ChildEnds(outcome)
    \/ CloseChild
    \/ Finalize \/ ReadFamily \/ MarkCancelled \/ RevokeOwnFamily
    \/ RevokeControl \/ RecordRevoked \/ RecordFinalized \/ UnregisterLiveFamily
    \/ Drop

Next ==
    \/ OwnerStep
    \/ \E k \in Cancellers : CancelLooks(k) \/ CancelFinds(k) \/ CancelRevokes(k) \/ CancelDrains(k)
    \/ Crash

Spec == Init /\ [][Next]_vars

-----------------------------------------------------------------------------
(* Properties.                                                             *)

EndedAs(state) == state \in Verified(chain, Stored(chain))

(* A parent that verifies as succeeded has closed every child its family   *)
(* ever reserved, and each closure says how that child's own run ended.    *)
SuccessClosesChildren ==
    EndedAs("succeeded") =>
        /\ family.reserved \subseteq Prepared
        /\ \A c \in Prepared : \E n \in OfKind("ChildClosed") :
              /\ chain[n].proposal = c
              /\ chain[n].evidence = children[c] /\ children[c] \in Outcomes

(* Once its handle is out of its owner's reach the run takes no more       *)
(* children, and while the handle is in reach the run can be found and     *)
(* cancelled.                                                              *)
RegisteredWhileOwned ==
    /\ owner.pc \notin {"idle", "executing", "configuring", "registering", "failed",
                        "dropped", "finalized", "crashed"} => table
    /\ owner.pc \in {"dropped", "finalized"} => ~table /\ family.revoked

(* An error of begin_parent_v2 leaves a run registered that nobody owns    *)
(* only when a cancellation that was answered drained its leaf before the  *)
(* release.                                                                *)
OrphansWereCancelled ==
    owner.pc = "failed" /\ table => \E k \in Cancellers : cancels[k] = "requested"
=============================================================================
