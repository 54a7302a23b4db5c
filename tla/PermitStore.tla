---------------------------- MODULE PermitStore -----------------------------
(***************************************************************************)
(* The durable permit store of one run directory: DurablePermitStore of    *)
(* crates/recursive-agent-policy/src/lib.rs.                               *)
(*                                                                         *)
(* The thread gate and the file lock serialise every call, so a call is    *)
(* one action over the directory: one record per permit, and the journal   *)
(* of normal-chat attempts.  Issuing a delegated permit replaces up to     *)
(* three files (journal, parent record, child record) and may stop between *)
(* any two of them.                                                        *)
(*                                                                         *)
(* A content digest is the value it digests, a permit id the material it   *)
(* is derived from.  Abstractions: subject stands for actor, policy        *)
(* version and run, args for the digests of call and arguments and the     *)
(* executables, one number for the three dimensions of a budget.  The      *)
(* arguments of a normal-chat call are its attempt, those of a sealed      *)
(* completion the end of its admission.  A dispatch that differs from the  *)
(* permit is refused without effect and left out.                          *)
(***************************************************************************)
EXTENDS DurableDirectory, FiniteSets

CONSTANTS
    Proposals,      \* the permits callers ask for: [binding, purpose, ceiling]
    Reports,        \* effect outcomes executors report: [state, duration]
    Sizes,          \* bytes of a normal-chat publication
    Consents,       \* instants up to which the policy owner may consent to chats
    MaxTime,        \* bound: the last instant of the clock
    MaxLease,       \* MAX_LIVE_LEASE_MILLISECONDS
    None            \* an Option that is None

Times == 0 .. MaxTime

-----------------------------------------------------------------------------
(* Bindings, permits and their identity.                                   *)

NormalChat == "normal_chat"
SealedCompletion == "sealed_completion"

(* Network access is reserved to two lanes without any file access.        *)
IsClosedEffect(tool, effect) ==
    tool \in {NormalChat, SealedCompletion} /\ effect.network /\ effect.roots = {}

(* PermitBindingV1::validate.                                              *)
BindingIsValid(b) ==
    /\ b.effect.network => IsClosedEffect(b.tool, b.effect)
    /\ b.issued_at <= b.not_before /\ b.not_before < b.expires_at
    /\ b.budget > 0

(* DelegationCeilingV1::validate.                                          *)
CeilingIsValid(c) ==
    /\ c.actions # {} /\ c.audiences # {}
    /\ c.not_before < c.expires_at
    /\ c.budget > 0
    /\ \A a \in c.actions : a.effect.network => IsClosedEffect(a.tool, a.effect)

(* derive_delegation_identity: how many delegations lead to this permit.   *)
Depth(b) == IF b.parent = None THEN 0 ELSE b.parent.binding.depth + 1

(* PermitBindingV1::identity_material: times count only as delays, so the  *)
(* same proposal at a later instant has the same identity.                 *)
BindingIdentity(b) ==
    [subject |-> b.subject, tool |-> b.tool, args |-> b.args, effect |-> b.effect,
     budget |-> b.budget, parent |-> b.parent, depth |-> Depth(b),
     delay |-> b.not_before - b.issued_at, validity |-> b.expires_at - b.not_before]

(* derive_permit_id over execution_identity_material.                      *)
PermitId(p) ==
    LET b == p.binding
        c == p.ceiling
        extent == IF c = None THEN None
                  ELSE [c EXCEPT !.not_before = c.not_before - b.issued_at,
                                 !.expires_at = c.expires_at - c.not_before]
    IN [purpose |-> p.purpose, ceiling |-> extent, binding |-> BindingIdentity(b)]

PermitIds == {PermitId(p) : p \in Proposals}

(* PermitEvidenceV1::validate: a control permit binds its ceiling, an      *)
(* effect permit has none.                                                 *)
EvidenceIsValid(p) ==
    LET b == p.binding
        c == p.ceiling
    IN IF p.purpose = "control"
       THEN /\ c # None /\ CeilingIsValid(c)
            /\ c.subject = b.subject
            /\ b.not_before <= c.not_before /\ c.expires_at <= b.expires_at
            /\ c.budget = b.budget
       ELSE c = None

-----------------------------------------------------------------------------
(* The directory: records has the record of every permit that has one,     *)
(* families the journal of the normal-chat attempts under every control    *)
(* permit that has one.  fenced is the presence of a context-authority     *)
(* state.                                                                  *)

NewRecord(p) ==
    [permit |-> p, state |-> "issued", at |-> 0, child_allocations |-> {},
     preflight |-> None, outcome |-> None, retained |-> None, settlement |-> None]

Args == {p.binding.args : p \in Proposals}
Outcome == [reported : Reports, at : Times]
Settlement == [outcome : Outcome, bytes : Sizes]

Record ==
    [permit : Proposals, state : {"issued", "consumed", "revoked"}, at : Times,
     child_allocations : SUBSET PermitIds, preflight : Times \cup {None},
     outcome : Outcome \cup {None}, retained : Args \cup {None},
     settlement : Settlement \cup {None}]

ASSUME NoneAssumption ==
    /\ None \notin PermitIds /\ None \notin Args /\ None \notin Times
    /\ None \notin Outcome /\ None \notin Settlement
ASSUME BudgetsAssumption ==
    \A p \in Proposals : p.ceiling # None => p.ceiling.budget \in Nat
ASSUME TimesAssumption == MaxTime \in Nat

Empty == [x \in {} |-> None]
With(f, x, v) == [y \in DOMAIN f \cup {x} |-> IF y = x THEN v ELSE f[y]]

EmptyStore == [records |-> Empty, families |-> Empty, fenced |-> FALSE]

WithRecord(d, r) == [d EXCEPT !.records = With(@, PermitId(r.permit), r)]

(* validate_receipt_bindings: receipts exist only in order, on a consumed  *)
(* record, and agree with it.                                              *)
ReceiptsBind(r) ==
    /\ r.outcome # None => r.preflight # None
    /\ r.preflight # None =>
          /\ r.state = "consumed"
          /\ r.preflight = r.at
          /\ r.outcome # None => r.preflight <= r.outcome.at

(* validate_record_bindings: a retained normal-chat admission agrees with  *)
(* the consumed record, a settlement with the outcome and the budget.      *)
RetainedBinds(r) ==
    IF r.retained = None THEN r.settlement = None
    ELSE LET b == r.permit.binding
             a == r.retained
         IN /\ r.state = "consumed" /\ r.preflight # None
            /\ r.permit.purpose = "effect"
            /\ b.tool = NormalChat /\ IsClosedEffect(b.tool, b.effect)
            /\ b.args = a /\ b.budget <= a.wall
            /\ b.not_before <= r.at /\ r.at < b.expires_at
            /\ b.parent # None
            /\ r.settlement # None =>
                  /\ r.outcome # None
                  /\ r.settlement.outcome = r.outcome
                  /\ r.outcome.reported.state = "succeeded"
                  /\ r.outcome.reported.duration <= b.budget
                  /\ 0 < r.settlement.bytes /\ r.settlement.bytes <= b.budget

(* The attempt of a normal-chat permit is reserved for it in the journal.  *)
InJournal(d, p) ==
    LET b == p.binding
        f == d.families[b.parent]
    IN /\ b.parent \in DOMAIN d.families
       /\ f.operation = b.args.operation
       /\ f.max_attempts = b.args.max_attempts
       /\ b.args.number \in DOMAIN f.attempts
       /\ f.attempts[b.args.number] = [attempt |-> b.args, permit |-> PermitId(p)]

RecordIsValid(d, r) ==
    /\ ReceiptsBind(r)
    /\ RetainedBinds(r)
    /\ r.retained # None => InJournal(d, r.permit)

(* read_record: an absent or unreadable record is an error of its caller.  *)
Reads(d, i) == i \in DOMAIN d.records /\ RecordIsValid(d, d.records[i])

-----------------------------------------------------------------------------
(* What a parent must say of a child: validate_parent_permits.             *)

ExactAction(c, b) == {a \in c.actions : a.tool = b.tool /\ a.args = b.args}

(* Another attempt of the family: the lane and the effect must match, the  *)
(* arguments differ from attempt to attempt.                               *)
FamilyAction(c, b) ==
    {a \in c.actions : a.tool = NormalChat /\ a.effect = b.effect}

ActionFor(c, b, attempt) ==
    IF ExactAction(c, b) # {} THEN ExactAction(c, b)
    ELSE IF attempt # None /\ b.tool = NormalChat /\ IsClosedEffect(b.tool, b.effect)
         THEN FamilyAction(c, b)
         ELSE {}

EffectWithin(c, p, attempt) ==
    /\ c.transition = "control_to_effect"
    /\ p.binding.tool \in c.audiences
    /\ \E a \in ActionFor(c, p.binding, attempt) :
          /\ p.binding.effect.network = a.effect.network
          /\ p.binding.effect.roots \subseteq a.effect.roots

ControlWithin(c, p) ==
    LET k == p.ceiling IN
    /\ c.transition = "control_to_control"
    /\ p.binding.tool \in c.audiences
    /\ CeilingIsValid(k)
    /\ k.subject = p.binding.subject
    /\ c.not_before <= k.not_before /\ k.expires_at <= c.expires_at
    /\ k.budget <= c.budget
    /\ k.actions \subseteq c.actions
    /\ k.audiences \subseteq {a.tool : a \in c.actions}
    /\ \/ k.actions # c.actions
       \/ k.budget # c.budget
       \/ k.not_before > c.not_before
       \/ k.expires_at < c.expires_at

ParentAllows(p, parent, now, attempt) ==
    LET b == p.binding
        q == parent.permit.binding
        c == parent.permit.ceiling
    IN /\ parent.state = "issued"
       /\ parent.permit.purpose = "control" /\ c # None
       /\ q.not_before <= now /\ now < q.expires_at
       /\ c.not_before <= now /\ now < c.expires_at
       /\ b.subject = q.subject /\ b.subject = c.subject
       /\ q.not_before <= b.not_before /\ c.not_before <= b.not_before
       /\ b.expires_at <= q.expires_at /\ b.expires_at <= c.expires_at
       /\ b.budget <= c.budget
       /\ IF p.purpose = "effect" THEN EffectWithin(c, p, attempt) ELSE ControlWithin(c, p)

-----------------------------------------------------------------------------
(* The calls.  A caller passes the instant it sampled before it waited for *)
(* the lock, except where the call samples the clock itself.               *)

VARIABLES
    clock,          \* the trusted clock
    owner,          \* the instant up to which the chat policy owner allows
    continuations,  \* normal-chat consumptions executors still hold
    uses,           \* history: consumptions answered, per permit
    revoked,        \* history: permits whose revocation was answered
    receipts        \* history: outcome and settlement receipts answered
                    \*    since power was last lost

histories == <<uses, revoked, receipts>>
vars == <<directory, clock, owner, continuations, histories>>

Init ==
    /\ DirectoryInit(EmptyStore)
    /\ clock = 0
    /\ owner = 0
    /\ continuations = {}
    /\ uses = Empty
    /\ revoked = {}
    /\ receipts = {}

Sampled == IF "clock" \in Faults THEN Times ELSE 0 .. clock

(* reauthorize_normal_chat: the owner is asked again; the admission the    *)
(* caller holds can only narrow its answer.                                *)
OwnerAdmits(now) == now < owner

(* validate_normal_chat_permit_binding against the owner's answer.         *)
BindsNormalChat(b) ==
    /\ b.parent # None
    /\ b.tool = NormalChat /\ IsClosedEffect(b.tool, b.effect)
    /\ b.expires_at <= owner
    /\ b.budget <= b.args.wall

(* The five public calls, by what each asks before issue_authority.        *)
IssueControl(p) == p.purpose = "control"

IssueRootEffect(p) ==
    p.purpose = "effect" /\ p.binding.parent = None /\ ~p.binding.effect.network

IssueEffect(p) ==
    p.purpose = "effect" /\ p.binding.parent # None /\ ~p.binding.effect.network

IssueProviderEgress(p, now) ==
    LET b == p.binding IN
    /\ p.purpose = "effect"
    /\ b.parent # None
    /\ b.tool = SealedCompletion /\ IsClosedEffect(b.tool, b.effect)
    /\ now < b.args.not_after /\ b.expires_at <= b.args.not_after

IssueNormalChat(p, now) ==
    p.purpose = "effect" /\ p.binding.tool = NormalChat
       /\ OwnerAdmits(now) /\ BindsNormalChat(p.binding)

(* The permits that only issue_normal_chat issues: it alone reserves.      *)
IsNormalChat(p) ==
    p.purpose = "effect" /\ p.binding.tool = NormalChat /\ p.binding.effect.network

LaneAdmits(p, now) ==
    \/ IssueControl(p)
    \/ IssueRootEffect(p)
    \/ IssueEffect(p)
    \/ IssueProviderEgress(p, now)
    \/ IssueNormalChat(p, now)

(* The journal as it stands, or with the family it lacked.                 *)
Family(d, b) ==
    IF b.parent \in DOMAIN d.families THEN d.families[b.parent]
    ELSE [operation |-> b.args.operation, max_attempts |-> b.args.max_attempts,
          attempts |-> Empty]

(* validate_normal_chat_permit_directory: every record must read.          *)
DirectoryReads(d) == \A i \in DOMAIN d.records : Reads(d, i)

(* The journal with an attempt of family f that is the permit's.           *)
WithAttempt(d, p, f) ==
    [d EXCEPT !.families = With(@, p.binding.parent,
        [f EXCEPT !.attempts = With(@, p.binding.args.number,
                                    [attempt |-> p.binding.args, permit |-> PermitId(p)])])]

(* Mutant of ReserveAttempt: an attempt number is given to the permit that *)
(* asks last.                                                              *)
ReserveAttemptAgain(d, p) ==
    LET b == p.binding
        f == Family(d, b)
    IN IF b.args.number \notin 1 .. f.max_attempts THEN {}
       ELSE {WithAttempt(d, p, f)}

(* reserve_normal_chat_attempt: the directories it may leave.  The same    *)
(* reservation is found again and not rewritten; another permit for the    *)
(* attempt, or a record that does not read, refuses.                       *)
ReserveAttempt(d, p) ==
    LET b == p.binding
        f == Family(d, b)
        taken == b.args.number \in DOMAIN f.attempts
        own == f.attempts[b.args.number] = [attempt |-> b.args, permit |-> PermitId(p)]
    IN IF \/ ~DirectoryReads(d)
          \/ b.args.number \notin 1 .. b.args.max_attempts
          \/ f.operation # b.args.operation
          \/ f.max_attempts # b.args.max_attempts
          \/ taken /\ ~own
       THEN {}
       ELSE IF taken THEN {d} ELSE {WithAttempt(d, p, f)}

(* The budgets of permits together, counted unit by unit.                  *)
BudgetOf(permits) ==
    Cardinality(UNION {{i} \X (1 .. i.binding.budget) : i \in permits})

Allocated(r) == BudgetOf(r.child_allocations)

(* The parent's record with its child among the allocations.               *)
WithAllocation(d, p) ==
    WithRecord(d, [d.records[p.binding.parent] EXCEPT !.child_allocations = @ \cup {PermitId(p)}])

(* Mutant of IssueSteps: the record is published before its allocation.    *)
IssueStepsChildFirst(p, journaled) ==
    LET i == PermitId(p)
        parent == p.binding.parent
        published == IF i \in DOMAIN disk.records THEN journaled
                     ELSE WithRecord(journaled, NewRecord(p))
    IN <<published>> \o (IF parent = None THEN << >> ELSE <<WithAllocation(published, p)>>)

(* The files a call that issues p replaces, in order: the journal, the     *)
(* parent whose allocations are the reservation journal of its children,   *)
(* and the new record.                                                     *)
IssueSteps(p, journaled) ==
    LET i == PermitId(p)
        parent == p.binding.parent
        reserved == IF parent = None THEN journaled ELSE WithAllocation(journaled, p)
    IN (IF journaled = disk THEN << >> ELSE <<journaled>>)
       \o (IF parent = None THEN << >> ELSE <<reserved>>)
       \o (IF i \in DOMAIN disk.records THEN << >> ELSE <<WithRecord(reserved, NewRecord(p))>>)

(* Mutant of WithinCeiling: each child is compared alone.                  *)
WithinCeilingAlone(p, parent) == p.binding.budget <= parent.permit.ceiling.budget

WithinCeiling(p, parent) ==
    Allocated([parent EXCEPT !.child_allocations = @ \cup {PermitId(p)}])
       <= parent.permit.ceiling.budget

(* issue_authority.                                                        *)
Issue(p, now) ==
    LET b == p.binding
        i == PermitId(p)
    IN /\ now \in Sampled
       /\ LaneAdmits(p, now)
       /\ BindingIsValid(b)
       /\ b.issued_at <= now /\ b.not_before <= now
       /\ now < b.expires_at /\ b.expires_at <= now + MaxLease
       /\ ~disk.fenced
       /\ b.parent # None => Reads(disk, b.parent)
       /\ EvidenceIsValid(p)
       /\ i \in DOMAIN disk.records => disk.records[i] = NewRecord(p)
       /\ b.parent # None =>
             /\ ParentAllows(p, disk.records[b.parent], now,
                             IF IsNormalChat(p) THEN b.args ELSE None)
             /\ WithinCeiling(p, disk.records[b.parent])
       /\ \E d \in IF IsNormalChat(p) THEN ReserveAttempt(disk, p) ELSE {disk} :
             Replaced(IssueSteps(p, d)) \/ Unanswered(IssueSteps(p, d))
       /\ UNCHANGED <<clock, owner, continuations, histories>>

(* Mutant of DispatchAllowed: the state of the record is not looked at.    *)
DispatchAllowedAgain(r, now) ==
    r.permit.binding.not_before <= now /\ now < r.permit.binding.expires_at

(* validate_dispatch of the exact binding, and the parent it names.        *)
DispatchAllowed(r, now) ==
    /\ r.state = "issued"
    /\ r.permit.binding.not_before <= now /\ now < r.permit.binding.expires_at

ParentStillAllows(r, now, attempt) ==
    LET parent == r.permit.binding.parent IN
    parent # None => /\ Reads(disk, parent)
                     /\ ParentAllows(r.permit, disk.records[parent], now, attempt)

Uses(i) ==
    /\ uses' = With(uses, i, IF i \in DOMAIN uses THEN uses[i] + 1 ELSE 1)
    /\ UNCHANGED <<revoked, receipts>>

(* The consumed record is published and only then answered.                *)
Consumes(i, r) ==
    /\ RecordIsValid(disk, r)
    /\ \/ /\ Replaced(<<WithRecord(disk, r)>>) /\ Uses(i)
          /\ continuations' = IF r.retained = None THEN continuations
                              ELSE continuations \cup {[permit |-> i, preflight |-> r.preflight]}
       \/ Unanswered(<<WithRecord(disk, r)>>) /\ UNCHANGED <<continuations, histories>>
    /\ UNCHANGED owner

(* consume: the caller's instant may be old when the lock is obtained.     *)
Consume(i, now) ==
    LET r == disk.records[i] IN
    /\ now \in Sampled
    /\ ~disk.fenced
    /\ Reads(disk, i)
    /\ r.permit.binding.tool # NormalChat
    /\ DispatchAllowed(r, now)
    /\ ParentStillAllows(r, now, None)
    /\ Consumes(i, [r EXCEPT !.state = "consumed", !.at = now])
    /\ UNCHANGED clock

(* consume_with_preflight: the clock is read under the lock and again      *)
(* before the record is replaced.                                          *)
ConsumeWithPreflight(i, final) ==
    LET r == disk.records[i] IN
    /\ final \in clock .. MaxTime
    /\ ~disk.fenced
    /\ Reads(disk, i)
    /\ r.permit.binding.tool # NormalChat
    /\ \A now \in {clock, final} : DispatchAllowed(r, now) /\ ParentStillAllows(r, now, None)
    /\ Consumes(i, [r EXCEPT !.state = "consumed", !.at = final, !.preflight = final])
    /\ clock' = final

(* consume_normal_chat_for_execution: the owner is asked between the two   *)
(* readings of the clock.                                                  *)
ConsumeNormalChat(i, final) ==
    LET r == disk.records[i]
        b == r.permit.binding
    IN /\ final \in clock .. MaxTime
       /\ ~disk.fenced
       /\ Reads(disk, i)
       /\ DispatchAllowed(r, clock)
       /\ OwnerAdmits(clock) /\ BindsNormalChat(b)
       /\ r.permit.purpose = "effect"
       /\ OwnerAdmits(final)
       /\ DispatchAllowed(r, final)
       /\ ParentStillAllows(r, final, b.args)
       /\ Consumes(i, [r EXCEPT !.state = "consumed", !.at = final,
                                !.preflight = final, !.retained = b.args])
       /\ clock' = final

(* A receipt is answered: written now, or found as it was written.         *)
Answers(i, r, receipt) ==
    \/ /\ Replaced(IF r = disk.records[i] THEN << >> ELSE <<WithRecord(disk, r)>>)
       /\ receipts' = receipts \cup {receipt}
       /\ UNCHANGED <<uses, revoked>>
    \/ /\ r # disk.records[i]
       /\ Unanswered(<<WithRecord(disk, r)>>)
       /\ UNCHANGED histories

(* Mutant of RecordReportedOutcome: a later report replaces an earlier one. *)
RecordReportedOutcomeAgain(i, report, now) ==
    LET r == disk.records[i]
        outcome == [reported |-> report, at |-> now]
    IN /\ now \in Sampled
       /\ Reads(disk, i)
       /\ r.preflight # None /\ r.preflight <= now
       /\ Answers(i, [r EXCEPT !.outcome = outcome],
                  [permit |-> i, kind |-> "outcome", body |-> outcome])
       /\ UNCHANGED <<clock, owner, continuations>>

(* record_reported_outcome.                                                *)
RecordReportedOutcome(i, report, now) ==
    LET r == disk.records[i]
        outcome == IF r.outcome = None THEN [reported |-> report, at |-> now] ELSE r.outcome
    IN /\ now \in Sampled
       /\ Reads(disk, i)
       /\ r.preflight # None /\ r.preflight <= now
       /\ outcome.reported = report
       /\ Answers(i, [r EXCEPT !.outcome = outcome],
                  [permit |-> i, kind |-> "outcome", body |-> outcome])
       /\ UNCHANGED <<clock, owner, continuations>>

(* settle_normal_chat: only the holder of the consumption's continuation.  *)
SettleNormalChat(k, bytes) ==
    LET i == k.permit
        r == disk.records[i]
        settlement == [outcome |-> r.outcome, bytes |-> bytes]
        settled == [r EXCEPT !.settlement = settlement]
    IN /\ k \in continuations
       /\ Reads(disk, i)
       /\ r.preflight = k.preflight
       /\ r.outcome # None
       /\ r.settlement \in {None, settlement}
       /\ RecordIsValid(disk, settled)
       /\ Answers(i, settled, [permit |-> i, kind |-> "settlement", body |-> settlement])
       /\ UNCHANGED <<clock, owner, continuations>>

(* revoke.                                                                 *)
Revoke(i, now) ==
    LET r == disk.records[i]
        after == <<WithRecord(disk, [r EXCEPT !.state = "revoked", !.at = now])>>
    IN /\ now \in Sampled
       /\ Reads(disk, i)
       /\ r.permit.binding.issued_at <= now
       /\ r.state = "issued"
       /\ \/ /\ Replaced(after)
             /\ revoked' = revoked \cup {i}
             /\ UNCHANGED <<uses, receipts>>
          \/ Unanswered(after) /\ UNCHANGED histories
       /\ UNCHANGED <<clock, owner, continuations>>

(* initialize_context_authority: refused while a consumed permit exists,   *)
(* and then fences issue and consume for good.                             *)
InitializeContextAuthority ==
    LET after == <<[disk EXCEPT !.fenced = TRUE]>> IN
    /\ ~disk.fenced
    /\ DirectoryReads(disk)
    /\ \A i \in DOMAIN disk.records : disk.records[i].state # "consumed"
    /\ Replaced(after) \/ Unanswered(after)
    /\ UNCHANGED <<clock, owner, continuations, histories>>
-----------------------------------------------------------------------------
(* The surroundings.                                                       *)

Tick ==
    /\ clock < MaxTime
    /\ clock' = clock + 1
    /\ UNCHANGED <<directory, owner, continuations, histories>>

ClockRegresses ==
    /\ "clock" \in Faults
    /\ \E t \in 0 .. clock - 1 : clock' = t
    /\ UNCHANGED <<directory, owner, continuations, histories>>

(* The injected policy owner extends, shortens or withdraws its consent.   *)
OwnerDecides ==
    /\ \E t \in Consents : t # owner /\ owner' = t
    /\ UNCHANGED <<directory, clock, continuations, histories>>

ProcessCrash ==
    /\ "crash" \in Faults
    /\ continuations # {}
    /\ continuations' = {}
    /\ UNCHANGED <<directory, clock, owner, histories>>

PowerLoss ==
    /\ DirectoryLosesPower
    /\ continuations' = {}
    /\ receipts' = {}
    /\ UNCHANGED <<clock, owner, uses, revoked>>

Next ==
    \/ \E p \in Proposals, t \in Times : Issue(p, t)
    \/ \E i \in PermitIds, t \in Times :
          \/ Consume(i, t)
          \/ ConsumeWithPreflight(i, t)
          \/ ConsumeNormalChat(i, t)
          \/ \E report \in Reports : RecordReportedOutcome(i, report, t)
          \/ Revoke(i, t)
    \/ \E k \in continuations, bytes \in Sizes : SettleNormalChat(k, bytes)
    \/ InitializeContextAuthority
    \/ Tick
    \/ ClockRegresses
    \/ OwnerDecides
    \/ ProcessCrash
    \/ PowerLoss

Spec == Init /\ [][Next]_vars

-----------------------------------------------------------------------------
(* Properties.                                                             *)

(* Whatever call stops wherever and whatever a power loss takes back,      *)
(* read_record accepts every record that is left: above all, a consumed    *)
(* normal-chat record always finds its attempt in the journal.             *)
RecordsStayReadable ==
    \A d \in surviving : \A i \in DOMAIN d.records : RecordIsValid(d, d.records[i])

(* record_reported_outcome: "An ACK retry must return the persisted        *)
(* timestamp and digest, never mint a new receipt or overwrite ambiguity." *)
(* Until power is lost an answered outcome or settlement receipt is final: *)
(* a later answer is the same receipt, and no failed or stopped call and   *)
(* no regressing clock replaces it.                                        *)
ReceiptsAreFinal ==
    /\ \A x, y \in receipts : x.permit = y.permit /\ x.kind = y.kind => x = y
    /\ \A x \in receipts :
          LET r == disk.records[x.permit] IN
          x.body = IF x.kind = "outcome" THEN r.outcome ELSE r.settlement

(* Records stay readable and receipts final.                               *)
RecordsAreKept == RecordsStayReadable /\ ReceiptsAreFinal

(* The allocations of a parent are the reservation journal of its          *)
(* children: no child record survives without its allocation, and the      *)
(* allocations never exceed the ceiling, through stops between the two     *)
(* records, retries and power loss.                                        *)
AllocationsCoverChildren ==
    \A d \in surviving : \A i \in DOMAIN d.records :
        LET r == d.records[i]
            parent == r.permit.binding.parent
        IN /\ r.permit.ceiling # None => Allocated(r) <= r.permit.ceiling.budget
           /\ parent # None => /\ parent \in DOMAIN d.records
                               /\ i \in d.records[parent].child_allocations

(* A permit and the permits it was delegated from.                         *)
Lineage(i) ==
    LET up[k \in 0 .. i.binding.depth] == IF k = 0 THEN i ELSE up[k - 1].binding.parent
    IN {up[k] : k \in 0 .. i.binding.depth}

(* A consumed effect lies in the validity window of every permit above it  *)
(* and in its own, and was among the actions each of them delegates (a     *)
(* normal-chat retry: of their lane): attenuation is transitive although   *)
(* every check compares only a permit and its parent.                      *)
ConsumedWithinLineage ==
    \A i \in DOMAIN disk.records :
        LET r == disk.records[i] IN
        r.state = "consumed" =>
            \A j \in Lineage(i) :
                LET q == disk.records[j] IN
                /\ j \in DOMAIN disk.records
                /\ q.permit.binding.not_before <= r.at /\ r.at < q.permit.binding.expires_at
                /\ r.permit.purpose = "effect" /\ j # i =>
                      \E a \in q.permit.ceiling.actions :
                          /\ a.tool = i.binding.tool
                          /\ i.binding.effect.roots \subseteq a.effect.roots
                          /\ a.args = i.binding.args \/ i.binding.tool = NormalChat

(* The effects executed under a control permit, at any depth, stay within  *)
(* its budget, its validity window and the actions it delegates.           *)
EffectsWithinEveryCeiling ==
    /\ \A c \in UNION {Lineage(i) : i \in DOMAIN uses} : c.purpose = "control" =>
          BudgetOf({i \in DOMAIN uses : i.purpose = "effect" /\ c \in Lineage(i)})
             <= c.binding.budget
    /\ ConsumedWithinLineage

(* However often an attempt is retried, issued anew with other times or    *)
(* arguments, or stopped half way: per control permit at most one effect   *)
(* of each attempt number runs, and all belong to one operation.           *)
OneEffectPerAttempt ==
    \A i, j \in {k \in DOMAIN uses : k.binding.tool = NormalChat} :
        i.binding.parent = j.binding.parent =>
            /\ i.binding.args.operation = j.binding.args.operation
            /\ i # j => i.binding.args.number # j.binding.args.number

(* A consumption that reads the clock under the lock happens before the    *)
(* permit, its parent and the policy owner's consent expire, even when the *)
(* lock, the owner or the disk was slow.                                   *)
ConsumesFresh ==
    \A i \in DOMAIN uses' \ DOMAIN uses :
        disk'.records[i].preflight # None =>
            /\ clock' < disk.records[i].permit.binding.expires_at
            /\ i.binding.parent # None =>
                  clock' < disk.records[i.binding.parent].permit.binding.expires_at
            /\ i.binding.tool = NormalChat => clock' < owner

(* After every step each attempt has run at most once, and in time.        *)
AttemptsRunOnceInTime == [][OneEffectPerAttempt' /\ ConsumesFresh]_vars

Parents == [i \in PermitIds |-> i.binding.parent]

(* The store keeps the promise of PermitUse: a permit is used at most      *)
(* once, and never after its revocation or that of its parent was          *)
(* answered.                                                               *)
Promise == INSTANCE PermitUse WITH Permits <- PermitIds, Parent <- Parents

(* Every behaviour of the store is one that PermitUse allows.              *)
Implements == Promise!Spec
=============================================================================
