-------------------------- MODULE ContextAuthority --------------------------
(***************************************************************************)
(* Scoped authority over external effects:                                 *)
(* crates/recursive-agent-policy/src/context_authority.rs.                 *)
(*                                                                         *)
(* One file, replaced under the lock of the permit store, holds the        *)
(* enrolled scopes, the scoped permits, the receipts of transitions and    *)
(* the journal they can be replayed from; the records of the older permits *)
(* lie beside it.  Every call is one action; it reads and validates the    *)
(* file, and validates what it writes.                                     *)
(*                                                                         *)
(* A content digest is the value it digests.  A request is signed by the   *)
(* controller of the grant it names (any other is refused), so keys are    *)
(* part of the grant's policy.  subject stands for actor and write root,   *)
(* policy for policy version, policy digest and controller key.  The file  *)
(* is never removed, so there is one incarnation.                          *)
(***************************************************************************)
EXTENDS DurableDirectory, FiniteSets

CONSTANTS
    Scopes,         \* names of scopes
    Effects,        \* effects that approvals are for
    Configurations, \* what operators enroll: [revision, verifier, grants]
    Witnesses,      \* approvals: [effect, subject, policy, verifier, not_before, expires_at]
    Contexts,       \* contexts a retirement may name
    TransitionIds,  \* identities of transition requests
    Reports,        \* effect outcomes executors report
    Daemons,        \* processes that serve the store
    MaxPermits,     \* MAX_PERMITS
    MaxTransitions, \* MAX_TRANSITIONS
    MaxTime,        \* bound: the last instant of the clock
    None            \* an Option that is None

VARIABLES
    clock,      \* the trusted clock
    access,     \* per daemon, the configuration its access was granted for
    refused,    \* history: why writes whose guards held were refused as invalid:
                \*    subset of {"full", "inconsistent"}
    dispatched, \* history: permits whose consumption was answered, with its number
    retired,    \* history: receipts of transitions that were answered, by the call
                \*    that wrote them ("write") or by a later one ("read")
    settled     \* history: outcomes that were answered, likewise

answers == <<dispatched, retired, settled>>
vars == <<directory, clock, access, refused, answers>>

(* AuthorityState as initialize_context_authority writes it.               *)
EmptyState ==
    [configuration |-> None, scopes |-> [s \in Scopes |-> None], permits |-> {},
     approvals |-> [e \in Effects |-> None], journal |-> << >>]

Init ==
    /\ DirectoryInit([legacy |-> [e \in Effects |-> "absent"], context |-> None])
    /\ clock = 0
    /\ access = [d \in Daemons |-> None]
    /\ refused = {}
    /\ dispatched = {} /\ retired = {} /\ settled = {}

context == disk.context

-----------------------------------------------------------------------------
(* Grants, and the head of a scope.                                        *)

GrantIsValid(g) ==
    /\ g.not_before < g.expires_at
    /\ g.max_effects \in 1 .. MaxPermits
    /\ g.max_transitions \in 1 .. MaxTransitions
    /\ g.head.generation > 0

AuthorityOf(state) == [scope |-> state.grant.scope, grant |-> state.grant, head |-> state.head]

(* AuthorityState::current.                                                *)
IsCurrent(s, a, now) ==
    LET scope == s.scopes[a.scope] IN
    /\ scope # None
    /\ scope.active
    /\ AuthorityOf(scope) = a
    /\ scope.grant.not_before <= now /\ now < scope.grant.expires_at

(* AuthorityState::consumed: every consumed effect of the scope, with the  *)
(* outcome reported so far.                                                *)
Consumed(s, scope) ==
    {r \in s.permits : r.permit.authority.scope = scope /\ r.preflight # None}

-----------------------------------------------------------------------------
(* apply_configuration.                                                    *)

(* A grant continues the scope: nothing it charged is forgotten, nothing   *)
(* it may do is widened.                                                   *)
Supersedes(g, scope) ==
    IF scope = None THEN g.previous = None
    ELSE IF scope.grant = g THEN scope.active
    ELSE /\ g.previous = scope.grant
         /\ g.head = scope.head
         /\ g.max_effects <= scope.grant.max_effects
         /\ g.max_transitions <= scope.grant.max_transitions
         /\ g.subject = scope.grant.subject

ConfigurationApplies(s, c) ==
    /\ c.revision > 0
    /\ s.configuration # None => c.revision > s.configuration.revision
    /\ \A g \in c.grants :
          /\ GrantIsValid(g)
          /\ \A h \in c.grants \ {g} : h.scope # g.scope
          /\ Supersedes(g, s.scopes[g.scope])

NewScope(g) ==
    [grant |-> g, head |-> g.head, active |-> TRUE, effects |-> 0, transitions |-> 0,
     retirement |-> None]

Configured(s, c) ==
    [s EXCEPT !.configuration = c,
              !.scopes = [k \in Scopes |->
                  IF \E g \in c.grants : g.scope = k
                  THEN LET g == CHOOSE g \in c.grants : g.scope = k
                       IN IF s.scopes[k] = None THEN NewScope(g)
                          ELSE [s.scopes[k] EXCEPT !.grant = g, !.active = TRUE]
                  ELSE IF s.scopes[k] = None THEN None
                  ELSE [s.scopes[k] EXCEPT !.active = FALSE]]]

-----------------------------------------------------------------------------
(* Transitions: a request is [authority, id, action, argument].            *)

(* What a retirement or an activation makes of the head.                   *)
Successor(scope, q) ==
    IF q.action = "retire"
    THEN [context |-> q.argument, generation |-> scope.head.generation + 1, mode |-> "sealed"]
    ELSE [scope.head EXCEPT !.mode = "active"]

(* An activation names the retirement that sealed the head.                *)
TransitionApplies(s, q, at) ==
    LET scope == s.scopes[q.authority.scope] IN
    /\ IsCurrent(s, q.authority, at)
    /\ scope.transitions < scope.grant.max_transitions
    /\ q.action = "activate" => scope.head.mode = "sealed" /\ scope.retirement = q.argument

Transitioned(s, r) ==
    LET k == r.request.authority.scope
        scope == s.scopes[k]
    IN [s EXCEPT !.scopes[k] =
           [scope EXCEPT !.head = r.successor,
                         !.transitions = @ + 1,
                         !.retirement = IF r.request.action = "retire" THEN r ELSE @]]

Receipts(s) ==
    {s.journal[n].receipt : n \in {m \in 1 .. Len(s.journal) : s.journal[m].event = "transition"}}

Ids(s) == {r.request.id : r \in Receipts(s)}

-----------------------------------------------------------------------------
(* validate_context_history: the journal is replayed.                      *)

(* The inventory of a receipt is exact for the generations it ended.       *)
InventoryHolds(s, r) ==
    LET earlier == {x \in Consumed(s, r.request.authority.scope) :
                       x.permit.authority.head.generation < r.successor.generation}
    IN /\ {x.permit : x \in earlier} = {h.permit : h \in r.consumed}
       /\ \A h \in r.consumed : \E x \in earlier :
             /\ x.permit = h.permit /\ x.preflight = h.preflight
             /\ h.preflight <= r.at
             /\ h.outcome # None => x.outcome = h.outcome /\ h.outcome.at <= r.at

EventApplies(replayed, s, event) ==
    IF event.event = "enrollment" THEN ConfigurationApplies(replayed, event.configuration)
    ELSE LET r == event.receipt
             q == r.request
         IN /\ TransitionApplies(replayed, q, r.at)
            /\ r.successor = Successor(replayed.scopes[q.authority.scope], q)
            /\ InventoryHolds(s, r)

(* The states the journal goes through, None from the first event that     *)
(* does not apply.                                                         *)
Replay(s) ==
    LET after[n \in 0 .. Len(s.journal)] ==
            IF n = 0 THEN EmptyState
            ELSE LET before == after[n - 1]
                     event == s.journal[n]
                 IN IF before = None THEN None
                    ELSE IF ~EventApplies(before, s, event) THEN None
                    ELSE IF event.event = "enrollment" THEN Configured(before, event.configuration)
                    ELSE Transitioned(before, event.receipt)
    IN after

(* The heads effects were ever admitted under, with their verifier.        *)
AdmittedHeads(after) ==
    UNION {LET s == after[n]
               admitting == {k \in Scopes : /\ s.scopes[k] # None
                                            /\ s.scopes[k].active
                                            /\ s.scopes[k].head.mode = "active"}
           IN {<<AuthorityOf(s.scopes[k]), s.configuration.verifier>> : k \in admitting} :
           n \in DOMAIN after}

Charged(s, k) == Cardinality({r \in s.permits : r.permit.authority.scope = k})

HistoryIsValid(s) ==
    LET after == Replay(s)
        last == after[Len(s.journal)]
    IN /\ Len(s.journal) <= 2 * MaxTransitions
       /\ last # None
       /\ Cardinality(Ids(s)) = Cardinality(Receipts(s))
       /\ last.configuration = s.configuration
       /\ \A k \in Scopes :
             IF last.scopes[k] = None THEN s.scopes[k] = None
             ELSE s.scopes[k] = [last.scopes[k] EXCEPT !.effects = Charged(s, k)]
       /\ \A r \in s.permits :
             LET a == r.permit.authority
                 w == r.permit.witness
             IN /\ <<a, r.permit.verifier>> \in AdmittedHeads(after)
                /\ w.policy = a.grant.policy /\ w.subject = a.grant.subject
                /\ w.expires_at <= a.grant.expires_at

(* validate_context_state.                                                 *)
StateIsValid(s) ==
    /\ HistoryIsValid(s)
    /\ Cardinality(s.permits) <= MaxPermits
    /\ Cardinality(Receipts(s)) <= MaxTransitions
    /\ Cardinality({e \in Effects : s.approvals[e] # None}) = Cardinality(s.permits)
    /\ \A r \in s.permits :
          /\ s.approvals[r.permit.witness.effect] = r.permit
          /\ s.scopes[r.permit.authority.scope] # None
          /\ r.outcome # None => r.preflight # None /\ r.preflight <= r.outcome.at
          /\ r.preflight # None => /\ r.permit.witness.not_before <= r.preflight
                                   /\ r.preflight < r.permit.witness.expires_at

-----------------------------------------------------------------------------
(* replace_context_state: the new state is validated before it is written, *)
(* and the answer says it was.                                             *)

WithContext(s) == [disk EXCEPT !.context = s]

Writes(s) == StateIsValid(s) /\ Replaced(<<WithContext(s)>>) /\ UNCHANGED refused

(* The history of a store is bounded, and enrollments are part of it.      *)
Refusal(s) == IF Len(s.journal) > 2 * MaxTransitions THEN "full" ELSE "inconsistent"

Unwritten(s) ==
    /\ IF StateIsValid(s) THEN Unanswered(<<WithContext(s)>>) /\ UNCHANGED refused
       ELSE /\ UNCHANGED directory
            /\ refused' = refused \cup {Refusal(s)}
    /\ UNCHANGED answers

(* The owner of the store reads its clock twice, the second time later.    *)
ClockReads(final) == final \in clock .. MaxTime /\ clock' = final

(* The caller that is answered carries the effect out.                     *)
Dispatches(e, permit) ==
    dispatched' = dispatched \cup
        {[effect |-> e, permit |-> permit,
          number |-> 1 + Cardinality({x \in dispatched : x.effect = e})]}

-----------------------------------------------------------------------------
(* The older permits of the store, fenced once the file exists.            *)

LegacyIssue(e) ==
    /\ context = None
    /\ disk.legacy[e] = "absent"
    /\ LET new == [disk EXCEPT !.legacy[e] = "issued"]
       IN Replaced(<<new>>) \/ Unanswered(<<new>>)
    /\ UNCHANGED <<clock, access, refused, answers>>

LegacyConsume(e) ==
    /\ context = None
    /\ disk.legacy[e] = "issued"
    /\ LET new == [disk EXCEPT !.legacy[e] = "consumed"]
       IN \/ /\ Replaced(<<new>>)
             /\ Dispatches(e, None)
             /\ UNCHANGED <<retired, settled>>
          \/ Unanswered(<<new>>) /\ UNCHANGED answers
    /\ UNCHANGED <<clock, access, refused>>

-----------------------------------------------------------------------------
(* initialize_context_authority: refused once an effect was consumed that  *)
(* belongs to no scope.                                                    *)

Initialize ==
    /\ context = None
    /\ \A e \in Effects : disk.legacy[e] # "consumed"
    /\ Writes(EmptyState) \/ Unwritten(EmptyState)
    /\ UNCHANGED <<clock, access, answers>>

(* enroll_context_authority by a daemon that starts: the configuration it  *)
(* was given is current, or becomes it.                                    *)
Enroll(d, c) ==
    LET new == [Configured(context, c) EXCEPT
                   !.journal = Append(@, [event |-> "enrollment", configuration |-> c])]
    IN /\ context # None
       /\ \/ /\ context.configuration = c
             /\ access' = [access EXCEPT ![d] = c]
             /\ UNCHANGED <<directory, refused, answers>>
          \/ /\ context.configuration # c /\ ConfigurationApplies(context, c)
             /\ \/ Writes(new) /\ access' = [access EXCEPT ![d] = c] /\ UNCHANGED answers
                \/ Unwritten(new) /\ access' = [access EXCEPT ![d] = None]
       /\ UNCHANGED clock

(* The access of the daemon is for the configuration in force; its         *)
(* approval verifier is the one of that configuration.                     *)
HasAccess(d) == context # None /\ access[d] # None /\ context.configuration = access[d]

-----------------------------------------------------------------------------
(* issue_scoped_external_permit.                                           *)

WitnessHolds(w, verifier, now) ==
    w.verifier = verifier /\ w.not_before <= now /\ now < w.expires_at

(* An approval is reserved by one permit, whatever scope or generation it  *)
(* is presented for, and not at all if the older store has a record of it. *)
Reservable(w, a) ==
    context.approvals[w.effect] = None /\ disk.legacy[w.effect] = "absent"

IssueScoped(d, w, a, final) ==
    LET scope == context.scopes[a.scope]
        permit == [witness |-> w, authority |-> a, verifier |-> access[d].verifier]
        new == [context EXCEPT
                   !.scopes[a.scope].effects = @ + 1,
                   !.approvals[w.effect] = permit,
                   !.permits = @ \cup {[permit |-> permit, preflight |-> None, outcome |-> None]}]
    IN /\ HasAccess(d)
       /\ ClockReads(final)
       /\ \A now \in {clock, final} :
             IsCurrent(context, a, now) /\ WitnessHolds(w, access[d].verifier, now)
       /\ a.head.mode = "active"
       /\ w.subject = a.grant.subject /\ w.policy = a.grant.policy
       /\ w.expires_at <= a.grant.expires_at
       /\ Reservable(w, a)
       /\ scope.effects < scope.grant.max_effects
       /\ Cardinality(context.permits) < MaxPermits
       /\ \/ Writes(new) /\ UNCHANGED answers
          \/ Unwritten(new)
       /\ UNCHANGED access

(* Mutant of ConsumeScoped: a consumed permit may be consumed again.       *)
ConsumeScopedAgain(d, r, final) ==
    LET new == [context EXCEPT
                   !.permits = (@ \ {r}) \cup {[r EXCEPT !.preflight = final]}]
    IN /\ HasAccess(d)
       /\ ClockReads(final)
       /\ \A now \in {clock, final} : IsCurrent(context, r.permit.authority, now)
       /\ r.permit.authority.head.mode = "active"
       /\ \/ /\ Writes(new) /\ Dispatches(r.permit.witness.effect, r.permit)
             /\ UNCHANGED <<retired, settled>>
          \/ Unwritten(new)
       /\ UNCHANGED access

(* consume_scoped_external_permit.                                         *)
ConsumeScoped(d, r, final) ==
    LET p == r.permit
        new == [context EXCEPT
                   !.permits = (@ \ {r}) \cup {[r EXCEPT !.preflight = final]}]
    IN /\ HasAccess(d)
       /\ p.verifier = access[d].verifier
       /\ ClockReads(final)
       /\ \A now \in {clock, final} : IsCurrent(context, p.authority, now)
       /\ r.preflight = None
       /\ p.authority.head.mode = "active"
       /\ p.witness.not_before <= final /\ final < p.witness.expires_at
       /\ \/ Writes(new) /\ Dispatches(p.witness.effect, p) /\ UNCHANGED <<retired, settled>>
          \/ Unwritten(new)
       /\ UNCHANGED access

Answers(history) == {a.what : a \in history}
Answered(history, by, what) ==
    IF by = "read" /\ what \in Answers(history) THEN history
    ELSE history \cup {[by |-> by, what |-> what]}

(* transition_context_authority: the request that was written before is    *)
(* answered again, whatever is current.                                    *)
Transition(d, q, final) ==
    LET receipt == [request |-> q, successor |-> Successor(context.scopes[q.authority.scope], q),
                    consumed |-> Consumed(context, q.authority.scope), at |-> final]
        new == [Transitioned(context, receipt) EXCEPT
                   !.journal = Append(@, [event |-> "transition", receipt |-> receipt])]
    IN /\ HasAccess(d)
       /\ \/ /\ q.id \in Ids(context)
             /\ \E r \in Receipts(context) :
                   r.request = q /\ retired' = Answered(retired, "read", r)
             /\ final = clock
             /\ UNCHANGED <<directory, clock, refused, dispatched, settled>>
          \/ /\ q.id \notin Ids(context)
             /\ ClockReads(final)
             /\ \A now \in {clock, final} : TransitionApplies(context, q, now)
             /\ Cardinality(Receipts(context)) < MaxTransitions
             /\ \/ Writes(new) /\ retired' = Answered(retired, "write", receipt)
                   /\ UNCHANGED <<dispatched, settled>>
                \/ Unwritten(new)
       /\ UNCHANGED access

(* settle_scoped_external_permit: only the exact permit and its preflight  *)
(* are asked for; what is enrolled or current is not.                      *)
SettleScoped(r, report) ==
    LET outcome == IF r.outcome = None THEN [report |-> report, at |-> clock] ELSE r.outcome
        new == [context EXCEPT !.permits = (@ \ {r}) \cup {[r EXCEPT !.outcome = outcome]}]
    IN /\ r.preflight # None /\ r.preflight <= clock
       /\ r.outcome # None => r.outcome.report = report
       /\ \/ /\ IF r.outcome = None THEN Writes(new) ELSE UNCHANGED <<directory, refused>>
             /\ settled' = Answered(settled, IF r.outcome = None THEN "write" ELSE "read",
                                    [permit |-> r.permit, outcome |-> outcome])
             /\ UNCHANGED <<dispatched, retired>>
          \/ r.outcome = None /\ Unwritten(new)
       /\ UNCHANGED <<clock, access>>

-----------------------------------------------------------------------------
(* A daemon ends; it has access again when it enrolls.                     *)
DaemonStops(d) ==
    /\ "crash" \in Faults
    /\ access[d] # None
    /\ access' = [access EXCEPT ![d] = None]
    /\ UNCHANGED <<directory, clock, refused, answers>>

(* What was read back from a file whose replacement stopped before its     *)
(* sync may be lost, although it was answered.                             *)
PowerLoss ==
    /\ DirectoryLosesPower
    /\ access' = [d \in Daemons |-> None]
    /\ retired' = {a \in retired : a.by = "write"}
    /\ settled' = {a \in settled : a.by = "write"}
    /\ UNCHANGED <<clock, refused, dispatched>>

Tick == clock < MaxTime /\ clock' = clock + 1 /\ UNCHANGED <<directory, access, refused, answers>>

(* The wall clock is set back.                                             *)
ClockJumps ==
    /\ "clock" \in Faults
    /\ clock' \in 0 .. clock - 1
    /\ UNCHANGED <<directory, access, refused, answers>>

Enrolled == {k \in Scopes : context.scopes[k] # None}

(* The requests for the scope as it stands, and the ones made before.  A   *)
(* request for a scope that has moved on is refused.                       *)
TransitionRequests(k) ==
    LET scope == context.scopes[k] IN
    {[authority |-> AuthorityOf(scope), id |-> id, action |-> "retire", argument |-> c] :
        id \in TransitionIds, c \in Contexts}
    \cup {[authority |-> AuthorityOf(scope), id |-> id, action |-> "activate",
           argument |-> scope.retirement] : id \in TransitionIds}
    \cup {r.request : r \in Receipts(context)}

DaemonStep(d) ==
    \/ \E c \in Configurations : Enroll(d, c)
    \/ DaemonStops(d)
    \/ /\ context # None
       /\ \E final \in {clock, clock + 1} :
             \/ \E w \in Witnesses, k \in Enrolled :
                   IssueScoped(d, w, AuthorityOf(context.scopes[k]), final)
             \/ \E r \in context.permits : ConsumeScoped(d, r, final)
             \/ \E k \in Enrolled : \E q \in TransitionRequests(k) : Transition(d, q, final)

Next ==
    \/ \E e \in Effects : LegacyIssue(e) \/ LegacyConsume(e)
    \/ Initialize
    \/ \E d \in Daemons : DaemonStep(d)
    \/ context # None /\ \E r \in context.permits, report \in Reports : SettleScoped(r, report)
    \/ Tick \/ ClockJumps \/ PowerLoss

Spec == Init /\ [][Next]_vars

-----------------------------------------------------------------------------
(* Properties.                                                             *)

(* One approval leads to at most one effect, whatever scopes, generations, *)
(* configurations, daemons and power losses lie between its uses, and      *)
(* whether or not the older store had it first.                            *)
ApprovalsAreSpentOnce == \A x \in dispatched : x.number = 1

(* A retirement that was answered lists every effect dispatched under the  *)
(* generations it ended: none is dispatched later, and none was missed.    *)
(* A power loss does not change that, unless the answer was read back from *)
(* a file that was not synced.                                             *)
RetirementsAreComplete ==
    \A r \in Answers(retired) : \A x \in dispatched :
        /\ x.permit # None
        /\ x.permit.authority.scope = r.request.authority.scope
        /\ x.permit.authority.head.generation < r.successor.generation
        => \E h \in r.consumed : h.permit = x.permit

(* The record of every dispatched effect stays in the file: retirement,    *)
(* revocation, restarts and power losses do not take away the way to       *)
(* settle it.  So does every outcome that was answered, with the same      *)
(* exception.                                                              *)
ObligationsSurvive ==
    /\ \A x \in dispatched : x.permit # None =>
          /\ context # None
          /\ \E r \in context.permits : r.permit = x.permit /\ r.preflight # None
    /\ \A o \in Answers(settled) : \E r \in context.permits :
          r.permit = o.permit /\ r.outcome = o.outcome

(* The validation that replays the journal before every write refuses no   *)
(* operation whose own conditions held, but an enrollment or transition    *)
(* beyond the limit of the journal.                                        *)
HistoryStaysValid == refused \subseteq {"full"}

(* The scopes of a store spend no more than the first grant of each        *)
(* allows, however often the grant is superseded.                          *)
SupersessionNeverWidens ==
    context # None =>
        \A k \in Scopes : \A n \in 1 .. Len(context.journal) :
            context.journal[n].event = "enrollment" =>
                \A g \in context.journal[n].configuration.grants :
                    g.scope = k => Charged(context, k) <= g.max_effects \/ g.previous # None

(* An effect is dispatched only under a grant of the configuration in      *)
(* force and under the head the scope has at that moment.                  *)
DispatchIsCurrent ==
    \A x \in dispatched' \ dispatched : x.permit # None =>
        LET a == x.permit.authority IN
        /\ a.grant \in context.configuration.grants
        /\ context.scopes[a.scope].head = a.head /\ a.head.mode = "active"
        /\ x.permit.verifier = context.configuration.verifier
=============================================================================
