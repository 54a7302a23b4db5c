-------------------------- MODULE FamilyAuthority ---------------------------
(***************************************************************************)
(* The allocation store of one family of runs: FamilyAuthorityStore of     *)
(* crates/recursive-agent-policy/src/lib.rs, and the guard the runner      *)
(* holds around every effect of a child run (FamilyDispatchGuardV1 of      *)
(* crates/recursive-agent-runner/src/lib.rs).                              *)
(*                                                                         *)
(* One file holds the grant, the revocation and the children; each call    *)
(* reads it, and replaces it at most once, under the thread gate and the   *)
(* file lock.  A child's control permit id is derived from its request, so *)
(* the request stands for the permit.  One number stands for the three     *)
(* dimensions of a budget.                                                 *)
(***************************************************************************)
EXTENDS DurableDirectory, FiniteSets

CONSTANTS
    Grants,         \* root grants openers present: [root, permit, max_depth,
                    \*    max_children, budget, not_before, expires_at]
    Requests,       \* child proposals: [child, parent, root, permit, budget, depth]
    MaxTime,        \* bound: the last instant of the clock
    None            \* an Option that is None

ChildIds == {q.child : q \in Requests}

(* What the file holds once it is there.                                   *)
States ==
    [grant : Grants, parent_revoked_at : Nat \cup {None},
     children : [ChildIds -> Requests \cup {None}]]

(* Ceilings and budgets are numbers, and None is nothing else.             *)
FamilyConstants ==
    /\ \A g \in Grants : {g.max_depth, g.max_children, g.budget} \subseteq Nat
    /\ \A q \in Requests : {q.budget, q.depth} \subseteq Nat
    /\ None \notin Requests /\ None \notin Nat /\ None \notin States
ASSUME FamilyAssumption == FamilyConstants

VARIABLES
    clock,      \* the trusted clock
    stage,      \* per request, where the step of its run is: "idle", "cleared"
                \*    (the guard allowed the effect), "running" (the effect),
                \*    "kept" (the guard allowed its result)
    opened,     \* history: grants under which an open was answered
    reserved,   \* history: requests whose reservation was answered
    revoked,    \* history: a revocation was answered
    succeeded   \* history: requests whose step was recorded as completed
                \*    (each since the last power loss)

histories == <<opened, reserved, revoked, succeeded>>
vars == <<directory, clock, stage, histories>>

Init ==
    /\ DirectoryInit(None)
    /\ clock = 0
    /\ stage = [q \in Requests |-> "idle"]
    /\ opened = {} /\ reserved = {} /\ revoked = FALSE /\ succeeded = {}

-----------------------------------------------------------------------------
(* FamilyRootGrantV1::validate and ChildRunCeilingV1::validate.            *)
GrantIsValid(g) ==
    g.max_depth > 0 /\ g.max_children > 0 /\ g.budget > 0 /\ g.not_before < g.expires_at

(* from_dir_fd.                                                            *)
Open(g) ==
    LET new == [grant |-> g, parent_revoked_at |-> None,
                children |-> [c \in ChildIds |-> None]]
        steps == IF disk = None THEN <<new>> ELSE << >>
    IN /\ GrantIsValid(g)
       /\ disk # None => disk.grant = g
       /\ \/ Replaced(steps) /\ opened' = opened \cup {g}
          \/ disk = None /\ Unanswered(steps) /\ UNCHANGED opened
       /\ UNCHANGED <<clock, stage, reserved, revoked, succeeded>>

Children(s) == {c \in ChildIds : s.children[c] # None}
Units(s) == UNION {{c} \X (1 .. s.children[c].budget) : c \in Children(s)}
Reserved(s) == Cardinality(Units(s))

InWindow(g, now) == g.not_before <= now /\ now < g.expires_at

(* Mutant of RequestIsValid: a child may hang below a run that is not in   *)
(* the family.                                                             *)
RequestIsValidAnyParent(s, q, now) ==
    /\ s.parent_revoked_at = None
    /\ InWindow(s.grant, now)
    /\ q.root = s.grant.root /\ q.child \notin {q.parent, q.root}
    /\ q.depth \in 1 .. s.grant.max_depth
    /\ q.budget <= s.grant.budget

(* validate_family_request.                                                *)
RequestIsValid(s, q, now) ==
    LET g == s.grant IN
    /\ s.parent_revoked_at = None
    /\ InWindow(g, now)
    /\ q.root = g.root /\ q.child \notin {q.parent, q.root}
    /\ q.depth \in 1 .. g.max_depth
    /\ q.budget <= g.budget
    /\ \/ q.parent = g.root /\ q.permit = g.permit /\ q.depth = 1
       \/ /\ q.parent # g.root
          /\ q.parent \in Children(s)
          /\ q.permit = s.children[q.parent]
          /\ q.depth = s.children[q.parent].depth + 1

(* The ceilings on children and on their cumulative budget.                *)
Fits(s, q) ==
    /\ Cardinality(Children(s)) < s.grant.max_children
    /\ Reserved(s) + q.budget <= s.grant.budget

(* reserve_child: the same request finds its permit again.                 *)
ReserveChild(q) ==
    LET steps == IF disk.children[q.child] = q THEN << >>
                 ELSE <<[disk EXCEPT !.children[q.child] = q]>>
    IN /\ disk # None
       /\ RequestIsValid(disk, q, clock)
       /\ disk.children[q.child] \in {None, q}
       /\ disk.children[q.child] = None => Fits(disk, q)
       /\ \/ Replaced(steps) /\ reserved' = reserved \cup {q}
          \/ steps # << >> /\ Unanswered(steps) /\ UNCHANGED reserved
       /\ UNCHANGED <<clock, stage, opened, revoked, succeeded>>

(* revoke_parent: written once.                                            *)
RevokeParent ==
    LET steps == IF disk.parent_revoked_at # None THEN << >>
                 ELSE <<[disk EXCEPT !.parent_revoked_at = clock]>>
    IN /\ disk # None
       /\ \/ Replaced(steps) /\ revoked' = TRUE
          \/ steps # << >> /\ Unanswered(steps) /\ UNCHANGED revoked
       /\ UNCHANGED <<clock, stage, opened, reserved, succeeded>>

(* Mutant of GuardAllows: the reservation alone authorizes.                *)
GuardAllowsReserved(q) == disk # None /\ disk.children[q.child] = q

(* guard_child_dispatch, for a run that holds the permit of request q.     *)
GuardAllows(q) ==
    /\ disk # None
    /\ disk.children[q.child] = q
    /\ disk.parent_revoked_at = None
    /\ InWindow(disk.grant, clock)

At(q, where) == stage[q] = where
Goes(q, where) == stage' = [stage EXCEPT ![q] = where]

(* FamilyDispatchGuardV1::check before the effect, by a run whose          *)
(* reservation was answered; a denied step fails.                          *)
CheckBefore(q) ==
    /\ q \in reserved /\ At(q, "idle")
    /\ GuardAllows(q)
    /\ Goes(q, "cleared")
    /\ UNCHANGED <<directory, clock, histories>>

(* dispatch_tool, under no lock of the family, unless the lease or the     *)
(* parent's permit ended.                                                  *)
Dispatch(q) ==
    /\ At(q, "cleared")
    /\ Goes(q, "running") \/ Goes(q, "idle")
    /\ UNCHANGED <<directory, clock, histories>>

(* The effect returned and the guard is checked again: a family that ended *)
(* meanwhile turns the result into an error, as do a failed effect, an     *)
(* ended parent and an exceeded budget.                                    *)
EffectReturns(q) ==
    /\ At(q, "running")
    /\ \/ GuardAllows(q) /\ Goes(q, "kept")
       \/ Goes(q, "idle")
    /\ UNCHANGED <<directory, clock, histories>>

(* The artifacts are put and the step's completion is appended, without    *)
(* another look at the family; or one of these fails.                      *)
RecordSuccess(q) ==
    /\ At(q, "kept")
    /\ Goes(q, "idle")
    /\ succeeded' = succeeded \cup {q} \/ UNCHANGED succeeded
    /\ UNCHANGED <<directory, clock, opened, reserved, revoked>>

Tick ==
    /\ clock < MaxTime
    /\ clock' = clock + 1
    /\ UNCHANGED <<directory, stage, histories>>

ProcessCrash ==
    /\ "crash" \in Faults
    /\ \E q \in Requests : ~At(q, "idle")
    /\ stage' = [q \in Requests |-> "idle"]
    /\ UNCHANGED <<directory, clock, histories>>

PowerLoss ==
    /\ DirectoryLosesPower
    /\ stage' = [q \in Requests |-> "idle"]
    /\ opened' = {} /\ reserved' = {} /\ revoked' = FALSE /\ succeeded' = {}
    /\ UNCHANGED clock

Next ==
    \/ \E g \in Grants : Open(g)
    \/ \E q \in Requests :
           \/ ReserveChild(q) \/ CheckBefore(q)
           \/ Dispatch(q) \/ EffectReturns(q) \/ RecordSuccess(q)
    \/ RevokeParent
    \/ Tick
    \/ ProcessCrash
    \/ PowerLoss

Spec == Init /\ [][Next]_vars

-----------------------------------------------------------------------------
(* Properties.                                                             *)

(* A child hangs below the root, or below a child one level above it, and  *)
(* no deeper than the grant allows.                                        *)
Hangs(s, c) ==
    LET q == s.children[c] IN
    /\ q.root = s.grant.root /\ q.depth \in 1 .. s.grant.max_depth
    /\ \/ q.parent = s.grant.root /\ q.depth = 1
       \/ q.parent \in Children(s) /\ q.depth = s.children[q.parent].depth + 1

(* A content keeps the grant if its children form a tree below the root,   *)
(* no deeper, wider or dearer than it allows.                              *)
KeepsGrant(s) ==
    /\ Cardinality(Children(s)) <= s.grant.max_children
    /\ Reserved(s) <= s.grant.budget
    /\ \A c \in Children(s) : Hangs(s, c)

(* Every content a failure or power loss can leave keeps the grant,        *)
(* although each reservation looks only at its own parent; and until power *)
(* is lost, one grant and one request per child are answered, whoever asks *)
(* again after a failure.                                                  *)
AllocationsFormATree ==
    /\ \A s \in surviving \ {None} : KeepsGrant(s)
    /\ \A g, h \in opened : g = h
    /\ \A p, q \in reserved : p.child = q.child => p = q

(* The requests whose step is at a stage.                                  *)
Steps(where) == {q \in DOMAIN stage : At(q, where)}

(* revoke_parent: "Existing permits are preserved as evidence but all      *)
(* future reservations fail closed."  Once a revocation was answered, and  *)
(* until power is lost, no reservation is answered and no run passes       *)
(* either check.  The checks hold no lock, so what a run had passed before *)
(* still takes effect: an effect begins only if it was cleared before, a   *)
(* success is recorded only if its result was kept before, once each.      *)
RevocationIsFinal ==
    [][revoked /\ revoked' =>
           /\ UNCHANGED reserved
           /\ Steps("cleared")' \subseteq Steps("cleared")
           /\ Steps("running")' \subseteq Steps("running") \cup Steps("cleared")
           /\ Steps("kept")' \subseteq Steps("kept")
           /\ succeeded' \subseteq succeeded \cup (Steps("kept") \ Steps("kept")')]_vars

(* The comment on the second check: "Re-check before committing a          *)
(* successful observation so a revoked child can never report success."    *)
RevokedChildNeverSucceeds ==
    [][revoked /\ revoked' => UNCHANGED succeeded]_vars
=============================================================================
