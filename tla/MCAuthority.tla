----------------------------- MODULE MCAuthority ----------------------------
(***************************************************************************)
(* Instances of FamilyAuthority and of ContextAuthority for TLC.  A        *)
(* behaviour is of one instance, which part names, so the states of the    *)
(* run are the union of theirs.  The two stores share nothing.             *)
(***************************************************************************)
EXTENDS FamilyAuthority, TLC

CONSTANTS Scopes, Effects, d1, d2, t1, t2, t3

VARIABLES store, stores, now                \* of the context store
VARIABLES access, refused, dispatched, retired, settled
VARIABLE part

contextVars == <<store, stores, now, access, refused, dispatched, retired, settled>>

Symmetry == Permutations({d1, d2}) \cup Permutations({t1, t2, t3})

-----------------------------------------------------------------------------
(* The context store.                                                      *)

HeadAt(name, generation, mode) ==
    [context |-> name, generation |-> generation, mode |-> mode]

Grant(scope, policy, head, max_effects, previous) ==
    [scope |-> scope, subject |-> "agent", policy |-> policy, head |-> head,
     not_before |-> 0, expires_at |-> 2, max_effects |-> max_effects,
     max_transitions |-> 3, previous |-> previous]

Configuration(revision, verifier, grants) ==
    [revision |-> revision, verifier |-> verifier, grants |-> grants]

Witness(effect, policy, verifier) ==
    [effect |-> effect, subject |-> "agent", policy |-> policy, verifier |-> verifier,
     not_before |-> 0, expires_at |-> 2]

(* Two scopes; the second is revoked, then enrolled again while the        *)
(* verifier of approvals changes, with the cap it had or a wider one.      *)
Left == Grant("left", "p", HeadAt("c0", 1, "active"), 2, None)
Right == Grant("right", "p", HeadAt("c0", 1, "active"), 1, None)
RightAgain(cap) == Grant("right", "p", HeadAt("c0", 1, "active"), cap, Right)
ScopeConfigurations ==
    {Configuration(1, "v1", {Left, Right}), Configuration(2, "v1", {Left}),
     Configuration(3, "v2", {Left, RightAgain(1)}), Configuration(3, "v2", {Left, RightAgain(2)})}
ScopeWitnesses == {Witness("e1", "p", "v1"), Witness("e1", "p", "v2"), Witness("e2", "p", "v2")}

(* One scope whose grant is superseded after a retirement or an            *)
(* activation.                                                             *)
Moved(mode) == Grant("left", "p", HeadAt("c1", 2, mode), 2, Left)
GenerationConfigurations ==
    {Configuration(1, "v1", {Left}), Configuration(2, "v1", {Moved("sealed")}),
     Configuration(2, "v1", {Moved("active")})}
GenerationWitnesses == {Witness("e1", "p", "v1"), Witness("e2", "p", "v1")}

(* A journal of two entries, and configurations that differ in nothing.    *)
Short == [Left EXCEPT !.max_transitions = 1]
ShortConfigurations == {Configuration(n, "v1", {Short}) : n \in 1 .. 3}

(* Nothing but one scope.                                                  *)
OneConfiguration == {Configuration(1, "v1", {Left})}
OneWitness == {Witness("e1", "p", "v1")}

TwoScopes == INSTANCE ContextAuthority WITH
    Configurations <- ScopeConfigurations, Witnesses <- ScopeWitnesses,
    Contexts <- {"c1"}, TransitionIds <- {}, Reports <- {}, Daemons <- {d1, d2},
    MaxPermits <- 3, MaxTransitions <- 3, MaxTime <- 0, Faults <- {"crash", "power"},
    disk <- store, surviving <- stores, clock <- now

Generations == INSTANCE ContextAuthority WITH
    Configurations <- GenerationConfigurations, Witnesses <- GenerationWitnesses,
    Contexts <- {"c1"}, TransitionIds <- {t1, t2, t3}, Reports <- {"succeeded"},
    Daemons <- {d1}, MaxPermits <- 3, MaxTransitions <- 3, MaxTime <- 0, Faults <- {"power"},
    disk <- store, surviving <- stores, clock <- now

(* Calls stop after their rename, and what they wrote may be lost.         *)
Stops == INSTANCE ContextAuthority WITH
    Scopes <- {"left"}, Effects <- {"e1"},
    Configurations <- OneConfiguration, Witnesses <- OneWitness,
    Contexts <- {"c1"}, TransitionIds <- {t1, t2}, Reports <- {"succeeded", "failed"},
    Daemons <- {d1}, MaxPermits <- 3, MaxTransitions <- 3, MaxTime <- 0,
    Faults <- {"io", "power"}, disk <- store, surviving <- stores, clock <- now

Filled == INSTANCE ContextAuthority WITH
    Scopes <- {"left"}, Effects <- {"e1"},
    Configurations <- ShortConfigurations, Witnesses <- OneWitness,
    Contexts <- {"c1"}, TransitionIds <- {t1, t2}, Reports <- {"succeeded"},
    Daemons <- {d1}, MaxPermits <- 3, MaxTransitions <- 1, MaxTime <- 0,
    Faults <- {"crash"}, disk <- store, surviving <- stores, clock <- now

Retries == INSTANCE ContextAuthority WITH
    Scopes <- {"left"}, Effects <- {"e1"},
    Configurations <- OneConfiguration, Witnesses <- OneWitness,
    Contexts <- {"c1"}, TransitionIds <- {t1}, Reports <- {"succeeded", "failed"},
    Daemons <- {d1}, MaxPermits <- 3, MaxTransitions <- 3, MaxTime <- 1,
    Faults <- {"io", "clock"}, disk <- store, surviving <- stores, clock <- now

-----------------------------------------------------------------------------
(* The family store.                                                       *)

RootPermit == [control |-> "r"]
RootGrant(budget) ==
    [root |-> "r", permit |-> RootPermit, max_depth |-> 2, max_children |-> 2,
     budget |-> budget, not_before |-> 0, expires_at |-> 1]
Child(child, parent, permit, budget, depth) ==
    [child |-> child, parent |-> parent, root |-> "r", permit |-> permit,
     budget |-> budget, depth |-> depth]

(* Two runs below the root, one of them with two budgets; a run below      *)
(* either; a run that claims the wrong depth.                              *)
A == Child("a", "r", RootPermit, 1, 1)
DearA == Child("a", "r", RootPermit, 2, 1)
B == Child("b", "r", RootPermit, 2, 1)
BelowA == Child("c", "a", A, 1, 2)
Proposals ==
    {A, DearA, B, BelowA, Child("c", "b", B, 1, 2), Child("d", "a", A, 1, 1)}

(* Openers disagree about the grant, the clock runs and processes die: the *)
(* constants of the configuration.                                         *)
TwoGrants == {RootGrant(3), RootGrant(4)}

(* One opener; the power may fail.                                         *)
Allocations == INSTANCE FamilyAuthority WITH
    Requests <- Proposals \ {DearA}, Grants <- {RootGrant(3)}, MaxTime <- 0,
    Faults <- {"io", "power"}

-----------------------------------------------------------------------------
PartsInit ==
    /\ Init
    /\ \/ part \in {"families", "allocations", "scopes"} /\ TwoScopes!Init
       \/ part = "generations" /\ Generations!Init
       \/ part \in {"retries", "stops"} /\ Retries!Init
       \/ part = "filled" /\ Filled!Init

PartsNext ==
    \/ part = "scopes" /\ TwoScopes!Next /\ UNCHANGED <<vars, part>>
    \/ part = "generations" /\ Generations!Next /\ UNCHANGED <<vars, part>>
    \/ part = "stops" /\ Stops!Next /\ UNCHANGED <<vars, part>>
    \/ part = "filled" /\ Filled!Next /\ UNCHANGED <<vars, part>>
    \/ part = "retries" /\ Retries!Next /\ UNCHANGED <<vars, part>>
    \/ part = "families" /\ Next /\ UNCHANGED <<contextVars, part>>
    \/ part = "allocations" /\ Allocations!Next /\ UNCHANGED <<contextVars, part>>

PartsSpec == PartsInit /\ [][PartsNext]_<<vars, contextVars, part>>

-----------------------------------------------------------------------------
(* Properties of the context store, each for the instances that exercise   *)
(* it.  Those of the family store are its own.                             *)

(* One approval leads to at most one effect, whatever scopes, generations, *)
(* configurations, daemons and power losses lie between its uses, and      *)
(* whether or not the older store had it first; the scopes spend no more   *)
(* than the first grant of each allows, however often the grant is         *)
(* superseded; and an effect is dispatched only under a grant of the       *)
(* configuration in force and under the head the scope has at that moment. *)
ScopedAuthorityHolds ==
    [][ /\ TwoScopes!ApprovalsAreSpentOnce'
        /\ part = "scopes" => TwoScopes!SupersessionNeverWidens' /\ TwoScopes!DispatchIsCurrent
      ]_contextVars

(* A retirement that was answered lists every effect dispatched under the  *)
(* generations it ended: none is dispatched later, and none was missed.    *)
(* The record of every dispatched effect stays in the file, and so does    *)
(* every outcome that was answered: retirement, revocation, restarts and   *)
(* power losses do not take away the way to settle it.  A power loss may   *)
(* undo only what was read back, by a retry, from a file whose writer had  *)
(* stopped before the sync.  And while the clock does not go back, the     *)
(* validation that replays the journal before every write refuses no       *)
(* operation whose own conditions held, but an enrollment or transition    *)
(* beyond the limit of the journal.                                        *)
ObligationsAreKept ==
    /\ part \in {"generations", "stops"} => Generations!RetirementsAreComplete
    /\ part \in {"generations", "stops", "filled", "retries"} => Generations!ObligationsSurvive
    /\ part # "retries" => Generations!HistoryStaysValid
=============================================================================
