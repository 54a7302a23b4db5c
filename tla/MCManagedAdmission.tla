------------------------- MODULE MCManagedAdmission -------------------------
(* Small instances of ManagedAdmission for TLC.                            *)
EXTENDS ManagedAdmission, TLC

MCIds == {"a", "b", "d", "p"}
MCLanes == {"provider", "tool"}

MCRequest(o, parent, scope, provider, tool, class, wait, attempts) ==
    [operation_id |-> o, parent_operation_id |-> parent, budget_scope_id |-> scope,
     lanes |-> [l \in MCLanes |-> IF l = "provider" THEN provider ELSE tool],
     context_bytes |-> provider, estimated_artifact_bytes |-> 1,
     budget |-> [max_attempts |-> attempts, max_spend |-> 2,
                 max_artifact_bytes |-> 1, max_context_bytes |-> 2],
     queue_class |-> class, may_wait |-> wait, simultaneous |-> provider]

MCConfig(rev, global, provider, tool, queued, bytes) ==
    [revision |-> rev, global_max_active |-> global,
     lane_caps |-> [l \in MCLanes |-> IF l = "provider" THEN provider ELSE tool],
     max_queued |-> queued, max_materialized_context_bytes |-> bytes,
     max_reserved_artifact_bytes |-> bytes]

(* Queueing: a root and two children of p over two slots and two provider   *)
(* units; the interactive one takes both units, so that its release makes   *)
(* room for the other two; all may wait and retry after a timeout.          *)
QueueRequests ==
    {MCRequest("a", "none", "none", 1, 0, "normal", TRUE, 1),
     MCRequest("b", "p", "p", 2, 1, "interactive", TRUE, 1),
     MCRequest("d", "p", "p", 1, 0, "normal", TRUE, 1)}
QueueConfig == MCConfig(1, 2, 2, 2, 2, 4)
NoConfigs == {}
NoDeltas == {}

(* Capacity: wide and narrow leaves, a leaf that may not wait, a leaf that  *)
(* contradicts its scope's budget, and two later revisions, one narrower    *)
(* and one wider.                                                           *)
CapacityRequests ==
    {MCRequest("a", "none", "p", 2, 0, "normal", TRUE, 1),
     MCRequest("b", "p", "p", 1, 1, "normal", FALSE, 1),
     MCRequest("b", "none", "p", 1, 0, "interactive", TRUE, 2),
     MCRequest("d", "p", "none", 0, 1, "normal", TRUE, 1)}
CapacityConfig == MCConfig(1, 2, 2, 2, 1, 3)
CapacityConfigs == {MCConfig(2, 1, 1, 1, 1, 2), MCConfig(3, 2, 2, 1, 2, 2)}

(* Budgets: two operations, one the child of p, share the attempt budget of *)
(* scope p; a settled usage of 3 exceeds the spend budget.                  *)
BudgetRequests ==
    {MCRequest("a", "none", "p", 1, 0, "normal", TRUE, 2),
     MCRequest("b", "p", "p", 0, 1, "normal", TRUE, 2)}
BudgetConfig == MCConfig(1, 2, 1, 2, 2, 3)
BudgetDeltas == {[attempts |-> 1, spend |-> 0], [attempts |-> 0, spend |-> 3]}

(* Clients are interchangeable in every safety property.                    *)
ClientSymmetry == Permutations(Clients)
=============================================================================
