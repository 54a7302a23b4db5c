---------------------------- MODULE McpRequests -----------------------------
(***************************************************************************)
(* The requests of the MCP client and what becomes of them: the state of   *)
(* MpcCorrelator that its caller depends on, and what is promised of it.   *)
(* Module McpCorrelator has the operations.                                *)
(***************************************************************************)
EXTENDS Integers

CONSTANT MaxIssued      \* bound: calls of issue
ASSUME MaxIssuedAssumption == MaxIssued \in Nat

VARIABLES
    outstanding,    \* id -> [method, cancel]: the requests in flight
    satisfied,      \* history: for every id, how often it was satisfied
    cancelled       \* history: ids whose cancellation was accepted

RequestIds == 0 .. (MaxIssued - 1)

(* However responses are duplicated and reordered, a request is satisfied  *)
(* at most once, never after its cancellation was accepted, and no longer  *)
(* holds a place once it is.                                               *)
SatisfiedOnce ==
    \A id \in RequestIds :
        /\ satisfied[id] <= 1
        /\ id \in DOMAIN outstanding => satisfied[id] = 0
        /\ id \in cancelled => satisfied[id] = 0
=============================================================================
