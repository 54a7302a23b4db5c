----------------------------- MODULE ReceiptLog -----------------------------
(***************************************************************************)
(* What a receipt chain promises to its callers, whatever files it keeps:  *)
(* one sequence of receipts that only grows at its end, without repeating  *)
(* a receipt; a receipt may be in the chain although its append reported a *)
(* failure, but what was acknowledged stays, and only a power loss takes   *)
(* unacknowledged receipts back.                                           *)
(***************************************************************************)
EXTENDS Sequences, SequencesExt

CONSTANTS Ids       \* receipt identities

VARIABLES
    chain,          \* the receipts a reader finds
    acknowledged    \* the chain as the last successful append left it

vars == <<chain, acknowledged>>

Init == chain = <<>> /\ acknowledged = <<>>

Commit(id, ok) ==
    /\ id \notin ToSet(chain)
    /\ chain' = Append(chain, id)
    /\ acknowledged' = IF ok THEN chain' ELSE acknowledged

Lose ==
    /\ IsPrefix(chain', chain)
    /\ IsPrefix(acknowledged, chain')
    /\ UNCHANGED acknowledged

Next == Lose \/ \E id \in Ids, ok \in BOOLEAN : Commit(id, ok)

Spec == Init /\ [][Next]_vars
=============================================================================
