------------------------------ MODULE PermitUse -----------------------------
(***************************************************************************)
(* What the permit store promises its callers, whatever happens to files,  *)
(* processes and power: a permit is used at most once, never after its own *)
(* revocation was confirmed and never after the revocation of the permit   *)
(* it was delegated from; a used permit is not revoked any more.           *)
(***************************************************************************)
EXTENDS Naturals

CONSTANTS
    Permits,        \* permits
    Parent          \* the permit each was delegated from, if any

VARIABLES
    uses,       \* how often callers were told that they consumed a permit
    revoked     \* the permits whose revocation a caller was told of

vars == <<uses, revoked>>

Init == DOMAIN uses = {} /\ revoked = {}

Use(p) ==
    /\ p \notin DOMAIN uses
    /\ p \notin revoked /\ Parent[p] \notin revoked
    /\ uses' = [q \in DOMAIN uses \cup {p} |-> IF q = p THEN 1 ELSE uses[q]]
    /\ UNCHANGED revoked

Revoke(p) ==
    /\ p \notin DOMAIN uses /\ p \notin revoked
    /\ revoked' = revoked \cup {p}
    /\ UNCHANGED uses

Next == vars' # vars /\ \E p \in Permits : Use(p) \/ Revoke(p)

Spec == Init /\ [][Next]_vars
=============================================================================
