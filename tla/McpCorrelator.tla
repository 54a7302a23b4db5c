--------------------------- MODULE McpCorrelator ----------------------------
(***************************************************************************)
(* The correlation of responses with outstanding requests in the MCP       *)
(* client (MpcCorrelator), over a transport that loses, duplicates and     *)
(* reorders responses and a server that may answer at any time, with or    *)
(* without an id.                                                          *)
(***************************************************************************)
EXTENDS McpRequests, FiniteSets

CONSTANTS
    Methods,            \* method names, other than "none"
    in_flight_limit     \* how many requests may be outstanding at once

VARIABLES
    next_id,        \* the id of the next call of issue
    network         \* responses sent; one may be delivered any number of times

vars == <<outstanding, next_id, network, satisfied, cancelled>>

NoId == -1

Init ==
    /\ outstanding = [id \in {} |-> 0] /\ next_id = 0
    /\ network = {} /\ satisfied = [id \in RequestIds |-> 0]
    /\ cancelled = {}

(* A refused call uses up its id as well.                                  *)
issue(method) ==
    /\ next_id < MaxIssued
    /\ next_id' = next_id + 1
    /\ IF Cardinality(DOMAIN outstanding) >= in_flight_limit
       THEN UNCHANGED outstanding
       ELSE outstanding' = [id \in DOMAIN outstanding \cup {next_id} |->
                                IF id = next_id THEN [method |-> method, cancel |-> "running"]
                                ELSE outstanding[id]]
    /\ UNCHANGED <<network, satisfied, cancelled>>

(* Only a request in flight can be cancelled; again is no change.          *)
request_cancel(id) ==
    /\ id \in DOMAIN outstanding
    /\ outstanding' = [outstanding EXCEPT ![id] = [method |-> @.method, cancel |-> "cancel_requested"]]
    /\ cancelled' = cancelled \cup {id}
    /\ UNCHANGED <<next_id, network, satisfied>>

(* The server answers a request it may have been sent, or sends a response *)
(* without an id.                                                          *)
ServerAnswers ==
    /\ \E id \in (0 .. (next_id - 1)) \cup {NoId}, error \in {"well_formed", "malformed"} :
           network' = network \cup {[id |-> id, error |-> error]}
    /\ UNCHANGED <<outstanding, next_id, satisfied, cancelled>>

(* The tests of correlate, in its order; expected is a method or none.     *)
Verdict(response, expected) ==
    IF response.id = NoId THEN "id_less"
    ELSE IF response.error = "malformed" THEN "malformed_error_envelope"
    ELSE IF response.id \notin DOMAIN outstanding THEN "unknown_response_id"
    ELSE IF expected \in Methods /\ outstanding[response.id].method # expected
    THEN "method_mismatch"
    ELSE IF outstanding[response.id].cancel = "cancel_requested" THEN "late_response"
    ELSE "accepted"

(* Mutant of correlate: the entry stays after its response.                *)
correlate_kept(response, expected) ==
    /\ response \in network
    /\ IF Verdict(response, expected) = "accepted"
       THEN satisfied' = [satisfied EXCEPT ![response.id] = @ + 1]
       ELSE UNCHANGED satisfied
    /\ UNCHANGED <<outstanding, next_id, network, cancelled>>

(* Only an accepted response takes the entry out of the map.               *)
correlate(response, expected) ==
    /\ response \in network
    /\ IF Verdict(response, expected) = "accepted"
       THEN /\ outstanding' = [id \in DOMAIN outstanding \ {response.id} |-> outstanding[id]]
            /\ satisfied' = [satisfied EXCEPT ![response.id] = @ + 1]
       ELSE UNCHANGED <<outstanding, satisfied>>
    /\ UNCHANGED <<next_id, network, cancelled>>

Next ==
    \/ \E method \in Methods : issue(method)
    \/ \E id \in RequestIds : request_cancel(id)
    \/ ServerAnswers
    \/ \E response \in network, expected \in Methods \cup {"none"} : correlate(response, expected)

Spec == Init /\ [][Next]_vars
=============================================================================
