----------------------------- MODULE NormalChat -----------------------------
(***************************************************************************)
(* NativeNormalChatExecutor of                                             *)
(* crates/recursive-agent-runner/src/normal_chat.rs, over the artifact     *)
(* store of its run.  An executor consumes the permit of an attempt,       *)
(* dispatches the conversation to the backend, stores the response,        *)
(* records the outcome, stores an observation that binds them, and settles *)
(* the permit.  Several executors may be given one permit, and each may    *)
(* fail or die between any two steps.                                      *)
(*                                                                         *)
(* The permit store is PermitStore: here a record has the state, outcome   *)
(* and settlement of one normal-chat permit.                               *)
(***************************************************************************)
EXTENDS ArtifactStore

CONSTANTS
    Permits,    \* normal-chat permits issued before
    MaxCalls,   \* bound: executions begun
    Json        \* the media type of both artifacts

VARIABLES
    record,     \* per permit: [state, outcome, settled]
    chat,       \* per executor: [pc, permit]
    calls,      \* bound: executions begun
    dispatched, \* history: per permit, how often the backend was called
    answered    \* history: permits whose execution returned an observation

chatVars == <<record, chat, calls, dispatched, answered>>
vars == <<storeVars, chatVars>>

Response(p) == <<"response", p>>
Observation(p) == <<"observation", p>>

(* None and the media type are no names of states.                         *)
ASSUME ChatAssumption ==
    /\ \A p \in Permits : {Response(p), Observation(p)} \subseteq Blobs
    /\ Json \in Medias \ {"absent", "partial"}
    /\ None \notin {"succeeded", "ambiguous"} \cup Permits

NoChat == [pc |-> "idle", permit |-> None]

ChatInit ==
    /\ record = [p \in Permits |-> [state |-> "issued", outcome |-> None, settled |-> FALSE]]
    /\ chat = [e \in Writers |-> NoChat]
    /\ calls = 0
    /\ dispatched = [p \in Permits |-> 0]
    /\ answered = {}

Init == StoreInit /\ ChatInit

Permit(e) == chat[e].permit
At(e, pc) == chat[e].pc = pc
Continues(e, pc) == chat' = [chat EXCEPT ![e] = [pc |-> pc, permit |-> Permit(e)]]
Fails(e) == chat' = [chat EXCEPT ![e] = NoChat]

(* The permit record of e is replaced by r and e goes on; or the call      *)
(* fails, with the record replaced or not.                                 *)
Persists(e, r, pc) ==
    \/ record' = [record EXCEPT ![Permit(e)] = r] /\ Continues(e, pc)
    \/ "io" \in Faults /\ record' \in {record, [record EXCEPT ![Permit(e)] = r]} /\ Fails(e)

-----------------------------------------------------------------------------
(* The stores share a run root and the request is the admitted one.        *)
Execute(e, p) ==
    /\ At(e, "idle") /\ calls < MaxCalls
    /\ calls' = calls + 1
    /\ chat' = [chat EXCEPT ![e] = [pc |-> "consume", permit |-> p]]
    /\ UNCHANGED <<storeVars, record, dispatched, answered>>

(* Mutant of Consume: a consumed permit is consumed again.                 *)
ConsumeAgain(e) ==
    /\ At(e, "consume")
    /\ Persists(e, [record[Permit(e)] EXCEPT !.state = "consumed"], "preflight")
    /\ UNCHANGED <<storeVars, calls, dispatched, answered>>

(* consume_normal_chat_for_execution: the current verifier may deny.       *)
Consume(e) ==
    LET r == record[Permit(e)] IN
    /\ At(e, "consume")
    /\ \/ r.state = "issued" /\ Persists(e, [r EXCEPT !.state = "consumed"], "preflight")
       \/ Fails(e) /\ UNCHANGED record
    /\ UNCHANGED <<storeVars, calls, dispatched, answered>>

Preflight(e) ==
    /\ At(e, "preflight")
    /\ \/ Continues(e, "dispatch")
       \/ "io" \in Faults /\ Fails(e)
    /\ UNCHANGED <<storeVars, record, calls, dispatched, answered>>

(* The backend answers within the budgets; or it fails, or answers beyond  *)
(* them, and what it did is ambiguous; or its answer cannot be encoded     *)
(* ("io" stands for that too), and execution returns with no outcome.      *)
Dispatch(e) ==
    /\ At(e, "dispatch")
    /\ dispatched' = [dispatched EXCEPT ![Permit(e)] = @ + 1]
    /\ \/ Continues(e, "respond") \/ Continues(e, "ambiguous")
       \/ "io" \in Faults /\ Fails(e)
    /\ UNCHANGED <<storeVars, record, calls, answered>>

(* record_reported_outcome of an ambiguous effect; the execution fails.    *)
RecordAmbiguous(e) ==
    LET r == [record[Permit(e)] EXCEPT !.outcome = "ambiguous"] IN
    /\ At(e, "ambiguous")
    /\ \/ record' = [record EXCEPT ![Permit(e)] = r]
       \/ "io" \in Faults /\ UNCHANGED record
    /\ Fails(e)
    /\ UNCHANGED <<storeVars, calls, dispatched, answered>>

StoreResponse(e) ==
    /\ At(e, "respond") /\ PutBegin(e, Response(Permit(e)), Json)
    /\ Continues(e, "responding")
    /\ UNCHANGED <<record, calls, dispatched, answered>>

(* Mutant of ResponseStored: a response that was not stored is taken for   *)
(* one.                                                                    *)
ResponseStoredAnyway(e) ==
    /\ At(e, "responding") /\ PutReturns(e)
    /\ Continues(e, "outcome")
    /\ UNCHANGED <<record, calls, dispatched, answered>>

(* Failure to store the response is not evidence of no effect.             *)
ResponseStored(e) ==
    /\ At(e, "responding") /\ PutReturns(e)
    /\ Continues(e, IF put[e].pc = "done" THEN "outcome" ELSE "ambiguous")
    /\ UNCHANGED <<record, calls, dispatched, answered>>

RecordOutcome(e) ==
    /\ At(e, "outcome")
    /\ Persists(e, [record[Permit(e)] EXCEPT !.outcome = "succeeded"], "observe")
    /\ UNCHANGED <<storeVars, calls, dispatched, answered>>

(* The observation may exceed what the response left of the budget.        *)
StoreObservation(e) ==
    /\ At(e, "observe")
    /\ \/ PutBegin(e, Observation(Permit(e)), Json) /\ Continues(e, "observing")
       \/ Fails(e) /\ UNCHANGED storeVars
    /\ UNCHANGED <<record, calls, dispatched, answered>>

ObservationStored(e) ==
    /\ At(e, "observing") /\ PutReturns(e)
    /\ IF put[e].pc = "done" THEN Continues(e, "validate") ELSE Fails(e)
    /\ UNCHANGED <<record, calls, dispatched, answered>>

(* validate_publication: the record says the effect succeeded, and both    *)
(* artifacts can be read and bind it.                                      *)
Published(p) ==
    /\ record[p].state = "consumed" /\ record[p].outcome = "succeeded"
    /\ Gets(Response(p), Json) /\ Gets(Observation(p), Json)

ValidatePublication(e) ==
    /\ At(e, "validate")
    /\ \/ Published(Permit(e)) /\ Continues(e, "settle")
       \/ (~Published(Permit(e)) \/ "io" \in Faults) /\ Fails(e)
    /\ UNCHANGED <<storeVars, record, calls, dispatched, answered>>

(* settle_normal_chat.                                                     *)
Settle(e) ==
    /\ At(e, "settle")
    /\ Persists(e, [record[Permit(e)] EXCEPT !.settled = TRUE], "readback")
    /\ UNCHANGED <<storeVars, calls, dispatched, answered>>

(* load_live_settlement: what is returned is read from the record.         *)
LoadLiveSettlement(e) ==
    /\ At(e, "readback")
    /\ \/ record[Permit(e)].settled /\ Published(Permit(e)) /\ answered' = answered \cup {Permit(e)}
       \/ "io" \in Faults /\ UNCHANGED answered
    /\ Fails(e)
    /\ UNCHANGED <<storeVars, record, calls, dispatched>>

ExecutorDies(e) ==
    /\ "crash" \in Faults /\ ~At(e, "idle")
    /\ Fails(e) /\ put' = [put EXCEPT ![e] = NoPut]
    /\ UNCHANGED <<files, acked, record, calls, dispatched, answered>>

Step(e) ==
    \/ Consume(e) \/ Preflight(e) \/ Dispatch(e) \/ RecordAmbiguous(e)
    \/ StoreResponse(e) \/ ResponseStored(e) \/ RecordOutcome(e)
    \/ StoreObservation(e) \/ ObservationStored(e)
    \/ ValidatePublication(e) \/ Settle(e) \/ LoadLiveSettlement(e)
    \/ PutStep(e) /\ UNCHANGED chatVars

Next ==
    \E e \in Writers :
        \/ \E p \in Permits : Execute(e, p)
        \/ Step(e)
        \/ ExecutorDies(e)

Spec == Init /\ [][Next]_vars
FairSpec == Spec /\ \A e \in Writers : WF_vars(Step(e))

-----------------------------------------------------------------------------
(* The backend is called at most once under a permit, whichever executors  *)
(* hold it and however they fail ("do not re-execute this permit").        *)
DispatchedAtMostOnce == \A p \in Permits : dispatched[p] <= 1

(* A permit whose outcome says succeeded has a response that can be read:  *)
(* no failure between the backend and the record loses it.                 *)
SuccessRetainsResponse ==
    \A p \in Permits : record[p].outcome = "succeeded" =>
        dispatched[p] = 1 /\ Gets(Response(p), Json)

(* A settled permit has a recorded success, a readable response and a      *)
(* readable observation, and an executor returns an observation only of a  *)
(* settled permit.                                                         *)
SettlementsAreBacked ==
    /\ \A p \in Permits : record[p].settled => Published(p)
    /\ \A p \in answered : record[p].settled

(* Outcomes and settlements are backed by what can be read: a success by   *)
(* its response, a settlement by response and observation, an answer by a  *)
(* settlement, wherever executors fail or die in between.                  *)
OutcomesAreBacked == SuccessRetainsResponse /\ SettlementsAreBacked

(* Without a fault every call of the backend is accounted for by a         *)
(* recorded outcome, whatever the backend answers.                         *)
EffectsAreAccountedFor ==
    \A p \in Permits : dispatched[p] > 0 ~> record[p].outcome # None
=============================================================================
