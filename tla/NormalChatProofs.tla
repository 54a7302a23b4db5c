-------------------------- MODULE NormalChatProofs --------------------------
(***************************************************************************)
(* DispatchedAtMostOnce, SuccessRetainsResponse and SettlementsAreBacked   *)
(* of NormalChat, and AcknowledgedArtifactsStay of ArtifactStore, for      *)
(* every number of permits, executors, artifacts and calls.  The module    *)
(* states the inductive invariant of the executors, shows that a step of   *)
(* one is local to it, and takes the actions one by one; then the same for *)
(* the writers of the artifact store.                                      *)
(***************************************************************************)
EXTENDS NormalChat, Integers, Sequences, TLAPS

Early == {"preflight", "dispatch", "respond", "responding", "ambiguous", "outcome"}
Late == {"observe", "observing", "validate", "settle", "readback"}
Held == Early \cup Late

PutState ==
    [pc : {"idle", "data", "write", "compare", "meta", "describe", "sync", "done", "failed"},
     blob : Blobs \cup {None}, media : Medias \cup {None}]
RecordState ==
    [state : {"issued", "consumed"}, outcome : {None, "ambiguous", "succeeded"},
     settled : BOOLEAN]
ChatState == [pc : {"idle", "consume"} \cup Held, permit : Permits \cup {None}]

TypeInv ==
    /\ data \in [Blobs -> {"absent", "partial", "whole"}]
    /\ meta \in [Blobs -> {"absent", "partial"} \cup Medias]
    /\ put \in [Writers -> PutState]
    /\ record \in [Permits -> RecordState]
    /\ chat \in [Writers -> ChatState]
    /\ dispatched \in [Permits -> Nat]
    /\ answered \in SUBSET Permits

(* A writer past the bytes has them whole, one past the descriptor has it. *)
PutInv(w) ==
    /\ put[w].pc # "idle" => put[w].blob \in Blobs /\ put[w].media = Json
    /\ put[w].pc \in {"meta", "describe", "sync", "done"} => data[put[w].blob] = "whole"
    /\ put[w].pc \in {"sync", "done"} => meta[put[w].blob] = Json

(* An executor past consume has its permit to itself, and its place tells  *)
(* how far the record is.                                                  *)
HolderInv(e) ==
    /\ chat[e].pc # "idle" => Permit(e) \in Permits
    /\ chat[e].pc \in Held =>
          /\ record[Permit(e)].state = "consumed"
          /\ dispatched[Permit(e)] = IF chat[e].pc \in {"preflight", "dispatch"} THEN 0 ELSE 1
          /\ record[Permit(e)].outcome = IF chat[e].pc \in Early THEN None ELSE "succeeded"
    /\ At(e, "responding") => put[e].blob = Response(Permit(e))
    /\ At(e, "outcome") => Gets(Response(Permit(e)), Json)
    /\ At(e, "settle") => Published(Permit(e))

Exclusive ==
    \A e, f \in Writers :
        chat[e].pc \in Held /\ chat[f].pc \in Held /\ Permit(e) = Permit(f) => e = f

RecordInv(p) ==
    /\ dispatched[p] <= 1
    /\ record[p].state = "issued" =>
          dispatched[p] = 0 /\ record[p].outcome = None /\ ~record[p].settled
    /\ record[p].outcome = "succeeded" => dispatched[p] = 1 /\ Gets(Response(p), Json)
    /\ record[p].settled => Published(p)
    /\ p \in answered => record[p].settled

IInv ==
    /\ TypeInv
    /\ \A w \in Writers : PutInv(w)
    /\ \A e \in Writers : HolderInv(e)
    /\ Exclusive
    /\ \A p \in Permits : RecordInv(p)

(* What can be read once can be read ever after.                           *)
Kept ==
    \A b \in Blobs : /\ data[b] = "whole" => data'[b] = "whole"
                     /\ meta[b] = Json => meta'[b] = Json

(* The states that steps put together are states.                          *)
LEMMA States ==
    /\ NoPut \in PutState /\ NoChat \in ChatState
    /\ \A b \in Blobs : [pc |-> "data", blob |-> b, media |-> Json] \in PutState
    /\ \A q \in Permits, at \in Held \cup {"consume"} : [pc |-> at, permit |-> q] \in ChatState
    /\ \A r \in RecordState :
          /\ [r EXCEPT !.state = "consumed"] \in RecordState
          /\ [r EXCEPT !.outcome = "ambiguous"] \in RecordState
          /\ [r EXCEPT !.outcome = "succeeded"] \in RecordState
          /\ [r EXCEPT !.settled = TRUE] \in RecordState
  BY ChatAssumption, ZenonT(90) DEF PutState, ChatState, RecordState, NoPut, NoChat

(* A call that has not begun satisfies the invariant.                      *)
LEMMA InitIInv == Init => IInv
  BY ChatAssumption
  DEF PutState, RecordState, ChatState, Init, StoreInit, ChatInit, IInv, TypeInv, PutInv, HolderInv, Exclusive, RecordInv, NoPut, NoChat,
      At, Permit, Held, Early, Late, Gets, Published

(* A step of put keeps the files of every writer.                          *)
LEMMA PutStepKeeps ==
    ASSUME TypeInv, \A w \in Writers : PutInv(w), NEW e \in Writers, PutStep(e)
    PROVE  /\ Kept
           /\ data' \in [Blobs -> {"absent", "partial", "whole"}]
           /\ meta' \in [Blobs -> {"absent", "partial"} \cup Medias]
           /\ put' = [put EXCEPT ![e] = [pc |-> put'[e].pc, blob |-> put[e].blob,
                                         media |-> put[e].media]]
           /\ put'[e].pc \in {"write", "compare", "meta", "describe", "sync", "done", "failed"}
           /\ put[e].pc # "idle"
           /\ PutInv(e)'
<1> USE ChatAssumption DEF TypeInv, PutInv, Goes, Kept, files
<1>1. CASE PutCreate(e)
  BY <1>1 DEF PutCreate
<1>2. CASE PutWrite(e)
  BY <1>2 DEF PutWrite
<1>3. CASE PutCompare(e)
  BY <1>3 DEF PutCompare, Gets
<1>4. CASE PutDescriptor(e)
  <2>1. CASE meta[put[e].blob] = "absent"
    <3>1. /\ put[e].pc = "meta"
          /\ put' = [put EXCEPT ![e] = [pc |-> "describe", blob |-> put[e].blob,
                                        media |-> put[e].media]]
          /\ meta' = [meta EXCEPT ![put[e].blob] = "partial"]
          /\ UNCHANGED data
      BY <1>4, <2>1 DEF PutDescriptor
    <3>2. QED
      BY <2>1, <3>1
  <2>2. CASE meta[put[e].blob] # "absent"
    <3>1. /\ put[e].pc = "meta"
          /\ put' = [put EXCEPT ![e] = [pc |-> IF meta[put[e].blob] = put[e].media
                                               THEN "done" ELSE "failed",
                                        blob |-> put[e].blob, media |-> put[e].media]]
          /\ UNCHANGED <<data, meta>>
      BY <1>4, <2>2 DEF PutDescriptor
    <3>2. QED
      BY <3>1
  <2>3. QED
    BY <2>1, <2>2
<1>5. CASE PutDescribe(e)
  BY <1>5 DEF PutDescribe
<1>6. CASE PutSync(e)
  BY <1>6 DEF PutSync
<1>7. CASE PutFails(e)
  BY <1>7 DEF PutFails
<1>8. QED
  BY ZenonT(90), <1>1, <1>2, <1>3, <1>4, <1>5, <1>6, <1>7 DEF PutStep

(* A step of e that leaves the other executors alone, and other permits    *)
(* too, has only the place of e and the record of its permit to restore:   *)
(* e holds that permit, or is about to take one that nobody holds.         *)
LEMMA LocalStep ==
    ASSUME IInv, NEW e \in Writers, NEW q \in Permits, q = Permit(e),
           chat[e].pc # "idle", Kept, TypeInv',
           \A w \in Writers : PutInv(w)',
           \A f \in Writers \ {e} : chat'[f] = chat[f] /\ put'[f] = put[f],
           chat'[e].pc = "idle" \/ chat'[e].permit = chat[e].permit,
           \A p \in Permits \ {q} :
               /\ record'[p] = record[p] /\ dispatched'[p] = dispatched[p]
               /\ p \in answered' => p \in answered,
           \/ chat[e].pc \in Held
           \/ record[q].state = "issued"
           \/ /\ chat'[e].pc \notin Held
              /\ record'[q] = record[q]
              /\ dispatched'[q] = dispatched[q],
           HolderInv(e)', RecordInv(q)'
    PROVE  IInv'
<1>1. ASSUME NEW p \in Permits, Gets(Response(p), Json) PROVE Gets(Response(p), Json)'
  BY <1>1, ChatAssumption DEF Kept, Gets
<1>2. ASSUME NEW p \in Permits, Gets(Observation(p), Json) PROVE Gets(Observation(p), Json)'
  BY <1>2, ChatAssumption DEF Kept, Gets
<1>3. ASSUME NEW p \in Permits, p # q PROVE RecordInv(p)'
  <2>1. RecordInv(p) /\ record'[p] = record[p] /\ dispatched'[p] = dispatched[p]
    BY <1>3 DEF IInv
  <2>2. Published(p) => Published(p)'
    BY ZenonT(90), <1>1, <1>2, <2>1 DEF Published
  <2>3. QED
    BY ZenonT(90), <1>1, <1>3, <2>1, <2>2 DEF RecordInv
<1>4. ASSUME NEW f \in Writers, f # e PROVE HolderInv(f)'
  <2>1. HolderInv(f) /\ chat'[f] = chat[f] /\ put'[f] = put[f]
    BY <1>4 DEF IInv
  <2>2. CASE chat[f].pc \notin Held
    BY ZenonT(90), <2>1, <2>2 DEF HolderInv, At, Permit, Held, Early, Late
  <2>3. CASE chat[f].pc \in Held
    <3>1. Permit(f) \in Permits /\ record[Permit(f)].state = "consumed"
      BY ZenonT(90), <2>1, <2>3 DEF HolderInv, Held, Early, Late
    <3>2. Permit(f) = Permit(e) => chat[e].pc \notin Held
      BY ZenonT(90), <1>4, <2>3 DEF IInv, Exclusive
    <3>3. record'[Permit(f)] = record[Permit(f)] /\ dispatched'[Permit(f)] = dispatched[Permit(f)]
      BY <3>1, <3>2
    <3>4. Published(Permit(f)) => Published(Permit(f))'
      BY ZenonT(90), <1>1, <1>2, <2>1, <3>1, <3>3 DEF Published, Permit
    <3>5. Gets(Response(Permit(f)), Json) => Gets(Response(Permit(f)), Json)'
      BY ZenonT(90), <1>1, <2>1, <3>1 DEF Permit, Gets, Response
    <3>6. QED
      BY <2>1, <3>1, <3>3, <3>4, <3>5 DEF HolderInv, At, Permit
  <2>4. QED
    BY <2>2, <2>3
<1>5. Exclusive'
  <2>1. ASSUME NEW f \in Writers, f # e, chat[f].pc \in Held, chat'[e].pc \in Held
        PROVE  Permit(f) # Permit(e)
    <3>1. record[Permit(f)].state = "consumed"
      BY ZenonT(90), <2>1 DEF IInv, HolderInv
    <3>2. QED
      BY <2>1, <3>1 DEF IInv, Exclusive
  <2>2. chat'[e].pc \in Held => Permit(e)' = Permit(e)
    BY ZenonT(90) DEF Permit, Held, Early, Late
  <2>3. \A f \in Writers : f # e => chat'[f] = chat[f] /\ Permit(f)' = Permit(f)
    BY DEF Permit
  <2>4. QED
    BY <2>1, <2>2, <2>3 DEF IInv, Exclusive
<1>6. \A p \in Permits : RecordInv(p)'
  BY <1>3
<1>7. \A f \in Writers : HolderInv(f)'
  BY <1>4
<1>8. QED
  BY <1>5, <1>6, <1>7 DEF IInv

(* A step that leaves the artifact store alone.                            *)
LEMMA QuietStore ==
    ASSUME IInv, UNCHANGED storeVars
    PROVE  /\ Kept /\ \A w \in Writers : PutInv(w)'
           /\ data' = data /\ meta' = meta /\ put' = put
  BY DEF IInv, storeVars, files, Kept, PutInv

(* A step that leaves the record of a permit alone.                        *)
LEMMA SameRecord ==
    ASSUME IInv, Kept, NEW q \in Permits,
           record'[q] = record[q], dispatched'[q] = dispatched[q],
           q \in answered' => record[q].settled
    PROVE  RecordInv(q)'
<1>1. RecordInv(q)
  BY DEF IInv
<1>2. Gets(Response(q), Json) => Gets(Response(q), Json)'
  BY ChatAssumption DEF Kept, Gets
<1>3. Gets(Observation(q), Json) => Gets(Observation(q), Json)'
  BY ChatAssumption DEF Kept, Gets
<1>4. Published(q) => Published(q)'
  BY <1>2, <1>3 DEF Published
<1>5. QED
  BY <1>1, <1>2, <1>4 DEF RecordInv

(* The execution ends, and with it a put that it waits for.                *)
LEMMA EndedStep ==
    ASSUME IInv, NEW e \in Writers, chat[e].pc # "idle", Fails(e),
           put' = put \/ put' = [put EXCEPT ![e] = NoPut],
           UNCHANGED <<data, meta, record, dispatched, answered>>
    PROVE  IInv'
<1>1. PICK q \in Permits : q = Permit(e)
  BY ZenonT(90) DEF IInv, HolderInv
<1>2. Kept
  BY DEF Kept
<1>3. /\ chat'[e] = NoChat
      /\ \A f \in Writers \ {e} : chat'[f] = chat[f] /\ put'[f] = put[f]
  BY DEF IInv, TypeInv, Fails
<1>4. \A w \in Writers : PutInv(w)'
  BY DEF IInv, TypeInv, PutInv, NoPut
<1>5. TypeInv'
  <2>1. put' \in [Writers -> PutState]
    BY ZenonT(90), States DEF IInv, TypeInv
  <2>2. QED
    BY <2>1, States, ZenonT(90) DEF IInv, TypeInv, Fails
<1>6. RecordInv(q)'
  <2>1. q \in answered' => record[q].settled
    BY ZenonT(90), <1>1 DEF IInv, RecordInv
  <2>2. QED
    BY <1>1, <1>2, <2>1, SameRecord
<1>7. HolderInv(e)'
  BY <1>3 DEF HolderInv, At, NoChat, Held, Early, Late
<1>8. QED
  BY <1>1, <1>2, <1>3, <1>4, <1>5, <1>6, <1>7, LocalStep DEF NoChat, Held, Early, Late

(* The execution fails and touches nothing.                                *)
LEMMA FailedStep ==
    ASSUME IInv, NEW e \in Writers, chat[e].pc # "idle", Fails(e),
           UNCHANGED <<storeVars, record, calls, dispatched, answered>>
    PROVE  IInv'
  BY EndedStep DEF storeVars, files

(* The record of the permit is replaced; the execution goes on or fails.   *)
LEMMA RecordStep ==
    ASSUME IInv, NEW e \in Writers, NEW q \in Permits, q = Permit(e), chat[e].pc # "idle",
           chat[e].pc \in Held \/ record[q].state = "issued",
           NEW r \in RecordState,
           NEW at \in Held,
           record' = [record EXCEPT ![q] = r],
           Continues(e, at) \/ Fails(e),
           UNCHANGED <<storeVars, calls, dispatched, answered>>,
           RecordInv(q)', Continues(e, at) => HolderInv(e)'
    PROVE  IInv'
<1>1. Kept /\ (\A w \in Writers : PutInv(w)') /\ data' = data /\ meta' = meta /\ put' = put
  BY ZenonT(90), QuietStore
<1>2. /\ chat'[e] = [pc |-> at, permit |-> q] \/ chat'[e] = NoChat
      /\ \A f \in Writers \ {e} : chat'[f] = chat[f]
  BY DEF IInv, TypeInv, Continues, Fails
<1>3. TypeInv'
  <2>1. TypeInv /\ record' \in [Permits -> RecordState]
    BY DEF IInv, TypeInv
  <2>2. NoChat \in ChatState /\ [pc |-> at, permit |-> Permit(e)] \in ChatState
    BY States
  <2>3. chat' \in [Writers -> ChatState]
    BY <2>1, <2>2 DEF TypeInv, Continues, Fails
  <2>4. QED
    BY <1>1, <2>1, <2>3 DEF TypeInv
<1>4. HolderInv(e)'
  <2>1. CASE Continues(e, at)
    BY <2>1
  <2>2. CASE Fails(e)
    BY ZenonT(90), <2>2 DEF HolderInv, At, NoChat, Held, Early, Late, Fails, IInv, TypeInv
  <2>3. QED
    BY <2>1, <2>2
<1>5. \A p \in Permits \ {q} : record'[p] = record[p] /\ dispatched'[p] = dispatched[p]
  BY DEF IInv, TypeInv
<1>6. chat'[e].pc = "idle" \/ chat'[e].permit = chat[e].permit
  BY <1>2 DEF NoChat, Permit
<1>7. QED
  BY ZenonT(90), <1>1, <1>2, <1>3, <1>4, <1>5, <1>6, LocalStep

(* Consumption takes a permit that nobody holds.                           *)
LEMMA ConsumeStep ==
    ASSUME IInv, NEW e \in Writers, Consume(e)
    PROVE  IInv'
<1>1. PICK q \in Permits : q = Permit(e)
  BY DEF IInv, HolderInv, Consume, At
<1>2. chat[e].pc # "idle"
  BY DEF Consume, At
<1>3. CASE record[q].state = "issued" /\ Persists(e, [record[q] EXCEPT !.state = "consumed"], "preflight")
  <2>1. CASE record' = record
    BY <1>1, <1>2, <1>3, <2>1, FailedStep
    DEF Persists, Consume, Continues, Fails, IInv, TypeInv, RecordState
  <2>2. CASE record' = [record EXCEPT ![q] = [record[q] EXCEPT !.state = "consumed"]]
    <3> DEFINE r == [record[q] EXCEPT !.state = "consumed"]
    <3>1. r \in RecordState
      BY <1>1, States, ZenonT(90) DEF IInv, TypeInv
    <3>2. /\ record'[q].state = "consumed" /\ record'[q].outcome = None /\ ~record'[q].settled
          /\ dispatched'[q] = 0
      BY <1>1, <1>3, <2>2 DEF IInv, TypeInv, RecordInv, Consume
    <3>3. RecordInv(q)'
      BY <1>1, <3>2, ChatAssumption DEF IInv, RecordInv, Consume, Persists, Published
    <3>4. Continues(e, "preflight") => HolderInv(e)'
      BY <1>1, <3>2 DEF HolderInv, At, Permit, Held, Early, Late, Continues, IInv, TypeInv
    <3>5. Continues(e, "preflight") \/ Fails(e)
      BY <1>3 DEF Persists
    <3>6. QED
      BY <1>1, <1>2, <1>3, <2>2, <3>1, <3>3, <3>4, <3>5, RecordStep, ZenonT(90) DEF Consume, Held, Early
  <2>3. QED
    BY <1>1, <1>3, <2>1, <2>2 DEF Persists
<1>4. CASE Fails(e) /\ UNCHANGED record
  BY <1>2, <1>4, FailedStep DEF Consume
<1>5. QED
  BY <1>1, <1>3, <1>4 DEF Consume

(* An ambiguous outcome replaces none.                                     *)
LEMMA AmbiguousStep ==
    ASSUME IInv, NEW e \in Writers, RecordAmbiguous(e)
    PROVE  IInv'
<1>1. PICK q \in Permits : q = Permit(e)
  BY DEF IInv, HolderInv, RecordAmbiguous, At
<1>2. chat[e].pc = "ambiguous" /\ chat[e].pc # "idle" /\ chat[e].pc \in Held
  BY DEF RecordAmbiguous, At, Held, Early, Late
<1> DEFINE r == [record[q] EXCEPT !.outcome = "ambiguous"]
<1>3. CASE record' = record /\ Fails(e)
  BY <1>2, <1>3, FailedStep DEF RecordAmbiguous
<1>4. CASE record' = [record EXCEPT ![q] = r]
  <2>1. r \in RecordState
    BY <1>1, States, ZenonT(90) DEF IInv, TypeInv
  <2>2. HolderInv(e) /\ RecordInv(q)
    BY DEF IInv
  <2>3. /\ record'[q].state = "consumed" /\ record'[q].outcome = "ambiguous" /\ ~record'[q].settled
        /\ dispatched'[q] = 1 /\ q \notin answered'
    BY <1>1, <1>2, <1>4, <2>2, ChatAssumption
    DEF IInv, TypeInv, RecordInv, HolderInv, Held, Early, Late, RecordAmbiguous, At, Published
  <2>4. UNCHANGED <<data, meta, put>>
    BY DEF RecordAmbiguous, storeVars, files
  <2>5. RecordInv(q)'
    BY SMTT(30), <1>1, <2>2, <2>3, <2>4, ChatAssumption
    DEF RecordInv
  <2>6. Continues(e, "observe") => HolderInv(e)'
    BY <1>1, <2>3, <2>4 DEF RecordAmbiguous, Continues, Fails, NoChat, IInv, TypeInv
  <2>7. Continues(e, "observe") \/ Fails(e)
    BY DEF Persists, RecordAmbiguous
  <2>8. QED
    BY <1>1, <1>2, <1>4, <2>1, <2>5, <2>6, <2>7, RecordStep, ZenonT(90) DEF RecordAmbiguous, Held, Early, Late
<1>5. QED
  BY <1>1, <1>3, <1>4 DEF RecordAmbiguous, Persists

(* Success is recorded when the response is stored.                        *)
LEMMA OutcomeStep ==
    ASSUME IInv, NEW e \in Writers, RecordOutcome(e)
    PROVE  IInv'
<1>1. PICK q \in Permits : q = Permit(e)
  BY DEF IInv, HolderInv, RecordOutcome, At
<1>2. chat[e].pc = "outcome" /\ chat[e].pc # "idle" /\ chat[e].pc \in Held
  BY DEF RecordOutcome, At, Held, Early, Late
<1> DEFINE r == [record[q] EXCEPT !.outcome = "succeeded"]
<1>3. CASE record' = record /\ Fails(e)
  BY <1>2, <1>3, FailedStep DEF RecordOutcome
<1>4. CASE record' = [record EXCEPT ![q] = r]
  <2>1. r \in RecordState
    BY <1>1, States, ZenonT(90) DEF IInv, TypeInv
  <2>2. HolderInv(e) /\ RecordInv(q)
    BY DEF IInv
  <2>3. /\ record'[q].state = "consumed" /\ record'[q].outcome = "succeeded" /\ ~record'[q].settled
        /\ dispatched'[q] = 1 /\ q \notin answered'
    BY <1>1, <1>2, <1>4, <2>2, ChatAssumption
    DEF IInv, TypeInv, RecordInv, HolderInv, Held, Early, Late, RecordOutcome, At, Published
  <2>4. UNCHANGED <<data, meta, put>>
    BY DEF RecordOutcome, storeVars, files
  <2>5. RecordInv(q)'
    BY <1>1, <2>2, <2>3, <2>4, ChatAssumption
    DEF RecordInv, HolderInv, Gets, At, RecordOutcome
  <2>6. Continues(e, "observe") => HolderInv(e)'
    BY <1>1, <2>3, <2>4 DEF HolderInv, At, Permit, Held, Early, Late, Continues, IInv, TypeInv
  <2>7. Continues(e, "observe") \/ Fails(e)
    BY DEF Persists, RecordOutcome
  <2>8. QED
    BY <1>1, <1>2, <1>4, <2>1, <2>5, <2>6, <2>7, RecordStep, ZenonT(90) DEF RecordOutcome, Held, Early, Late
<1>5. QED
  BY <1>1, <1>3, <1>4 DEF RecordOutcome, Persists

(* A permit is settled when its publication is validated.                  *)
LEMMA SettleStep ==
    ASSUME IInv, NEW e \in Writers, Settle(e)
    PROVE  IInv'
<1>1. PICK q \in Permits : q = Permit(e)
  BY DEF IInv, HolderInv, Settle, At
<1>2. chat[e].pc = "settle" /\ chat[e].pc # "idle" /\ chat[e].pc \in Held
  BY DEF Settle, At, Held, Early, Late
<1> DEFINE r == [record[q] EXCEPT !.settled = TRUE]
<1>3. CASE record' = record /\ Fails(e)
  BY <1>2, <1>3, FailedStep DEF Settle
<1>4. CASE record' = [record EXCEPT ![q] = r]
  <2>1. r \in RecordState
    BY <1>1, States, ZenonT(90) DEF IInv, TypeInv
  <2>2. HolderInv(e) /\ RecordInv(q)
    BY DEF IInv
  <2>3. /\ record'[q].state = "consumed" /\ record'[q].outcome = "succeeded" /\ record'[q].settled
        /\ dispatched'[q] = 1
    BY <1>1, <1>2, <1>4, <2>2, ChatAssumption
    DEF IInv, TypeInv, RecordInv, HolderInv, Held, Early, Late, Settle, At, Published
  <2>4. UNCHANGED <<data, meta, put>>
    BY DEF Settle, storeVars, files
  <2>5. RecordInv(q)'
    BY <1>1, <2>2, <2>3, <2>4, ChatAssumption
    DEF RecordInv, HolderInv, Published, Gets, At, Settle
  <2>6. Continues(e, "readback") => HolderInv(e)'
    BY <1>1, <2>3, <2>4 DEF HolderInv, At, Permit, Held, Early, Late, Continues, IInv, TypeInv
  <2>7. Continues(e, "readback") \/ Fails(e)
    BY DEF Persists, Settle
  <2>8. QED
    BY <1>1, <1>2, <1>4, <2>1, <2>5, <2>6, <2>7, RecordStep, ZenonT(90) DEF Settle, Held, Early, Late
<1>5. QED
  BY <1>1, <1>3, <1>4 DEF Settle, Persists

(* The executor goes on and the record stays.                              *)
LEMMA PlaceStep ==
    ASSUME IInv, NEW e \in Writers, NEW q \in Permits, q = Permit(e), chat[e].pc \in Held,
           NEW at \in Held, Continues(e, at), record' = record,
           data' = data, meta' = meta, PutInv(e)',
           \/ put' = put
           \/ \E b \in Blobs : put' = [put EXCEPT ![e] = [pc |-> "data", blob |-> b, media |-> Json]]
           \/ put' = [put EXCEPT ![e] = NoPut],
           dispatched' \in [Permits -> Nat],
           \A p \in Permits \ {q} : dispatched'[p] = dispatched[p],
           answered' = answered, RecordInv(q)', HolderInv(e)'
    PROVE  IInv'
<1>1. Kept
  BY ZenonT(90) DEF Kept
<1>2. \A f \in Writers \ {e} : put'[f] = put[f] /\ chat'[f] = chat[f]
  BY ZenonT(90) DEF IInv, TypeInv, Continues
<1>3. \A w \in Writers : PutInv(w)'
  BY <1>2 DEF IInv, PutInv
<1>4. put' \in [Writers -> PutState]
  BY ZenonT(90), States DEF IInv, TypeInv
<1>5. chat' \in [Writers -> ChatState]
  BY ZenonT(90), States DEF IInv, TypeInv, Continues
<1>6. TypeInv'
  BY ZenonT(90), <1>4, <1>5 DEF IInv, TypeInv
<1>7. chat'[e].permit = chat[e].permit
  BY ZenonT(90) DEF IInv, TypeInv, Continues, Permit
<1>8. chat[e].pc # "idle"
  BY ZenonT(90) DEF Held, Early, Late
<1>9. QED
  BY ZenonT(90), <1>1, <1>2, <1>3, <1>6, <1>7, <1>8, LocalStep

(* Nothing but the place changes before the backend is called.             *)
LEMMA PreflightStep ==
    ASSUME IInv, NEW e \in Writers, Preflight(e)
    PROVE  IInv'
<1>1. PICK q \in Permits : q = Permit(e)
  BY ZenonT(90) DEF IInv, HolderInv, Preflight, At
<1>2. /\ HolderInv(e) /\ RecordInv(q) /\ PutInv(e)
      /\ chat[e].pc = "preflight" /\ chat[e].pc # "idle" /\ chat[e].pc \in Held
  BY DEF IInv, Preflight, At, Held, Early, Late
<1>3. CASE Continues(e, "dispatch")
  <2>1. data' = data /\ meta' = meta /\ record' = record /\ answered' = answered
    BY DEF Preflight, PutReturns, PutBegin, storeVars, files
  <2>2. put' = put
    BY <1>1, <1>3 DEF Preflight, PutReturns, PutBegin, storeVars
  <2>3. PutInv(e)'
    BY ZenonT(90), <1>1, <1>2, <2>1, <2>2, ChatAssumption DEF PutInv, NoPut, IInv, TypeInv
  <2>4. dispatched' = dispatched /\ dispatched' \in [Permits -> Nat]
    BY DEF Preflight, IInv, TypeInv
  <2>5. RecordInv(q)'
    <3>1. Kept /\ (q \in answered' => record[q].settled)
      BY ZenonT(90), <1>2, <2>1 DEF Kept, RecordInv
    <3>2. QED
      BY <1>1, <2>1, <2>4, <3>1, SameRecord
  <2>6. HolderInv(e)'
    BY ZenonT(90), <1>1, <1>2, <1>3, <2>1, <2>2, <2>4
    DEF HolderInv, At, Permit, Held, Early, Late, Continues, IInv, TypeInv, Published, Gets
  <2>7. QED
    BY ZenonT(90), <1>1, <1>2, <1>3, <2>1, <2>2, <2>3, <2>4, <2>5, <2>6, ChatAssumption, PlaceStep
    DEF Held, Early, Late
<1>4. CASE Fails(e)
  BY ZenonT(90), <1>2, <1>4, FailedStep DEF Preflight
<1>5. QED
  BY <1>3, <1>4 DEF Preflight

(* Settlement follows a validated publication.                             *)
LEMMA ValidateStep ==
    ASSUME IInv, NEW e \in Writers, ValidatePublication(e)
    PROVE  IInv'
<1>1. PICK q \in Permits : q = Permit(e)
  BY ZenonT(90) DEF IInv, HolderInv, ValidatePublication, At
<1>2. /\ HolderInv(e) /\ RecordInv(q) /\ PutInv(e)
      /\ chat[e].pc = "validate" /\ chat[e].pc # "idle" /\ chat[e].pc \in Held
  BY ZenonT(90) DEF IInv, ValidatePublication, At, Held, Early, Late
<1>3. CASE Continues(e, "settle") /\ Published(Permit(e))
  <2>1. data' = data /\ meta' = meta /\ record' = record /\ answered' = answered
    BY DEF ValidatePublication, PutReturns, PutBegin, storeVars, files
  <2>2. put' = put
    BY <1>1, <1>3 DEF ValidatePublication, PutReturns, PutBegin, storeVars
  <2>3. PutInv(e)'
    BY ZenonT(90), <1>1, <1>2, <2>1, <2>2, ChatAssumption DEF PutInv, NoPut, IInv, TypeInv
  <2>4. dispatched' = dispatched /\ dispatched' \in [Permits -> Nat]
    BY DEF ValidatePublication, IInv, TypeInv
  <2>5. RecordInv(q)'
    <3>1. Kept /\ (q \in answered' => record[q].settled)
      BY ZenonT(90), <1>2, <2>1 DEF Kept, RecordInv
    <3>2. QED
      BY <1>1, <2>1, <2>4, <3>1, SameRecord
  <2>6. HolderInv(e)'
    BY ZenonT(90), <1>1, <1>2, <1>3, <2>1, <2>2, <2>4
    DEF HolderInv, At, Permit, Held, Early, Late, Continues, IInv, TypeInv, Published, Gets
  <2>7. QED
    BY ZenonT(90), <1>1, <1>2, <1>3, <2>1, <2>2, <2>3, <2>4, <2>5, <2>6, ChatAssumption, PlaceStep
    DEF Held, Early, Late
<1>4. CASE Fails(e)
  BY ZenonT(90), <1>2, <1>4, FailedStep DEF ValidatePublication
<1>5. QED
  BY <1>3, <1>4 DEF ValidatePublication

(* The holder of a permit calls the backend once.                          *)
LEMMA DispatchStep ==
    ASSUME IInv, NEW e \in Writers, Dispatch(e)
    PROVE  IInv'
<1>1. PICK q \in Permits : q = Permit(e)
  BY ZenonT(90) DEF IInv, HolderInv, Dispatch, At
<1>2. /\ HolderInv(e) /\ RecordInv(q) /\ PutInv(e)
      /\ chat[e].pc = "dispatch" /\ chat[e].pc # "idle" /\ chat[e].pc \in Held
  BY DEF IInv, Dispatch, At, Held, Early, Late
<1>3. /\ data' = data /\ meta' = meta /\ record' = record /\ answered' = answered
      /\ put' = put /\ Kept
  BY DEF Dispatch, storeVars, files, Kept
<1>4. PutInv(e)'
  BY ZenonT(90), <1>1, <1>2, <1>3, ChatAssumption DEF PutInv, NoPut, IInv, TypeInv
<1>5. /\ dispatched' \in [Permits -> Nat] /\ dispatched[q] = 0 /\ dispatched'[q] = 1
      /\ \A p \in Permits \ {q} : dispatched'[p] = dispatched[p]
  BY SMTT(30), <1>1, <1>2 DEF Dispatch, IInv, TypeInv, HolderInv, Held, Early, Late
<1>6. RecordInv(q)'
  <2>1. record[q].state = "consumed" /\ record[q].outcome = None
    BY ZenonT(90), <1>1, <1>2 DEF HolderInv, Held, Early
  <2>2. ~record[q].settled /\ q \notin answered
    BY ZenonT(90), <1>2, <2>1, ChatAssumption DEF RecordInv, Published
  <2>3. QED
    BY <1>3, <1>5, <2>1, <2>2, ChatAssumption DEF RecordInv
<1>7. ASSUME NEW at \in {"respond", "ambiguous"}, Continues(e, at) PROVE IInv'
  <2>1. HolderInv(e)'
    BY ZenonT(90), <1>1, <1>2, <1>3, <1>5, <1>7
    DEF HolderInv, At, Permit, Held, Early, Late, Continues, IInv, TypeInv, Published, Gets
  <2>2. QED
    BY ZenonT(90), <1>1, <1>2, <1>3, <1>4, <1>5, <1>6, <1>7, <2>1, ChatAssumption, PlaceStep
    DEF Held, Early, Late
<1>8. ASSUME Fails(e) PROVE IInv'
  <2>1. /\ chat'[e] = NoChat
        /\ \A f \in Writers \ {e} : chat'[f] = chat[f] /\ put'[f] = put[f]
    BY <1>3, <1>8 DEF IInv, TypeInv, Fails
  <2>2. \A w \in Writers : PutInv(w)'
    BY <1>3 DEF IInv, PutInv
  <2>3. TypeInv'
    BY ZenonT(90), <1>3, <1>5, <1>8, States DEF IInv, TypeInv, Fails
  <2>4. HolderInv(e)'
    BY <2>1 DEF HolderInv, At, NoChat, Held, Early, Late
  <2>5. /\ chat'[e].pc = "idle"
        /\ \A p \in Permits \ {q} :
               /\ record'[p] = record[p] /\ dispatched'[p] = dispatched[p]
               /\ p \in answered' => p \in answered
    BY <1>3, <1>5, <2>1 DEF NoChat
  <2>6. QED
    BY <1>1, <1>2, <1>3, <1>6, <2>1, <2>2, <2>3, <2>4, <2>5, LocalStep
<1>9. QED
  BY <1>7, <1>8 DEF Dispatch

(* The put of the response begins.                                         *)
LEMMA StoreResponseStep ==
    ASSUME IInv, NEW e \in Writers, StoreResponse(e)
    PROVE  IInv'
<1>1. PICK q \in Permits : q = Permit(e)
  BY ZenonT(90) DEF IInv, HolderInv, StoreResponse, At
<1>2. /\ HolderInv(e) /\ RecordInv(q) /\ PutInv(e)
      /\ chat[e].pc = "respond" /\ chat[e].pc # "idle" /\ chat[e].pc \in Held
  BY ZenonT(90) DEF IInv, StoreResponse, At, Held, Early, Late
<1>3. CASE Continues(e, "responding")
  <2>1. data' = data /\ meta' = meta /\ record' = record /\ answered' = answered
    BY ZenonT(90) DEF StoreResponse, PutReturns, PutBegin, storeVars, files
  <2>2. put' = [put EXCEPT ![e] = [pc |-> "data", blob |-> Response(q), media |-> Json]]
    BY <1>1, <1>3 DEF StoreResponse, PutReturns, PutBegin, storeVars
  <2>3. PutInv(e)'
    BY ZenonT(90), <1>1, <1>2, <2>1, <2>2, ChatAssumption DEF PutInv, NoPut, IInv, TypeInv
  <2>4. dispatched' = dispatched /\ dispatched' \in [Permits -> Nat]
    BY DEF StoreResponse, IInv, TypeInv
  <2>5. RecordInv(q)'
    <3>1. Kept /\ (q \in answered' => record[q].settled)
      BY ZenonT(90), <1>2, <2>1 DEF Kept, RecordInv
    <3>2. QED
      BY <1>1, <2>1, <2>4, <3>1, SameRecord
  <2>6. HolderInv(e)'
    BY ZenonT(90), <1>1, <1>2, <1>3, <2>1, <2>2, <2>4
    DEF HolderInv, At, Permit, Held, Early, Late, Continues, IInv, TypeInv, Published, Gets
  <2>7. QED
    BY <1>1, <1>2, <1>3, <2>1, <2>2, <2>3, <2>4, <2>5, <2>6, ChatAssumption, PlaceStep, ZenonT(90)
    DEF Held, Early, Late
<1>4. QED
  BY <1>3 DEF StoreResponse

(* A response that put returned can be read.                               *)
LEMMA ResponseStoredStep ==
    ASSUME IInv, NEW e \in Writers, ResponseStored(e)
    PROVE  IInv'
<1>1. PICK q \in Permits : q = Permit(e)
  BY ZenonT(90) DEF IInv, HolderInv, ResponseStored, At
<1>2. /\ HolderInv(e) /\ RecordInv(q) /\ PutInv(e)
      /\ chat[e].pc = "responding" /\ chat[e].pc # "idle" /\ chat[e].pc \in Held
  BY ZenonT(90) DEF IInv, ResponseStored, At, Held, Early, Late
<1>3. ASSUME NEW at \in {"outcome", "ambiguous"}, Continues(e, at),
             at = "outcome" => put[e].pc = "done"
      PROVE  IInv'
  <2>1. data' = data /\ meta' = meta /\ record' = record /\ answered' = answered
    BY DEF ResponseStored, PutReturns, PutBegin, storeVars, files
  <2>2. put' = [put EXCEPT ![e] = NoPut]
    BY <1>1, <1>3 DEF ResponseStored, PutReturns, PutBegin, storeVars
  <2>3. PutInv(e)'
    BY ZenonT(90), <1>1, <1>2, <2>1, <2>2, ChatAssumption DEF PutInv, NoPut, IInv, TypeInv
  <2>4. dispatched' = dispatched /\ dispatched' \in [Permits -> Nat]
    BY DEF ResponseStored, IInv, TypeInv
  <2>5. RecordInv(q)'
    <3>1. Kept /\ (q \in answered' => record[q].settled)
      BY ZenonT(90), <1>2, <2>1 DEF Kept, RecordInv
    <3>2. QED
      BY <1>1, <2>1, <2>4, <3>1, SameRecord
  <2>6. HolderInv(e)'
    BY <1>1, <1>2, <1>3, <2>1, <2>2, <2>4, ZenonT(90)
    DEF HolderInv, At, Permit, Held, Early, Late, Continues, IInv, TypeInv, Published, Gets, PutInv, Response
  <2>7. QED
    BY <1>1, <1>2, <1>3, <2>1, <2>2, <2>3, <2>4, <2>5, <2>6, ChatAssumption, PlaceStep, ZenonT(90)
    DEF Held, Early, Late
<1>4. QED
  BY ZenonT(90), <1>3 DEF ResponseStored

(* The put of the observation begins.                                      *)
LEMMA StoreObservationStep ==
    ASSUME IInv, NEW e \in Writers, StoreObservation(e)
    PROVE  IInv'
<1>1. PICK q \in Permits : q = Permit(e)
  BY ZenonT(90) DEF IInv, HolderInv, StoreObservation, At
<1>2. /\ HolderInv(e) /\ RecordInv(q) /\ PutInv(e)
      /\ chat[e].pc = "observe" /\ chat[e].pc # "idle" /\ chat[e].pc \in Held
  BY ZenonT(90) DEF IInv, StoreObservation, At, Held, Early, Late
<1>3. CASE Continues(e, "observing") /\ PutBegin(e, Observation(q), Json)
  <2>1. data' = data /\ meta' = meta /\ record' = record /\ answered' = answered
    BY ZenonT(90) DEF StoreObservation, PutReturns, PutBegin, storeVars, files
  <2>2. put' = [put EXCEPT ![e] = [pc |-> "data", blob |-> Observation(q), media |-> Json]]
    BY <1>1, <1>3 DEF StoreObservation, PutReturns, PutBegin, storeVars
  <2>3. PutInv(e)'
    BY ZenonT(90), <1>1, <1>2, <2>1, <2>2, ChatAssumption DEF PutInv, NoPut, IInv, TypeInv
  <2>4. dispatched' = dispatched /\ dispatched' \in [Permits -> Nat]
    BY DEF StoreObservation, IInv, TypeInv
  <2>5. RecordInv(q)'
    <3>1. Kept /\ (q \in answered' => record[q].settled)
      BY ZenonT(90), <1>2, <2>1 DEF Kept, RecordInv
    <3>2. QED
      BY <1>1, <2>1, <2>4, <3>1, SameRecord
  <2>6. HolderInv(e)'
    BY ZenonT(90), <1>1, <1>2, <1>3, <2>1, <2>2, <2>4
    DEF HolderInv, At, Permit, Held, Early, Late, Continues, IInv, TypeInv, Published, Gets
  <2>7. QED
    BY <1>1, <1>2, <1>3, <2>1, <2>2, <2>3, <2>4, <2>5, <2>6, ChatAssumption, PlaceStep, ZenonT(90)
    DEF Held, Early, Late
<1>4. CASE Fails(e) /\ UNCHANGED storeVars
  BY ZenonT(90), <1>2, <1>4, FailedStep DEF StoreObservation
<1>5. QED
  BY ZenonT(90), <1>1, <1>3, <1>4 DEF StoreObservation

(* The put of the observation returned.                                    *)
LEMMA ObservationStoredStep ==
    ASSUME IInv, NEW e \in Writers, ObservationStored(e)
    PROVE  IInv'
<1>1. PICK q \in Permits : q = Permit(e)
  BY ZenonT(90) DEF IInv, HolderInv, ObservationStored, At
<1>2. /\ HolderInv(e) /\ RecordInv(q) /\ PutInv(e)
      /\ chat[e].pc = "observing" /\ chat[e].pc # "idle" /\ chat[e].pc \in Held
  BY ZenonT(90) DEF IInv, ObservationStored, At, Held, Early, Late
<1>3. CASE Continues(e, "validate")
  <2>1. data' = data /\ meta' = meta /\ record' = record /\ answered' = answered
    BY DEF ObservationStored, PutReturns, PutBegin, storeVars, files
  <2>2. put' = [put EXCEPT ![e] = NoPut]
    BY <1>1, <1>3 DEF ObservationStored, PutReturns, PutBegin, storeVars
  <2>3. PutInv(e)'
    BY ZenonT(90), <1>1, <1>2, <2>1, <2>2, ChatAssumption DEF PutInv, NoPut, IInv, TypeInv
  <2>4. dispatched' = dispatched /\ dispatched' \in [Permits -> Nat]
    BY ZenonT(90) DEF ObservationStored, IInv, TypeInv
  <2>5. RecordInv(q)'
    <3>1. Kept /\ (q \in answered' => record[q].settled)
      BY ZenonT(90), <1>2, <2>1 DEF Kept, RecordInv
    <3>2. QED
      BY <1>1, <2>1, <2>4, <3>1, SameRecord
  <2>6. HolderInv(e)'
    BY ZenonT(90), <1>1, <1>2, <1>3, <2>1, <2>2, <2>4
    DEF HolderInv, At, Permit, Held, Early, Late, Continues, IInv, TypeInv, Published, Gets
  <2>7. QED
    BY <1>1, <1>2, <1>3, <2>1, <2>2, <2>3, <2>4, <2>5, <2>6, ChatAssumption, PlaceStep, ZenonT(90)
    DEF Held, Early, Late
<1>4. CASE Fails(e)
  BY <1>2, <1>4, EndedStep, ZenonT(90) DEF ObservationStored, PutReturns, files
<1>5. QED
  BY ZenonT(90), <1>3, <1>4 DEF ObservationStored

(* What is returned is settled.                                            *)
LEMMA ReadbackStep ==
    ASSUME IInv, NEW e \in Writers, LoadLiveSettlement(e)
    PROVE  IInv'
<1>1. PICK q \in Permits : q = Permit(e)
  BY ZenonT(90) DEF IInv, HolderInv, LoadLiveSettlement, At
<1>2. chat[e].pc # "idle" /\ chat[e].pc \in Held /\ Fails(e)
  BY ZenonT(90) DEF LoadLiveSettlement, At, Held, Late
<1>3. CASE answered' = answered
  BY ZenonT(90), <1>2, <1>3, FailedStep DEF LoadLiveSettlement
<1>4. CASE record[q].settled /\ answered' = answered \cup {q}
  <2>1. UNCHANGED <<record, dispatched>> /\ UNCHANGED storeVars
    BY DEF LoadLiveSettlement
  <2>2. Kept /\ (\A w \in Writers : PutInv(w)') /\ data' = data /\ meta' = meta /\ put' = put
    BY <2>1, QuietStore
  <2>3. TypeInv' /\ chat'[e] = NoChat /\ \A f \in Writers \ {e} : chat'[f] = chat[f]
    BY ZenonT(90), <1>2, <1>4, <2>1, <2>2, States DEF IInv, TypeInv, Fails
  <2>4. RecordInv(q)'
    BY ZenonT(90), <1>4, <2>1, <2>2, SameRecord
  <2>5. HolderInv(e)'
    BY <2>3 DEF HolderInv, At, NoChat, Held, Early, Late
  <2>6. QED
    <3>1. /\ \A f \in Writers \ {e} : chat'[f] = chat[f] /\ put'[f] = put[f]
          /\ chat'[e].pc = "idle" \/ chat'[e].permit = chat[e].permit
      BY <2>2, <2>3 DEF NoChat
    <3>2. \A p \in Permits \ {q} :
              /\ record'[p] = record[p] /\ dispatched'[p] = dispatched[p]
              /\ p \in answered' => p \in answered
      BY ZenonT(90), <1>4, <2>1
    <3>3. QED
      BY ZenonT(90), <1>1, <1>2, <2>2, <2>3, <2>4, <2>5, <3>1, <3>2, LocalStep
<1>5. QED
  BY <1>1, <1>3, <1>4 DEF LoadLiveSettlement

(* An execution begins with a permit it does not hold yet.                 *)
LEMMA ExecuteStep ==
    ASSUME IInv, NEW e \in Writers, NEW p \in Permits, Execute(e, p)
    PROVE  IInv'
<1>1. /\ UNCHANGED <<data, meta, put, record, dispatched, answered>>
      /\ chat' = [chat EXCEPT ![e] = [pc |-> "consume", permit |-> p]]
  BY DEF Execute, storeVars, files
<1>2. TypeInv'
  BY <1>1, States DEF IInv, TypeInv
<1>3. \A f \in Writers : HolderInv(f)'
  BY ZenonT(90), <1>1 DEF IInv, TypeInv, HolderInv, At, Permit, Held, Early, Late, Published, Gets
<1>4. Exclusive'
  BY ZenonT(90), <1>1 DEF IInv, TypeInv, Exclusive, Permit, Held, Early, Late
<1>5. \A q \in Permits : RecordInv(q)'
  BY ZenonT(90), <1>1 DEF IInv, RecordInv, Published, Gets
<1>6. \A w \in Writers : PutInv(w)'
  BY ZenonT(90), <1>1 DEF IInv, PutInv
<1>7. QED
  BY <1>2, <1>3, <1>4, <1>5, <1>6 DEF IInv

(* A put goes on and every executor stays where it is.                     *)
LEMMA PutGoesOn ==
    ASSUME IInv, NEW e \in Writers, PutStep(e), UNCHANGED chatVars
    PROVE  IInv'
<1>1. /\ Kept /\ PutInv(e)'
      /\ data' \in [Blobs -> {"absent", "partial", "whole"}]
      /\ meta' \in [Blobs -> {"absent", "partial"} \cup Medias]
      /\ put' = [put EXCEPT ![e] = [pc |-> put'[e].pc, blob |-> put[e].blob,
                                    media |-> put[e].media]]
      /\ put'[e].pc \in {"write", "compare", "meta", "describe", "sync", "done", "failed"}
      /\ put[e].pc # "idle"
  BY ZenonT(90), PutStepKeeps DEF IInv
<1>2. chat' = chat /\ record' = record /\ dispatched' = dispatched /\ answered' = answered
  BY DEF chatVars
<1>3. TypeInv'
  <2>1. TypeInv /\ put[e] \in PutState
    BY DEF IInv, TypeInv
  <2>2. put' \in [Writers -> PutState]
    BY <1>1, <2>1 DEF TypeInv, PutState
  <2>3. QED
    BY ZenonT(90), <1>1, <1>2, <2>1, <2>2 DEF TypeInv
<1>4. \A w \in Writers : PutInv(w)'
  <2>1. ASSUME NEW w \in Writers, w # e PROVE PutInv(w)'
    <3>1. PutInv(w) /\ put'[w] = put[w]
      BY ZenonT(90), <1>1, <2>1 DEF IInv, TypeInv
    <3>2. QED
      BY ZenonT(90), <1>1, <3>1 DEF PutInv, Kept
  <2>2. QED
    BY <1>1, <2>1
<1>5. \A q \in Permits : RecordInv(q)'
  <2>1. ASSUME NEW q \in Permits PROVE RecordInv(q)'
    <3>1. q \in answered' => record[q].settled
      BY ZenonT(90), <1>2 DEF IInv, RecordInv
    <3>2. QED
      BY ZenonT(90), <1>1, <1>2, <3>1, SameRecord
  <2>2. QED
    BY <2>1
<1>6. \A f \in Writers : HolderInv(f)'
  <2>1. ASSUME NEW f \in Writers PROVE HolderInv(f)'
    <3>1. HolderInv(f) /\ put'[f].blob = put[f].blob
      BY <1>1 DEF IInv, TypeInv
    <3>2. chat[f].pc # "idle" =>
             /\ Gets(Response(Permit(f)), Json) => Gets(Response(Permit(f)), Json)'
             /\ Gets(Observation(Permit(f)), Json) => Gets(Observation(Permit(f)), Json)'
      BY ZenonT(90), <1>1, <1>2, <3>1, ChatAssumption
      DEF HolderInv, Kept, Gets, Permit, Response, Observation
    <3>3. chat[f].pc # "idle" /\ Published(Permit(f)) => Published(Permit(f))'
      BY ZenonT(90), <1>2, <3>2 DEF Published, Permit
    <3>4. QED
      BY ZenonT(90), <1>2, <3>1, <3>2, <3>3 DEF HolderInv, At, Permit
  <2>2. QED
    BY <2>1
<1>7. Exclusive'
  BY <1>2 DEF IInv, Exclusive, Permit
<1>8. QED
  BY <1>3, <1>4, <1>5, <1>6, <1>7 DEF IInv

(* Every step of the executor preserves the invariant.                     *)
LEMMA NextIInv == IInv /\ [Next]_vars => IInv'
<1> SUFFICES ASSUME IInv, [Next]_vars PROVE IInv'
  OBVIOUS
<1>1. ASSUME NEW e \in Writers, Step(e) PROVE IInv'
  BY ZenonT(90), <1>1, ConsumeStep, PreflightStep, DispatchStep, AmbiguousStep, StoreResponseStep,
     ResponseStoredStep, OutcomeStep, StoreObservationStep, ObservationStoredStep, ValidateStep,
     SettleStep, ReadbackStep, PutGoesOn
  DEF Step
<1>2. ASSUME NEW e \in Writers, ExecutorDies(e) PROVE IInv'
  BY <1>2, EndedStep, ZenonT(90) DEF ExecutorDies, At, files
<1>3. CASE UNCHANGED vars
  <2>1. UNCHANGED <<data, meta, put, record, chat, dispatched, answered>>
    BY <1>3 DEF vars, storeVars, files, chatVars
  <2>2. TypeInv' /\ Exclusive' /\ \A w \in Writers : PutInv(w)'
    BY ZenonT(90), <2>1 DEF IInv, TypeInv, Exclusive, Permit, PutInv
  <2>3. \A e \in Writers : HolderInv(e)'
    BY <2>1, ZenonT(90) DEF IInv, HolderInv, At, Permit, Published, Gets
  <2>4. \A p \in Permits : RecordInv(p)'
    BY <2>1, ZenonT(90) DEF IInv, RecordInv, Published, Gets
  <2>5. QED
    BY <2>2, <2>3, <2>4 DEF IInv
<1>4. QED
  BY <1>1, <1>2, <1>3, ExecuteStep DEF Next

(* The inductive invariant holds.                                          *)
LEMMA AlwaysIInv == Spec => []IInv
  BY InitIInv, NextIInv, PTL DEF Spec

(* However many executors are given a permit, and wherever they fail or    *)
(* die, the backend is called under it at most once.                       *)
THEOREM PermitDispatchesOnce == Spec => []DispatchedAtMostOnce
<1>1. IInv => DispatchedAtMostOnce
  BY ZenonT(90) DEF IInv, RecordInv, DispatchedAtMostOnce
<1>2. QED
  BY AlwaysIInv, <1>1, PTL

(* A recorded success has its response, which put returned before and      *)
(* which no later writer can change.                                       *)
THEOREM SuccessKeepsItsResponse == Spec => []SuccessRetainsResponse
<1>1. IInv => SuccessRetainsResponse
  BY ZenonT(90) DEF IInv, RecordInv, SuccessRetainsResponse
<1>2. QED
  BY AlwaysIInv, <1>1, PTL

(* A settled permit stays published, and only a settled one is answered.   *)
THEOREM SettlementsStayBacked == Spec => []SettlementsAreBacked
<1>1. IInv => SettlementsAreBacked
  BY ZenonT(90) DEF IInv, TypeInv, RecordInv, SettlementsAreBacked
<1>2. QED
  BY AlwaysIInv, <1>1, PTL

(* However many executors there are and wherever they fail, outcomes and   *)
(* settlements are backed by artifacts that can be read.                   *)
THEOREM OutcomesStayBacked == Spec => []OutcomesAreBacked
<1>1. SuccessRetainsResponse /\ SettlementsAreBacked => OutcomesAreBacked
  BY DEF OutcomesAreBacked
<1>2. QED
  BY <1>1, SuccessKeepsItsResponse, SettlementsStayBacked, PTL
-----------------------------------------------------------------------------
(* The artifact store, for any writers and media types.                    *)

StorePuts ==
    [pc : {"idle", "data", "write", "compare", "meta", "describe", "sync", "done", "failed"},
     blob : Blobs \cup {None}, media : Medias \cup {None}]

StoreType ==
    /\ data \in [Blobs -> {"absent", "partial", "whole"}]
    /\ meta \in [Blobs -> {"absent", "partial"} \cup Medias]
    /\ put \in [Writers -> StorePuts]
    /\ acked \in SUBSET (Blobs \X Medias)

(* Whoever is past the bytes has them whole, and whoever writes the        *)
(* descriptor writes it alone: it created the file.                        *)
WriterInv(w) ==
    /\ put[w].pc = "idle" => put[w] = NoPut
    /\ put[w].pc # "idle" => put[w].blob \in Blobs /\ put[w].media \in Medias
    /\ put[w].pc \in {"meta", "describe", "sync"} => data[put[w].blob] = "whole"
    /\ put[w].pc = "describe" => meta[put[w].blob] = "partial"
    /\ put[w].pc = "sync" => meta[put[w].blob] = put[w].media

OneDescribes ==
    \A v, w \in Writers :
        put[v].pc = "describe" /\ put[w].pc = "describe" /\ put[v].blob = put[w].blob => v = w

StoreInv ==
    /\ StoreType
    /\ \A w \in Writers : WriterInv(w)
    /\ OneDescribes
    /\ AcknowledgedArtifactsStay

(* What was whole stays whole, a descriptor stays as it was written, and   *)
(* nobody but w touches one that is being written.                         *)
Settled(w) ==
    /\ \A b \in Blobs : data[b] = "whole" => data'[b] = "whole"
    /\ \A b \in Blobs : meta[b] \in Medias => meta'[b] = meta[b]
    /\ \A b \in Blobs : meta[b] = "partial" /\ ~(put[w].pc = "describe" /\ put[w].blob = b)
                             => meta'[b] = "partial"

(* A step of w that leaves the others alone has only its own place and the *)
(* new answers to account for.                                             *)
LEMMA WriterStep ==
    ASSUME StoreInv, NEW w \in Writers, StoreType', Settled(w), WriterInv(w)',
           \A v \in Writers \ {w} : put'[v] = put[v],
           put'[w].pc = "describe" =>
               \A v \in Writers \ {w} : put[v].pc = "describe" => put[v].blob # put'[w].blob,
           \A a \in acked' : a \in acked \/ Gets(a[1], a[2])'
    PROVE  StoreInv'
<1>1. ASSUME NEW v \in Writers, v # w PROVE WriterInv(v)'
  <2>1. WriterInv(v) /\ put'[v] = put[v]
    BY <1>1 DEF StoreInv
  <2>2. put[v].pc = "describe" => ~(put[w].pc = "describe" /\ put[w].blob = put[v].blob)
    BY ZenonT(90), <1>1 DEF StoreInv, OneDescribes
  <2>3. QED
    BY ZenonT(90), <2>1, <2>2 DEF WriterInv, Settled
<1>2. \A v \in Writers : WriterInv(v)'
  BY <1>1
<1>3. OneDescribes'
  BY ZenonT(90) DEF StoreInv, OneDescribes
<1>4. ASSUME NEW a \in acked' PROVE Gets(a[1], a[2])'
  <2>1. CASE a \in acked
    <3>1. Gets(a[1], a[2]) /\ a[1] \in Blobs /\ a[2] \in Medias
      BY <2>1 DEF StoreInv, StoreType, AcknowledgedArtifactsStay
    <3>2. QED
      BY ZenonT(90), <3>1 DEF Gets, Settled
  <2>2. QED
    BY <1>4, <2>1
<1>5. QED
  BY <1>2, <1>3, <1>4 DEF StoreInv, AcknowledgedArtifactsStay

(* A step that leaves the files and the answers alone, and moves w.        *)
LEMMA WriterMoves ==
    ASSUME StoreInv, NEW w \in Writers, NEW p \in StorePuts, put' = [put EXCEPT ![w] = p],
           UNCHANGED <<files, acked>>, WriterInv(w)', p.pc # "describe"
    PROVE  StoreInv'
<1>1. StoreType' /\ Settled(w)
  BY DEF StoreInv, StoreType, Settled, files
<1>2. put'[w] = p /\ \A v \in Writers \ {w} : put'[v] = put[v]
  BY DEF StoreInv, StoreType
<1>3. \A a \in acked' : a \in acked \/ Gets(a[1], a[2])'
  OBVIOUS
<1>4. QED
  BY ZenonT(90), <1>1, <1>2, <1>3, WriterStep

(* Where w stands, and where it goes.                                      *)
LEMMA WriterPlace ==
    ASSUME StoreInv, NEW w \in Writers, put[w].pc # "idle",
           NEW at \in {"write", "compare", "meta", "describe", "sync", "done", "failed"}
    PROVE  /\ put[w].blob \in Blobs /\ put[w].media \in Medias
           /\ [pc |-> at, blob |-> put[w].blob, media |-> put[w].media] \in StorePuts
           /\ Goes(w, at) =>
                 /\ put' \in [Writers -> StorePuts]
                 /\ put'[w] = [pc |-> at, blob |-> put[w].blob, media |-> put[w].media]
                 /\ \A v \in Writers \ {w} : put'[v] = put[v]
<1>1. put[w].blob \in Blobs /\ put[w].media \in Medias /\ put \in [Writers -> StorePuts]
  BY ZenonT(90) DEF StoreInv, StoreType, WriterInv
<1>2. [pc |-> at, blob |-> put[w].blob, media |-> put[w].media] \in StorePuts
  BY <1>1 DEF StorePuts
<1>3. QED
  BY <1>1, <1>2 DEF Goes

(* put begins, returns or ends with its process.                           *)
LEMMA WriterBeginsOrEnds ==
    ASSUME StoreInv, NEW w \in Writers,
           \/ \E b \in Blobs, m \in Medias : PutBegin(w, b, m)
           \/ PutReturns(w) \/ WriterDies(w)
    PROVE  StoreInv'
<1>1. CASE \E b \in Blobs, m \in Medias : PutBegin(w, b, m)
  <2>1. PICK b \in Blobs, m \in Medias : PutBegin(w, b, m)
    BY <1>1
  <2>2. PICK p : p = [pc |-> "data", blob |-> b, media |-> m]
    BY ZenonT(60)
  <2>3. p \in StorePuts /\ p.pc = "data" /\ p.blob \in Blobs /\ p.media \in Medias
    BY <2>2 DEF StorePuts
  <2>4. put' = [put EXCEPT ![w] = p] /\ UNCHANGED <<files, acked>>
    BY <2>1, <2>2 DEF PutBegin
  <2>5. WriterInv(w)'
    BY <2>3, <2>4 DEF StoreInv, StoreType, WriterInv
  <2>6. QED
    BY ZenonT(60), <2>3, <2>4, <2>5, WriterMoves
<1>2. CASE PutReturns(w) \/ WriterDies(w)
  <2>1. NoPut \in StorePuts /\ NoPut.pc = "idle"
    BY DEF StorePuts, NoPut
  <2>2. put' = [put EXCEPT ![w] = NoPut] /\ UNCHANGED <<files, acked>>
    BY <1>2 DEF PutReturns, WriterDies
  <2>3. WriterInv(w)'
    BY <2>1, <2>2 DEF StoreInv, StoreType, WriterInv
  <2>4. QED
    BY ZenonT(90), <2>1, <2>2, <2>3, WriterMoves
<1>3. QED
  BY <1>1, <1>2

(* The bytes: whoever finds the name free creates and fills it, whoever    *)
(* does not reads it back.                                                 *)
LEMMA WriterStoresBytes ==
    ASSUME StoreInv, NEW w \in Writers, PutCreate(w) \/ PutWrite(w) \/ PutCompare(w)
    PROVE  StoreInv'
<1>1. put[w].pc \in {"data", "write", "compare"}
  BY DEF PutCreate, PutWrite, PutCompare
<1>2. put[w].blob \in Blobs /\ put[w].media \in Medias
  BY ZenonT(60), <1>1, WriterPlace
<1>3. CASE PutCompare(w)
  <2>1. PICK at \in {"meta", "failed"} :
            Goes(w, at) /\ (at = "meta" => data[put[w].blob] = "whole")
    BY <1>3 DEF PutCompare, Gets
  <2>2. PICK p : p = [pc |-> at, blob |-> put[w].blob, media |-> put[w].media]
    BY ZenonT(60)
  <2>3. p \in StorePuts /\ p.pc = at /\ p.blob = put[w].blob /\ p.media = put[w].media
    BY ZenonT(60), <1>1, <2>2, WriterPlace
  <2>4. put' = [put EXCEPT ![w] = p] /\ UNCHANGED <<files, acked>> /\ put'[w] = p
    BY ZenonT(60), <1>3, <2>1, <2>2 DEF PutCompare, Goes, StoreInv, StoreType
  <2>5. WriterInv(w)'
    BY <1>2, <2>1, <2>3, <2>4 DEF WriterInv, files
  <2>6. QED
    BY ZenonT(60), <2>3, <2>4, <2>5, WriterMoves
<1>4. CASE PutCreate(w) \/ PutWrite(w)
  <2>1. PICK at \in {"write", "compare", "meta"} :
            Goes(w, at) /\ (at = "meta" => data'[put[w].blob] = "whole")
    BY <1>2, <1>4 DEF PutCreate, PutWrite, StoreInv, StoreType
  <2>2. /\ put' \in [Writers -> StorePuts]
        /\ put'[w] = [pc |-> at, blob |-> put[w].blob, media |-> put[w].media]
        /\ \A v \in Writers \ {w} : put'[v] = put[v]
    BY ZenonT(60), <1>1, <2>1, WriterPlace
  <2>3. /\ data' \in [Blobs -> {"absent", "partial", "whole"}]
        /\ \A b \in Blobs : data[b] = "whole" => data'[b] = "whole"
        /\ UNCHANGED <<meta, acked>>
    BY <1>2, <1>4 DEF PutCreate, PutWrite, StoreInv, StoreType
  <2>4. StoreType' /\ Settled(w)
    BY <2>2, <2>3 DEF StoreInv, StoreType, Settled
  <2>5. /\ put'[w].pc \in {"write", "compare", "meta"}
        /\ put'[w].blob = put[w].blob /\ put'[w].media = put[w].media
        /\ put'[w].pc = "meta" => data'[put[w].blob] = "whole"
    BY <2>1, <2>2
  <2>6. /\ put'[w].pc # "idle" /\ put'[w].pc # "describe" /\ put'[w].pc # "sync"
        /\ \A a \in acked' : a \in acked \/ Gets(a[1], a[2])'
    BY <2>3, <2>5
  <2>7. WriterInv(w)'
    BY ZenonT(60), <1>2, <2>5, <2>6 DEF WriterInv
  <2>8. QED
    BY ZenonT(60), <2>2, <2>4, <2>6, <2>7, WriterStep
<1>5. QED
  BY <1>3, <1>4

(* The descriptor: whoever finds none creates it and alone fills it;       *)
(* whoever finds one answers only if it says the same.                     *)
LEMMA WriterDescribes ==
    ASSUME StoreInv, NEW w \in Writers, PutDescriptor(w) \/ PutDescribe(w) \/ PutSync(w)
    PROVE  StoreInv'
<1>1. put[w].pc \in {"meta", "describe", "sync"} /\ WriterInv(w)
  BY DEF PutDescriptor, PutDescribe, PutSync, StoreInv
<1>2. PICK b \in Blobs, m \in Medias : b = put[w].blob /\ m = put[w].media
  BY ZenonT(60), <1>1, WriterPlace
<1>3. data[b] = "whole" /\ data' = data /\ data \in [Blobs -> {"absent", "partial", "whole"}]
  BY <1>1, <1>2 DEF WriterInv, PutDescriptor, PutDescribe, PutSync, StoreInv, StoreType
<1>4. PICK at \in {"describe", "sync", "done", "failed"} :
          /\ Goes(w, at)
          /\ \/ meta[b] = "absent" /\ at = "describe" /\ meta' = [meta EXCEPT ![b] = "partial"]
             \/ put[w].pc = "describe" /\ at = "sync" /\ meta' = [meta EXCEPT ![b] = m]
             \/ at \in {"done", "failed"} /\ meta' = meta
          /\ acked' = acked \/ (meta[b] = m /\ meta' = meta /\ acked' = acked \cup {<<b, m>>})
  <2>1. CASE PutDescriptor(w) /\ meta[b] = "absent"
    BY <1>2, <2>1 DEF PutDescriptor
  <2>2. CASE PutDescriptor(w) /\ meta[b] # "absent"
    <3>1. meta' = meta /\ Goes(w, IF meta[b] = m THEN "done" ELSE "failed")
      BY <1>2, <2>2 DEF PutDescriptor
    <3>2. acked' = acked \cup ({<<b, m>>} \cap {<<b, meta[b]>>})
      BY <1>2, <2>2 DEF PutDescriptor
    <3>3. acked' = acked \/ (meta[b] = m /\ acked' = acked \cup {<<b, m>>})
      BY <3>2
    <3>4. QED
      BY <3>1, <3>3
  <2>3. CASE PutDescribe(w)
    BY <1>2, <2>3 DEF PutDescribe
  <2>4. CASE PutSync(w)
    BY <1>1, <1>2, <2>4 DEF PutSync, WriterInv
  <2>5. QED
    BY <2>1, <2>2, <2>3, <2>4
<1>5. /\ put' \in [Writers -> StorePuts]
      /\ put'[w] = [pc |-> at, blob |-> b, media |-> m]
      /\ \A v \in Writers \ {w} : put'[v] = put[v]
  <2>1. Goes(w, at) /\ put[w].pc # "idle"
    BY <1>1, <1>4
  <2>2. QED
    BY ZenonT(90), <1>2, <2>1, WriterPlace
<1>6. meta' \in [Blobs -> {"absent", "partial"} \cup Medias]
  BY <1>2, <1>4 DEF StoreInv, StoreType
<1>7. Settled(w)
  <2>1. put[w].pc = "describe" => meta[b] = "partial"
    BY <1>1, <1>2 DEF WriterInv
  <2>2. meta \in [Blobs -> {"absent", "partial"} \cup Medias]
    BY DEF StoreInv, StoreType
  <2>3. QED
    BY <1>2, <1>3, <1>4, <2>1, <2>2, MediasAssumption DEF Settled
<1>8. acked' \in SUBSET (Blobs \X Medias)
  BY <1>4 DEF StoreInv, StoreType
<1>9. WriterInv(w)'
  BY <1>3, <1>4, <1>5 DEF WriterInv, StoreInv, StoreType
<1>10. at = "describe" => \A v \in Writers \ {w} : put[v].pc = "describe" => put[v].blob # b
  <2>1. at = "describe" => meta[b] = "absent"
    BY <1>4
  <2>2. \A v \in Writers : put[v].pc = "describe" => meta[put[v].blob] = "partial"
    BY ZenonT(90) DEF StoreInv, WriterInv
  <2>3. QED
    BY <2>1, <2>2
<1>11. \A a \in acked' : a \in acked \/ Gets(a[1], a[2])'
  <2>1. ASSUME NEW a \in acked', a \notin acked PROVE Gets(a[1], a[2])'
    <3>1. meta[b] = m /\ meta' = meta /\ a = <<b, m>>
      BY <1>4, <2>1
    <3>2. QED
      BY <1>3, <3>1 DEF Gets
  <2>2. QED
    BY <2>1
<1>12. StoreType'
  BY <1>3, <1>5, <1>6, <1>8 DEF StoreType
<1>13. QED
  BY <1>5, <1>7, <1>9, <1>10, <1>11, <1>12, WriterStep

(* The store without power losses.                                         *)
StoreMoves ==
    \E w \in Writers :
        \/ \E b \in Blobs, m \in Medias : PutBegin(w, b, m)
        \/ PutStep(w) \/ PutReturns(w) \/ WriterDies(w)

(* The store starts with no file, no put and nothing answered.             *)
LEMMA StoreInitInv == StoreInit => StoreInv
  BY DEF StoreInit, StoreInv, StoreType, StorePuts, WriterInv, OneDescribes,
         AcknowledgedArtifactsStay, NoPut

(* Every step that is not a power loss keeps it.                            *)
LEMMA StoreMovesInv == StoreInv /\ [StoreMoves]_storeVars => StoreInv'
<1> SUFFICES ASSUME StoreInv, [StoreMoves]_storeVars PROVE StoreInv'
  OBVIOUS
<1>1. CASE StoreMoves
  <2>1. PICK w \in Writers :
            \/ \E b \in Blobs, m \in Medias : PutBegin(w, b, m)
            \/ PutStep(w) \/ PutReturns(w) \/ WriterDies(w)
    BY ZenonT(90), <1>1 DEF StoreMoves
  <2>2. CASE PutFails(w)
    <3>1. PICK p : p = [pc |-> "failed", blob |-> put[w].blob, media |-> put[w].media]
      BY ZenonT(60)
    <3>2. put[w].pc # "idle" /\ put' = [put EXCEPT ![w] = p] /\ UNCHANGED <<files, acked>>
      BY <2>2, <3>1 DEF PutFails, Goes
    <3>3. p \in StorePuts /\ p.pc = "failed" /\ p.blob \in Blobs /\ p.media \in Medias
      BY ZenonT(60), <3>1, <3>2, WriterPlace
    <3>4. WriterInv(w)'
      BY <3>2, <3>3 DEF StoreInv, StoreType, WriterInv
    <3>5. QED
      BY ZenonT(60), <3>2, <3>3, <3>4, WriterMoves
  <2>3. QED
    BY ZenonT(90), <2>1, <2>2, WriterBeginsOrEnds, WriterStoresBytes, WriterDescribes DEF PutStep
<1>2. CASE UNCHANGED storeVars
  <2>1. UNCHANGED <<data, meta, put, acked>>
    BY <1>2 DEF storeVars, files
  <2>2. StoreType' /\ OneDescribes' /\ AcknowledgedArtifactsStay'
    BY <2>1 DEF StoreInv, StoreType, OneDescribes, AcknowledgedArtifactsStay, Gets
  <2>3. \A w \in Writers : WriterInv(w)'
    BY <2>1 DEF StoreInv, WriterInv
  <2>4. QED
    BY <2>2, <2>3 DEF StoreInv
<1>3. QED
  BY <1>1, <1>2

(* put: as long as no power is lost, whatever was answered can be read     *)
(* under the descriptor that was answered, however many writers store the  *)
(* same bytes under whatever media types and wherever they fail or die.    *)
THEOREM StoredArtifactsStay ==
    ASSUME "power" \notin Faults
    PROVE  StoreSpec => []AcknowledgedArtifactsStay
<1>1. [StoreNext]_storeVars => [StoreMoves]_storeVars
  BY DEF StoreNext, StoreMoves, StoreLosesPower
<1>2. StoreInv => AcknowledgedArtifactsStay
  BY DEF StoreInv
<1>3. QED
  BY <1>1, <1>2, StoreInitInv, StoreMovesInv, PTL DEF StoreSpec

(* An executor touches the artifact store only through put.                *)
LEMMA ExecutorUsesStore ==
    ASSUME IInv, StoreInv, [Next]_vars
    PROVE  StoreMoves \/ UNCHANGED storeVars
<1>1. ASSUME NEW e \in Writers, NEW p \in Permits, Execute(e, p) PROVE UNCHANGED storeVars
  BY <1>1 DEF Execute
<1>2. ASSUME NEW e \in Writers, StoreResponse(e) \/ StoreObservation(e)
      PROVE  StoreMoves \/ UNCHANGED storeVars
  <2>1. Permit(e) \in Permits
    BY ZenonT(90), <1>2 DEF StoreResponse, StoreObservation, At, IInv, HolderInv
  <2>2. {Response(Permit(e)), Observation(Permit(e))} \subseteq Blobs /\ Json \in Medias
    BY <2>1, ChatAssumption
  <2>3. \/ PutBegin(e, Response(Permit(e)), Json)
        \/ PutBegin(e, Observation(Permit(e)), Json)
        \/ UNCHANGED storeVars
    BY ZenonT(90), <1>2 DEF StoreResponse, StoreObservation
  <2>4. QED
    BY ZenonT(90), <2>2, <2>3 DEF StoreMoves
<1>3. ASSUME NEW e \in Writers, Step(e) PROVE StoreMoves \/ UNCHANGED storeVars
  <2>1. PutStep(e) \/ PutReturns(e) => StoreMoves
    BY ZenonT(90) DEF StoreMoves
  <2>2. QED
    BY ZenonT(90), <1>2, <1>3, <2>1
    DEF Step, Consume, Preflight, Dispatch, RecordAmbiguous, ResponseStored, RecordOutcome,
        ObservationStored, ValidatePublication, Settle, LoadLiveSettlement
<1>4. ASSUME NEW e \in Writers, ExecutorDies(e) PROVE StoreMoves \/ UNCHANGED storeVars
  <2>1. CASE put[e].pc = "idle"
    <3>1. put[e] = NoPut /\ put \in [Writers -> StorePuts]
      BY ZenonT(90), <2>1 DEF StoreInv, StoreType, WriterInv
    <3>2. UNCHANGED put /\ UNCHANGED <<files, acked>>
      BY <1>4, <3>1 DEF ExecutorDies
    <3>3. QED
      BY <3>2 DEF storeVars
  <2>2. CASE put[e].pc # "idle"
    <3>1. WriterDies(e)
      BY <1>4, <2>2 DEF ExecutorDies, WriterDies
    <3>2. QED
      BY ZenonT(90), <3>1 DEF StoreMoves
  <2>3. QED
    BY <2>1, <2>2
<1>5. QED
  BY ZenonT(90), <1>1, <1>3, <1>4 DEF Next, vars

(* Whatever an executor of normal chat stored can be read ever after,      *)
(* wherever it and the others fail or die.                                 *)
THEOREM ExecutorsArtifactsStay == Spec => []AcknowledgedArtifactsStay
<1>1. Init => StoreInv
  BY StoreInitInv DEF Init
<1>2. IInv /\ StoreInv /\ [Next]_vars => StoreInv'
  BY ExecutorUsesStore, StoreMovesInv
<1>3. StoreInv => AcknowledgedArtifactsStay
  BY DEF StoreInv
<1>4. QED
  BY <1>1, <1>2, <1>3, AlwaysIInv, PTL DEF Spec
=============================================================================
