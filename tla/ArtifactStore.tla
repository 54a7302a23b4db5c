--------------------------- MODULE ArtifactStore ----------------------------
(***************************************************************************)
(* The content-addressed artifact store of a run directory, ArtifactStore  *)
(* of crates/recursive-agent-ledger/src/lib.rs.  An artifact is two files: *)
(* the bytes, named by their digest, and a .meta file with the descriptor. *)
(* put creates each of them under its final name, writes and syncs it, and *)
(* takes an existing one for its own if it agrees.                         *)
(***************************************************************************)
EXTENDS Naturals, FiniteSets

CONSTANTS
    Blobs,      \* byte strings; the digest of one is the blob itself
    Medias,     \* what else a descriptor says of the bytes
    Writers,    \* threads and processes that put artifacts
    Faults,     \* subset of {"io", "crash", "power"}
    None

ASSUME FaultsAssumption == Faults \subseteq {"io", "crash", "power"}
ASSUME MediasAssumption == {"absent", "partial"} \cap Medias = {}

VARIABLES
    data,   \* per blob: "absent", "partial" or "whole"
    meta,   \* per blob: "absent", "partial" or the media of its descriptor
    firm,   \* the files that were synced with their directory entry
    put,    \* per writer: [pc, blob, media]
    acked   \* history: <<blob, media>> that put returned

files == <<data, meta, firm>>
storeVars == <<files, put, acked>>

NoPut == [pc |-> "idle", blob |-> None, media |-> None]

StoreInit ==
    /\ data = [b \in Blobs |-> "absent"] /\ meta = [b \in Blobs |-> "absent"]
    /\ firm = {}
    /\ put = [w \in Writers |-> NoPut]
    /\ acked = {}

Goes(w, pc) ==
    put' = [put EXCEPT ![w] = [pc |-> pc, blob |-> put[w].blob, media |-> put[w].media]]

(* get and verify_descriptor: the stored descriptor is the one asked for   *)
(* and the bytes are all there.                                            *)
Gets(b, m) == meta[b] = m /\ data[b] = "whole"

PutBegin(w, b, m) ==
    /\ put[w].pc = "idle"
    /\ put' = [put EXCEPT ![w] = [pc |-> "data", blob |-> b, media |-> m]]
    /\ UNCHANGED <<files, acked>>

(* The bytes are created under their name, or were there before.           *)
PutCreate(w) ==
    LET b == put[w].blob IN
    /\ put[w].pc = "data"
    /\ IF data[b] = "absent"
       THEN data' = [data EXCEPT ![b] = "partial"] /\ Goes(w, "write")
       ELSE Goes(w, "compare") /\ UNCHANGED data
    /\ UNCHANGED <<meta, firm, acked>>

PutWrite(w) ==
    LET b == put[w].blob IN
    /\ put[w].pc = "write"
    /\ data' = [data EXCEPT ![b] = "whole"] /\ firm' = firm \cup {<<"data", b>>}
    /\ Goes(w, "meta")
    /\ UNCHANGED <<meta, acked>>

(* Mutant of PutCompare: existing bytes are taken for whole.               *)
PutCompareSkipped(w) ==
    /\ put[w].pc = "compare"
    /\ Goes(w, "meta")
    /\ UNCHANGED <<files, acked>>

(* Existing bytes are read back through their descriptor.                  *)
PutCompare(w) ==
    /\ put[w].pc = "compare"
    /\ Goes(w, IF Gets(put[w].blob, put[w].media) THEN "meta" ELSE "failed")
    /\ UNCHANGED <<files, acked>>

(* persist_descriptor.                                                     *)
PutDescriptor(w) ==
    LET b == put[w].blob IN
    /\ put[w].pc = "meta"
    /\ IF meta[b] = "absent"
       THEN /\ meta' = [meta EXCEPT ![b] = "partial"] /\ Goes(w, "describe")
            /\ UNCHANGED acked
       ELSE /\ Goes(w, IF meta[b] = put[w].media THEN "done" ELSE "failed")
            /\ acked' = acked \cup ({<<b, put[w].media>>} \cap {<<b, meta[b]>>})
            /\ UNCHANGED meta
    /\ UNCHANGED <<data, firm>>

PutDescribe(w) ==
    /\ put[w].pc = "describe"
    /\ meta' = [meta EXCEPT ![put[w].blob] = put[w].media]
    /\ Goes(w, "sync")
    /\ UNCHANGED <<data, firm, acked>>

PutSync(w) ==
    LET b == put[w].blob IN
    /\ put[w].pc = "sync"
    /\ firm' = firm \cup {<<"meta", b>>}
    /\ Goes(w, "done") /\ acked' = acked \cup {<<b, put[w].media>>}
    /\ UNCHANGED <<data, meta>>

(* A failing call leaves what it wrote.                                    *)
PutFails(w) ==
    /\ "io" \in Faults /\ put[w].pc \notin {"idle", "done", "failed"}
    /\ Goes(w, "failed")
    /\ UNCHANGED <<files, acked>>

PutStep(w) ==
    \/ PutCreate(w) \/ PutWrite(w) \/ PutCompare(w)
    \/ PutDescriptor(w) \/ PutDescribe(w) \/ PutSync(w)
    \/ PutFails(w)

(* The caller takes the answer.                                            *)
PutReturns(w) ==
    /\ put[w].pc \in {"done", "failed"}
    /\ put' = [put EXCEPT ![w] = NoPut]
    /\ UNCHANGED <<files, acked>>

WriterDies(w) ==
    /\ "crash" \in Faults /\ put[w].pc # "idle"
    /\ put' = [put EXCEPT ![w] = NoPut]
    /\ UNCHANGED <<files, acked>>

(* What was not synced may be gone, or be there in part; what is there     *)
(* afterwards is on the disk.                                              *)
StoreLosesPower ==
    /\ "power" \in Faults
    /\ data' \in {d \in [Blobs -> {"absent", "partial", "whole"}] :
                    \A b \in Blobs : <<"data", b>> \in firm \/ data[b] = "absent" => d[b] = data[b]}
    /\ meta' \in {m \in [Blobs -> {"absent", "partial"} \cup Medias] :
                    \A b \in Blobs :
                        IF <<"meta", b>> \in firm THEN m[b] = meta[b]
                        ELSE m[b] \in {"absent", "partial", meta[b]}
                             /\ (meta[b] = "absent" => m[b] = "absent")}
    /\ firm' = {<<"data", b>> : b \in {x \in Blobs : data'[x] # "absent"}}
                  \cup {<<"meta", b>> : b \in {x \in Blobs : meta'[x] # "absent"}}
    /\ put' = [w \in Writers |-> NoPut]
    /\ UNCHANGED acked

StoreNext ==
    \/ \E w \in Writers :
          \/ \E b \in Blobs, m \in Medias : PutBegin(w, b, m)
          \/ PutStep(w) \/ PutReturns(w) \/ WriterDies(w)
    \/ StoreLosesPower

StoreSpec == StoreInit /\ [][StoreNext]_storeVars

(* What put returned can be read for ever after, under the descriptor it   *)
(* returned and no other, though several writers store the same bytes with *)
(* the same or another media type, and any of them fails or dies between   *)
(* the two files.                                                          *)
AcknowledgedArtifactsStay == \A a \in acked : Gets(a[1], a[2])
=============================================================================
