----------------------------- MODULE PackVault ------------------------------
(***************************************************************************)
(* Run packs and their vault, crates/recursive-agent-ledger/src/lib.rs:    *)
(* export_run_pack copies a finished run into a new directory and renames  *)
(* it to its destination; PackVault::admit copies such a pack under an     *)
(* exclusive lock, records an admission receipt and publishes the copy     *)
(* under an opaque id; quarantine moves an object away without the lock.   *)
(*                                                                         *)
(* A tree says for each file of a pack which run its bytes come from, or   *)
(* None.  The digests the code compares identify the run.                  *)
(***************************************************************************)
EXTENDS Naturals, FiniteSets, Sequences

CONSTANTS
    Runs,           \* finished runs
    Destinations,   \* directories packs are exported to and admitted from
    Ids,            \* the vault's opaque object ids
    Exporters,      \* processes that export
    Admitters,      \* processes that admit
    MaxExports,     \* bound: exports begun
    MaxAdmissions,  \* bound: admissions begun
    Reuse,          \* whether a pack may be removed while it is being admitted
    Faults,         \* subset of {"io", "crash", "power"}
    None

(* The files of a pack in the order export writes them.                    *)
FileOrder == <<"artifact", "receipts", "manifest">>
Files == {FileOrder[k] : k \in 1 .. Len(FileOrder)}
Empty == [f \in Files |-> None]

VARIABLES
    dest,         \* per destination, None or the tree that is visible there
    synced,       \* destinations whose directory entry survives a power loss
    export,       \* per exporter: [pc, dest, run, temp]
    lock,         \* the admitter that holds .admission.lock, or None
    admit,        \* per admitter: [pc, dest, id, stage, repair]
    receipt,      \* per id, None, "torn" or the run its receipt binds
    object,       \* per id, None or the published tree
    quarantined,  \* per id, None or the tree moved away
    used,         \* ids drawn so far
    begun,        \* bound: [exports, admissions] begun
    exported,     \* history: per destination, None or the run its export acknowledged
    admitted      \* history: <<id, run>> acknowledged by admit

exporting == <<dest, synced, export, exported>>
vault == <<lock, admit, receipt, object, quarantined, used, admitted>>
vars == <<exporting, vault, begun>>

Idle == [pc |-> "idle", dest |-> None, run |-> None, temp |-> Empty]
Unused == [pc |-> "idle", dest |-> None, id |-> None, stage |-> Empty, repair |-> FALSE]

Init ==
    /\ dest = [d \in Destinations |-> None] /\ synced = {}
    /\ export = [e \in Exporters |-> Idle]
    /\ exported = [d \in Destinations |-> None]
    /\ lock = None /\ admit = [a \in Admitters |-> Unused]
    /\ receipt = [i \in Ids |-> None]
    /\ object = [i \in Ids |-> None] /\ quarantined = [i \in Ids |-> None]
    /\ used = {} /\ admitted = {}
    /\ begun = [exports |-> 0, admissions |-> 0]

(* verified_run_pack_snapshot_from_dir_fd: the files the manifest lists    *)
(* are there with its digests, there are no others, and the receipts are   *)
(* those of the manifest's run.                                            *)
Verified(tree) == \E r \in Runs : tree = [f \in Files |-> r]
Of(tree) == tree["manifest"]

-----------------------------------------------------------------------------
(* export_run_pack.                                                        *)

(* The destination is absent and the temporary directory is created.       *)
ExportBegin(e, d, r) ==
    /\ export[e].pc = "idle" /\ begun.exports < MaxExports
    /\ dest[d] = None
    /\ export' = [export EXCEPT ![e] = [pc |-> "copy", dest |-> d, run |-> r, temp |-> Empty]]
    /\ begun' = [begun EXCEPT !.exports = @ + 1]
    /\ UNCHANGED <<dest, synced, exported, vault>>

(* write_new_pack_file creates, writes and syncs one file.                 *)
WithFile(tree, f, r) == [tree EXCEPT ![f] = r]

(* The files are written one by one, the manifest last.                    *)
ExportCopy(e) ==
    LET x == export[e]
        missing == {k \in 1 .. Len(FileOrder) : x.temp[FileOrder[k]] = None}
        next == CHOOSE k \in missing : \A j \in missing : k <= j
    IN /\ x.pc = "copy" /\ missing # {}
       /\ export' = [export EXCEPT ![e].temp = WithFile(@, FileOrder[next], x.run)]
       /\ UNCHANGED <<dest, synced, exported, vault, begun>>

ExportVerify(e) ==
    /\ export[e].pc = "copy" /\ Verified(export[e].temp)
    /\ export' = [export EXCEPT ![e].pc = "publish"]
    /\ UNCHANGED <<dest, synced, exported, vault, begun>>

(* The rename with NOREPLACE; if it fails the temporary directory goes.    *)
ExportPublish(e) ==
    LET d == export[e].dest IN
    /\ export[e].pc = "publish"
    /\ IF dest[d] = None
       THEN /\ dest' = [dest EXCEPT ![d] = export[e].temp] /\ synced' = synced \ {d}
            /\ export' = [export EXCEPT ![e].pc = "sync"]
       ELSE export' = [export EXCEPT ![e] = Idle] /\ UNCHANGED <<dest, synced>>
    /\ UNCHANGED <<exported, vault, begun>>

(* The parent directory is synced and the export acknowledged.             *)
ExportSync(e) ==
    LET d == export[e].dest IN
    /\ export[e].pc = "sync"
    /\ synced' = {q \in Destinations : dest[q] # None}
    /\ exported' = [exported EXCEPT ![d] = IF dest[d] = export[e].temp THEN export[e].run ELSE @]
    /\ export' = [export EXCEPT ![e] = Idle]
    /\ UNCHANGED <<dest, vault, begun>>

(* An error before the rename removes the temporary directory; the end of  *)
(* the process leaves it under a name nobody uses.                         *)
ExportFails(e) ==
    /\ {"io", "crash"} \cap Faults # {} /\ export[e].pc # "idle"
    /\ export' = [export EXCEPT ![e] = Idle]
    /\ UNCHANGED <<dest, synced, exported, vault, begun>>

(* The operator removes an exported pack.                                  *)
Remove(d) ==
    /\ dest[d] # None
    /\ Reuse \/ \A a \in Admitters : admit[a].pc = "copy" => admit[a].dest # d
    /\ dest' = [dest EXCEPT ![d] = None] /\ synced' = synced \ {d}
    /\ exported' = [exported EXCEPT ![d] = None]
    /\ UNCHANGED <<export, vault, begun>>

-----------------------------------------------------------------------------
(* PackVault::admit, under .admission.lock.                                *)

Goes(a, pc) == admit' = [admit EXCEPT ![a].pc = pc]

(* The lock is released and the call fails, or acknowledges an id.         *)
AdmitFails(a) ==
    /\ admit' = [admit EXCEPT ![a] = Unused] /\ lock' = None
    /\ UNCHANGED admitted
AdmitReturns(a, i, r) ==
    /\ admit' = [admit EXCEPT ![a] = Unused] /\ lock' = None
    /\ admitted' = admitted \cup {<<i, r>>}

AdmitBegin(a, d) ==
    /\ admit[a].pc = "idle" /\ begun.admissions < MaxAdmissions
    /\ begun' = [begun EXCEPT !.admissions = @ + 1]
    /\ admit' = [admit EXCEPT ![a] = [Unused EXCEPT !.pc = "lock", !.dest = d]]
    /\ UNCHANGED <<exporting, lock, receipt, object, quarantined, used, admitted>>

AdmitLock(a) ==
    /\ admit[a].pc = "lock" /\ lock = None
    /\ lock' = a /\ Goes(a, "source")
    /\ UNCHANGED <<exporting, receipt, object, quarantined, used, admitted, begun>>

(* The source verifies, every admission receipt can be read, and one that  *)
(* binds the pack decides how to go on.                                    *)
Readable == \A i \in Ids : receipt[i] # "torn"
Prior(r) == {i \in Ids : receipt[i] = r}

AdmitSource(a) ==
    LET tree == dest[admit[a].dest] IN
    /\ admit[a].pc = "source"
    /\ \/ /\ tree = None \/ ~Verified(tree) \/ ~Readable
          /\ AdmitFails(a) /\ UNCHANGED used
       \/ /\ tree # None /\ Verified(tree) /\ Readable
          /\ \/ \E i \in Prior(Of(tree)) :
                   /\ object[i] # None
                   /\ AdmitReturns(a, i, Of(tree))
                   /\ UNCHANGED used
             \/ \E i \in Prior(Of(tree)) :
                   /\ object[i] = None
                   /\ admit' = [admit EXCEPT ![a].pc = "copy", ![a].id = i, ![a].repair = TRUE]
                   /\ UNCHANGED <<lock, admitted, used>>
             \/ /\ Prior(Of(tree)) = {}
                /\ \E i \in Ids \ used :
                      /\ used' = used \cup {i}
                      /\ admit' = [admit EXCEPT ![a].pc = "copy", ![a].id = i]
                /\ UNCHANGED <<lock, admitted>>
    /\ UNCHANGED <<exporting, receipt, object, quarantined, begun>>

(* copy_pack_tree copies the files of the source one by one.  A source     *)
(* that goes away ends the call.                                           *)
AdmitCopy(a) ==
    LET tree == dest[admit[a].dest] IN
    /\ admit[a].pc = "copy"
    /\ \/ /\ tree = None /\ AdmitFails(a)
       \/ /\ tree # None
          /\ \E f \in Files :
                /\ admit[a].stage[f] = None
                /\ admit' = [admit EXCEPT ![a].stage[f] = tree[f]]
          /\ UNCHANGED <<lock, admitted>>
    /\ UNCHANGED <<exporting, receipt, object, quarantined, used, begun>>

(* Mutant of AdmitCheck: the copy is trusted.                              *)
AdmitCheckSkipped(a) ==
    /\ admit[a].pc = "copy" /\ \A f \in Files : admit[a].stage[f] # None
    /\ Goes(a, IF admit[a].repair THEN "publish" ELSE "create")
    /\ UNCHANGED <<exporting, lock, admitted, receipt, object, quarantined, used, begun>>

(* The copy is verified on its own; a repair has to match its receipt.     *)
AdmitCheck(a) ==
    LET x == admit[a] IN
    /\ x.pc = "copy" /\ \A f \in Files : x.stage[f] # None
    /\ IF Verified(x.stage) /\ (x.repair => receipt[x.id] = Of(x.stage))
       THEN /\ Goes(a, IF x.repair THEN "publish" ELSE "create")
            /\ UNCHANGED <<lock, admitted>>
       ELSE AdmitFails(a)
    /\ UNCHANGED <<exporting, receipt, object, quarantined, used, begun>>

(* persist_admission_receipt creates the file, and writes and syncs it.    *)
AdmitCreateReceipt(a) ==
    /\ admit[a].pc = "create"
    /\ receipt' = [receipt EXCEPT ![admit[a].id] = "torn"]
    /\ Goes(a, "receipt")
    /\ UNCHANGED <<exporting, lock, object, quarantined, used, admitted, begun>>

AdmitWriteReceipt(a) ==
    /\ admit[a].pc = "receipt"
    /\ receipt' = [receipt EXCEPT ![admit[a].id] = Of(admit[a].stage)]
    /\ Goes(a, "publish")
    /\ UNCHANGED <<exporting, lock, object, quarantined, used, admitted, begun>>

AdmitPublish(a) ==
    LET x == admit[a] IN
    /\ x.pc = "publish"
    /\ object' = [object EXCEPT ![x.id] = x.stage]
    /\ AdmitReturns(a, x.id, Of(x.stage))
    /\ UNCHANGED <<exporting, receipt, quarantined, used, begun>>

(* An error, or the end of the process, which the operating system         *)
(* releases the lock of.  A failure of the last step loses the answer.     *)
AdmitStops(a) ==
    /\ admit[a].pc # "idle"
    /\ \/ /\ {"io", "crash"} \cap Faults # {} /\ UNCHANGED object
       \/ /\ "crash" \in Faults /\ admit[a].pc = "publish"
          /\ object' = [object EXCEPT ![admit[a].id] = admit[a].stage]
    /\ admit' = [admit EXCEPT ![a] = Unused]
    /\ lock' = IF lock = a THEN None ELSE lock
    /\ UNCHANGED <<exporting, receipt, quarantined, used, admitted, begun>>

(* quarantine, which takes no lock: the rename fails over an earlier one.  *)
Quarantine(i) ==
    /\ receipt[i] \in Runs /\ object[i] # None /\ quarantined[i] = None
    /\ quarantined' = [quarantined EXCEPT ![i] = object[i]]
    /\ object' = [object EXCEPT ![i] = None]
    /\ UNCHANGED <<exporting, lock, admit, receipt, used, admitted, begun>>

-----------------------------------------------------------------------------
(* Power loss: an export whose parent was not synced may be undone; the    *)
(* vault syncs neither its directories nor the files it copies, so what it *)
(* wrote may be gone.                                                      *)
LosesPower ==
    /\ "power" \in Faults
    /\ \E lost \in SUBSET (Destinations \ synced) :
          dest' = [d \in Destinations |-> IF d \in lost THEN None ELSE dest[d]]
    /\ synced' = {d \in Destinations : dest'[d] # None}
    /\ \E lost \in SUBSET Ids :
          receipt' = [i \in Ids |-> IF i \in lost THEN None ELSE receipt[i]]
    /\ \E lost \in SUBSET Ids :
          object' = [i \in Ids |-> IF i \in lost THEN None ELSE object[i]]
    /\ export' = [e \in Exporters |-> Idle]
    /\ admit' = [a \in Admitters |-> Unused] /\ lock' = None
    /\ UNCHANGED <<quarantined, used, exported, admitted, begun>>

Next ==
    \/ \E e \in Exporters :
          \/ \E d \in Destinations, r \in Runs : ExportBegin(e, d, r)
          \/ ExportCopy(e) \/ ExportVerify(e) \/ ExportPublish(e) \/ ExportSync(e)
          \/ ExportFails(e)
    \/ \E d \in Destinations : Remove(d)
    \/ \E a \in Admitters :
          \/ \E d \in Destinations : AdmitBegin(a, d)
          \/ AdmitLock(a) \/ AdmitSource(a) \/ AdmitCopy(a) \/ AdmitCheck(a)
          \/ AdmitCreateReceipt(a) \/ AdmitWriteReceipt(a) \/ AdmitPublish(a)
          \/ AdmitStops(a)
    \/ \E i \in Ids : Quarantine(i)
    \/ LosesPower

Spec == Init /\ [][Next]_vars

-----------------------------------------------------------------------------
(* What admission(id) accepts.                                             *)
Retrievable(i) ==
    receipt[i] \in Runs /\ object[i] # None /\ Verified(object[i]) /\ Of(object[i]) = receipt[i]

(* A visible pack is complete at every moment, and an acknowledged export  *)
(* keeps its pack until the operator removes it, whichever of several      *)
(* exporters of one destination comes first, through errors, crashes and   *)
(* power losses (export_run_pack: "incomplete packs are cleaned up before  *)
(* publication").                                                          *)
ExportsAreWholeAndStay ==
    \A d \in Destinations :
        /\ dest[d] # None => Verified(dest[d])
        /\ exported[d] # None => dest[d] = [f \in Files |-> exported[d]]

(* Every published object is one whole pack that its receipt binds, though *)
(* its source may be removed and exported anew while it is copied, and     *)
(* repairs and quarantines go on.                                          *)
ObjectsMatchReceipts ==
    \A i \in Ids : object[i] # None => Retrievable(i)

(* A pack is admitted once: no race, retry, repair or interruption gives   *)
(* it a second id, as long as its directory is left alone while it is      *)
(* copied (admit_locked looks the pack up before it copies it).            *)
OneIdPerPack ==
    \A r \in Runs : Cardinality({i \in Ids : receipt[i] = r}) <= 1

(* An acknowledged admission stays retrievable or is in quarantine.        *)
AdmissionsStay ==
    \A p \in admitted :
        \/ Retrievable(p[1]) /\ receipt[p[1]] = p[2]
        \/ quarantined[p[1]] = [f \in Files |-> p[2]]
=============================================================================
