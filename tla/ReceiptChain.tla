---------------------------- MODULE ReceiptChain ----------------------------
(***************************************************************************)
(* The receipt chain of one run directory                                  *)
(* (crates/recursive-agent-ledger/src/lib.rs): an append-only log of       *)
(* canonical lines, authoritative, and a metadata file that projects its   *)
(* head.  Every call holds the directory's exclusive lock, repairs what an *)
(* interrupted call left and then does its work, so a call is one action   *)
(* that may stop at any of its stages.                                     *)
(*                                                                         *)
(* A chain digest is the sequence of the receipt ids it digests: digests   *)
(* of different chains differ.  Lifecycle, artifact and permit validation  *)
(* of the receipts is left out.                                            *)
(***************************************************************************)
EXTENDS Naturals, Sequences, SequencesExt, FiniteSets

CONSTANTS
    Handles,        \* processes that append or read
    Ids,            \* receipt identities
    None,           \* no tail, no log file, no metadata file, no open handle
    MaxLength       \* bound: receipts in a chain

VARIABLES
    log,        \* receipts.ndjson: complete lines and an unterminated tail
    logs,       \* the contents a power loss may leave of it
    linked,     \* the directory entry of the log is on disk
    projection, \* chain.meta: the head it projects
    metas,      \* the metadata files a power loss may leave
    handle,     \* per process: the head its ChainHandle remembers
    acknowledged, \* the head the last successful append returned
    reported    \* heads returned to callers since the last power loss

disk == <<log, logs, linked, projection, metas>>
vars == <<disk, handle, acknowledged, reported>>

(* A log that does not exist reads as an empty one.                        *)
Lines(f) == IF f = None THEN <<>> ELSE f.lines
Digest(lines) == [i \in 1 .. Len(lines) |-> lines[i].id]

-----------------------------------------------------------------------------
(* The stages of a call, each a change of the files.                       *)

(* A disk is passed from stage to stage of one call.                       *)
Disk ==
    [log |-> log, logs |-> logs, linked |-> linked,
     meta |-> projection, metas |-> metas]

(* recover_tail: a complete record gets its newline, a truncated one is    *)
(* cut off.                                                                *)
Repaired(f) ==
    IF f = None \/ f.tail = None THEN f
    ELSE [lines |-> IF f.tail.complete THEN Append(f.lines, f.tail.receipt)
                    ELSE f.lines,
          tail |-> None]

(* The log is written, and is on disk only once it is synced.              *)
Written(d, f) == [d EXCEPT !.log = f, !.logs = @ \cup {f}]
Synced(d) == [d EXCEPT !.logs = {d.log}]

Recovered(d) ==
    IF Repaired(d.log) = d.log THEN d ELSE Synced(Written(d, Repaired(d.log)))

(* scan_complete_bytes: what it accepts.                                   *)
Scans(lines) ==
    /\ \A i, j \in 1 .. Len(lines) : lines[i].id = lines[j].id => i = j
    /\ \A i \in 1 .. Len(lines) :
          lines[i].prev_chain_digest = Digest(SubSeq(lines, 1, i - 1))

(* write_metadata_atomic: rename, then sync of the directory, which holds  *)
(* the entry of the log too.                                               *)
MetaRenamed(d) ==
    LET head == Digest(Lines(d.log))
    IN  [d EXCEPT !.meta = head, !.metas = @ \cup {head}]

(* Mutant: sync_all of the directory is left out.                          *)
DirectoryNotSynced(d) == d

DirectorySynced(d) == [d EXCEPT !.metas = {d.meta}, !.linked = d.log # None]

(* reconcile_locked.                                                       *)
Reconciled(d) ==
    LET r == Recovered(d) IN
    IF r.meta = Digest(Lines(r.log)) THEN r
    ELSE DirectorySynced(MetaRenamed(r))

(* Where a reconciliation may stop; it repairs the tail before it scans.   *)
ReconcileStops(d) ==
    {d, Written(d, Repaired(d.log)), Recovered(d)}
        \cup {m \in {MetaRenamed(Recovered(d))} : Scans(Lines(m.log))}

(* The log while r is written to it: created, part of the record, the      *)
(* record without its newline, the line.                                   *)
Created(f) == [lines |-> Lines(f), tail |-> None]
PartOf(f, r, complete) ==
    [lines |-> Lines(f), tail |-> [receipt |-> r, complete |-> complete]]
WithLine(f, r) == [lines |-> Append(Lines(f), r), tail |-> None]

(* Contents the write of r passes through, in order.                       *)
WriteStages(f, r) ==
    <<Created(f), PartOf(f, r, FALSE), PartOf(f, r, TRUE), WithLine(f, r)>>

(* The write reached stage n; a power loss may leave any earlier one.      *)
WrittenTo(d, r, n) ==
    LET stages == WriteStages(d.log, r)
    IN  [d EXCEPT !.log = stages[n],
                  !.logs = @ \cup {stages[i] : i \in 1 .. n}]

LineWritten(d, r) == WrittenTo(d, r, 4)

Appended(d, r) == DirectorySynced(MetaRenamed(Synced(LineWritten(d, r))))

(* Where an append of r to the reconciled disk d may stop.                 *)
AppendStops(d, r) ==
    {WrittenTo(d, r, n) : n \in 1 .. 4}
        \cup {Synced(LineWritten(d, r)),
              MetaRenamed(Synced(LineWritten(d, r)))}

Becomes(d) ==
    /\ log' = d.log
    /\ logs' = d.logs
    /\ linked' = d.linked
    /\ projection' = d.meta
    /\ metas' = d.metas

-----------------------------------------------------------------------------
Init ==
    /\ log = None
    /\ logs = {None}
    /\ linked = FALSE
    /\ projection = None
    /\ metas = {None}
    /\ handle = [h \in Handles |-> None]
    /\ acknowledged = <<>>
    /\ reported = {}

(* open: the handle remembers the head of the reconciled chain.            *)
Open(h) ==
    /\ Scans(Lines(Repaired(log)))
    /\ Becomes(Reconciled(Disk))
    /\ handle' = [handle EXCEPT ![h] = Digest(Lines(log'))]
    /\ reported' = reported \cup {Digest(Lines(log'))}
    /\ UNCHANGED acknowledged

(* verification, snapshots and event slices: reconcile and report.         *)
Read ==
    /\ Scans(Lines(Repaired(log)))
    /\ Becomes(Reconciled(Disk))
    /\ reported' = reported \cup {Digest(Lines(log'))}
    /\ UNCHANGED <<handle, acknowledged>>

(* An open, a reader or an append that stops while it reconciles.          *)
ReconcileFails ==
    /\ \E d \in ReconcileStops(Disk) : Becomes(d)
    /\ UNCHANGED <<handle, acknowledged, reported>>

(* The read-only replay repairs nothing: it refuses a log with a tail and  *)
(* metadata that does not project the head.                                *)
ReplayReadOnly ==
    /\ log # None
    /\ log.tail = None
    /\ Scans(log.lines)
    /\ projection = Digest(log.lines)
    /\ reported' = reported \cup {projection}
    /\ UNCHANGED <<disk, handle, acknowledged>>

(* Mutant: the receipt is not compared with the head under the lock.       *)
AppendTrustsHandle(lines, r) == \A i \in 1 .. Len(lines) : lines[i].id # r.id

(* validate_append against the chain as it is under the lock.              *)
AppendIsValid(lines, r) ==
    /\ r.prev_chain_digest = Digest(lines)
    /\ \A i \in 1 .. Len(lines) : lines[i].id # r.id

(* The receipt a process makes from the head its handle remembers.         *)
Appendable(h, r) ==
    /\ handle[h] # None
    /\ r.prev_chain_digest = handle[h]
    /\ Scans(Lines(Repaired(log)))
    /\ AppendIsValid(Lines(Repaired(log)), r)
    /\ Len(Lines(Repaired(log))) < MaxLength

AppendReceipt(h, r) ==
    /\ Appendable(h, r)
    /\ Becomes(Appended(Reconciled(Disk), r))
    /\ handle' = [handle EXCEPT ![h] = Digest(Lines(log'))]
    /\ acknowledged' = Digest(Lines(log'))
    /\ reported' = reported \cup {Digest(Lines(log'))}

(* The append stops on the way: the handle keeps the head it had.          *)
AppendFails(h, r) ==
    /\ Appendable(h, r)
    /\ \E d \in AppendStops(Reconciled(Disk), r) : Becomes(d)
    /\ UNCHANGED <<handle, acknowledged, reported>>

(* A refused append has reconciled the chain.                              *)
AppendRefused(h, r) ==
    /\ handle[h] # None
    /\ r.prev_chain_digest = handle[h]
    /\ Scans(Lines(Repaired(log)))
    /\ ~AppendIsValid(Lines(Repaired(log)), r)
    /\ Becomes(Reconciled(Disk))
    /\ UNCHANGED <<handle, acknowledged, reported>>

ProcessCrash(h) ==
    /\ handle[h] # None
    /\ handle' = [handle EXCEPT ![h] = None]
    /\ UNCHANGED <<disk, acknowledged, reported>>

(* What is not synced may be lost; every process dies.                     *)
PowerLoss ==
    /\ log' \in logs \cup (IF linked THEN {} ELSE {None})
    /\ logs' = {log'}
    /\ linked' = (log' # None)
    /\ projection' \in metas
    /\ metas' = {projection'}
    /\ handle' = [h \in Handles |-> None]
    /\ reported' = {}
    /\ UNCHANGED acknowledged

-----------------------------------------------------------------------------
Receipts(h) == [id : Ids, prev_chain_digest : {handle[h]}]

Next ==
    \/ \E h \in Handles :
          \/ Open(h)
          \/ ProcessCrash(h)
          \/ \E r \in Receipts(h) :
                AppendReceipt(h, r) \/ AppendFails(h, r) \/ AppendRefused(h, r)
    \/ Read
    \/ ReplayReadOnly
    \/ ReconcileFails
    \/ PowerLoss

Spec == Init /\ [][Next]_vars

-----------------------------------------------------------------------------
Heads == UNION {[1 .. n -> Ids] : n \in 0 .. MaxLength}
Receipt == [id : Ids, prev_chain_digest : Heads]

(* Type invariant; what the files contain now is among what a power loss   *)
(* may leave of them.                                                      *)
TypeOK ==
    /\ \A f \in logs \ {None} :
          /\ DOMAIN f = {"lines", "tail"}
          /\ Len(f.lines) <= MaxLength
          /\ \A i \in 1 .. Len(f.lines) : f.lines[i] \in Receipt
          /\ f.tail # None =>
                f.tail \in [receipt : Receipt, complete : BOOLEAN]
    /\ log \in logs
    /\ linked \in BOOLEAN
    /\ projection \in metas
    /\ metas \subseteq Heads \cup {None}
    /\ handle \in [Handles -> Heads \cup {None}]
    /\ acknowledged \in Heads
    /\ reported \subseteq Heads

(* What may be in the log's place after a power loss.                      *)
Survivors == logs \cup (IF linked THEN {} ELSE {None})

(* Stale handles, failed appends, repairs and power losses never leave a   *)
(* log that recovery and scan_complete_bytes would refuse: no fork, no     *)
(* repeated receipt.                                                       *)
ChainStaysReadable == \A f \in Survivors : Scans(Lines(Repaired(f)))

(* A head that append returned is on disk: whatever a power loss leaves,   *)
(* the chain recovered from it extends that head.                          *)
AcknowledgedReceiptsSurvive ==
    \A f \in Survivors : IsPrefix(acknowledged, Digest(Lines(Repaired(f))))

(* A head that open, a reader or append returned stays a prefix of the     *)
(* log, whatever calls fail or processes die, until power is lost.         *)
ReportedReceiptsStay ==
    \A head \in reported : IsPrefix(head, Digest(Lines(log)))

(* The chain as the next call will find it behaves as the append-only log  *)
(* of module ReceiptLog.                                                   *)
Abstract == INSTANCE ReceiptLog WITH chain <- Digest(Lines(Repaired(log)))
Implements == Abstract!Spec
=============================================================================
