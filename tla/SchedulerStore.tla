--------------------------- MODULE SchedulerStore ---------------------------
(***************************************************************************)
(* The durable scheduler control projection                                *)
(* (crates/recursive-agent-runner/src/scheduler.rs).                       *)
(*                                                                         *)
(* Several processes open the same projection file.  Each process has one  *)
(* handle; the sidecar flock serialises their updates, so one update, read *)
(* modify and publish, is one action.  Publishing is a rename followed by  *)
(* a directory sync, and either may fail: the model keeps the file that is *)
(* visible (data) and the set of files the directory may hold after a      *)
(* power loss (surviving).                                                 *)
(***************************************************************************)
EXTENDS Naturals, Functions

CONSTANTS
    Handles,        \* processes with a handle on the projection
    Operations,     \* canonical operation ids
    Keys,           \* idempotency key digests
    Holders,        \* lease holders
    Roots,          \* root operation ids of projected families
    Cursors,        \* event sequences a cursor may be advanced to
    None,           \* an Option that is None
    NoFile,         \* the data file is missing
    U64Max,         \* where checked u64 arithmetic fails
    Faults          \* faults that may happen: subset of FaultKinds

FaultKinds == {"io", "crash", "power", "vanish"}

ASSUME NoneAssumption ==
    None \notin Operations \cup Keys \cup Holders \cup Roots
ASSUME NumbersAssumption == U64Max \in Nat /\ Cursors \subseteq 0 .. U64Max
ASSUME FaultsAssumption == Faults \subseteq FaultKinds

States == {"submitted", "authorized", "cancelling", "terminal", "quarantined"}

OperationRow ==
    [operation_id : Operations,
     parent_operation_id : Operations \cup {None},
     root_operation_id : Roots \cup {None},
     children : SUBSET Operations,
     idempotency_key_digest : Keys \cup {None},
     lease_holder : Holders \cup {None},
     lease_generation : 0 .. U64Max,
     heartbeat : 0 .. U64Max,
     cancel_requested : BOOLEAN,
     projection_cursor : 0 .. U64Max,
     state : States]

LeaseGrant == [operation_id : Operations, holder : Holders, generation : 0 .. U64Max]

(* A file with rows for the operations of live, and tombstones.            *)
FileOf(live) == [rows : [live -> OperationRow], quarantined : SUBSET OperationRow]

ASSUME NoFileAssumption == \A live \in SUBSET Operations : NoFile \notin FileOf(live)

VARIABLES
    data,       \* the projection file that readers see
    surviving,  \* the files a power loss may leave in its place
    marker,     \* initialization marker: "empty", "written" or "synced"
    mode,       \* per handle: "closed", "open" or "uncertain"
    grants,     \* per handle: the lease grants its process holds
    acked       \* what successful calls told their callers

vars == <<data, surviving, marker, mode, grants, acked>>

-----------------------------------------------------------------------------
(* The store file.                                                         *)

EmptyFile == [rows |-> [o \in {} |-> None], quarantined |-> {}]

NewRow(o, key) ==
    [operation_id |-> o, parent_operation_id |-> None, root_operation_id |-> None,
     children |-> {}, idempotency_key_digest |-> key, lease_holder |-> None,
     lease_generation |-> 0, heartbeat |-> 0, cancel_requested |-> FALSE,
     projection_cursor |-> 0, state |-> "submitted"]

Live(f) == DOMAIN f.rows
WithRow(f, row) ==
    [f EXCEPT !.rows = [o \in Live(f) \cup {row.operation_id} |->
                           IF o = row.operation_id THEN row ELSE f.rows[o]]]

(* rows.values().chain(quarantined).                                       *)
AllRows(f) == Range(f.rows) \cup f.quarantined

(* read_current: what it accepts after parsing.                            *)
Readable(f) ==
    /\ \A o \in Live(f) :
          f.rows[o].operation_id = o /\ f.rows[o].state # "quarantined"
    /\ \A r, t \in AllRows(f) : r # t =>
          /\ r.operation_id # t.operation_id
          /\ r.idempotency_key_digest # None =>
                r.idempotency_key_digest # t.idempotency_key_digest
    /\ \A r \in f.quarantined : r.state = "quarantined"

-----------------------------------------------------------------------------
(* Opening, publishing and failing.                                        *)

Init ==
    /\ data = NoFile
    /\ surviving = {NoFile}
    /\ marker = "empty"
    /\ mode = [h \in Handles |-> "closed"]
    /\ grants = [h \in Handles |-> {}]
    /\ acked = {}

(* Mutant of Persisted: the directory is not synced after the rename.      *)
PersistedUnsynced(f) == data' = f /\ surviving' = surviving \cup {f}

(* persist: the temporary file is renamed and the directory synced.        *)
Persisted(f) == data' = f /\ surviving' = {f}

(* persist fails: before the rename, or after it with the directory sync   *)
(* outstanding.                                                            *)
PersistFailed(f) ==
    \/ UNCHANGED <<data, surviving>>
    \/ data' = f /\ surviving' = surviving \cup {f}

(* open: the first one creates the file, and then marks the lock file so   *)
(* that a vanished data file is never taken for a fresh store.             *)
Openable(h) ==
    /\ mode[h] # "open"
    /\ \/ data # NoFile /\ Readable(data)
       \/ data = NoFile /\ marker = "empty"

Open(h) ==
    /\ Openable(h)
    /\ IF data = NoFile THEN Persisted(EmptyFile) ELSE UNCHANGED <<data, surviving>>
    /\ marker' = IF marker = "empty" THEN "synced" ELSE marker
    /\ mode' = [mode EXCEPT ![h] = "open"]
    /\ UNCHANGED <<grants, acked>>

(* open stops half way, by an error or with its process: while it creates  *)
(* the file, before it writes the marker, or before it syncs the marker.   *)
OpenFails(h) ==
    /\ {"io", "crash"} \cap Faults # {}
    /\ Openable(h)
    /\ \/ /\ data = NoFile
          /\ PersistFailed(EmptyFile) \/ Persisted(EmptyFile)
          /\ UNCHANGED marker
       \/ /\ marker = "empty"
          /\ IF data = NoFile THEN Persisted(EmptyFile) ELSE UNCHANGED <<data, surviving>>
          /\ marker' = "written"
    /\ UNCHANGED <<mode, grants, acked>>

(* update: the change of h is published and only then acknowledged.        *)
Updates(h, f, facts) ==
    /\ Persisted(f)
    /\ acked' = acked \cup facts
    /\ UNCHANGED <<marker, mode>>

(* update whose publication, or whose unlock after it, fails: no output    *)
(* escapes, the handle is unusable until it is opened again.               *)
Uncertain(h, f) ==
    /\ "io" \in Faults
    /\ PersistFailed(f) \/ Persisted(f)
    /\ mode' = [mode EXCEPT ![h] = "uncertain"]
    /\ UNCHANGED <<marker, grants, acked>>

(* A call of h on the store: the lock is taken and the file read.          *)
Reads(h) == mode[h] = "open" /\ data # NoFile /\ Readable(data)

(* A call that changes the file to f and tells its caller facts.           *)
Calls(h, f, facts) ==
    /\ Reads(h)
    /\ \/ Updates(h, f, facts) /\ UNCHANGED grants
       \/ Uncertain(h, f)

(* A call that changes the file to f and returns a lease grant.            *)
CallsForGrant(h, f, grant) ==
    /\ Reads(h)
    /\ \/ /\ Updates(h, f, {})
          /\ grants' = [grants EXCEPT ![h] = @ \cup {grant}]
       \/ Uncertain(h, f)

(* An update on a vanished file fails and poisons the handle.              *)
UpdateFindsNoFile(h) ==
    /\ mode[h] = "open"
    /\ data = NoFile
    /\ mode' = [mode EXCEPT ![h] = "uncertain"]
    /\ UNCHANGED <<data, surviving, marker, grants, acked>>

ProcessCrash(h) ==
    /\ "crash" \in Faults
    /\ mode[h] # "closed"
    /\ mode' = [mode EXCEPT ![h] = "closed"]
    /\ grants' = [grants EXCEPT ![h] = {}]
    /\ UNCHANGED <<data, surviving, marker, acked>>

(* Every process dies; the directory holds one of the surviving files and  *)
(* a marker that was not synced may be lost.                               *)
PowerLoss ==
    /\ "power" \in Faults
    /\ data' \in surviving
    /\ surviving' = {data'}
    /\ marker' \in IF marker = "written" THEN {"empty", "written"} ELSE {marker}
    /\ mode' = [h \in Handles |-> "closed"]
    /\ grants' = [h \in Handles |-> {}]
    /\ UNCHANGED acked

(* The data file is removed from outside.                                  *)
DataFileVanishes ==
    /\ "vanish" \in Faults
    /\ data # NoFile
    /\ data' = NoFile
    /\ surviving' = {NoFile}
    /\ UNCHANGED <<marker, mode, grants, acked>>

-----------------------------------------------------------------------------
(* The operations.                                                         *)

(* Mutant of Admits: tombstones do not reserve their key.                  *)
AdmitsTombstonedKey(f, o, key) ==
    /\ \A r \in f.quarantined : r.operation_id # o
    /\ IF o \in Live(f)
       THEN f.rows[o].idempotency_key_digest = key
       ELSE \A p \in Live(f) : f.rows[p].idempotency_key_digest # key

Admits(f, o, key) ==
    /\ \A r \in f.quarantined : r.operation_id # o
    /\ IF o \in Live(f)
       THEN f.rows[o].idempotency_key_digest = key
       ELSE \A r \in AllRows(f) : r.idempotency_key_digest # key

Admit(h, o, key) ==
    /\ Reads(h) /\ Admits(data, o, key)
    /\ Calls(h, IF o \in Live(data) THEN data ELSE WithRow(data, NewRow(o, key)),
             {[fact |-> "admitted", operation_id |-> o, key |-> key]})

(* project_child: the child may not have a row yet.                        *)
ChildAgrees(f, parent, root, child) ==
    child \in Live(f) =>
        /\ f.rows[child].parent_operation_id \in {None, parent}
        /\ f.rows[child].root_operation_id \in {None, root}

WithChild(f, parent, root, child) ==
    LET p == [f.rows[parent] EXCEPT !.root_operation_id = root,
                                    !.children = @ \cup {child}]
        g == WithRow(f, p)
    IN  IF child \in Live(g)
        THEN WithRow(g, [g.rows[child] EXCEPT !.parent_operation_id = parent,
                                              !.root_operation_id = root])
        ELSE g

ProjectChild(h, parent, root, child) ==
    /\ Reads(h)
    /\ parent # child
    /\ ChildAgrees(data, parent, root, child)
    /\ parent \in Live(data)
    /\ data.rows[parent].root_operation_id \in {None, root}
    /\ Calls(h, WithChild(data, parent, root, child), {})

(* A held lease keeps its generation; a fresh one starts the next.         *)
NextGeneration(row) ==
    IF row.lease_holder = None THEN row.lease_generation + 1 ELSE row.lease_generation

(* checked_add: a lease is refused when a counter would overflow.          *)
CountersLeft(generation, heartbeat) == generation <= U64Max /\ heartbeat <= U64Max

AcquireLease(h, o, holder) ==
    /\ Reads(h) /\ o \in Live(data)
    /\ LET row == data.rows[o] IN
          /\ ~row.cancel_requested
          /\ row.state \in {"submitted", "authorized"}
          /\ row.lease_holder \in {None, holder}
          /\ CountersLeft(NextGeneration(row), row.heartbeat + 1)
          /\ CallsForGrant(h,
                WithRow(data, [row EXCEPT !.lease_generation = NextGeneration(row),
                                          !.heartbeat = @ + 1,
                                          !.lease_holder = holder,
                                          !.state = "authorized"]),
                [operation_id |-> o, holder |-> holder,
                 generation |-> NextGeneration(row)])

(* validate_grant_in.                                                      *)
GrantIsCurrent(f, g) ==
    /\ f # NoFile
    /\ g.operation_id \in Live(f)
    /\ f.rows[g.operation_id].state = "authorized"
    /\ ~f.rows[g.operation_id].cancel_requested
    /\ f.rows[g.operation_id].lease_holder = g.holder
    /\ f.rows[g.operation_id].lease_generation = g.generation

(* Mutant of Transferred: the generation is kept.                          *)
TransferredSameGeneration(row, holder) ==
    [row EXCEPT !.heartbeat = @ + 1, !.lease_holder = holder]

Transferred(row, holder) ==
    [row EXCEPT !.lease_generation = @ + 1, !.heartbeat = @ + 1, !.lease_holder = holder]

TransferLease(h, g, holder) ==
    /\ Reads(h)
    /\ GrantIsCurrent(data, g)
    /\ LET row == data.rows[g.operation_id] IN
          /\ CountersLeft(row.lease_generation + 1, row.heartbeat + 1)
          /\ CallsForGrant(h, WithRow(data, Transferred(row, holder)),
                [operation_id |-> g.operation_id, holder |-> holder,
                 generation |-> Transferred(row, holder).lease_generation])

(* A call that only rewrites the row of o, when o has one.                 *)
Rewrites(h, o, row, facts) ==
    /\ Reads(h) /\ o \in Live(data)
    /\ Calls(h, WithRow(data, row), facts)

RequestCancel(h, o) ==
    /\ Reads(h) /\ o \in Live(data)
    /\ Rewrites(h, o,
          [data.rows[o] EXCEPT !.cancel_requested = TRUE,
                               !.state = IF @ = "terminal" THEN @ ELSE "cancelling"],
          {[fact |-> "cancelled", operation_id |-> o, key |-> None]})

AdvanceCursor(h, o, sequence) ==
    /\ Reads(h) /\ o \in Live(data)
    /\ Rewrites(h, o,
          [data.rows[o] EXCEPT !.projection_cursor = IF @ > sequence THEN @ ELSE sequence],
          {})

SetTerminal(h, o) ==
    /\ Reads(h) /\ o \in Live(data)
    /\ Rewrites(h, o, [data.rows[o] EXCEPT !.state = "terminal"],
          {[fact |-> "terminal", operation_id |-> o, key |-> None]})

Quarantine(h, o) ==
    /\ Reads(h) /\ o \in Live(data)
    /\ Calls(h,
          [rows |-> Restrict(data.rows, Live(data) \ {o}),
           quarantined |-> data.quarantined
                              \cup {[data.rows[o] EXCEPT !.state = "quarantined"]}],
          {[fact |-> "quarantined", operation_id |-> o, key |-> None]})

-----------------------------------------------------------------------------
Operate(h) ==
    \/ \E o \in Operations, key \in Keys : Admit(h, o, key)
    \/ \E parent, child \in Operations, root \in Roots : ProjectChild(h, parent, root, child)
    \/ \E o \in Operations, holder \in Holders : AcquireLease(h, o, holder)
    \/ \E g \in grants[h], holder \in Holders : TransferLease(h, g, holder)
    \/ \E o \in Operations : RequestCancel(h, o)
    \/ \E o \in Operations, s \in Cursors : AdvanceCursor(h, o, s)
    \/ \E o \in Operations : SetTerminal(h, o)
    \/ \E o \in Operations : Quarantine(h, o)

(* What happens to one process.                                            *)
Process(h) ==
    \/ Open(h)
    \/ OpenFails(h)
    \/ Operate(h)
    \/ UpdateFindsNoFile(h)
    \/ ProcessCrash(h)

Next ==
    \/ \E h \in Handles : Process(h)
    \/ PowerLoss
    \/ DataFileVanishes

Spec == Init /\ [][Next]_vars

-----------------------------------------------------------------------------
IsFile(f) == Live(f) \subseteq Operations /\ f \in FileOf(Live(f))

(* Type invariant; no counter of a row leaves the u64 range.               *)
TypeOK ==
    /\ data \in surviving
    /\ \A f \in surviving : f # NoFile => IsFile(f)
    /\ marker \in {"empty", "written", "synced"}
    /\ mode \in [Handles -> {"closed", "open", "uncertain"}]
    /\ grants \in [Handles -> SUBSET LeaseGrant]
    /\ acked \subseteq [fact : {"admitted", "cancelled", "terminal", "quarantined"},
                        operation_id : Operations, key : Keys \cup {None}]

(* No sequence of calls, failures and crashes writes a file that           *)
(* read_current refuses: a store that was opened once stays openable.      *)
StoreStaysReadable == \A f \in surviving \cup {data} : f # NoFile => Readable(f)

Remembers(f, a) ==
    LET o == a.operation_id IN
    CASE a.fact = "admitted" ->
            \E r \in AllRows(f) : /\ r.operation_id = o
                                  /\ r.idempotency_key_digest = a.key
      [] a.fact = "cancelled" -> o \in Live(f) => f.rows[o].cancel_requested
      [] a.fact = "terminal" -> o \in Live(f) => f.rows[o].state = "terminal"
      [] a.fact = "quarantined" -> \E r \in f.quarantined : r.operation_id = o

(* What a call acknowledged is never forgotten: an admitted operation      *)
(* keeps its key, a cancelled, terminal or quarantined one stays so, in    *)
(* the visible file and in every file a power loss may leave, whatever     *)
(* handles fail, crash and reopen in between.                              *)
AcknowledgedFactsSurvive ==
    \A f \in surviving \cup {data} : f # NoFile =>
        \A a \in acked : Remembers(f, a)

(* "If the data file later vanishes, opening the projection must not       *)
(* silently forget its tombstones and admit previously settled             *)
(* operations."  The code keeps this only while the marker is on disk: an  *)
(* open that dies between writing and syncing the marker leaves a non-empty *)
(* lock file that no later open syncs, and a power loss may empty it.      *)
TombstonesAreNotForgotten ==
    data # NoFile =>
        \A t \in acked : t.fact \in {"terminal", "quarantined"} => Remembers(data, t)

HeldGrants == UNION {grants[h] : h \in Handles}

(* Two grants of one operation and generation have one holder, and no      *)
(* grant is ahead of the file: a publication that failed after its rename  *)
(* never hands the same fencing generation out twice.                      *)
GenerationsAreUnique ==
    /\ \A g, k \in HeldGrants :
          g.operation_id = k.operation_id /\ g.generation = k.generation
             => g.holder = k.holder
    /\ data # NoFile =>
          \A g \in HeldGrants : g.operation_id \in Live(data) =>
              g.generation <= data.rows[g.operation_id].lease_generation

(* A grant that was fenced stays fenced: once validate_grant refuses it,   *)
(* no transfer, re-acquisition, failure or reopening makes it current      *)
(* again in the process that holds it.                                     *)
FencedStaysFenced ==
    \A h \in Handles : \A g \in grants[h] \cap grants'[h] :
        ~GrantIsCurrent(data, g) => ~GrantIsCurrent(data', g)

(* A child row and the row of its parent agree: the parent lists the child *)
(* and both belong to the same root, whichever of them is admitted or      *)
(* projected first.  The converse is not promised: two parents may list a  *)
(* child that has no row yet.                                              *)
ChildProjectionAgrees ==
    data # NoFile =>
        \A c \in Live(data) :
            LET p == data.rows[c].parent_operation_id IN
            p \in Live(data) =>
                /\ c \in data.rows[p].children
                /\ data.rows[p].root_operation_id = data.rows[c].root_operation_id

(* Leases are fenced: after every step a generation has one holder, and a  *)
(* grant once refused is refused for good, although publications fail      *)
(* after their rename and processes go on with grants of files they have   *)
(* not read since.                                                         *)
LeasesAreFenced == [][GenerationsAreUnique' /\ FencedStaysFenced]_vars

(* Every file the store may leave can be read again, and the rows of       *)
(* children and parents in it agree.                                       *)
FilesStayWellFormed == StoreStaysReadable /\ ChildProjectionAgrees
=============================================================================
