------------------------ MODULE SchedulerStoreProofs ------------------------
(***************************************************************************)
(* What SchedulerStore promises, proved for every set of handles,          *)
(* operations, keys, holders, roots and cursors, every U64Max and every    *)
(* set of faults.                                                          *)
(*                                                                         *)
(* The argument is about files first: an update of the store turns a       *)
(* well-formed file (FileOK) into a well-formed file that is a later       *)
(* version of it (Evolves), and a later version forgets no fact, overtakes *)
(* no fencing generation and revives no fenced grant.  The state invariant *)
(* IInv then says that every file on disk, the visible one and those a     *)
(* power loss may leave, is well formed, and that the grants processes     *)
(* hold are covered by the visible one.                                    *)
(***************************************************************************)
EXTENDS SchedulerStore, TLAPS

(* An operation with a row or a tombstone: admit never writes a second row *)
(* for it.                                                                 *)
Known(f, o) == o \in Live(f) \/ \E q \in f.quarantined : q.operation_id = o

(* ChildProjectionAgrees for any file, with what keeps it: a row with a    *)
(* parent has a root, so its root never changes again, and its parent is   *)
(* known, so no fresh row without children takes the place of the parent.  *)
FamilyOK(f) ==
    \A c \in Live(f) :
        LET p == f.rows[c].parent_operation_id IN
        p # None =>
            /\ f.rows[c].root_operation_id # None
            /\ Known(f, p)
            /\ p \in Live(f) =>
                  /\ c \in f.rows[p].children
                  /\ f.rows[p].root_operation_id = f.rows[c].root_operation_id

(* acquire_lease authorizes: a row that was leased is not "submitted".     *)
LeasedOK(f) ==
    \A o \in Live(f) : f.rows[o].lease_holder # None => f.rows[o].state # "submitted"

(* A well-formed file.                                                     *)
FileOK(f) ==
    /\ IsFile(f)
    /\ Readable(f)
    /\ FamilyOK(f)
    /\ LeasedOK(f)

(* A power loss chooses among surviving: all of them are well formed.      *)
FilesOK == \A f \in surviving : f # NoFile => FileOK(f)

(* An open handle, or a grant some process holds, means that the lock file *)
(* is marked, so that a vanished data file is not created afresh under it. *)
MarkerOK ==
    \A h \in Handles : mode[h] = "open" \/ grants[h] # {} => marker # "empty"

(* The file has seen the grant: its row, if it still has one, has the      *)
(* generation of the grant and its holder, or a later generation.          *)
Covers(f, g) ==
    /\ Known(f, g.operation_id)
    /\ g.operation_id \in Live(f) =>
          /\ g.generation <= f.rows[g.operation_id].lease_generation
          /\ g.generation = f.rows[g.operation_id].lease_generation
                => g.holder = f.rows[g.operation_id].lease_holder

(* The visible file has seen every grant; grants of one operation and      *)
(* generation have one holder.                                             *)
GrantsOK ==
    /\ data # NoFile => \A g \in HeldGrants : Covers(data, g)
    /\ \A g, k \in HeldGrants :
          g.operation_id = k.operation_id /\ g.generation = k.generation
             => g.holder = k.holder

(* The inductive invariant.                                                *)
IInv == TypeOK /\ FilesOK /\ MarkerOK /\ GrantsOK

(* A fact is remembered by a file that knows its operation.                *)
Knows(f, a) == Known(f, a.operation_id) /\ Remembers(f, a)

(* Every file on disk knows what was acknowledged.  Facts outlive a        *)
(* missing file because a file that was synced cannot go missing by a      *)
(* power loss, and a file removed from outside leaves the marker behind.   *)
AckedOK ==
    /\ \A f \in surviving : f # NoFile => \A a \in acked : Knows(f, a)
    /\ "vanish" \notin Faults /\ acked # {} => NoFile \notin surviving
    /\ "power" \notin Faults /\ acked # {} => marker # "empty"

-----------------------------------------------------------------------------
(* The operators on files.                                                 *)

(* The rows and the tombstones of a file.                                  *)
LEMMA AllRowsIs ==
    ASSUME NEW f, NEW r
    PROVE  r \in AllRows(f) <=> (\E o \in Live(f) : r = f.rows[o]) \/ r \in f.quarantined
BY DEF AllRows, Range, Live

(* The parts of a well-typed file.                                         *)
LEMMA FileFields ==
    ASSUME NEW f, IsFile(f)
    PROVE  /\ Live(f) \subseteq Operations
           /\ \A o \in Live(f) : f.rows[o] \in OperationRow
           /\ f.quarantined \subseteq OperationRow
           /\ f.rows = [o \in Live(f) |-> f.rows[o]]
           /\ f = [rows |-> f.rows, quarantined |-> f.quarantined]
<1> HIDE DEF OperationRow
<1> QED BY DEF IsFile, FileOf, Live

(* A file put together from rows and tombstones.                           *)
LEMMA FileFrom ==
    ASSUME NEW live \in SUBSET Operations, NEW rows \in [live -> OperationRow],
           NEW quarantined \in SUBSET OperationRow
    PROVE  LET f == [rows |-> rows, quarantined |-> quarantined]
           IN  IsFile(f) /\ Live(f) = live /\ f.rows = rows /\ f.quarantined = quarantined
BY DEF IsFile, FileOf, Live

(* A file is not the missing file.                                         *)
LEMMA FileExists ==
    ASSUME NEW f, IsFile(f)
    PROVE  f # NoFile
BY NoFileAssumption DEF IsFile

(* The file open creates is well formed and empty.                         *)
LEMMA EmptyFileOK ==
    /\ FileOK(EmptyFile)
    /\ Live(EmptyFile) = {}
    /\ EmptyFile.quarantined = {}
<1> DEFINE rows == [o \in {} |-> None]
<1>0. rows \in [{} -> OperationRow]
  OBVIOUS
<1> HIDE DEF rows
<1>1. /\ IsFile(EmptyFile)
      /\ Live(EmptyFile) = {}
      /\ EmptyFile.quarantined = {}
  <2>1. EmptyFile = [rows |-> rows, quarantined |-> {}]
    BY ZenonT(90) DEF EmptyFile, rows
  <2> QED BY ZenonT(90), <1>0, <2>1, FileFrom
<1>2. Readable(EmptyFile)
  BY <1>1, AllRowsIs DEF Readable
<1> QED BY <1>1, <1>2 DEF FileOK, FamilyOK, LeasedOK

(* Inserting a row in the map of rows.                                     *)
LEMMA WithRowIs ==
    ASSUME NEW f, IsFile(f), NEW t \in OperationRow, t.operation_id \in Operations
    PROVE  LET g == WithRow(f, t) IN
           /\ IsFile(g)
           /\ Live(g) = Live(f) \cup {t.operation_id}
           /\ g.quarantined = f.quarantined
           /\ g.rows[t.operation_id] = t
           /\ \A o \in Live(f) : o # t.operation_id => g.rows[o] = f.rows[o]
<1> DEFINE live == Live(f) \cup {t.operation_id}
           rows == [o \in live |-> IF o = t.operation_id THEN t ELSE f.rows[o]]
<1>1. /\ live \in SUBSET Operations
      /\ rows \in [live -> OperationRow]
      /\ f.quarantined \in SUBSET OperationRow
  BY ZenonT(90), FileFields
<1>2. WithRow(f, t) = [rows |-> rows, quarantined |-> f.quarantined]
  <2>1. WithRow(f, t) = [f EXCEPT !.rows = rows]
    BY ZenonT(90) DEF WithRow
  <2> HIDE DEF rows
  <2>2. f = [rows |-> f.rows, quarantined |-> f.quarantined]
    BY ZenonT(90), FileFields
  <2> QED BY <2>1, <2>2
<1> HIDE DEF live
<1> QED BY <1>1, <1>2, FileFrom DEF live

-----------------------------------------------------------------------------
(* What an update does to a row and to a file.                             *)

(* A later version of a row: cancellation and termination are final, the   *)
(* generation does not fall, and a row of the same generation is           *)
(* authorized only if it already was, for the same holder.                 *)
LaterRow(r, t) ==
    /\ t.operation_id = r.operation_id
    /\ t.idempotency_key_digest = r.idempotency_key_digest
    /\ t.state # "quarantined"
    /\ r.cancel_requested => t.cancel_requested
    /\ r.state = "terminal" => t.state = "terminal"
    /\ t.lease_holder # None => t.state # "submitted"
    /\ r.lease_generation <= t.lease_generation
    /\ r.lease_generation = t.lease_generation =>
          /\ r.lease_holder \in {None, t.lease_holder}
          /\ t.state = "authorized" /\ ~t.cancel_requested =>
                /\ r.state = "authorized"
                /\ ~r.cancel_requested
                /\ r.lease_holder = t.lease_holder

(* What every call but project_child leaves alone.                         *)
SameFamily(r, t) ==
    /\ t.parent_operation_id = r.parent_operation_id
    /\ t.root_operation_id = r.root_operation_id
    /\ t.children = r.children

(* A later version of a file.                                              *)
Evolves(f, g) ==
    /\ f.quarantined \subseteq g.quarantined
    /\ \A o \in Live(f) :
          IF o \in Live(g)
          THEN LaterRow(f.rows[o], g.rows[o])
          ELSE \E q \in g.quarantined :
                  /\ q.operation_id = o
                  /\ q.idempotency_key_digest = f.rows[o].idempotency_key_digest
    /\ \A o \in Live(g) \ Live(f) : ~Known(f, o)

(* No update makes an operation unknown: quarantine leaves a tombstone.    *)
LEMMA KnownStays ==
    ASSUME NEW f, NEW g, Evolves(f, g), NEW o, Known(f, o)
    PROVE  Known(g, o)
BY DEF Known, Evolves

(* A later file remembers the facts of an earlier one.                     *)
LEMMA EvolvesKnows ==
    ASSUME NEW f, NEW g, IsFile(f), IsFile(g), Readable(f), Evolves(f, g),
           NEW a, Knows(f, a),
           a.fact \in {"admitted", "cancelled", "terminal", "quarantined"}
    PROVE  Knows(g, a)
<1>1. Known(f, a.operation_id) /\ Known(g, a.operation_id)
  BY KnownStays DEF Knows
<1>2. CASE a.fact = "admitted"
  <2>1. PICK r \in AllRows(f) : /\ r.operation_id = a.operation_id
                               /\ r.idempotency_key_digest = a.key
    BY <1>2 DEF Knows, Remembers
  <2>2. CASE r \in f.quarantined
    BY <1>1, <1>2, <2>1, <2>2, AllRowsIs DEF Evolves, Knows, Remembers
  <2>3. CASE \E o \in Live(f) : r = f.rows[o]
    <3>1. a.operation_id \in Live(f) /\ r = f.rows[a.operation_id]
      BY <2>1, <2>3 DEF Readable
    <3>2. \E q \in AllRows(g) : /\ q.operation_id = a.operation_id
                                /\ q.idempotency_key_digest = a.key
      BY <2>1, <3>1, AllRowsIs DEF Evolves, LaterRow
    <3> QED BY <1>1, <1>2, <3>2 DEF Knows, Remembers
  <2> QED BY <2>1, <2>2, <2>3, AllRowsIs
<1>3. CASE a.fact = "cancelled"
  BY <1>1, <1>3 DEF Knows, Remembers, Evolves, LaterRow
<1>4. CASE a.fact = "terminal"
  BY <1>1, <1>4 DEF Knows, Remembers, Evolves, LaterRow
<1>5. CASE a.fact = "quarantined"
  BY <1>1, <1>5 DEF Knows, Remembers, Evolves
<1> QED BY <1>2, <1>3, <1>4, <1>5

(* A later file covers the grants of an earlier one.                       *)
LEMMA EvolvesCovers ==
    ASSUME NEW f, NEW g, IsFile(f), IsFile(g), Evolves(f, g),
           NEW k \in LeaseGrant, Covers(f, k)
    PROVE  Covers(g, k)
<1> DEFINE o == k.operation_id
<1>1. Known(g, o)
  BY KnownStays DEF Covers
<1>2. CASE o \notin Live(g)
  BY <1>1, <1>2 DEF Covers
<1>3. CASE o \in Live(g)
  <2>1. o \in Live(f)
    BY <1>3 DEF Evolves, Covers
  <2>2. LaterRow(f.rows[o], g.rows[o])
    BY <1>3, <2>1 DEF Evolves
  <2>3. /\ k.holder # None
        /\ k.generation \in Nat
        /\ f.rows[o].lease_generation \in Nat
        /\ g.rows[o].lease_generation \in Nat
    <3>1. f.rows[o] \in OperationRow /\ g.rows[o] \in OperationRow
      BY ZenonT(90), <1>3, <2>1, FileFields
    <3> QED BY <3>1, NoneAssumption, NumbersAssumption DEF LeaseGrant, OperationRow
  <2> QED BY <1>1, <1>3, <2>1, <2>2, <2>3 DEF Covers, LaterRow
<1> QED BY <1>2, <1>3

(* A later file accepts no grant that an earlier one refused.              *)
LEMMA EvolvesFenced ==
    ASSUME NEW f, NEW g, IsFile(f), IsFile(g), Evolves(f, g),
           NEW k \in LeaseGrant, Covers(f, k), ~GrantIsCurrent(f, k)
    PROVE  ~GrantIsCurrent(g, k)
<1> DEFINE o == k.operation_id
<1> SUFFICES ASSUME GrantIsCurrent(g, k) PROVE FALSE
  OBVIOUS
<1>1. o \in Live(g) /\ o \in Live(f)
  BY DEF Evolves, Covers, GrantIsCurrent
<1>2. LaterRow(f.rows[o], g.rows[o])
  BY <1>1 DEF Evolves
<1>3. /\ k.generation \in Nat
      /\ f.rows[o].lease_generation \in Nat
      /\ g.rows[o].lease_generation \in Nat
  <2>1. f.rows[o] \in OperationRow /\ g.rows[o] \in OperationRow
    BY ZenonT(90), <1>1, FileFields
  <2> QED BY <2>1, NumbersAssumption DEF LeaseGrant, OperationRow
<1>4. f # NoFile
  BY FileExists
<1> QED BY <1>1, <1>2, <1>3, <1>4 DEF Covers, LaterRow, GrantIsCurrent

(* admit of an operation that is already admitted writes the file as it    *)
(* is.                                                                     *)
LEMMA SameFileEvolves ==
    ASSUME NEW f, FileOK(f)
    PROVE  Evolves(f, f)
<1>1. \A o \in Live(f) : LaterRow(f.rows[o], f.rows[o])
  <2> TAKE o \in Live(f)
  <2>1. f.rows[o].lease_generation \in Nat
    <3>1. f.rows[o] \in OperationRow
      BY ZenonT(90), FileFields DEF FileOK
    <3> QED BY <3>1, NumbersAssumption DEF OperationRow
  <2> QED BY <2>1 DEF FileOK, Readable, LeasedOK, LaterRow
<1> QED BY <1>1 DEF Evolves

(* Writing one row that keeps its identity keeps the file readable.        *)
LEMMA RewriteReadable ==
    ASSUME NEW f, IsFile(f), Readable(f),
           NEW o \in Live(f), NEW t \in OperationRow, LaterRow(f.rows[o], t)
    PROVE  LET g == WithRow(f, t) IN
           /\ IsFile(g)
           /\ Live(g) = Live(f)
           /\ g.quarantined = f.quarantined
           /\ g.rows[o] = t
           /\ \A p \in Live(f) : p # o => g.rows[p] = f.rows[p]
           /\ Readable(g)
<1> DEFINE g == WithRow(f, t)
<1>1. t.operation_id = o /\ o \in Operations
  BY ZenonT(90), FileFields DEF Readable, LaterRow
<1>2. /\ IsFile(g)
      /\ Live(g) = Live(f)
      /\ g.quarantined = f.quarantined
      /\ g.rows[o] = t
      /\ \A p \in Live(f) : p # o => g.rows[p] = f.rows[p]
  <2>1. Live(f) \cup {o} = Live(f)
    OBVIOUS
  <2> QED BY ZenonT(90), <1>1, <2>1, WithRowIs
<1> HIDE DEF g
<1>3. \A r \in AllRows(g) : r = t \/ (r \in AllRows(f) /\ r # f.rows[o])
  <2> TAKE r \in AllRows(g)
  <2>1. CASE r \in g.quarantined
    <3>1. r \in AllRows(f) /\ r.state = "quarantined"
      BY <1>2, <2>1, AllRowsIs DEF Readable
    <3> QED BY <3>1 DEF Readable
  <2>2. CASE \E p \in Live(g) : r = g.rows[p]
    <3>1. PICK p \in Live(g) : r = g.rows[p]
      BY <2>2
    <3>2. CASE p = o
      BY <1>2, <3>1, <3>2
    <3>3. CASE p # o
      <4>1. p \in Live(f) /\ r = f.rows[p]
        BY <1>2, <3>1, <3>3
      <4>2. r \in AllRows(f)
        BY <4>1, AllRowsIs
      <4> QED BY <3>3, <4>1, <4>2 DEF Readable
    <3> QED BY <3>2, <3>3
  <2> QED BY <2>1, <2>2, AllRowsIs
<1>4. f.rows[o] \in AllRows(f)
  BY AllRowsIs
<1>5. ASSUME NEW r \in AllRows(g), NEW q \in AllRows(g), r # q
      PROVE  /\ r.operation_id # q.operation_id
             /\ r.idempotency_key_digest # None =>
                   r.idempotency_key_digest # q.idempotency_key_digest
  BY <1>3, <1>4, <1>5 DEF Readable, LaterRow
<1>6. \A p \in Live(g) : g.rows[p].operation_id = p /\ g.rows[p].state # "quarantined"
  BY <1>1, <1>2 DEF Readable, LaterRow
<1>7. \A r \in g.quarantined : r.state = "quarantined"
  BY <1>2 DEF Readable
<1>8. Readable(g)
  BY <1>5, <1>6, <1>7 DEF Readable
<1> QED BY <1>2, <1>8 DEF g

(* A row that stays in its family is rewritten.                            *)
LEMMA RewriteOK ==
    ASSUME NEW f, FileOK(f), NEW o \in Live(f), NEW t \in OperationRow,
           LaterRow(f.rows[o], t), SameFamily(f.rows[o], t)
    PROVE  /\ FileOK(WithRow(f, t)) /\ Evolves(f, WithRow(f, t))
           /\ o \in Live(WithRow(f, t)) /\ WithRow(f, t).rows[o] = t
<1> DEFINE g == WithRow(f, t)
<1>1. /\ IsFile(g)
      /\ Live(g) = Live(f)
      /\ g.quarantined = f.quarantined
      /\ g.rows[o] = t
      /\ \A p \in Live(f) : p # o => g.rows[p] = f.rows[p]
      /\ Readable(g)
  BY RewriteReadable DEF FileOK
<1> HIDE DEF g
<1>2. \A p \in Live(f) : SameFamily(f.rows[p], g.rows[p])
  BY <1>1 DEF SameFamily
<1>3. \A p : Known(f, p) <=> Known(g, p)
  BY <1>1 DEF Known
<1>4. FamilyOK(g)
  <2> SUFFICES ASSUME NEW c \in Live(g), g.rows[c].parent_operation_id # None
               PROVE  /\ g.rows[c].root_operation_id # None
                      /\ Known(g, g.rows[c].parent_operation_id)
                      /\ g.rows[c].parent_operation_id \in Live(g) =>
                            /\ c \in g.rows[g.rows[c].parent_operation_id].children
                            /\ g.rows[g.rows[c].parent_operation_id].root_operation_id
                                  = g.rows[c].root_operation_id
    BY ZenonT(90) DEF FamilyOK
  <2>1. /\ c \in Live(f)
        /\ f.rows[c].parent_operation_id = g.rows[c].parent_operation_id
        /\ f.rows[c].root_operation_id = g.rows[c].root_operation_id
    BY ZenonT(90), <1>1, <1>2 DEF SameFamily
  <2> DEFINE p == f.rows[c].parent_operation_id
  <2>2. /\ f.rows[c].root_operation_id # None
        /\ Known(f, p)
        /\ p \in Live(f) => /\ c \in f.rows[p].children
                            /\ f.rows[p].root_operation_id = f.rows[c].root_operation_id
    BY ZenonT(90), <2>1 DEF FileOK, FamilyOK
  <2>3. p \in Live(f) => /\ f.rows[p].children = g.rows[p].children
                         /\ f.rows[p].root_operation_id = g.rows[p].root_operation_id
    BY ZenonT(90), <1>2 DEF SameFamily
  <2> HIDE DEF p
  <2>4. g.rows[c].parent_operation_id = p
    BY ZenonT(90), <2>1 DEF p
  <2> QED BY ZenonT(90), <1>1, <1>3, <2>1, <2>2, <2>3, <2>4
<1>5. LeasedOK(g)
  BY <1>1 DEF FileOK, LeasedOK, LaterRow
<1>6. Evolves(f, g)
  <2>1. Evolves(f, f)
    BY SameFileEvolves
  <2> QED BY <1>1, <2>1 DEF Evolves
<1> QED BY <1>1, <1>4, <1>5, <1>6 DEF FileOK, g

(* admit writes a row for an operation that has neither row nor tombstone. *)
LEMMA AdmitOK ==
    ASSUME NEW f, FileOK(f), NEW o \in Operations, NEW key \in Keys,
           Admits(f, o, key), o \notin Live(f)
    PROVE  LET g == WithRow(f, NewRow(o, key)) IN
           /\ FileOK(g)
           /\ Evolves(f, g)
           /\ Knows(g, [fact |-> "admitted", operation_id |-> o, key |-> key])
<1> DEFINE t == NewRow(o, key)
           g == WithRow(f, t)
<1>1. /\ t \in OperationRow
      /\ t.operation_id = o
      /\ t.idempotency_key_digest = key
      /\ t.parent_operation_id = None
      /\ t.state = "submitted"
      /\ t.lease_holder = None
  BY NumbersAssumption DEF NewRow, OperationRow, States
<1> HIDE DEF t
<1>2. /\ IsFile(g)
      /\ Live(g) = Live(f) \cup {o}
      /\ g.quarantined = f.quarantined
      /\ g.rows[o] = t
      /\ \A p \in Live(f) : g.rows[p] = f.rows[p]
  BY <1>1, WithRowIs DEF FileOK
<1> HIDE DEF g
<1>3. ~Known(f, o)
  BY DEF Admits, Known
<1>4. \A p : Known(g, p) <=> p = o \/ Known(f, p)
  BY <1>2 DEF Known
<1>5. \A r \in AllRows(g) : r = t \/ r \in AllRows(f)
  BY <1>2, AllRowsIs
<1>6. \A r \in AllRows(f) : r.operation_id # o /\ r.idempotency_key_digest # key
  <2> TAKE r \in AllRows(f)
  <2>1. r.idempotency_key_digest # key
    BY DEF Admits
  <2>2. CASE r \in f.quarantined
    BY <2>1, <2>2 DEF Admits
  <2>3. CASE \E p \in Live(f) : r = f.rows[p]
    BY <2>1, <2>3 DEF FileOK, Readable
  <2> QED BY <2>2, <2>3, AllRowsIs
<1>7. Readable(g)
  <2>1. ASSUME NEW r \in AllRows(g), NEW q \in AllRows(g), r # q
        PROVE  /\ r.operation_id # q.operation_id
               /\ r.idempotency_key_digest # None =>
                     r.idempotency_key_digest # q.idempotency_key_digest
    BY <1>1, <1>5, <1>6, <2>1 DEF FileOK, Readable
  <2>2. \A p \in Live(g) : g.rows[p].operation_id = p /\ g.rows[p].state # "quarantined"
    BY <1>1, <1>2 DEF FileOK, Readable
  <2> QED BY <1>2, <2>1, <2>2 DEF FileOK, Readable
<1>8. FamilyOK(g)
  <2> SUFFICES ASSUME NEW c \in Live(g), g.rows[c].parent_operation_id # None
               PROVE  /\ g.rows[c].root_operation_id # None
                      /\ Known(g, g.rows[c].parent_operation_id)
                      /\ g.rows[c].parent_operation_id \in Live(g) =>
                            /\ c \in g.rows[g.rows[c].parent_operation_id].children
                            /\ g.rows[g.rows[c].parent_operation_id].root_operation_id
                                  = g.rows[c].root_operation_id
    BY ZenonT(90) DEF FamilyOK
  <2>1. c \in Live(f) /\ g.rows[c] = f.rows[c]
    BY <1>1, <1>2
  <2>2. g.rows[c].parent_operation_id # o
    BY <1>3, <2>1 DEF FileOK, FamilyOK
  <2> QED BY <1>2, <1>4, <2>1, <2>2 DEF FileOK, FamilyOK
<1>9. LeasedOK(g)
  BY <1>1, <1>2 DEF FileOK, LeasedOK
<1>10. Evolves(f, g)
  BY <1>2, <1>3, SameFileEvolves DEF Evolves
<1>11. t \in AllRows(g)
  BY <1>2, AllRowsIs
<1>12. Knows(g, [fact |-> "admitted", operation_id |-> o, key |-> key])
  BY <1>1, <1>4, <1>11 DEF Knows, Remembers
<1> QED BY <1>2, <1>7, <1>8, <1>9, <1>10, <1>12 DEF FileOK, g, t

(* quarantine moves the row of o to the tombstones.                        *)
LEMMA QuarantineOK ==
    ASSUME NEW f, FileOK(f), NEW o \in Live(f)
    PROVE  LET g == [rows |-> Restrict(f.rows, Live(f) \ {o}),
                     quarantined |-> f.quarantined
                                        \cup {[f.rows[o] EXCEPT !.state = "quarantined"]}]
           IN  /\ FileOK(g)
               /\ Evolves(f, g)
               /\ Knows(g, [fact |-> "quarantined", operation_id |-> o, key |-> None])
<1> DEFINE t == [f.rows[o] EXCEPT !.state = "quarantined"]
           rows == Restrict(f.rows, Live(f) \ {o})
           g == [rows |-> rows, quarantined |-> f.quarantined \cup {t}]
<1>1. f.rows[o] \in OperationRow /\ f.rows[o].operation_id = o
  BY ZenonT(90), FileFields DEF FileOK, Readable
<1>2. /\ t \in OperationRow
      /\ t.operation_id = o
      /\ t.idempotency_key_digest = f.rows[o].idempotency_key_digest
      /\ t.state = "quarantined"
  BY <1>1 DEF OperationRow, States
<1> HIDE DEF t
<1>3. /\ rows \in [Live(f) \ {o} -> OperationRow]
      /\ \A p \in Live(f) \ {o} : rows[p] = f.rows[p]
  BY ZenonT(90), FileFields DEF FileOK, Restrict
<1>4. Live(f) \ {o} \in SUBSET Operations /\ f.quarantined \cup {t} \in SUBSET OperationRow
  BY ZenonT(90), <1>2, FileFields DEF FileOK
<1> HIDE DEF rows
<1>5. /\ IsFile(g)
      /\ Live(g) = Live(f) \ {o}
      /\ g.quarantined = f.quarantined \cup {t}
      /\ \A p \in Live(f) \ {o} : g.rows[p] = f.rows[p]
  BY <1>3, <1>4, FileFrom
<1> HIDE DEF g
<1>6. \A p : Known(g, p) <=> Known(f, p)
  BY <1>2, <1>5 DEF Known
<1>7. f.rows[o] \in AllRows(f)
  BY AllRowsIs
<1>8. \A r \in AllRows(g) : r = t \/ (r \in AllRows(f) /\ r # f.rows[o])
  <2> TAKE r \in AllRows(g)
  <2>1. CASE r \in f.quarantined
    BY <2>1, AllRowsIs DEF FileOK, Readable
  <2>2. CASE \E p \in Live(g) : r = g.rows[p]
    <3>1. PICK p \in Live(f) \ {o} : r = f.rows[p]
      BY <1>5, <2>2
    <3> QED BY <3>1, AllRowsIs DEF FileOK, Readable
  <2> QED BY <1>5, <2>1, <2>2, AllRowsIs
<1>9. Readable(g)
  <2>1. ASSUME NEW r \in AllRows(g), NEW q \in AllRows(g), r # q
        PROVE  /\ r.operation_id # q.operation_id
               /\ r.idempotency_key_digest # None =>
                     r.idempotency_key_digest # q.idempotency_key_digest
    BY <1>1, <1>2, <1>7, <1>8, <2>1 DEF FileOK, Readable
  <2> QED BY <1>2, <1>5, <2>1 DEF FileOK, Readable
<1>10. FamilyOK(g)
  BY ZenonT(90), <1>5, <1>6 DEF FileOK, FamilyOK
<1>11. LeasedOK(g)
  BY <1>5 DEF FileOK, LeasedOK
<1>12. Evolves(f, g)
  BY <1>2, <1>5, SameFileEvolves DEF Evolves
<1>13. Knows(g, [fact |-> "quarantined", operation_id |-> o, key |-> None])
  BY <1>2, <1>5 DEF Knows, Remembers, Known
<1> QED BY <1>5, <1>9, <1>10, <1>11, <1>12, <1>13 DEF FileOK, g, rows, t

(* project_child rewrites the row of the parent, and that of the child when *)
(* it has one: neither leaves a family it already belongs to.              *)
LEMMA WithChildOK ==
    ASSUME NEW f, FileOK(f), NEW parent \in Live(f), NEW child \in Operations,
           NEW root \in Roots, parent # child,
           ChildAgrees(f, parent, root, child),
           f.rows[parent].root_operation_id \in {None, root}
    PROVE  LET g == WithChild(f, parent, root, child) IN FileOK(g) /\ Evolves(f, g)
<1> DEFINE t == [f.rows[parent] EXCEPT !.root_operation_id = root,
                                       !.children = @ \cup {child}]
           m == WithRow(f, t)
           u == [m.rows[child] EXCEPT !.parent_operation_id = parent,
                                      !.root_operation_id = root]
           g == WithChild(f, parent, root, child)
<1>0. root # None /\ parent # None /\ parent \in Operations
  BY ZenonT(90), NoneAssumption, FileFields DEF FileOK
<1>1. \A o \in Live(f) : /\ f.rows[o] \in OperationRow
                         /\ f.rows[o].lease_generation \in Nat
                         /\ f.rows[o].state # "quarantined"
                         /\ f.rows[o].lease_holder # None => f.rows[o].state # "submitted"
  <2> TAKE o \in Live(f)
  <2>1. f.rows[o] \in OperationRow
    BY ZenonT(90), FileFields DEF FileOK
  <2>2. f.rows[o].lease_generation \in Nat
    BY <2>1, NumbersAssumption DEF OperationRow
  <2> QED BY <2>1, <2>2 DEF FileOK, LeasedOK, Readable
<1>2. /\ t \in OperationRow
      /\ LaterRow(f.rows[parent], t)
      /\ t.root_operation_id = root
      /\ t.parent_operation_id = f.rows[parent].parent_operation_id
      /\ t.children = f.rows[parent].children \cup {child}
  <2> DEFINE r == f.rows[parent]
  <2>1. /\ r \in OperationRow
        /\ r.lease_generation \in Nat
        /\ r.state # "quarantined"
        /\ r.lease_holder # None => r.state # "submitted"
    BY <1>1
  <2> HIDE DEF r
  <2>2. t = [r EXCEPT !.root_operation_id = root, !.children = @ \cup {child}]
    BY DEF r
  <2> HIDE DEF t
  <2>3. /\ t \in OperationRow
        /\ t.root_operation_id = root
        /\ t.parent_operation_id = r.parent_operation_id
        /\ t.children = r.children \cup {child}
    BY ZenonT(90), <2>1, <2>2 DEF OperationRow
  <2>4. LaterRow(r, t)
    BY <2>1, <2>2 DEF OperationRow, LaterRow
  <2> QED BY <2>3, <2>4 DEF r
<1> HIDE DEF t
<1>3. /\ IsFile(m)
      /\ Live(m) = Live(f)
      /\ m.quarantined = f.quarantined
      /\ m.rows[parent] = t
      /\ \A p \in Live(f) : p # parent => m.rows[p] = f.rows[p]
      /\ Readable(m)
  BY ZenonT(90), <1>2, RewriteReadable DEF FileOK
<1> HIDE DEF m
<1>4. CASE child \notin Live(f)
  <2>1. g = m
    BY <1>3, <1>4 DEF WithChild, m, t
  <2>2. \A p : Known(m, p) <=> Known(f, p)
    BY <1>3 DEF Known
  <2>3. FamilyOK(m)
    <3> SUFFICES ASSUME NEW c \in Live(m), m.rows[c].parent_operation_id # None
                 PROVE  /\ m.rows[c].root_operation_id # None
                        /\ Known(m, m.rows[c].parent_operation_id)
                        /\ m.rows[c].parent_operation_id \in Live(m) =>
                              /\ c \in m.rows[m.rows[c].parent_operation_id].children
                              /\ m.rows[m.rows[c].parent_operation_id].root_operation_id
                                    = m.rows[c].root_operation_id
      BY ZenonT(90) DEF FamilyOK
    <3>1. /\ f.rows[c].parent_operation_id = m.rows[c].parent_operation_id
          /\ f.rows[c].root_operation_id = m.rows[c].root_operation_id
      BY ZenonT(90), <1>2, <1>3 DEF FileOK, FamilyOK
    <3> DEFINE p == f.rows[c].parent_operation_id
    <3>2. /\ c \in Live(f) /\ f.rows[c].root_operation_id # None
          /\ Known(f, p)
          /\ p \in Live(f) => /\ c \in f.rows[p].children
                              /\ f.rows[p].root_operation_id = f.rows[c].root_operation_id
      BY ZenonT(90), <1>3, <3>1 DEF FileOK, FamilyOK
    <3>3. p \in Live(f) => /\ f.rows[p].children \subseteq m.rows[p].children
                           /\ f.rows[p].root_operation_id = m.rows[p].root_operation_id
      BY ZenonT(90), <1>0, <1>2, <1>3, <3>2
    <3> HIDE DEF p
    <3>4. m.rows[c].parent_operation_id = p
      BY ZenonT(90), <3>1 DEF p
    <3> QED BY ZenonT(90), <1>3, <2>2, <3>1, <3>2, <3>3, <3>4
  <2>4. LeasedOK(m)
    BY <1>2, <1>3 DEF FileOK, LeasedOK, LaterRow
  <2>5. Evolves(f, m)
    BY ZenonT(90), <1>2, <1>3, SameFileEvolves DEF Evolves
  <2> QED BY <1>3, <2>1, <2>3, <2>4, <2>5 DEF FileOK
<1>5. CASE child \in Live(f)
  <2> DEFINE r == f.rows[child]
  <2>1. /\ r \in OperationRow
        /\ r.lease_generation \in Nat
        /\ r.state # "quarantined"
        /\ r.lease_holder # None => r.state # "submitted"
        /\ r.parent_operation_id \in {None, parent}
        /\ r.root_operation_id \in {None, root}
    BY <1>1, <1>5 DEF ChildAgrees
  <2>2. u = [r EXCEPT !.parent_operation_id = parent, !.root_operation_id = root]
    BY ZenonT(90), <1>3, <1>5
  <2>3. g = WithRow(m, u) /\ m.rows[child] = r
    BY <1>3, <1>5 DEF WithChild, m, t
  <2> HIDE DEF r, u, g
  <2>4. /\ u \in OperationRow
        /\ LaterRow(r, u)
        /\ u.parent_operation_id = parent
        /\ u.root_operation_id = root
        /\ u.children = r.children
    <3>1. /\ u \in OperationRow
          /\ u.parent_operation_id = parent
          /\ u.root_operation_id = root
          /\ u.children = r.children
      BY ZenonT(90), <1>0, <2>1, <2>2 DEF OperationRow
    <3>2. LaterRow(r, u)
      BY <2>1, <2>2 DEF OperationRow, LaterRow
    <3> QED BY <3>1, <3>2
  <2>5. /\ IsFile(g)
        /\ Live(g) = Live(f)
        /\ g.quarantined = f.quarantined
        /\ g.rows[child] = u
        /\ g.rows[parent] = t
        /\ \A p \in Live(f) : p # parent /\ p # child => g.rows[p] = f.rows[p]
        /\ Readable(g)
    BY <1>3, <1>5, <2>3, <2>4, RewriteReadable
  <2>6. \A p : Known(g, p) <=> Known(f, p)
    BY <2>5 DEF Known
  <2>7. FamilyOK(g)
    <3> SUFFICES ASSUME NEW c \in Live(g), g.rows[c].parent_operation_id # None
                 PROVE  /\ g.rows[c].root_operation_id # None
                        /\ Known(g, g.rows[c].parent_operation_id)
                        /\ g.rows[c].parent_operation_id \in Live(g) =>
                              /\ c \in g.rows[g.rows[c].parent_operation_id].children
                              /\ g.rows[g.rows[c].parent_operation_id].root_operation_id
                                    = g.rows[c].root_operation_id
      BY DEF FamilyOK
    <3>1. CASE c = child
      BY ZenonT(90), <1>0, <1>2, <2>4, <2>5, <2>6, <3>1 DEF Known
    <3>2. CASE c # child
      <4> DEFINE p == f.rows[c].parent_operation_id
      <4>1. /\ g.rows[c].parent_operation_id = p
            /\ g.rows[c].root_operation_id = f.rows[c].root_operation_id
            /\ f.rows[c].root_operation_id # None
        BY ZenonT(90), <1>2, <2>5, <3>2 DEF FileOK, FamilyOK
      <4>2. Known(f, p)
        BY ZenonT(90), <2>5, <4>1 DEF FileOK, FamilyOK
      <4>3. ASSUME p \in Live(f)
            PROVE  c \in f.rows[p].children /\ f.rows[p].root_operation_id = f.rows[c].root_operation_id
        BY ZenonT(90), <2>5, <4>1, <4>3 DEF FileOK, FamilyOK
      <4>4. CASE p = parent
        BY ZenonT(90), <1>2, <2>5, <2>6, <4>1, <4>2, <4>3, <4>4
      <4>5. CASE p = child
        BY ZenonT(90), <2>1, <2>4, <2>5, <2>6, <4>1, <4>2, <4>3, <4>5 DEF r
      <4>6. CASE p # parent /\ p # child
        BY ZenonT(90), <2>5, <2>6, <4>1, <4>2, <4>3, <4>6
      <4> QED BY ZenonT(90), <4>4, <4>5, <4>6
    <3> QED BY ZenonT(90), <3>1, <3>2
  <2>8. LeasedOK(g)
    <3> HIDE DEF t
    <3>1. /\ t.lease_holder # None => t.state # "submitted"
          /\ u.lease_holder # None => u.state # "submitted"
      BY ZenonT(90), <1>2, <2>4 DEF LaterRow
    <3> QED BY ZenonT(90), <2>5, <3>1 DEF FileOK, LeasedOK
  <2>9. Evolves(f, g)
    BY ZenonT(90), <1>2, <2>4, <2>5, SameFileEvolves DEF Evolves, r
  <2> QED BY ZenonT(90), <2>5, <2>7, <2>8, <2>9 DEF FileOK, g
<1> QED BY <1>4, <1>5

-----------------------------------------------------------------------------
(* The rewriting of one row by the lease, cancel, cursor and terminal calls. *)

(* The row of a live operation.                                            *)
LEMMA RowFields ==
    ASSUME NEW f, FileOK(f), NEW o \in Live(f)
    PROVE  /\ f.rows[o] \in OperationRow
           /\ f.rows[o].operation_id = o
           /\ f.rows[o].lease_generation \in Nat
           /\ f.rows[o].heartbeat \in Nat
           /\ f.rows[o].state # "quarantined"
           /\ f.rows[o].lease_holder # None => f.rows[o].state # "submitted"
<1>1. f.rows[o] \in OperationRow
  BY ZenonT(90), FileFields DEF FileOK
<1>2. f.rows[o].lease_generation \in Nat /\ f.rows[o].heartbeat \in Nat
  BY <1>1, NumbersAssumption DEF OperationRow
<1> QED BY ZenonT(90), <1>1, <1>2 DEF FileOK, Readable, LeasedOK

(* acquire_lease: a fresh lease starts the next generation, a held one     *)
(* keeps its generation and holder.                                        *)
LEMMA AcquiredRow ==
    ASSUME NEW r \in OperationRow, NEW holder \in Holders,
           r.lease_generation \in Nat, r.heartbeat \in Nat,
           r.lease_holder # None => r.state # "submitted",
           ~r.cancel_requested, r.state \in {"submitted", "authorized"},
           r.lease_holder \in {None, holder},
           CountersLeft(NextGeneration(r), r.heartbeat + 1)
    PROVE  LET t == [r EXCEPT !.lease_generation = NextGeneration(r), !.heartbeat = @ + 1,
                              !.lease_holder = holder, !.state = "authorized"]
           IN  /\ t \in OperationRow
               /\ LaterRow(r, t)
               /\ SameFamily(r, t)
               /\ t.lease_generation = NextGeneration(r)
               /\ t.lease_holder = holder
               /\ NextGeneration(r) \in 0 .. U64Max
               /\ r.lease_generation <= NextGeneration(r)
               /\ r.lease_generation = NextGeneration(r) => r.lease_holder = holder
<1> DEFINE n == NextGeneration(r)
           t == [r EXCEPT !.lease_generation = n, !.heartbeat = @ + 1,
                          !.lease_holder = holder, !.state = "authorized"]
<1>1. /\ n \in 0 .. U64Max
      /\ r.lease_generation <= n
      /\ r.lease_generation = n => r.lease_holder = holder
      /\ r.heartbeat + 1 \in 0 .. U64Max
  BY NoneAssumption, NumbersAssumption DEF NextGeneration, CountersLeft
<1> HIDE DEF n
<1>2. /\ t \in OperationRow
      /\ SameFamily(r, t)
      /\ t.lease_generation = n
      /\ t.lease_holder = holder
  BY ZenonT(90), <1>1 DEF OperationRow, SameFamily, States
<1>3. LaterRow(r, t)
  BY <1>1, NoneAssumption DEF OperationRow, LaterRow
<1> QED BY <1>1, <1>2, <1>3 DEF n

(* transfer_lease always starts the next generation.                       *)
LEMMA TransferredRow ==
    ASSUME NEW r \in OperationRow, NEW holder \in Holders,
           r.lease_generation \in Nat, r.heartbeat \in Nat,
           r.state = "authorized",
           CountersLeft(r.lease_generation + 1, r.heartbeat + 1)
    PROVE  LET t == Transferred(r, holder)
           IN  /\ t \in OperationRow
               /\ LaterRow(r, t)
               /\ SameFamily(r, t)
               /\ t.lease_generation = r.lease_generation + 1
               /\ t.lease_holder = holder
               /\ t.lease_generation \in 0 .. U64Max
<1> DEFINE t == Transferred(r, holder)
<1>1. /\ r.lease_generation + 1 \in 0 .. U64Max
      /\ r.heartbeat + 1 \in 0 .. U64Max
  BY NumbersAssumption DEF CountersLeft
<1>2. /\ t \in OperationRow
      /\ SameFamily(r, t)
      /\ t.lease_generation = r.lease_generation + 1
      /\ t.lease_holder = holder
  BY ZenonT(90), <1>1 DEF OperationRow, SameFamily, Transferred
<1>3. LaterRow(r, t)
  BY <1>1 DEF OperationRow, LaterRow, Transferred
<1> QED BY <1>1, <1>2, <1>3

(* request_cancel keeps a terminal row terminal.                           *)
LEMMA CancelledRow ==
    ASSUME NEW r \in OperationRow, r.lease_generation \in Nat, r.state # "quarantined"
    PROVE  LET t == [r EXCEPT !.cancel_requested = TRUE,
                              !.state = IF @ = "terminal" THEN @ ELSE "cancelling"]
           IN  t \in OperationRow /\ LaterRow(r, t) /\ SameFamily(r, t) /\ t.cancel_requested
<1> DEFINE s == IF r.state = "terminal" THEN r.state ELSE "cancelling"
           t == [r EXCEPT !.cancel_requested = TRUE, !.state = s]
<1>1. s \in {"terminal", "cancelling"} /\ (r.state = "terminal" => s = "terminal")
  OBVIOUS
<1> HIDE DEF s
<1>2. t \in OperationRow /\ SameFamily(r, t) /\ t.cancel_requested
  BY ZenonT(90), <1>1 DEF OperationRow, SameFamily, States
<1>3. LaterRow(r, t)
  BY <1>1 DEF OperationRow, LaterRow
<1> QED BY <1>2, <1>3 DEF s

(* advance_cursor takes the larger cursor.                                 *)
LEMMA AdvancedRow ==
    ASSUME NEW r \in OperationRow, r.lease_generation \in Nat, r.state # "quarantined",
           r.lease_holder # None => r.state # "submitted", NEW sequence \in Cursors
    PROVE  LET t == [r EXCEPT !.projection_cursor = IF @ > sequence THEN @ ELSE sequence]
           IN  t \in OperationRow /\ LaterRow(r, t) /\ SameFamily(r, t)
<1> DEFINE c == IF r.projection_cursor > sequence THEN r.projection_cursor ELSE sequence
           t == [r EXCEPT !.projection_cursor = c]
<1>1. c \in 0 .. U64Max
  BY NumbersAssumption DEF OperationRow
<1> HIDE DEF c
<1>2. t \in OperationRow /\ SameFamily(r, t)
  BY <1>1 DEF OperationRow, SameFamily
<1>3. LaterRow(r, t)
  BY <1>1 DEF OperationRow, LaterRow
<1> QED BY <1>2, <1>3 DEF c

(* set_terminal.                                                           *)
LEMMA TerminalRow ==
    ASSUME NEW r \in OperationRow, r.lease_generation \in Nat, r.state # "quarantined"
    PROVE  LET t == [r EXCEPT !.state = "terminal"]
           IN  /\ t \in OperationRow
               /\ LaterRow(r, t)
               /\ SameFamily(r, t)
               /\ t.state = "terminal"
BY DEF OperationRow, LaterRow, SameFamily, States

-----------------------------------------------------------------------------
(* Every call of the store: the file evolves to f, the caller is told facts *)
(* that f remembers, and receives grants that f holds.                     *)

Publishes(h, f, facts, new) ==
    /\ Reads(h)
    /\ FileOK(f)
    /\ Evolves(data, f)
    /\ facts \subseteq [fact : {"admitted", "cancelled", "terminal", "quarantined"},
                        operation_id : Operations, key : Keys \cup {None}]
    /\ \A a \in facts : Knows(f, a)
    /\ new \subseteq LeaseGrant
    /\ \A g \in new : /\ g.operation_id \in Live(f)
                      /\ g.generation = f.rows[g.operation_id].lease_generation
                      /\ g.holder = f.rows[g.operation_id].lease_holder
    /\ \/ Updates(h, f, facts) /\ grants' = [grants EXCEPT ![h] = @ \cup new]
       \/ Uncertain(h, f)

(* A call without a grant publishes its file and its facts.                *)
LEMMA CallPublishes ==
    ASSUME TypeOK, NEW h \in Handles, NEW f, NEW facts, Calls(h, f, facts),
           FileOK(f), Evolves(data, f),
           facts \subseteq [fact : {"admitted", "cancelled", "terminal", "quarantined"},
                           operation_id : Operations, key : Keys \cup {None}],
           \A a \in facts : Knows(f, a)
    PROVE  Publishes(h, f, facts, {})
<1>1. grants = [grants EXCEPT ![h] = @ \cup {}]
  BY DEF TypeOK
<1>2. Updates(h, f, facts) /\ UNCHANGED grants => grants' = [grants EXCEPT ![h] = @ \cup {}]
  BY <1>1
<1> QED BY ZenonT(90), <1>2 DEF Calls, Publishes

(* What request_cancel and set_terminal acknowledge is in the row they     *)
(* wrote.                                                                  *)
LEMMA RewriteKnows ==
    ASSUME NEW f, NEW o \in Live(f), NEW a, a.operation_id = o,
           \/ a.fact = "cancelled" /\ f.rows[o].cancel_requested
           \/ a.fact = "terminal" /\ f.rows[o].state = "terminal"
    PROVE  Knows(f, a)
BY ZenonT(90) DEF Knows, Known, Remembers

(* Every operation of the store publishes a later file.                    *)
LEMMA OperatePublishes ==
    ASSUME TypeOK, FilesOK, NEW h \in Handles, Operate(h)
    PROVE  \E f, facts, new : Publishes(h, f, facts, new)
<1> DEFINE Result == \E f, facts, new : Publishes(h, f, facts, new)
<1>0. Reads(h) => FileOK(data)
  BY DEF Reads, TypeOK, FilesOK
<1>1. ASSUME NEW o \in Operations, NEW key \in Keys, Admit(h, o, key)
      PROVE  Result
  <2> DEFINE a == [fact |-> "admitted", operation_id |-> o, key |-> key]
             f == IF o \in Live(data) THEN data ELSE WithRow(data, NewRow(o, key))
  <2>1. Reads(h) /\ FileOK(data) /\ Admits(data, o, key) /\ Calls(h, f, {a})
    BY <1>0, <1>1 DEF Admit
  <2>2. FileOK(f) /\ Evolves(data, f) /\ Knows(f, a)
    <3>1. CASE o \in Live(data)
      <4>1. data.rows[o] \in AllRows(data) /\ data.rows[o].operation_id = o
        BY ZenonT(90), <3>1, <2>1, AllRowsIs, RowFields
      <4>2. Knows(data, a)
        BY <2>1, <3>1, <4>1 DEF Admits, Knows, Known, Remembers
      <4> QED BY <2>1, <3>1, <4>2, SameFileEvolves
    <3>2. CASE o \notin Live(data)
      BY ZenonT(90), <2>1, <3>2, AdmitOK
    <3> QED BY ZenonT(90), <3>1, <3>2
  <2> HIDE DEF f
  <2>3. Publishes(h, f, {a}, {})
    BY <2>1, <2>2, CallPublishes
  <2> QED BY <2>3
<1>2. ASSUME NEW parent \in Operations, NEW child \in Operations, NEW root \in Roots,
             ProjectChild(h, parent, root, child)
      PROVE  Result
  <2> DEFINE f == WithChild(data, parent, root, child)
  <2>1. FileOK(f) /\ Evolves(data, f) /\ Calls(h, f, {})
    BY <1>0, <1>2, WithChildOK DEF ProjectChild
  <2> HIDE DEF f
  <2>2. Publishes(h, f, {}, {})
    BY <2>1, CallPublishes
  <2> QED BY <2>2
<1>3. ASSUME NEW o \in Operations, NEW holder \in Holders, AcquireLease(h, o, holder)
      PROVE  Result
  <2> DEFINE r == data.rows[o]
             t == [r EXCEPT !.lease_generation = NextGeneration(r), !.heartbeat = @ + 1,
                            !.lease_holder = holder, !.state = "authorized"]
             f == WithRow(data, t)
             g == [operation_id |-> o, holder |-> holder, generation |-> NextGeneration(r)]
  <2>1. /\ Reads(h) /\ FileOK(data) /\ o \in Live(data)
        /\ ~r.cancel_requested /\ r.state \in {"submitted", "authorized"}
        /\ r.lease_holder \in {None, holder}
        /\ CountersLeft(NextGeneration(r), r.heartbeat + 1)
        /\ CallsForGrant(h, f, g)
    BY <1>0, <1>3 DEF AcquireLease
  <2>2. /\ t \in OperationRow
        /\ LaterRow(r, t)
        /\ SameFamily(r, t)
        /\ t.lease_generation = NextGeneration(r)
        /\ t.lease_holder = holder
        /\ NextGeneration(r) \in 0 .. U64Max
    <3>1. /\ r \in OperationRow
          /\ r.lease_generation \in Nat
          /\ r.heartbeat \in Nat
          /\ r.lease_holder # None => r.state # "submitted"
      BY <2>1, RowFields
    <3> HIDE DEF r
    <3> QED BY <2>1, <3>1, AcquiredRow, ZenonT(90)
  <2> HIDE DEF t
  <2>3. FileOK(f) /\ Evolves(data, f) /\ o \in Live(f) /\ f.rows[o] = t
    <3>1. /\ FileOK(data) /\ o \in Live(data) /\ t \in OperationRow
          /\ LaterRow(data.rows[o], t) /\ SameFamily(data.rows[o], t)
      BY ZenonT(90), <2>1, <2>2
    <3> QED BY ZenonT(90), <3>1, RewriteOK
  <2>4. /\ g \in LeaseGrant
        /\ g.operation_id = o /\ g.generation = t.lease_generation /\ g.holder = t.lease_holder
    BY ZenonT(90), <2>2 DEF LeaseGrant
  <2> HIDE DEF f, g
  <2>5. Publishes(h, f, {}, {g})
    BY ZenonT(90), <2>1, <2>3, <2>4 DEF CallsForGrant, Publishes
  <2> QED BY <2>5
<1>4. ASSUME NEW k \in grants[h], NEW holder \in Holders, TransferLease(h, k, holder)
      PROVE  Result
  <2> DEFINE o == k.operation_id
             r == data.rows[o]
             t == Transferred(r, holder)
             f == WithRow(data, t)
             g == [operation_id |-> o, holder |-> holder, generation |-> t.lease_generation]
  <2>1. /\ Reads(h) /\ FileOK(data) /\ o \in Live(data) /\ r.state = "authorized"
        /\ CountersLeft(r.lease_generation + 1, r.heartbeat + 1)
        /\ CallsForGrant(h, f, g)
    BY ZenonT(90), <1>0, <1>4 DEF TransferLease, GrantIsCurrent
  <2>2. /\ t \in OperationRow
        /\ LaterRow(r, t)
        /\ SameFamily(r, t)
        /\ t.lease_holder = holder
        /\ t.lease_generation \in 0 .. U64Max
    BY ZenonT(90), <2>1, RowFields, TransferredRow
  <2> HIDE DEF t
  <2>3. FileOK(f) /\ Evolves(data, f) /\ o \in Live(f) /\ f.rows[o] = t
    BY ZenonT(90), <2>1, <2>2, RewriteOK
  <2>4. /\ g \in LeaseGrant
        /\ g.operation_id = o /\ g.generation = t.lease_generation /\ g.holder = t.lease_holder
    <3>1. o \in Operations
      BY ZenonT(90), <2>1, FileFields DEF FileOK
    <3> QED BY ZenonT(90), <2>2, <3>1 DEF LeaseGrant
  <2> HIDE DEF f, g
  <2>5. Publishes(h, f, {}, {g})
    BY ZenonT(90), <2>1, <2>3, <2>4 DEF CallsForGrant, Publishes
  <2> QED BY <2>5
<1>5. ASSUME NEW o \in Operations, RequestCancel(h, o)
      PROVE  Result
  <2> DEFINE r == data.rows[o]
             t == [r EXCEPT !.cancel_requested = TRUE,
                            !.state = IF @ = "terminal" THEN @ ELSE "cancelling"]
             f == WithRow(data, t)
             a == [fact |-> "cancelled", operation_id |-> o, key |-> None]
  <2>1. FileOK(data) /\ o \in Live(data) /\ Calls(h, f, {a})
    BY <1>0, <1>5 DEF RequestCancel, Rewrites
  <2>2. t \in OperationRow /\ LaterRow(r, t) /\ SameFamily(r, t) /\ t.cancel_requested
    <3>1. r \in OperationRow /\ r.lease_generation \in Nat /\ r.state # "quarantined"
      BY <2>1, RowFields
    <3> HIDE DEF r
    <3> QED BY <3>1, CancelledRow, ZenonT(90)
  <2> HIDE DEF t
  <2>3. FileOK(f) /\ Evolves(data, f) /\ o \in Live(f) /\ f.rows[o] = t
    BY ZenonT(90), <2>1, <2>2, RewriteOK
  <2> HIDE DEF f
  <2>4. Knows(f, a)
    BY <2>2, <2>3, RewriteKnows
  <2>5. Publishes(h, f, {a}, {})
    BY <2>1, <2>3, <2>4, CallPublishes
  <2> QED BY <2>5
<1>6. ASSUME NEW o \in Operations, NEW s \in Cursors, AdvanceCursor(h, o, s)
      PROVE  Result
  <2> DEFINE r == data.rows[o]
             t == [r EXCEPT !.projection_cursor = IF @ > s THEN @ ELSE s]
             f == WithRow(data, t)
  <2>1. FileOK(data) /\ o \in Live(data) /\ Calls(h, f, {})
    BY <1>0, <1>6 DEF AdvanceCursor, Rewrites
  <2>2. t \in OperationRow /\ LaterRow(r, t) /\ SameFamily(r, t)
    BY <2>1, RowFields, AdvancedRow
  <2> HIDE DEF t
  <2>3. FileOK(f) /\ Evolves(data, f)
    BY <2>1, <2>2, RewriteOK
  <2> HIDE DEF f
  <2>4. Publishes(h, f, {}, {})
    BY <2>1, <2>3, CallPublishes
  <2> QED BY <2>4
<1>7. ASSUME NEW o \in Operations, SetTerminal(h, o)
      PROVE  Result
  <2> DEFINE r == data.rows[o]
             t == [r EXCEPT !.state = "terminal"]
             f == WithRow(data, t)
             a == [fact |-> "terminal", operation_id |-> o, key |-> None]
  <2>1. FileOK(data) /\ o \in Live(data) /\ Calls(h, f, {a})
    BY <1>0, <1>7 DEF SetTerminal, Rewrites
  <2>2. t \in OperationRow /\ LaterRow(r, t) /\ SameFamily(r, t) /\ t.state = "terminal"
    BY <2>1, RowFields, TerminalRow
  <2> HIDE DEF t
  <2>3. FileOK(f) /\ Evolves(data, f) /\ o \in Live(f) /\ f.rows[o] = t
    BY ZenonT(90), <2>1, <2>2, RewriteOK
  <2> HIDE DEF f
  <2>4. Knows(f, a)
    BY <2>2, <2>3, RewriteKnows
  <2>5. Publishes(h, f, {a}, {})
    BY <2>1, <2>3, <2>4, CallPublishes
  <2> QED BY <2>5
<1>8. ASSUME NEW o \in Operations, Quarantine(h, o)
      PROVE  Result
  <2> DEFINE f == [rows |-> Restrict(data.rows, Live(data) \ {o}),
                   quarantined |-> data.quarantined
                                      \cup {[data.rows[o] EXCEPT !.state = "quarantined"]}]
             a == [fact |-> "quarantined", operation_id |-> o, key |-> None]
  <2>1. FileOK(data) /\ o \in Live(data) /\ Calls(h, f, {a})
    BY <1>0, <1>8 DEF Quarantine
  <2>2. FileOK(f) /\ Evolves(data, f) /\ Knows(f, a)
    BY <2>1, QuarantineOK
  <2> HIDE DEF f
  <2>3. Publishes(h, f, {a}, {})
    BY <2>1, <2>2, CallPublishes
  <2> QED BY <2>3
<1> HIDE DEF Result
<1>9. Result
  BY ZenonT(90), <1>1, <1>2, <1>3, <1>4, <1>5, <1>6, <1>7, <1>8 DEF Operate
<1> QED BY <1>9 DEF Result

-----------------------------------------------------------------------------
(* The inductive invariant.                                                *)

(* A grant is held by some process.                                        *)
LEMMA HeldGrantsIs ==
    ASSUME NEW g
    PROVE  g \in HeldGrants <=> \E h \in Handles : g \in grants[h]
BY DEF HeldGrants

(* The visible file is well formed.                                        *)
LEMMA DataOK ==
    ASSUME TypeOK, FilesOK, data # NoFile
    PROVE  FileOK(data)
BY DEF TypeOK, FilesOK

(* The invariant holds before the first open.                              *)
LEMMA InitIInv ==
    ASSUME Init
    PROVE  IInv
<1>1. TypeOK /\ FilesOK /\ MarkerOK
  BY DEF Init, TypeOK, FilesOK, MarkerOK
<1>2. GrantsOK
  BY HeldGrantsIs DEF Init, GrantsOK
<1> QED BY <1>1, <1>2 DEF IInv

(* A step that adds no grant and leaves the visible file, or writes one    *)
(* that evolves from it.                                                   *)
LEMMA GrantsKept ==
    ASSUME IInv, \A h \in Handles : grants'[h] \subseteq grants[h],
           data' = data \/ (data # NoFile /\ FileOK(data') /\ Evolves(data, data'))
    PROVE  GrantsOK'
<1>1. \A g \in HeldGrants' : g \in HeldGrants
  BY ZenonT(90) DEF HeldGrants
<1>2. \A g \in HeldGrants : g \in LeaseGrant
  BY HeldGrantsIs DEF IInv, TypeOK
<1>3. ASSUME NEW g \in HeldGrants', data' # NoFile
      PROVE  Covers(data', g)
  <2>1. CASE data' = data
    BY <1>1, <1>3, <2>1 DEF IInv, GrantsOK
  <2>2. CASE data # NoFile /\ FileOK(data') /\ Evolves(data, data')
    <3>1. g \in LeaseGrant /\ Covers(data, g) /\ FileOK(data)
      BY ZenonT(90), <1>1, <1>2, <2>2, DataOK DEF IInv, GrantsOK
    <3> QED BY ZenonT(90), <2>2, <3>1, EvolvesCovers DEF FileOK
  <2> QED BY <2>1, <2>2
<1>4. \A g, k \in HeldGrants' :
          g.operation_id = k.operation_id /\ g.generation = k.generation
             => g.holder = k.holder
  BY ZenonT(90), <1>1 DEF IInv, GrantsOK
<1> QED BY ZenonT(90), <1>3, <1>4 DEF GrantsOK

(* The files after an update.                                              *)
LEMMA PublishedFiles ==
    ASSUME TypeOK, FilesOK, NEW f, FileOK(f),
           Persisted(f) \/ PersistFailed(f)
    PROVE  /\ data' \in surviving'
           /\ \A e \in surviving' : e # NoFile => FileOK(e)
           /\ data' = data \/ data' = f
           /\ surviving' \subseteq surviving \cup {f}
BY DEF TypeOK, FilesOK, Persisted, PersistFailed

(* A call preserves the invariant, whether its publication succeeds, fails *)
(* before the rename or fails after it: the grant of a publication that    *)
(* failed was handed to nobody.                                            *)
LEMMA PublishesIInv ==
    ASSUME IInv, NEW h \in Handles, NEW f, NEW facts, NEW new, Publishes(h, f, facts, new)
    PROVE  IInv'
<1>1. /\ data # NoFile /\ mode[h] = "open" /\ marker # "empty"
      /\ FileOK(data) /\ FileOK(f) /\ Evolves(data, f)
  BY ZenonT(90), DataOK DEF Publishes, Reads, IInv, MarkerOK
<1>2. Persisted(f) \/ PersistFailed(f)
  BY ZenonT(90) DEF Publishes, Updates, Uncertain
<1>3. /\ data' \in surviving'
      /\ \A e \in surviving' : e # NoFile => FileOK(e)
      /\ data' = data \/ data' = f
  BY <1>1, <1>2, PublishedFiles DEF IInv
<1>4. marker' = marker
  BY ZenonT(90) DEF Publishes, Updates, Uncertain
<1>5. mode' \in [Handles -> {"closed", "open", "uncertain"}]
  BY ZenonT(90) DEF Publishes, Updates, Uncertain, IInv, TypeOK
<1>6. grants' \in [Handles -> SUBSET LeaseGrant]
  BY ZenonT(90) DEF Publishes, Updates, Uncertain, IInv, TypeOK
<1>7. acked' \subseteq [fact : {"admitted", "cancelled", "terminal", "quarantined"},
                        operation_id : Operations, key : Keys \cup {None}]
  BY ZenonT(90) DEF Publishes, Updates, Uncertain, IInv, TypeOK
<1>8. TypeOK'
  BY <1>3, <1>4, <1>5, <1>6, <1>7 DEF IInv, TypeOK, FileOK
<1>9. FilesOK' /\ MarkerOK'
  BY ZenonT(90), <1>1, <1>3, <1>4 DEF FilesOK, MarkerOK
<1>10. GrantsOK'
  <2>1. CASE Uncertain(h, f)
    <3>1. grants' = grants
      BY <2>1 DEF Uncertain
    <3> QED BY ZenonT(90), <1>1, <1>3, <3>1, GrantsKept
  <2>2. CASE Updates(h, f, facts) /\ grants' = [grants EXCEPT ![h] = @ \cup new]
    <3>1. data' = f /\ data' # NoFile
      BY <1>1, <2>2, FileExists DEF Updates, Persisted, FileOK
    <3>2. \A g \in HeldGrants' : g \in HeldGrants \/ g \in new
      BY <2>2 DEF HeldGrants, IInv, TypeOK
    <3>3. \A g \in HeldGrants : g \in LeaseGrant /\ Covers(f, g)
      <4> TAKE g \in HeldGrants
      <4>1. g \in LeaseGrant
        BY HeldGrantsIs DEF IInv, TypeOK
      <4>2. Covers(data, g)
        BY <1>1 DEF IInv, GrantsOK
      <4> QED BY <1>1, <4>1, <4>2, EvolvesCovers DEF FileOK
    <3>4. \A g \in new : /\ g \in LeaseGrant
                         /\ g.operation_id \in Live(f)
                         /\ g.generation = f.rows[g.operation_id].lease_generation
                         /\ g.holder = f.rows[g.operation_id].lease_holder
      BY ZenonT(90) DEF Publishes
    <3>5. \A g \in new : Covers(f, g)
      <4> TAKE g \in new
      <4>1. g.generation \in Nat
        BY <3>4, NumbersAssumption DEF LeaseGrant
      <4> QED BY <3>4, <4>1 DEF Covers, Known
    <3>6. ASSUME NEW g \in HeldGrants', NEW k \in HeldGrants',
                 g.operation_id = k.operation_id, g.generation = k.generation
          PROVE  g.holder = k.holder
      <4>1. CASE g \in HeldGrants /\ k \in HeldGrants
        BY <3>6, <4>1 DEF IInv, GrantsOK
      <4>2. CASE g \in new
        BY ZenonT(90), <3>2, <3>3, <3>4, <3>5, <3>6, <4>2 DEF Covers
      <4>3. CASE k \in new
        BY ZenonT(90), <3>2, <3>3, <3>4, <3>5, <3>6, <4>3 DEF Covers
      <4> QED BY <3>2, <4>1, <4>2, <4>3
    <3> QED BY <3>1, <3>2, <3>3, <3>5, <3>6 DEF GrantsOK
  <2> QED BY ZenonT(90), <2>1, <2>2 DEF Publishes
<1> QED BY <1>8, <1>9, <1>10 DEF IInv

(* What open, or an open that stops half way, does to the files: they stay, *)
(* or the empty file is written where no store was ever marked.            *)
OpensFiles ==
    \/ UNCHANGED <<data, surviving>>
    \/ /\ data = NoFile
       /\ marker = "empty"
       /\ Persisted(EmptyFile) \/ PersistFailed(EmptyFile)

(* open and its partial failures, as far as the invariant is concerned.    *)
LEMMA OpenIs ==
    ASSUME TypeOK, NEW h \in Handles, Open(h) \/ OpenFails(h)
    PROVE  /\ OpensFiles
           /\ marker' \in {"empty", "written", "synced"}
           /\ marker # "empty" => marker' # "empty"
           /\ mode' \in [Handles -> {"closed", "open", "uncertain"}]
           /\ mode' = mode \/ marker' # "empty"
           /\ UNCHANGED <<grants, acked>>
<1>1. CASE Open(h)
  <2>1. OpensFiles /\ UNCHANGED <<grants, acked>>
    BY <1>1 DEF Open, Openable, OpensFiles
  <2>2. marker' \in {"written", "synced"}
    BY <1>1 DEF Open, TypeOK
  <2>3. mode' \in [Handles -> {"closed", "open", "uncertain"}]
    BY <1>1 DEF Open, TypeOK
  <2> QED BY <2>1, <2>2, <2>3
<1>2. CASE OpenFails(h)
  <2>1. OpensFiles
    BY <1>2 DEF OpenFails, Openable, OpensFiles
  <2> QED BY ZenonT(90), <1>2, <2>1 DEF OpenFails, TypeOK
<1> QED BY <1>1, <1>2

(* Opening preserves the invariant: the empty file is only written while   *)
(* no process holds a handle or a grant.                                   *)
LEMMA OpenIInv ==
    ASSUME IInv, NEW h \in Handles, Open(h) \/ OpenFails(h)
    PROVE  IInv'
<1>1. /\ OpensFiles
      /\ marker' \in {"empty", "written", "synced"}
      /\ marker # "empty" => marker' # "empty"
      /\ mode' \in [Handles -> {"closed", "open", "uncertain"}]
      /\ mode' = mode \/ marker' # "empty"
      /\ UNCHANGED <<grants, acked>>
  BY OpenIs DEF IInv
<1>2. MarkerOK'
  BY <1>1 DEF IInv, MarkerOK
<1>3. CASE UNCHANGED <<data, surviving>>
  <2>1. TypeOK' /\ FilesOK'
    BY ZenonT(90), <1>1, <1>3 DEF IInv, TypeOK, FilesOK
  <2>2. GrantsOK'
    BY <1>1, <1>3, GrantsKept
  <2> QED BY <1>2, <2>1, <2>2 DEF IInv
<1>4. CASE /\ data = NoFile
           /\ marker = "empty"
           /\ Persisted(EmptyFile) \/ PersistFailed(EmptyFile)
  <2>1. /\ data' \in surviving'
        /\ \A e \in surviving' : e # NoFile => FileOK(e)
    BY ZenonT(90), <1>4, EmptyFileOK, PublishedFiles DEF IInv
  <2>2. TypeOK'
    BY ZenonT(90), <1>1, <2>1 DEF IInv, TypeOK, FileOK
  <2>3. FilesOK'
    BY <2>1 DEF FilesOK
  <2>4. \A k \in Handles : grants'[k] = {}
    BY <1>1, <1>4 DEF IInv, MarkerOK
  <2>5. HeldGrants' = {}
    BY <2>4 DEF HeldGrants
  <2>6. GrantsOK'
    BY <2>5 DEF GrantsOK
  <2> QED BY <1>2, <2>2, <2>3, <2>6 DEF IInv
<1> QED BY <1>1, <1>3, <1>4 DEF OpensFiles

(* Crashes, power losses and the removal of the file preserve the          *)
(* invariant.                                                              *)
LEMMA FaultIInv ==
    ASSUME IInv,
           \/ \E h \in Handles : UpdateFindsNoFile(h) \/ ProcessCrash(h)
           \/ PowerLoss
           \/ DataFileVanishes
           \/ UNCHANGED vars
    PROVE  IInv'
<1>1. CASE \E h \in Handles : UpdateFindsNoFile(h) \/ ProcessCrash(h)
  <2>1. PICK h \in Handles : UpdateFindsNoFile(h) \/ ProcessCrash(h)
    BY <1>1
  <2>2. UNCHANGED <<data, surviving, marker, acked>>
    BY <2>1 DEF UpdateFindsNoFile, ProcessCrash
  <2>3. /\ mode' \in [Handles -> {"closed", "open", "uncertain"}]
        /\ \A k \in Handles : mode'[k] = "open" => mode[k] = "open"
    BY ZenonT(90), <2>1 DEF UpdateFindsNoFile, ProcessCrash, IInv, TypeOK
  <2>4. /\ grants' \in [Handles -> SUBSET LeaseGrant]
        /\ \A k \in Handles : grants'[k] \subseteq grants[k]
    BY ZenonT(90), <2>1 DEF UpdateFindsNoFile, ProcessCrash, IInv, TypeOK
  <2>5. TypeOK' /\ FilesOK'
    BY ZenonT(90), <2>2, <2>3, <2>4 DEF IInv, TypeOK, FilesOK
  <2>6. MarkerOK'
    BY ZenonT(90), <2>2, <2>3, <2>4 DEF IInv, MarkerOK
  <2>7. GrantsOK'
    BY ZenonT(90), <2>2, <2>4, GrantsKept
  <2> QED BY <2>5, <2>6, <2>7 DEF IInv
<1>2. CASE PowerLoss
  <2>1. TypeOK'
    BY ZenonT(90), <1>2 DEF PowerLoss, IInv, TypeOK
  <2>2. FilesOK'
    BY <1>2 DEF PowerLoss, IInv, FilesOK
  <2>3. MarkerOK'
    BY <1>2 DEF PowerLoss, MarkerOK
  <2>4. HeldGrants' = {}
    BY <1>2 DEF PowerLoss, HeldGrants
  <2> QED BY <2>1, <2>2, <2>3, <2>4 DEF IInv, GrantsOK
<1>3. CASE DataFileVanishes
  <2>1. TypeOK' /\ FilesOK' /\ MarkerOK'
    BY ZenonT(90), <1>3 DEF DataFileVanishes, IInv, TypeOK, FilesOK, MarkerOK
  <2>2. data' = NoFile /\ HeldGrants' = HeldGrants
    BY ZenonT(90), <1>3 DEF DataFileVanishes, HeldGrants
  <2>3. GrantsOK'
    BY <2>2 DEF IInv, GrantsOK
  <2> QED BY <2>1, <2>3 DEF IInv
<1>4. CASE UNCHANGED vars
  <2>1. TypeOK' /\ FilesOK' /\ MarkerOK'
    BY ZenonT(90), <1>4 DEF vars, IInv, TypeOK, FilesOK, MarkerOK
  <2>2. GrantsOK'
    BY <1>4, GrantsKept DEF vars
  <2> QED BY <2>1, <2>2 DEF IInv
<1> QED BY <1>1, <1>2, <1>3, <1>4

(* The kinds of step.                                                      *)
LEMMA NextIs ==
    ASSUME IInv, [Next]_vars
    PROVE  \/ \E h \in Handles : \E f, facts, new : Publishes(h, f, facts, new)
           \/ \E h \in Handles : Open(h) \/ OpenFails(h)
           \/ \/ \E h \in Handles : UpdateFindsNoFile(h) \/ ProcessCrash(h)
              \/ PowerLoss
              \/ DataFileVanishes
              \/ UNCHANGED vars
BY OperatePublishes, ZenonT(90) DEF IInv, Next, Process

(* Every step preserves the invariant.                                     *)
LEMMA NextIInv ==
    ASSUME IInv, [Next]_vars
    PROVE  IInv'
BY NextIs, PublishesIInv, OpenIInv, FaultIInv, ZenonT(90)

(* Every reachable state of the scheduler projection satisfies IInv.       *)
THEOREM SchedulerInvariant == Spec => []IInv
<1>1. Init => IInv
  BY InitIInv
<1>2. IInv /\ [Next]_vars => IInv'
  BY NextIInv
<1> QED BY <1>1, <1>2, PTL DEF Spec

(* The projection stays well typed: no counter of a row leaves the u64     *)
(* range, whatever sequence of acquisitions and transfers is made.         *)
THEOREM SchedulerTypes == Spec => []TypeOK
<1>1. IInv => TypeOK
  BY DEF IInv
<1> QED BY <1>1, SchedulerInvariant, PTL

(* read_current accepts every file that the store ever publishes, visible  *)
(* or left by a power loss: keys and operation ids stay unique among rows  *)
(* and tombstones.                                                         *)
THEOREM ReadableForever == Spec => []StoreStaysReadable
<1>1. IInv => StoreStaysReadable
  BY DEF IInv, TypeOK, FilesOK, FileOK, StoreStaysReadable
<1> QED BY <1>1, SchedulerInvariant, PTL

(* acquire_lease and transfer_lease never hand one fencing generation to   *)
(* two holders, also when publications fail after their rename and handles *)
(* are reopened, and no grant is ahead of the file.                        *)
THEOREM UniqueGenerations == Spec => []GenerationsAreUnique
<1>1. IInv => GenerationsAreUnique
  BY ZenonT(90) DEF IInv, GrantsOK, Covers, GenerationsAreUnique
<1> QED BY <1>1, SchedulerInvariant, PTL

(* project_child keeps parent and child rows in agreement in any order of  *)
(* admissions, projections and quarantines.                                *)
THEOREM FamiliesAgree == Spec => []ChildProjectionAgrees
<1>1. IInv => ChildProjectionAgrees
  <2> SUFFICES ASSUME IInv, data # NoFile, NEW c \in Live(data),
                      data.rows[c].parent_operation_id \in Live(data)
               PROVE  /\ c \in data.rows[data.rows[c].parent_operation_id].children
                      /\ data.rows[data.rows[c].parent_operation_id].root_operation_id
                            = data.rows[c].root_operation_id
    BY ZenonT(90) DEF ChildProjectionAgrees
  <2>1. FileOK(data)
    BY DataOK DEF IInv
  <2>2. data.rows[c].parent_operation_id # None
    BY ZenonT(90), <2>1, FileFields, NoneAssumption DEF FileOK
  <2> QED BY ZenonT(90), <2>1, <2>2 DEF FileOK, FamilyOK
<1> QED BY <1>1, SchedulerInvariant, PTL

(* A grant that validate_grant refuses is refused for as long as its       *)
(* process holds it.                                                       *)
THEOREM FencedForever == Spec => [][FencedStaysFenced]_vars
<1>1. ASSUME IInv, [Next]_vars PROVE FencedStaysFenced
  <2> SUFFICES ASSUME NEW h \in Handles, NEW g \in grants[h] \cap grants'[h],
                      ~GrantIsCurrent(data, g)
               PROVE  ~GrantIsCurrent(data', g)
    BY DEF FencedStaysFenced
  <2>1. /\ g \in LeaseGrant
        /\ marker # "empty"
        /\ data # NoFile => FileOK(data) /\ Covers(data, g)
    BY ZenonT(90), <1>1, HeldGrantsIs, DataOK DEF IInv, TypeOK, MarkerOK, GrantsOK
  <2>2. ASSUME NEW k \in Handles, NEW f, NEW facts, NEW new, Publishes(k, f, facts, new)
        PROVE  ~GrantIsCurrent(data', g)
    <3>1. data # NoFile /\ FileOK(f) /\ Evolves(data, f)
      BY ZenonT(90), <2>2 DEF Publishes, Reads
    <3>2. ~GrantIsCurrent(f, g)
      BY ZenonT(90), <2>1, <3>1, EvolvesFenced DEF FileOK
    <3>3. data' = data \/ data' = f
      BY ZenonT(90), <2>2 DEF Publishes, Updates, Uncertain, Persisted, PersistFailed
    <3> QED BY <3>2, <3>3
  <2>3. ASSUME NEW k \in Handles, Open(k) \/ OpenFails(k)
        PROVE  ~GrantIsCurrent(data', g)
    BY ZenonT(90), <1>1, <2>1, <2>3, OpenIs DEF OpensFiles, IInv
  <2>4. ASSUME NEW k \in Handles, UpdateFindsNoFile(k) \/ ProcessCrash(k)
        PROVE  ~GrantIsCurrent(data', g)
    BY ZenonT(90), <2>4 DEF UpdateFindsNoFile, ProcessCrash
  <2>5. ASSUME PowerLoss
        PROVE  FALSE
    BY ZenonT(90), <2>5 DEF PowerLoss
  <2>6. ASSUME DataFileVanishes
        PROVE  ~GrantIsCurrent(data', g)
    BY ZenonT(90), <2>6 DEF DataFileVanishes, GrantIsCurrent
  <2>7. ASSUME UNCHANGED vars
        PROVE  ~GrantIsCurrent(data', g)
    BY <2>7 DEF vars
  <2> QED BY <1>1, <2>2, <2>3, <2>4, <2>5, <2>6, <2>7, NextIs, ZenonT(90)
<1>2. IInv /\ [Next]_vars => [FencedStaysFenced]_vars
  BY ZenonT(90), <1>1
<1> QED BY <1>2, SchedulerInvariant, PTL DEF Spec

-----------------------------------------------------------------------------
(* Acknowledged facts.                                                     *)

(* A call acknowledges only what the file it synced remembers.             *)
LEMMA PublishesAcked ==
    ASSUME IInv, AckedOK, NEW h \in Handles, NEW f, NEW facts, NEW new,
           Publishes(h, f, facts, new)
    PROVE  AckedOK'
<1>1. /\ data # NoFile /\ marker # "empty" /\ marker' = marker
      /\ FileOK(data) /\ FileOK(f) /\ Evolves(data, f) /\ data \in surviving
      /\ f # NoFile
  <2>1. data # NoFile /\ mode[h] = "open" /\ FileOK(f) /\ Evolves(data, f)
    BY ZenonT(90) DEF Publishes, Reads
  <2>2. data \in surviving /\ marker # "empty" /\ FileOK(data)
    BY ZenonT(90), <2>1, DataOK DEF IInv, TypeOK, MarkerOK
  <2>3. marker' = marker
    BY ZenonT(90) DEF Publishes, Updates, Uncertain
  <2> QED BY ZenonT(90), <2>1, <2>2, <2>3, FileExists DEF FileOK
<1>2. ASSUME NEW a \in acked PROVE Knows(f, a)
  <2>1. Knows(data, a)
    BY <1>1 DEF AckedOK
  <2>2. a.fact \in {"admitted", "cancelled", "terminal", "quarantined"}
    BY DEF IInv, TypeOK
  <2> QED BY ZenonT(90), <1>1, <2>1, <2>2, EvolvesKnows DEF FileOK
<1>3. CASE Updates(h, f, facts)
  <2>1. surviving' = {f} /\ acked' = acked \cup facts
    BY <1>3 DEF Updates, Persisted
  <2>2. \A a \in facts : Knows(f, a)
    BY ZenonT(90) DEF Publishes
  <2> QED BY ZenonT(90), <1>1, <1>2, <2>1, <2>2 DEF AckedOK
<1>4. CASE Uncertain(h, f)
  <2>1. acked' = acked /\ surviving' \subseteq surviving \cup {f}
    BY <1>4 DEF Uncertain, Persisted, PersistFailed
  <2> QED BY <1>1, <1>2, <2>1 DEF AckedOK
<1> QED BY ZenonT(90), <1>3, <1>4 DEF Publishes

(* open does not start a store over an acknowledged fact.                  *)
LEMMA OpenAcked ==
    ASSUME IInv, AckedOK, "power" \notin Faults \/ "vanish" \notin Faults,
           NEW h \in Handles, Open(h) \/ OpenFails(h)
    PROVE  AckedOK'
<1>1. /\ OpensFiles
      /\ marker # "empty" => marker' # "empty"
      /\ acked' = acked
  BY OpenIs DEF IInv
<1>2. CASE UNCHANGED <<data, surviving>>
  BY <1>1, <1>2 DEF AckedOK
<1>3. CASE data = NoFile /\ marker = "empty"
  <2>1. acked = {}
    BY <1>3 DEF AckedOK, IInv, TypeOK
  <2> QED BY <1>1, <2>1 DEF AckedOK
<1> QED BY <1>1, <1>2, <1>3 DEF OpensFiles

(* No fault brings back a file from before an acknowledgement.             *)
LEMMA FaultAcked ==
    ASSUME IInv, AckedOK,
           \/ \E h \in Handles : UpdateFindsNoFile(h) \/ ProcessCrash(h)
           \/ PowerLoss
           \/ DataFileVanishes
           \/ UNCHANGED vars
    PROVE  AckedOK'
<1>1. CASE \E h \in Handles : UpdateFindsNoFile(h) \/ ProcessCrash(h)
  BY ZenonT(90), <1>1 DEF UpdateFindsNoFile, ProcessCrash, AckedOK
<1>2. CASE PowerLoss
  BY ZenonT(90), <1>2 DEF PowerLoss, AckedOK
<1>3. CASE DataFileVanishes
  BY <1>3 DEF DataFileVanishes, AckedOK
<1>4. CASE UNCHANGED vars
  BY <1>4 DEF vars, AckedOK
<1> QED BY <1>1, <1>2, <1>3, <1>4

(* What the store acknowledged is in every file that it, or a power loss,  *)
(* leaves.  The hypothesis excludes only that the data file is removed     *)
(* from outside in a history that also has power losses: an unsynced       *)
(* marker may then be lost with it, and the store starts afresh            *)
(* (TombstonesAreNotForgotten fails).                                      *)
THEOREM FactsSurvive ==
    ASSUME "power" \notin Faults \/ "vanish" \notin Faults
    PROVE  Spec => []AcknowledgedFactsSurvive
<1>1. Init => AckedOK
  BY DEF Init, AckedOK
<1>2. IInv /\ AckedOK /\ [Next]_vars => AckedOK'
  BY NextIs, PublishesAcked, OpenAcked, FaultAcked, ZenonT(90)
<1>3. IInv /\ AckedOK => AcknowledgedFactsSurvive
  BY DEF IInv, TypeOK, AckedOK, Knows, AcknowledgedFactsSurvive
<1> QED BY <1>1, <1>2, <1>3, SchedulerInvariant, PTL DEF Spec

(* Whatever fails between a rename and its answer, a fencing generation    *)
(* has one holder and a superseded grant stays refused.                    *)
THEOREM LeasesStayFenced == Spec => LeasesAreFenced
  BY UniqueGenerations, FencedForever, PTL DEF LeasesAreFenced

(* No sequence of calls, failed publications, crashes and power losses     *)
(* leaves a file that read_current refuses, or one whose families          *)
(* disagree.                                                               *)
THEOREM FilesAreWellFormed == Spec => []FilesStayWellFormed
<1>1. StoreStaysReadable /\ ChildProjectionAgrees => FilesStayWellFormed
  BY DEF FilesStayWellFormed
<1> QED BY <1>1, ReadableForever, FamiliesAgree, PTL
=============================================================================
