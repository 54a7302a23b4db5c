------------------------- MODULE PermitStoreProofs --------------------------
(***************************************************************************)
(* Proofs about PermitStore, for every set of proposals and every fault:   *)
(* the records stay readable, the allocations cover the children, every    *)
(* attempt runs at most once and in time, and the store implements         *)
(* PermitUse.                                                              *)
(*                                                                         *)
(* The invariant speaks of every content a power loss may leave, not only  *)
(* of the one readers see: each of them is well-formed by itself and backs *)
(* every answer given so far.  What a call writes is never compared with   *)
(* the contents that survive from before it; it is enough that it evolves  *)
(* from the visible one.                                                   *)
(***************************************************************************)
EXTENDS PermitStore, FiniteSetTheorems, TLAPS

(* What is true of the record of permit i in content d.                    *)
RecordOK(d, i) ==
    LET r == d.records[i]
        parent == r.permit.binding.parent
    IN /\ r \in Record
       /\ PermitId(r.permit) = i
       /\ RecordIsValid(d, r)
       /\ r.permit.ceiling # None => Allocated(r) <= r.permit.ceiling.budget
       /\ parent # None => /\ parent \in DOMAIN d.records
                           /\ i \in d.records[parent].child_allocations

IsContent(d) ==
    d = [records |-> d.records, families |-> d.families, fenced |-> d.fenced]

IsFamily(f) ==
    f = [operation |-> f.operation, max_attempts |-> f.max_attempts, attempts |-> f.attempts]

ContentOK(d) ==
    /\ IsContent(d)
    /\ DOMAIN d.records \subseteq PermitIds
    /\ \A i \in DOMAIN d.records : RecordOK(d, i)
    /\ \A i \in DOMAIN d.families : IsFamily(d.families[i])

(* Content d shows every consumption and revocation that was answered.     *)
Backs(d) ==
    /\ \A i \in DOMAIN uses :
          /\ i \in DOMAIN d.records
          /\ d.records[i].state = "consumed"
          /\ i.binding.tool = NormalChat => d.records[i].retained # None
    /\ \A i \in revoked : i \in DOMAIN d.records /\ d.records[i].state = "revoked"

(* The visible content shows every receipt answered since power was lost.  *)
ReceiptsBacked ==
    \A x \in receipts :
        /\ x = [permit |-> x.permit, kind |-> x.kind, body |-> x.body]
        /\ x.permit \in DOMAIN disk.records
        /\ x.body # None
        /\ x.body = IF x.kind = "outcome" THEN disk.records[x.permit].outcome
                    ELSE disk.records[x.permit].settlement

IInv ==
    /\ disk \in surviving
    /\ \A d \in surviving : ContentOK(d) /\ Backs(d)
    /\ ReceiptsBacked
    /\ clock \in Times

(* A record that may replace q: once it is no longer issued its state, and *)
(* once they are written its receipts, are final.                          *)
Later(q, r) ==
    /\ q.state # "issued" => r.state = q.state
    /\ q.retained # None => r.retained = q.retained
    /\ q.outcome # None => r.outcome = q.outcome
    /\ q.settlement # None => r.settlement = q.settlement

Evolves(d, c) ==
    \A i \in DOMAIN d.records : i \in DOMAIN c.records /\ Later(d.records[i], c.records[i])

-----------------------------------------------------------------------------
(* The directory.                                                          *)

(* A call whose files are of H, stopped or not, leaves a visible content   *)
(* of H that survives, and no content of elsewhere.                        *)
LEMMA CallContents ==
    ASSUME NEW H, disk \in H, disk \in surviving, NEW steps \in Seq(H),
           Replaced(steps) \/ Unanswered(steps)
    PROVE  /\ disk' \in surviving' /\ disk' \in H
           /\ surviving' \subseteq surviving \cup H
<1>1. Len(steps) \in Nat /\ \A k \in 1 .. Len(steps) : steps[k] \in H
  OBVIOUS
<1>2. CASE Replaced(steps)
  <2>1. CASE steps = << >>
    BY <1>2, <2>1 DEF Replaced, directory
  <2>2. CASE steps # << >>
    <3>1. steps[Len(steps)] \in H
      BY <2>2
    <3> QED BY <1>2, <2>2, <3>1 DEF Replaced
  <2> QED BY <2>1, <2>2
<1>3. ASSUME NEW k \in 1 .. Len(steps), StopsAt(steps, k)
      PROVE  /\ disk' \in surviving' /\ disk' \in H
             /\ surviving' \subseteq surviving \cup H
  <2>1. steps[k] \in H /\ (k # 1 => steps[k - 1] \in H)
    BY <1>1
  <2> QED BY ZenonT(90), <1>3, <2>1 DEF StopsAt
<1> QED BY ZenonT(90), <1>2, <1>3 DEF Unanswered

(* A call that replaces one file and is answered.                          *)
LEMMA OneFileReplaced ==
    ASSUME NEW c, Replaced(<<c>>)
    PROVE  disk' = c /\ surviving' = {c}
<1>1. <<c>> # << >> /\ Len(<<c>>) = 1 /\ <<c>>[1] = c
  OBVIOUS
<1> QED BY ZenonT(90), <1>1 DEF Replaced

(* A call that replaces one file.                                          *)
LEMMA OneFile ==
    ASSUME NEW c, disk \in surviving, Replaced(<<c>>) \/ Unanswered(<<c>>)
    PROVE  /\ disk' \in surviving' /\ disk' \in {disk, c}
           /\ surviving' \subseteq surviving \cup {disk, c}
<1>1. <<c>> \in Seq({disk, c})
  OBVIOUS
<1> QED BY ZenonT(90), <1>1, CallContents

-----------------------------------------------------------------------------
(* Permits and records.                                                    *)

(* What a permit id says of the permit.                                    *)
LEMMA IdFields ==
    ASSUME NEW p
    PROVE  /\ PermitId(p).binding.parent = p.binding.parent
           /\ PermitId(p).binding.tool = p.binding.tool
           /\ PermitId(p).binding.args = p.binding.args
  BY DEF PermitId, BindingIdentity

(* A new record is a record.                                               *)
LEMMA NewRecordIs ==
    ASSUME NEW p \in Proposals
    PROVE  NewRecord(p) \in Record
<1>1. 0 \in Times
  BY TimesAssumption DEF Times
<1> QED BY ZenonT(90), <1>1 DEF NewRecord, Record

(* Content c is content d with record r under i.                           *)
Holds(c, d, i, r) ==
    /\ IsContent(c)
    /\ DOMAIN c.records = DOMAIN d.records \cup {i}
    /\ c.records[i] = r
    /\ \A j \in DOMAIN d.records : j # i => c.records[j] = d.records[j]
    /\ c.families = d.families /\ c.fenced = d.fenced

(* WithRecord writes one record.                                           *)
LEMMA WithRecordIs ==
    ASSUME NEW d, IsContent(d), NEW r
    PROVE  Holds(WithRecord(d, r), d, PermitId(r.permit), r)
<1> DEFINE c == WithRecord(d, r)
           i == PermitId(r.permit)
<1>1. /\ IsContent(c)
      /\ c.records = With(d.records, i, r)
      /\ c.families = d.families /\ c.fenced = d.fenced
  BY DEF WithRecord, IsContent
<1> HIDE DEF c, i
<1>2. Holds(c, d, i, r)
  BY ZenonT(90), <1>1 DEF With, Holds
<1> QED BY ZenonT(90), <1>2 DEF c, i

(* Whether a record is valid depends on the journal alone.                 *)
LEMMA ValidStays ==
    ASSUME NEW d, NEW c, c.families = d.families, NEW r, RecordIsValid(d, r)
    PROVE  RecordIsValid(c, r)
  BY ZenonT(90) DEF RecordIsValid, InJournal

(* Record r may replace the one of permit i in content d.                  *)
MayReplace(d, i, r) ==
    /\ r \in Record
    /\ r.permit = d.records[i].permit
    /\ d.records[i].child_allocations \subseteq r.child_allocations
    /\ r.permit.ceiling # None => Allocated(r) <= r.permit.ceiling.budget
    /\ RecordIsValid(d, r)
    /\ Later(d.records[i], r)

(* Content c is content d with record r instead of the one of permit i.    *)
Rewritten(d, c, i, r) ==
    /\ ContentOK(c)
    /\ Evolves(d, c)
    /\ DOMAIN c.records = DOMAIN d.records
    /\ c.records[i] = r

(* A record is rewritten: its permit stays, its allocations may grow.      *)
LEMMA RewriteOK ==
    ASSUME NEW d, ContentOK(d), NEW i \in DOMAIN d.records, NEW r, MayReplace(d, i, r)
    PROVE  Rewritten(d, WithRecord(d, r), i, r)
<1> USE DEF MayReplace
<1> DEFINE c == WithRecord(d, r)
<1>1. PermitId(r.permit) = i
  BY ZenonT(90) DEF ContentOK, RecordOK
<1>2. /\ IsContent(c)
      /\ DOMAIN c.records = DOMAIN d.records
      /\ c.records[i] = r
      /\ \A j \in DOMAIN d.records : j # i => c.records[j] = d.records[j]
      /\ c.families = d.families
  <2>1. DOMAIN d.records \cup {i} = DOMAIN d.records
    OBVIOUS
  <2>2. IsContent(d)
    BY ZenonT(90) DEF ContentOK
  <2>3. Holds(c, d, i, r)
    BY ZenonT(90), <1>1, <2>2, WithRecordIs
  <2> HIDE DEF c
  <2> QED BY ZenonT(90), <2>1, <2>3 DEF Holds
<1> HIDE DEF c
<1>3. \A j \in DOMAIN d.records : d.records[j].child_allocations \subseteq c.records[j].child_allocations
  BY ZenonT(90), <1>2
<1>4. ASSUME NEW j \in DOMAIN d.records PROVE RecordOK(c, j)
  <2>1. /\ c.records[j] \in Record /\ PermitId(c.records[j].permit) = j
        /\ c.records[j].permit = d.records[j].permit
    BY ZenonT(90), <1>1, <1>2 DEF ContentOK, RecordOK
  <2>2. RecordIsValid(d, c.records[j])
    BY ZenonT(90), <1>2 DEF ContentOK, RecordOK
  <2>3. RecordIsValid(c, c.records[j])
    BY ZenonT(90), <1>2, <2>2, ValidStays
  <2>4. c.records[j].permit.ceiling # None =>
            Allocated(c.records[j]) <= c.records[j].permit.ceiling.budget
    BY ZenonT(90), <1>2 DEF ContentOK, RecordOK
  <2>5. LET parent == d.records[j].permit.binding.parent
        IN parent # None => parent \in DOMAIN d.records /\ j \in d.records[parent].child_allocations
    BY ZenonT(90) DEF ContentOK, RecordOK
  <2> QED BY ZenonT(90), <1>2, <1>3, <2>1, <2>3, <2>4, <2>5 DEF RecordOK
<1>5. ContentOK(c)
  BY ZenonT(90), <1>2, <1>4 DEF ContentOK
<1>6. Evolves(d, c)
  BY ZenonT(90), <1>2 DEF Evolves, Later
<1> QED BY ZenonT(90), <1>2, <1>5, <1>6 DEF c, Rewritten

(* A record is added whose parent has it among its allocations.            *)
LEMMA PublishOK ==
    ASSUME NEW d, ContentOK(d), NEW p \in Proposals, PermitId(p) \notin DOMAIN d.records,
           p.binding.parent # None =>
               /\ p.binding.parent \in DOMAIN d.records
               /\ PermitId(p) \in d.records[p.binding.parent].child_allocations
    PROVE  /\ ContentOK(WithRecord(d, NewRecord(p)))
           /\ Evolves(d, WithRecord(d, NewRecord(p)))
<1> DEFINE r == NewRecord(p)
           i == PermitId(p)
           c == WithRecord(d, r)
<1>1. /\ r \in Record /\ r.permit = p /\ r.child_allocations = {} /\ r.state = "issued"
      /\ r.preflight = None /\ r.outcome = None /\ r.retained = None /\ r.settlement = None
  BY NewRecordIs DEF NewRecord
<1>2. i \in PermitIds
  BY DEF PermitIds
<1> HIDE DEF r, i
<1>3. /\ IsContent(c)
      /\ DOMAIN c.records = DOMAIN d.records \cup {i}
      /\ c.records[i] = r
      /\ \A j \in DOMAIN d.records : c.records[j] = d.records[j]
      /\ c.families = d.families
  <2>1. i = PermitId(r.permit) /\ \A j \in DOMAIN d.records : j # i
    BY ZenonT(90), <1>1 DEF i
  <2>2. IsContent(d)
    BY ZenonT(90) DEF ContentOK
  <2>3. Holds(c, d, i, r)
    BY ZenonT(90), <2>1, <2>2, WithRecordIs
  <2> HIDE DEF c
  <2> QED BY ZenonT(90), <2>1, <2>3 DEF Holds
<1> HIDE DEF c
<1>4. ASSUME NEW j \in DOMAIN d.records PROVE RecordOK(c, j)
  <2>1. RecordIsValid(d, d.records[j])
    BY ZenonT(90) DEF ContentOK, RecordOK
  <2>2. RecordIsValid(c, c.records[j])
    BY ZenonT(90), <1>3, <2>1, ValidStays
  <2> QED BY ZenonT(90), <1>3, <2>2 DEF ContentOK, RecordOK
<1>5. RecordOK(c, i)
  <2>1. RecordIsValid(c, r)
    BY ZenonT(90), <1>1 DEF RecordIsValid, ReceiptsBind, RetainedBinds
  <2>2. Allocated(r) = 0
    <3>1. UNION {{j} \X (1 .. j.binding.budget) : j \in {}} = {}
      OBVIOUS
    <3> QED BY <1>1, <3>1, FS_EmptySet DEF Allocated, BudgetOf
  <2>3. p.ceiling # None => 0 <= p.ceiling.budget
    BY BudgetsAssumption
  <2> QED BY ZenonT(90), <1>1, <1>3, <2>1, <2>2, <2>3 DEF RecordOK, i
<1>6. ContentOK(c)
  BY ZenonT(90), <1>2, <1>3, <1>4, <1>5 DEF ContentOK
<1>7. Evolves(d, c)
  BY ZenonT(90), <1>3 DEF Evolves, Later
<1> QED BY ZenonT(90), <1>6, <1>7 DEF c, r

(* The journal gains an attempt whose number no record refers to.          *)
LEMMA JournalOK ==
    ASSUME NEW d, ContentOK(d), NEW p \in Proposals, NEW c \in ReserveAttempt(d, p)
    PROVE  ContentOK(c) /\ Evolves(d, c) /\ c.records = d.records
<1> DEFINE b == p.binding
           f == Family(d, b)
           n == b.args.number
           e == [attempt |-> b.args, permit |-> PermitId(p)]
           g == [f EXCEPT !.attempts = With(@, n, e)]
<1>1. CASE c = d
  BY ZenonT(90), <1>1 DEF Evolves, Later
<1>2. CASE c # d
  <2>1. c = WithAttempt(d, p, f) /\ n \notin DOMAIN f.attempts
    BY ZenonT(90), <1>2 DEF ReserveAttempt
  <2>2. IsFamily(f)
    BY ZenonT(90) DEF Family, ContentOK, IsFamily
  <2>3. f.attempts = f.attempts /\ (b.parent \in DOMAIN d.families => f = d.families[b.parent])
    BY ZenonT(90) DEF Family
  <2> HIDE DEF e, n, f, b
  <2>4. /\ IsFamily(g)
        /\ g.operation = f.operation /\ g.max_attempts = f.max_attempts
        /\ g.attempts = With(f.attempts, n, e)
    BY <2>2 DEF IsFamily
  <2>5. \A k \in DOMAIN f.attempts : k \in DOMAIN g.attempts /\ g.attempts[k] = f.attempts[k]
    BY ZenonT(90), <2>1, <2>4 DEF With
  <2> HIDE DEF g
  <2>6. /\ IsContent(c)
        /\ c.records = d.records
        /\ c.families = With(d.families, b.parent, g)
    <3>1. IsContent(d)
      BY ZenonT(90) DEF ContentOK
    <3>2. c = [d EXCEPT !.families = With(@, b.parent, g)]
      BY <2>1 DEF WithAttempt, b, g, n, e
    <3> QED BY <3>1, <3>2 DEF IsContent
  <2>7. /\ DOMAIN c.families = DOMAIN d.families \cup {b.parent}
        /\ c.families[b.parent] = g
        /\ \A k \in DOMAIN d.families : k # b.parent => c.families[k] = d.families[k]
    BY ZenonT(90), <2>6 DEF With
  <2>8. ASSUME NEW q, InJournal(d, q) PROVE InJournal(c, q)
    <3>1. CASE q.binding.parent = b.parent
      <4>1. /\ b.parent \in DOMAIN d.families /\ f = d.families[q.binding.parent]
            /\ f.operation = q.binding.args.operation
            /\ f.max_attempts = q.binding.args.max_attempts
            /\ q.binding.args.number \in DOMAIN f.attempts
            /\ f.attempts[q.binding.args.number] =
                  [attempt |-> q.binding.args, permit |-> PermitId(q)]
        BY ZenonT(90), <2>3, <2>8, <3>1 DEF InJournal
      <4>2. q.binding.parent \in DOMAIN c.families /\ c.families[q.binding.parent] = g
        BY ZenonT(90), <2>7, <3>1
      <4> QED BY ZenonT(90), <2>4, <2>5, <4>1, <4>2 DEF InJournal
    <3>2. CASE q.binding.parent # b.parent
      BY ZenonT(90), <2>7, <2>8, <3>2 DEF InJournal
    <3> QED BY <3>1, <3>2
  <2>9. ASSUME NEW i \in DOMAIN d.records PROVE RecordOK(c, i)
    <3>1. RecordIsValid(d, d.records[i])
      BY ZenonT(90) DEF ContentOK, RecordOK
    <3>2. RecordIsValid(c, d.records[i])
      BY ZenonT(90), <2>8, <3>1 DEF RecordIsValid
    <3> QED BY ZenonT(90), <2>6, <3>2 DEF ContentOK, RecordOK
  <2>10. \A i \in DOMAIN c.families : IsFamily(c.families[i])
    BY ZenonT(90), <2>4, <2>7 DEF ContentOK
  <2> QED BY ZenonT(90), <2>6, <2>9, <2>10 DEF ContentOK, Evolves, Later
<1> QED BY <1>1, <1>2

(* The parent's record gains an allocation within the ceiling.             *)
LEMMA AllocationOK ==
    ASSUME NEW d, ContentOK(d), NEW p \in Proposals, p.binding.parent \in DOMAIN d.records,
           WithinCeiling(p, d.records[p.binding.parent])
    PROVE  /\ ContentOK(WithAllocation(d, p))
           /\ Evolves(d, WithAllocation(d, p))
           /\ DOMAIN WithAllocation(d, p).records = DOMAIN d.records
           /\ PermitId(p) \in WithAllocation(d, p).records[p.binding.parent].child_allocations
<1> DEFINE parent == p.binding.parent
           q == d.records[parent]
           i == PermitId(p)
           r == [q EXCEPT !.child_allocations = @ \cup {i}]
<1>1. q \in Record /\ RecordIsValid(d, q)
  BY ZenonT(90) DEF ContentOK, RecordOK
<1>2. i \in PermitIds
  BY DEF PermitIds
<1>3. Allocated(r) <= q.permit.ceiling.budget
  BY ZenonT(90) DEF WithinCeiling
<1>4. WithAllocation(d, p) = WithRecord(d, r)
  BY ZenonT(90) DEF WithAllocation
<1> HIDE DEF q, i, parent
<1>5. /\ r \in Record /\ r.permit = q.permit /\ r.child_allocations = q.child_allocations \cup {i}
      /\ r.state = q.state /\ r.at = q.at /\ r.preflight = q.preflight /\ r.outcome = q.outcome
      /\ r.retained = q.retained /\ r.settlement = q.settlement
  BY <1>1, <1>2 DEF Record
<1> HIDE DEF r
<1>6. RecordIsValid(d, r)
  BY ZenonT(90), <1>1, <1>5 DEF RecordIsValid, ReceiptsBind, RetainedBinds
<1>7. Later(q, r)
  BY ZenonT(90), <1>5 DEF Later
<1>8. q.child_allocations \subseteq r.child_allocations /\ i \in r.child_allocations
  BY ZenonT(90), <1>5
<1>9. r.permit.ceiling # None => Allocated(r) <= r.permit.ceiling.budget
  BY ZenonT(90), <1>3, <1>5
<1>10. parent \in DOMAIN d.records /\ MayReplace(d, parent, r)
  BY ZenonT(90), <1>5, <1>6, <1>7, <1>8, <1>9 DEF parent, q, MayReplace
<1>11. Rewritten(d, WithRecord(d, r), parent, r)
  BY ZenonT(90), <1>10, RewriteOK
<1> QED BY ZenonT(90), <1>4, <1>8, <1>11 DEF parent, i, Rewritten

(* Contents evolve in steps.                                               *)
LEMMA EvolvesTransitive ==
    ASSUME NEW a, NEW b, NEW c, Evolves(a, b), Evolves(b, c)
    PROVE  Evolves(a, c)
<1> SUFFICES ASSUME NEW i \in DOMAIN a.records
             PROVE  i \in DOMAIN c.records /\ Later(a.records[i], c.records[i])
  BY ZenonT(90) DEF Evolves
<1>1. i \in DOMAIN b.records /\ Later(a.records[i], b.records[i])
  BY ZenonT(90) DEF Evolves
<1>2. i \in DOMAIN c.records /\ Later(b.records[i], c.records[i])
  BY ZenonT(90), <1>1 DEF Evolves
<1> QED BY ZenonT(90), <1>1, <1>2 DEF Later

(* A content evolves from itself.                                          *)
LEMMA EvolvesReflexive ==
    ASSUME NEW a
    PROVE  Evolves(a, a)
  BY ZenonT(90) DEF Evolves, Later

(* Every file that a call replaces while it issues a permit leaves a       *)
(* content in order.                                                       *)
LEMMA IssueContents ==
    ASSUME ContentOK(disk), NEW p \in Proposals,
           p.binding.parent # None =>
               /\ p.binding.parent \in DOMAIN disk.records
               /\ WithinCeiling(p, disk.records[p.binding.parent]),
           NEW j, ContentOK(j), Evolves(disk, j), j.records = disk.records
    PROVE  \E H : /\ disk \in H
                  /\ \A c \in H : ContentOK(c) /\ Evolves(disk, c)
                  /\ IssueSteps(p, j) \in Seq(H)
<1> DEFINE i == PermitId(p)
           parent == p.binding.parent
           reserved == IF parent = None THEN j ELSE WithAllocation(j, p)
           published == WithRecord(reserved, NewRecord(p))
           H == {disk, j, reserved} \cup (IF i \in DOMAIN disk.records THEN {} ELSE {published})
<1>1. /\ ContentOK(reserved) /\ Evolves(j, reserved)
      /\ DOMAIN reserved.records = DOMAIN disk.records
      /\ parent # None => /\ parent \in DOMAIN disk.records
                          /\ i \in reserved.records[parent].child_allocations
  <2>1. CASE parent = None
    BY ZenonT(90), <2>1, EvolvesReflexive
  <2>2. CASE parent # None
    BY ZenonT(90), <2>2, AllocationOK
  <2> QED BY <2>1, <2>2
<1>2. Evolves(disk, reserved)
  BY ZenonT(90), <1>1, EvolvesTransitive
<1> HIDE DEF reserved
<1>3. ASSUME i \notin DOMAIN disk.records
      PROVE  ContentOK(published) /\ Evolves(disk, published)
  <2>1. ContentOK(published) /\ Evolves(reserved, published)
    BY ZenonT(90), <1>1, <1>3, PublishOK
  <2> QED BY ZenonT(90), <1>2, <2>1, EvolvesTransitive
<1> DEFINE files1 == IF j = disk THEN << >> ELSE <<j>>
           files2 == IF parent = None THEN << >> ELSE <<reserved>>
           files3 == IF i \in DOMAIN disk.records THEN << >> ELSE <<published>>
<1>4. IssueSteps(p, j) = files1 \o files2 \o files3
  BY ZenonT(90) DEF IssueSteps, reserved
<1> HIDE DEF published, i, parent
<1>5. IssueSteps(p, j) \in Seq(H)
  <2>1. ASSUME NEW c, NEW b \in BOOLEAN, ~b => c \in H
        PROVE  (IF b THEN << >> ELSE <<c>>) \in Seq(H)
    <3>1. CASE b
      BY <3>1
    <3>2. CASE ~b
      BY <2>1, <3>2
    <3> QED BY <3>1, <3>2
  <2>2. files1 \in Seq(H) /\ files2 \in Seq(H) /\ files3 \in Seq(H)
    <3>1. j \in H /\ reserved \in H /\ (i \notin DOMAIN disk.records => published \in H)
      BY ZenonT(90)
    <3> QED BY ZenonT(90), <2>1, <3>1
  <2> HIDE DEF files1, files2, files3
  <2>3. files1 \o files2 \o files3 \in Seq(H)
    BY <2>2
  <2> QED BY ZenonT(90), <1>4, <2>3
<1>6. disk \in H /\ \A c \in H : ContentOK(c) /\ Evolves(disk, c)
  BY ZenonT(90), <1>1, <1>2, <1>3, EvolvesReflexive
<1> HIDE DEF H
<1> QED BY ZenonT(90), <1>5, <1>6

-----------------------------------------------------------------------------
(* Steps.                                                                  *)

(* What every step keeps and does.                                         *)
StepOK == IInv' /\ [Promise!Next]_(Promise!vars) /\ ConsumesFresh

(* A content that evolves from one that backs the answers backs them too.  *)
LEMMA BacksStays ==
    ASSUME NEW d, NEW c, Backs(d), Evolves(d, c)
    PROVE  Backs(c)
<1>1. ASSUME NEW i \in DOMAIN uses
      PROVE  /\ i \in DOMAIN c.records
             /\ c.records[i].state = "consumed"
             /\ i.binding.tool = NormalChat => c.records[i].retained # None
  <2>1. /\ i \in DOMAIN d.records
        /\ d.records[i].state = "consumed"
        /\ i.binding.tool = NormalChat => d.records[i].retained # None
    BY ZenonT(90) DEF Backs
  <2>2. i \in DOMAIN c.records /\ Later(d.records[i], c.records[i])
    BY ZenonT(90), <2>1 DEF Evolves
  <2>3. "consumed" # "issued"
    OBVIOUS
  <2> QED BY ZenonT(90), <2>1, <2>2, <2>3 DEF Later
<1>2. ASSUME NEW i \in revoked
      PROVE  i \in DOMAIN c.records /\ c.records[i].state = "revoked"
  <2>1. i \in DOMAIN d.records /\ d.records[i].state = "revoked"
    BY ZenonT(90) DEF Backs
  <2>2. i \in DOMAIN c.records /\ Later(d.records[i], c.records[i])
    BY ZenonT(90), <2>1 DEF Evolves
  <2>3. "revoked" # "issued"
    OBVIOUS
  <2> QED BY ZenonT(90), <2>1, <2>2, <2>3 DEF Later
<1> QED BY ZenonT(90), <1>1, <1>2 DEF Backs

(* So does it show the receipts.                                           *)
LEMMA ReceiptsStay ==
    ASSUME ReceiptsBacked, Evolves(disk, disk'), NEW x \in receipts
    PROVE  /\ x = [permit |-> x.permit, kind |-> x.kind, body |-> x.body]
           /\ x.permit \in DOMAIN disk'.records
           /\ x.body # None
           /\ x.body = IF x.kind = "outcome" THEN disk'.records[x.permit].outcome
                       ELSE disk'.records[x.permit].settlement
<1>1. /\ x = [permit |-> x.permit, kind |-> x.kind, body |-> x.body]
      /\ x.permit \in DOMAIN disk.records
      /\ x.body # None
      /\ x.body = IF x.kind = "outcome" THEN disk.records[x.permit].outcome
                  ELSE disk.records[x.permit].settlement
  BY ZenonT(90) DEF ReceiptsBacked
<1>2. x.permit \in DOMAIN disk'.records /\ Later(disk.records[x.permit], disk'.records[x.permit])
  BY ZenonT(90), <1>1 DEF Evolves
<1>3. CASE x.kind = "outcome"
  BY ZenonT(90), <1>1, <1>2, <1>3 DEF Later
<1>4. CASE x.kind # "outcome"
  BY ZenonT(90), <1>1, <1>2, <1>4 DEF Later
<1> QED BY <1>3, <1>4

(* A step that gives no answer.                                            *)
LEMMA QuietStep ==
    ASSUME IInv, NEW H, \A c \in H : ContentOK(c) /\ Evolves(disk, c),
           disk' \in surviving', disk' \in H, surviving' \subseteq surviving \cup H,
           UNCHANGED histories, clock' \in Times
    PROVE  StepOK
<1>1. UNCHANGED <<uses, revoked, receipts>>
  BY DEF histories
<1>2. ASSUME NEW c \in surviving' PROVE ContentOK(c) /\ Backs(c)'
  <2>1. Backs(disk)
    BY ZenonT(90) DEF IInv
  <2>2. ContentOK(c) /\ Backs(c)
    BY ZenonT(90), <2>1, BacksStays DEF IInv
  <2> QED BY ZenonT(90), <1>1, <2>2 DEF Backs
<1>3. ReceiptsBacked'
  <2>1. ReceiptsBacked /\ Evolves(disk, disk')
    BY ZenonT(90) DEF IInv
  <2> QED BY ZenonT(90), <1>1, <2>1, ReceiptsStay DEF ReceiptsBacked
<1>4. IInv'
  BY ZenonT(90), <1>2, <1>3 DEF IInv
<1>5. UNCHANGED Promise!vars
  BY <1>1 DEF Promise!vars
<1>6. ConsumesFresh
  BY ZenonT(90), <1>1 DEF ConsumesFresh
<1> QED BY ZenonT(90), <1>4, <1>5, <1>6 DEF StepOK

(* A record without receipts before it is consumed.                        *)
LEMMA IssuedIsBare ==
    ASSUME NEW d, NEW q, RecordIsValid(d, q), q.state = "issued"
    PROVE  q.preflight = None /\ q.outcome = None /\ q.retained = None /\ q.settlement = None
<1>1. "issued" # "consumed"
  OBVIOUS
<1> QED BY ZenonT(90), <1>1 DEF RecordIsValid, ReceiptsBind, RetainedBinds

(* A caller samples an instant of the clock.                               *)
LEMMA SampledIsTime ==
    ASSUME clock \in Times, NEW t \in Sampled
    PROVE  t \in Times
  BY TimesAssumption DEF Sampled, Times

(* A permit is issued, or the call stops half way.                         *)
LEMMA IssueStep ==
    ASSUME IInv, NEW p \in Proposals, NEW t, Issue(p, t)
    PROVE  StepOK
<1>1. ContentOK(disk) /\ disk \in surviving /\ clock \in Times
  BY ZenonT(90) DEF IInv
<1>2. p.binding.parent # None =>
          /\ p.binding.parent \in DOMAIN disk.records
          /\ WithinCeiling(p, disk.records[p.binding.parent])
  BY ZenonT(90) DEF Issue, Reads
<1>3. PICK j \in (IF IsNormalChat(p) THEN ReserveAttempt(disk, p) ELSE {disk}) :
          Replaced(IssueSteps(p, j)) \/ Unanswered(IssueSteps(p, j))
  BY ZenonT(90) DEF Issue
<1>4. ContentOK(j) /\ Evolves(disk, j) /\ j.records = disk.records
  <2>1. CASE IsNormalChat(p)
    BY ZenonT(90), <1>1, <1>3, <2>1, JournalOK
  <2>2. CASE ~IsNormalChat(p)
    BY ZenonT(90), <1>1, <1>3, <2>2, EvolvesReflexive
  <2> QED BY <2>1, <2>2
<1>5. PICK H : /\ disk \in H
               /\ \A c \in H : ContentOK(c) /\ Evolves(disk, c)
               /\ IssueSteps(p, j) \in Seq(H)
  BY ZenonT(90), <1>1, <1>2, <1>4, IssueContents
<1>6. /\ disk' \in surviving' /\ disk' \in H
      /\ surviving' \subseteq surviving \cup H
  BY ZenonT(90), <1>1, <1>3, <1>5, CallContents
<1>7. UNCHANGED histories /\ clock' \in Times
  BY ZenonT(90), <1>1 DEF Issue
<1> QED BY ZenonT(90), <1>5, <1>6, <1>7, QuietStep

(* A call that replaces one record and ends without its answer.            *)
LEMMA UnansweredStep ==
    ASSUME IInv, NEW c, ContentOK(c), Evolves(disk, c), Replaced(<<c>>) \/ Unanswered(<<c>>),
           UNCHANGED histories, clock' \in Times
    PROVE  StepOK
<1>1. ContentOK(disk) /\ disk \in surviving
  BY ZenonT(90) DEF IInv
<1>2. /\ disk' \in surviving' /\ disk' \in {disk, c}
      /\ surviving' \subseteq surviving \cup {disk, c}
  BY ZenonT(90), <1>1, OneFile
<1>3. \A x \in {disk, c} : ContentOK(x) /\ Evolves(disk, x)
  BY ZenonT(90), <1>1, EvolvesReflexive
<1> QED BY ZenonT(90), <1>2, <1>3, QuietStep

(* An issued permit was neither consumed nor revoked.                      *)
LEMMA IssuedIsUnanswered ==
    ASSUME IInv, NEW i, disk.records[i].state = "issued"
    PROVE  i \notin DOMAIN uses /\ i \notin revoked
<1>1. "issued" # "consumed" /\ "issued" # "revoked"
  OBVIOUS
<1> QED BY ZenonT(90), <1>1 DEF IInv, Backs

(* A consumption.                                                          *)
LEMMA ConsumesStep ==
    ASSUME IInv, NEW i \in DOMAIN disk.records, disk.records[i].state = "issued",
           i.binding.parent # None => disk.records[i.binding.parent].state = "issued",
           NEW r, MayReplace(disk, i, r), r.state = "consumed",
           i.binding.tool = NormalChat => r.retained # None,
           r.preflight # None =>
               /\ clock' < disk.records[i].permit.binding.expires_at
               /\ i.binding.parent # None =>
                     clock' < disk.records[i.binding.parent].permit.binding.expires_at
               /\ i.binding.tool = NormalChat => clock' < owner,
           Consumes(i, r), clock' \in Times
    PROVE  StepOK
<1> PICK c : c = WithRecord(disk, r)
  OBVIOUS
<1>1. ContentOK(disk)
  BY ZenonT(90) DEF IInv
<1>2. Rewritten(disk, c, i, r)
  BY ZenonT(90), <1>1, RewriteOK
<1>3. CASE Unanswered(<<c>>) /\ UNCHANGED <<continuations, histories>>
  BY ZenonT(90), <1>2, <1>3, UnansweredStep DEF Rewritten
<1>4. CASE Replaced(<<c>>) /\ Uses(i)
  <2>1. disk' = c /\ surviving' = {c}
    BY ZenonT(90), <1>4, OneFileReplaced
  <2>2. i \notin DOMAIN uses /\ i \notin revoked
    BY ZenonT(90), IssuedIsUnanswered
  <2>3. uses' = With(uses, i, 1) /\ revoked' = revoked /\ receipts' = receipts
    BY <1>4, <2>2 DEF Uses
  <2>4. DOMAIN uses' = DOMAIN uses \cup {i}
    BY ZenonT(90), <2>3 DEF With
  <2>5. Backs(c)'
    <3>1. Backs(c)
      BY ZenonT(90), <1>2, BacksStays DEF Rewritten, IInv
    <3>2. i \in DOMAIN c.records /\ c.records[i] = r
      BY ZenonT(90), <1>2 DEF Rewritten
    <3> QED BY ZenonT(90), <2>3, <2>4, <3>1, <3>2 DEF Backs
  <2>6. ReceiptsBacked'
    <3>1. ReceiptsBacked /\ Evolves(disk, disk')
      BY ZenonT(90), <1>2, <2>1 DEF IInv, Rewritten
    <3> QED BY ZenonT(90), <2>3, <3>1, ReceiptsStay DEF ReceiptsBacked
  <2>7. IInv'
    BY ZenonT(90), <1>2, <2>1, <2>5, <2>6 DEF IInv, Rewritten
  <2>8. i \in PermitIds /\ Parents[i] \notin revoked
    <3>1. i \in PermitIds /\ Parents[i] = i.binding.parent
      BY ZenonT(90), <1>1 DEF ContentOK, Parents
    <3>2. CASE i.binding.parent = None
      BY ZenonT(90), <3>1, <3>2, NoneAssumption DEF IInv, Backs, ContentOK
    <3>3. CASE i.binding.parent # None
      BY ZenonT(90), <3>1, <3>3, IssuedIsUnanswered
    <3> QED BY <3>1, <3>2, <3>3
  <2>9. Promise!Use(i)
    BY ZenonT(90), <2>2, <2>3, <2>8 DEF Promise!Use, With
  <2>10. [Promise!Next]_(Promise!vars)
    <3>1. Promise!vars' # Promise!vars
      BY ZenonT(90), <2>2, <2>4 DEF Promise!vars
    <3> QED BY ZenonT(90), <2>8, <2>9, <3>1 DEF Promise!Next
  <2>11. ConsumesFresh
    <3>1. disk'.records[i] = r
      BY ZenonT(90), <1>2, <2>1 DEF Rewritten
    <3> QED BY ZenonT(90), <2>4, <3>1 DEF ConsumesFresh
  <2> QED BY ZenonT(90), <2>7, <2>10, <2>11 DEF StepOK
<1> QED BY ZenonT(90), <1>3, <1>4 DEF Consumes

(* Record r may replace q: its permit and its allocations are the same.    *)
LEMMA SamePermitReplaces ==
    ASSUME ContentOK(disk), NEW i \in DOMAIN disk.records, NEW r \in Record,
           r.permit = disk.records[i].permit,
           r.child_allocations = disk.records[i].child_allocations,
           RecordIsValid(disk, r), Later(disk.records[i], r)
    PROVE  MayReplace(disk, i, r)
<1>1. RecordOK(disk, i)
  BY ZenonT(90) DEF ContentOK
<1>2. Allocated(r) = Allocated(disk.records[i])
  BY ZenonT(90) DEF Allocated
<1> QED BY ZenonT(90), <1>1, <1>2 DEF MayReplace, RecordOK

(* What is known of a record that reads.                                   *)
LEMMA ReadRecord ==
    ASSUME IInv, NEW i, Reads(disk, i)
    PROVE  /\ i \in DOMAIN disk.records /\ i \in PermitIds
           /\ disk.records[i] \in Record
           /\ RecordIsValid(disk, disk.records[i])
           /\ i.binding.parent = disk.records[i].permit.binding.parent
           /\ i.binding.tool = disk.records[i].permit.binding.tool
<1>1. i \in DOMAIN disk.records /\ RecordOK(disk, i) /\ i \in PermitIds
  BY ZenonT(90) DEF IInv, ContentOK, Reads
<1>2. PermitId(disk.records[i].permit) = i
  BY ZenonT(90), <1>1 DEF RecordOK
<1>3. /\ PermitId(disk.records[i].permit).binding.parent = disk.records[i].permit.binding.parent
      /\ PermitId(disk.records[i].permit).binding.tool = disk.records[i].permit.binding.tool
  BY ZenonT(90), IdFields
<1> QED BY ZenonT(90), <1>1, <1>2, <1>3 DEF RecordOK

(* Record q when it is consumed.                                           *)
Consumed(q, t, preflight, retained) ==
    [q EXCEPT !.state = "consumed", !.at = t, !.preflight = preflight, !.retained = retained]

ConsumesTo(i, r, preflight, retained) ==
    /\ MayReplace(disk, i, r)
    /\ r.state = "consumed" /\ r.preflight = preflight /\ r.retained = retained

(* A record that is consumed.                                              *)
LEMMA ConsumedReplaces ==
    ASSUME IInv, NEW i, Reads(disk, i), disk.records[i].state = "issued", NEW t \in Times,
           NEW preflight \in Times \cup {None}, NEW retained \in Args \cup {None},
           RecordIsValid(disk, Consumed(disk.records[i], t, preflight, retained))
    PROVE  ConsumesTo(i, Consumed(disk.records[i], t, preflight, retained), preflight, retained)
<1> PICK q : q = disk.records[i]
  OBVIOUS
<1> PICK r : r = Consumed(disk.records[i], t, preflight, retained)
  OBVIOUS
<1>1. /\ i \in DOMAIN disk.records /\ q \in Record /\ RecordIsValid(disk, q)
      /\ q.state = "issued" /\ ContentOK(disk)
  BY ZenonT(90), ReadRecord DEF IInv
<1>2. q.preflight = None /\ q.outcome = None /\ q.retained = None /\ q.settlement = None
  BY ZenonT(90), <1>1, IssuedIsBare
<1>3. r = [q EXCEPT !.state = "consumed", !.at = t, !.preflight = preflight, !.retained = retained]
  BY DEF Consumed
<1>4. /\ r \in Record /\ r.permit = q.permit /\ r.child_allocations = q.child_allocations
      /\ r.state = "consumed" /\ r.preflight = preflight /\ r.retained = retained
  BY <1>1, <1>3, ZenonT(90) DEF Record
<1>5. Later(q, r)
  BY ZenonT(90), <1>1, <1>2 DEF Later
<1>6. MayReplace(disk, i, r)
  BY ZenonT(90), <1>1, <1>4, <1>5, SamePermitReplaces
<1> QED BY ZenonT(90), <1>4, <1>6 DEF ConsumesTo

(* The parent of a permit that is consumed has not been revoked.           *)
LEMMA ParentIsIssued ==
    ASSUME IInv, NEW i, Reads(disk, i), NEW t, NEW a,
           ParentStillAllows(disk.records[i], t, a), i.binding.parent # None
    PROVE  /\ disk.records[i.binding.parent].state = "issued"
           /\ t < disk.records[i.binding.parent].permit.binding.expires_at
<1>1. i.binding.parent = disk.records[i].permit.binding.parent
  BY ZenonT(90), ReadRecord
<1> QED BY ZenonT(90), <1>1 DEF ParentStillAllows, ParentAllows

(* consume.                                                                *)
LEMMA ConsumeStep ==
    ASSUME IInv, NEW i, NEW t, Consume(i, t)
    PROVE  StepOK
<1> PICK q : q = disk.records[i]
  OBVIOUS
<1> PICK r : r = [q EXCEPT !.state = "consumed", !.at = t]
  OBVIOUS
<1>1. /\ t \in Sampled /\ Reads(disk, i) /\ q.permit.binding.tool # NormalChat
      /\ q.state = "issued" /\ ParentStillAllows(q, t, None) /\ Consumes(i, r)
      /\ clock' = clock
  BY ZenonT(90) DEF Consume, DispatchAllowed
<1>2. clock \in Times /\ t \in Times
  BY ZenonT(90), <1>1, SampledIsTime DEF IInv
<1>3. /\ i \in DOMAIN disk.records /\ q \in Record /\ RecordIsValid(disk, q)
      /\ i.binding.tool = q.permit.binding.tool
  BY ZenonT(90), <1>1, ReadRecord
<1>4. q.preflight = None /\ q.retained = None
  BY ZenonT(90), <1>1, <1>3, IssuedIsBare
<1>5. r = Consumed(disk.records[i], t, None, None)
  BY <1>3, <1>4, ZenonT(90) DEF Record, Consumed
<1>6. RecordIsValid(disk, r)
  BY ZenonT(90), <1>1 DEF Consumes
<1>7. MayReplace(disk, i, r) /\ r.state = "consumed" /\ r.preflight = None
  <2>1. None \in Times \cup {None} /\ None \in Args \cup {None}
    OBVIOUS
  <2>2. disk.records[i].state = "issued" /\ Reads(disk, i)
    BY <1>1
  <2>3. RecordIsValid(disk, Consumed(disk.records[i], t, None, None))
    BY ZenonT(90), <1>5, <1>6
  <2>4. ConsumesTo(i, Consumed(disk.records[i], t, None, None), None, None)
    BY ZenonT(90), <1>2, <2>1, <2>2, <2>3, ConsumedReplaces
  <2> QED BY ZenonT(90), <1>5, <2>4 DEF ConsumesTo
<1>8. i.binding.parent # None => disk.records[i.binding.parent].state = "issued"
  BY ZenonT(90), <1>1, ParentIsIssued
<1> QED BY ZenonT(90), <1>1, <1>2, <1>3, <1>7, <1>8, ConsumesStep

(* consume_with_preflight.                                                 *)
LEMMA ConsumeWithPreflightStep ==
    ASSUME IInv, NEW i, NEW t, ConsumeWithPreflight(i, t)
    PROVE  StepOK
<1> PICK q : q = disk.records[i]
  OBVIOUS
<1> PICK r : r = [q EXCEPT !.state = "consumed", !.at = t, !.preflight = t]
  OBVIOUS
<1>1. /\ t \in clock .. MaxTime /\ Reads(disk, i) /\ q.permit.binding.tool # NormalChat
      /\ q.state = "issued" /\ t < q.permit.binding.expires_at
      /\ ParentStillAllows(q, t, None) /\ Consumes(i, r)
      /\ clock' = t
  BY ZenonT(90) DEF ConsumeWithPreflight, DispatchAllowed
<1>2. clock \in Times
  BY ZenonT(90) DEF IInv
<1>3. t \in Times
  BY <1>1, <1>2, TimesAssumption DEF Times
<1>4. /\ i \in DOMAIN disk.records /\ q \in Record /\ RecordIsValid(disk, q)
      /\ i.binding.tool = q.permit.binding.tool
  BY ZenonT(90), <1>1, ReadRecord
<1>5. q.retained = None
  BY ZenonT(90), <1>1, <1>4, IssuedIsBare
<1>6. r = Consumed(disk.records[i], t, t, None)
  BY <1>4, <1>5, ZenonT(90) DEF Record, Consumed
<1>7. MayReplace(disk, i, r) /\ r.state = "consumed" /\ r.preflight = t
  <2>1. t \in Times \cup {None} /\ None \in Args \cup {None}
    BY <1>3
  <2>2. disk.records[i].state = "issued" /\ Reads(disk, i)
    BY <1>1
  <2>3. RecordIsValid(disk, Consumed(disk.records[i], t, t, None))
    BY ZenonT(90), <1>1, <1>6 DEF Consumes
  <2>4. ConsumesTo(i, Consumed(disk.records[i], t, t, None), t, None)
    BY ZenonT(90), <1>3, <2>1, <2>2, <2>3, ConsumedReplaces
  <2> QED BY ZenonT(90), <1>6, <2>4 DEF ConsumesTo
<1>8. i.binding.parent # None =>
          /\ disk.records[i.binding.parent].state = "issued"
          /\ t < disk.records[i.binding.parent].permit.binding.expires_at
  BY ZenonT(90), <1>1, ParentIsIssued
<1> QED BY ZenonT(90), <1>1, <1>3, <1>4, <1>7, <1>8, ConsumesStep

(* consume_normal_chat_for_execution.                                      *)
LEMMA ConsumeNormalChatStep ==
    ASSUME IInv, NEW i, NEW t, ConsumeNormalChat(i, t)
    PROVE  StepOK
<1> PICK q : q = disk.records[i]
  OBVIOUS
<1> PICK a : a = q.permit.binding.args
  OBVIOUS
<1> PICK r : r = [q EXCEPT !.state = "consumed", !.at = t, !.preflight = t, !.retained = a]
  OBVIOUS
<1>1. /\ t \in clock .. MaxTime /\ Reads(disk, i) /\ OwnerAdmits(t)
      /\ q.state = "issued" /\ t < q.permit.binding.expires_at
      /\ ParentStillAllows(q, t, a) /\ Consumes(i, r)
      /\ clock' = t
  BY ZenonT(90) DEF ConsumeNormalChat, DispatchAllowed
<1>2. clock \in Times
  BY ZenonT(90) DEF IInv
<1>3. t \in Times /\ t < owner
  BY <1>1, <1>2, TimesAssumption DEF Times, OwnerAdmits
<1>4. i \in DOMAIN disk.records /\ q \in Record
  BY ZenonT(90), <1>1, ReadRecord
<1>5. a \in Args /\ a # None
  <2>1. q.permit \in Proposals
    BY <1>4 DEF Record
  <2> QED BY ZenonT(90), <2>1, NoneAssumption DEF Args
<1>6. r = Consumed(disk.records[i], t, t, a)
  BY DEF Consumed
<1>7. MayReplace(disk, i, r) /\ r.state = "consumed" /\ r.preflight = t /\ r.retained = a
  <2>1. t \in Times \cup {None} /\ a \in Args \cup {None}
    BY <1>3, <1>5
  <2>2. disk.records[i].state = "issued" /\ Reads(disk, i)
    BY <1>1
  <2>3. RecordIsValid(disk, Consumed(disk.records[i], t, t, a))
    BY ZenonT(90), <1>1, <1>6 DEF Consumes
  <2>4. ConsumesTo(i, Consumed(disk.records[i], t, t, a), t, a)
    BY ZenonT(90), <1>3, <2>1, <2>2, <2>3, ConsumedReplaces
  <2> QED BY ZenonT(90), <1>6, <2>4 DEF ConsumesTo
<1>8. i.binding.parent # None =>
          /\ disk.records[i.binding.parent].state = "issued"
          /\ t < disk.records[i.binding.parent].permit.binding.expires_at
  BY ZenonT(90), <1>1, ParentIsIssued
<1> QED BY ZenonT(90), <1>1, <1>3, <1>4, <1>5, <1>7, <1>8, ConsumesStep

(* A receipt is answered, or the call ends without its answer.             *)
LEMMA AnswersStep ==
    ASSUME IInv, NEW i \in DOMAIN disk.records, NEW r, MayReplace(disk, i, r),
           NEW kind, NEW body, body # None,
           body = IF kind = "outcome" THEN r.outcome ELSE r.settlement,
           Answers(i, r, [permit |-> i, kind |-> kind, body |-> body]), clock' \in Times
    PROVE  StepOK
<1> PICK c : c = WithRecord(disk, r)
  OBVIOUS
<1> PICK x : x = [permit |-> i, kind |-> kind, body |-> body]
  OBVIOUS
<1>1. ContentOK(disk) /\ disk \in surviving
  BY ZenonT(90) DEF IInv
<1>2. Rewritten(disk, c, i, r)
  BY ZenonT(90), <1>1, RewriteOK
<1>3. CASE Unanswered(<<c>>) /\ UNCHANGED histories
  BY ZenonT(90), <1>2, <1>3, UnansweredStep DEF Rewritten
<1>4. CASE /\ Replaced(IF r = disk.records[i] THEN << >> ELSE <<c>>)
           /\ receipts' = receipts \cup {x} /\ UNCHANGED <<uses, revoked>>
  <2>1. /\ disk' \in surviving' /\ Evolves(disk, disk') /\ disk'.records[i] = r
        /\ i \in DOMAIN disk'.records
        /\ \A d \in surviving' : ContentOK(d) /\ Backs(d)
    <3>1. CASE r = disk.records[i]
      <4>1. disk' = disk /\ surviving' = surviving
        BY <1>4, <3>1 DEF Replaced, directory
      <4> QED BY ZenonT(90), <3>1, <4>1, EvolvesReflexive DEF IInv
    <3>2. CASE r # disk.records[i]
      <4>1. disk' = c /\ surviving' = {c}
        BY ZenonT(90), <1>4, <3>2, OneFileReplaced
      <4>2. Backs(c)
        BY ZenonT(90), <1>1, <1>2, BacksStays DEF Rewritten, IInv
      <4> QED BY ZenonT(90), <1>2, <4>1, <4>2 DEF Rewritten
    <3> QED BY <3>1, <3>2
  <2>2. ReceiptsBacked'
    <3>1. x.permit = i /\ x.kind = kind /\ x.body = body
      OBVIOUS
    <3>2. ASSUME NEW y \in receipts'
          PROVE  /\ y = [permit |-> y.permit, kind |-> y.kind, body |-> y.body]
                 /\ y.permit \in DOMAIN disk'.records
                 /\ y.body # None
                 /\ y.body = IF y.kind = "outcome" THEN disk'.records[y.permit].outcome
                             ELSE disk'.records[y.permit].settlement
      <4>1. CASE y = x
        BY ZenonT(90), <2>1, <3>1, <4>1
      <4>2. CASE y \in receipts
        <5>1. ReceiptsBacked
          BY ZenonT(90) DEF IInv
        <5> QED BY ZenonT(90), <2>1, <4>2, <5>1, ReceiptsStay
      <4> QED BY ZenonT(90), <1>4, <4>1, <4>2
    <3> QED BY ZenonT(90), <3>2 DEF ReceiptsBacked
  <2>3. IInv'
    BY ZenonT(90), <1>4, <2>1, <2>2 DEF IInv, Backs
  <2>4. UNCHANGED Promise!vars
    BY <1>4 DEF Promise!vars
  <2>5. ConsumesFresh
    BY ZenonT(90), <1>4 DEF ConsumesFresh
  <2> QED BY ZenonT(90), <2>3, <2>4, <2>5 DEF StepOK
<1> QED BY ZenonT(90), <1>3, <1>4 DEF Answers

(* record_reported_outcome.                                                *)
LEMMA RecordReportedOutcomeStep ==
    ASSUME IInv, NEW i, NEW report \in Reports, NEW t, RecordReportedOutcome(i, report, t)
    PROVE  StepOK
<1> PICK q : q = disk.records[i]
  OBVIOUS
<1> PICK outcome : outcome = IF q.outcome = None THEN [reported |-> report, at |-> t] ELSE q.outcome
  BY ZenonT(90)
<1> PICK r : r = [q EXCEPT !.outcome = outcome]
  BY ZenonT(90)
<1>1. /\ t \in Sampled /\ Reads(disk, i) /\ q.preflight # None /\ q.preflight <= t
      /\ Answers(i, r, [permit |-> i, kind |-> "outcome", body |-> outcome])
      /\ clock' = clock
  BY ZenonT(90) DEF RecordReportedOutcome
<1>2. clock \in Times /\ ContentOK(disk)
  BY ZenonT(90) DEF IInv
<1>3. t \in Times
  BY ZenonT(90), <1>1, <1>2, SampledIsTime
<1>4. i \in DOMAIN disk.records /\ q \in Record /\ RecordIsValid(disk, q)
  BY ZenonT(90), <1>1, ReadRecord
<1>5. outcome \in Outcome /\ outcome # None
  <2>1. [reported |-> report, at |-> t] \in Outcome
    BY <1>3 DEF Outcome
  <2>2. q.outcome \in Outcome \cup {None}
    BY <1>4 DEF Record
  <2> QED BY ZenonT(90), <2>1, <2>2, NoneAssumption
<1>6. /\ r \in Record /\ r.outcome = outcome /\ r.permit = q.permit
      /\ r.child_allocations = q.child_allocations /\ r.state = q.state /\ r.at = q.at
      /\ r.preflight = q.preflight /\ r.retained = q.retained /\ r.settlement = q.settlement
  BY <1>4, <1>5 DEF Record
<1>7. r.preflight <= outcome.at
  <2>1. CASE q.outcome = None
    <3>1. outcome.at = t
      BY <2>1
    <3> QED BY ZenonT(90), <1>1, <1>6, <3>1
  <2>2. CASE q.outcome # None
    BY ZenonT(90), <1>1, <1>4, <1>6, <2>2 DEF RecordIsValid, ReceiptsBind
  <2> QED BY <2>1, <2>2
<1>8. RecordIsValid(disk, r)
  <2>1. ReceiptsBind(r)
    BY ZenonT(90), <1>1, <1>4, <1>6, <1>7 DEF RecordIsValid, ReceiptsBind
  <2>2. RetainedBinds(r)
    <3>1. q.settlement # None /\ q.retained # None => r.outcome = q.outcome
      BY ZenonT(90), <1>4, <1>6 DEF RecordIsValid, RetainedBinds
    <3> QED BY ZenonT(90), <1>4, <1>6, <3>1 DEF RecordIsValid, RetainedBinds
  <2> QED BY ZenonT(90), <1>4, <1>6, <2>1, <2>2 DEF RecordIsValid
<1>9. Later(q, r)
  BY ZenonT(90), <1>6 DEF Later
<1>10. MayReplace(disk, i, r)
  BY ZenonT(90), <1>2, <1>4, <1>6, <1>8, <1>9, SamePermitReplaces
<1>11. outcome = IF "outcome" = "outcome" THEN r.outcome ELSE r.settlement
  BY <1>6
<1> QED BY ZenonT(90), <1>1, <1>2, <1>4, <1>5, <1>10, <1>11, AnswersStep

(* settle_normal_chat.                                                     *)
LEMMA SettleNormalChatStep ==
    ASSUME IInv, NEW k, NEW bytes \in Sizes, SettleNormalChat(k, bytes)
    PROVE  StepOK
<1> PICK i : i = k.permit
  OBVIOUS
<1> PICK q : q = disk.records[i]
  OBVIOUS
<1> PICK s : s = [outcome |-> q.outcome, bytes |-> bytes]
  BY ZenonT(90)
<1> PICK r : r = [q EXCEPT !.settlement = s]
  BY ZenonT(90)
<1>1. /\ Reads(disk, i) /\ q.outcome # None /\ q.settlement \in {None, s}
      /\ RecordIsValid(disk, r)
      /\ Answers(i, r, [permit |-> i, kind |-> "settlement", body |-> s])
      /\ clock' = clock
  BY ZenonT(90) DEF SettleNormalChat
<1>2. clock \in Times /\ ContentOK(disk)
  BY ZenonT(90) DEF IInv
<1>3. i \in DOMAIN disk.records /\ q \in Record
  BY ZenonT(90), <1>1, ReadRecord
<1>4. s \in Settlement /\ s # None
  <2>1. q.outcome \in Outcome
    BY <1>1, <1>3 DEF Record
  <2>2. s \in Settlement
    BY <2>1 DEF Settlement
  <2> QED BY ZenonT(90), <2>2, NoneAssumption
<1>5. /\ r \in Record /\ r.settlement = s /\ r.permit = q.permit
      /\ r.child_allocations = q.child_allocations /\ r.state = q.state
      /\ r.outcome = q.outcome /\ r.retained = q.retained
  BY <1>3, <1>4 DEF Record
<1>6. Later(q, r)
  BY ZenonT(90), <1>1, <1>5 DEF Later
<1>7. MayReplace(disk, i, r)
  BY ZenonT(90), <1>1, <1>2, <1>3, <1>5, <1>6, SamePermitReplaces
<1>8. s = IF "settlement" = "outcome" THEN r.outcome ELSE r.settlement
  BY <1>5
<1> QED BY ZenonT(90), <1>1, <1>2, <1>3, <1>4, <1>7, <1>8, AnswersStep

(* revoke.                                                                 *)
LEMMA RevokeStep ==
    ASSUME IInv, NEW i, NEW t, Revoke(i, t)
    PROVE  StepOK
<1> PICK q : q = disk.records[i]
  OBVIOUS
<1> PICK r : r = [q EXCEPT !.state = "revoked", !.at = t]
  OBVIOUS
<1> PICK c : c = WithRecord(disk, r)
  OBVIOUS
<1>1. /\ t \in Sampled /\ Reads(disk, i) /\ q.state = "issued" /\ clock' = clock
      /\ \/ Replaced(<<c>>) /\ revoked' = revoked \cup {i} /\ UNCHANGED <<uses, receipts>>
         \/ Unanswered(<<c>>) /\ UNCHANGED histories
  BY ZenonT(90) DEF Revoke
<1>2. clock \in Times /\ ContentOK(disk)
  BY ZenonT(90) DEF IInv
<1>3. t \in Times
  BY ZenonT(90), <1>1, <1>2, SampledIsTime
<1>4. i \in DOMAIN disk.records /\ i \in PermitIds /\ q \in Record /\ RecordIsValid(disk, q)
  BY ZenonT(90), <1>1, ReadRecord
<1>5. q.preflight = None /\ q.outcome = None /\ q.retained = None /\ q.settlement = None
  BY ZenonT(90), <1>1, <1>4, IssuedIsBare
<1>6. /\ r \in Record /\ r.state = "revoked" /\ r.permit = q.permit
      /\ r.child_allocations = q.child_allocations /\ r.preflight = q.preflight
      /\ r.outcome = q.outcome /\ r.retained = q.retained /\ r.settlement = q.settlement
  BY <1>3, <1>4, ZenonT(90) DEF Record
<1>7. RecordIsValid(disk, r)
  BY ZenonT(90), <1>5, <1>6 DEF RecordIsValid, ReceiptsBind, RetainedBinds
<1>8. Later(q, r)
  BY ZenonT(90), <1>1, <1>6 DEF Later
<1>9. MayReplace(disk, i, r)
  BY ZenonT(90), <1>2, <1>4, <1>6, <1>7, <1>8, SamePermitReplaces
<1>10. Rewritten(disk, c, i, r)
  BY ZenonT(90), <1>2, <1>4, <1>9, RewriteOK
<1>11. CASE Unanswered(<<c>>) /\ UNCHANGED histories
  BY ZenonT(90), <1>1, <1>2, <1>10, <1>11, UnansweredStep DEF Rewritten
<1>12. CASE Replaced(<<c>>) /\ revoked' = revoked \cup {i} /\ UNCHANGED <<uses, receipts>>
  <2>1. disk' = c /\ surviving' = {c}
    BY ZenonT(90), <1>12, OneFileReplaced
  <2>2. i \notin DOMAIN uses /\ i \notin revoked
    BY ZenonT(90), <1>1, IssuedIsUnanswered
  <2>3. Backs(c)'
    <3>1. Backs(c)
      BY ZenonT(90), <1>10, BacksStays DEF Rewritten, IInv
    <3>2. i \in DOMAIN c.records /\ c.records[i] = r
      BY ZenonT(90), <1>4, <1>10 DEF Rewritten
    <3>3. c.records[i].state = "revoked"
      BY ZenonT(90), <1>6, <3>2
    <3> QED BY ZenonT(90), <1>12, <3>1, <3>2, <3>3 DEF Backs
  <2>4. ReceiptsBacked'
    <3>1. ReceiptsBacked /\ Evolves(disk, disk')
      BY ZenonT(90), <1>10, <2>1 DEF IInv, Rewritten
    <3> QED BY ZenonT(90), <1>12, <3>1, ReceiptsStay DEF ReceiptsBacked
  <2>5. IInv'
    BY ZenonT(90), <1>1, <1>2, <1>10, <2>1, <2>3, <2>4 DEF IInv, Rewritten
  <2>6. Promise!Revoke(i)
    BY ZenonT(90), <1>12, <2>2 DEF Promise!Revoke
  <2>7. [Promise!Next]_(Promise!vars)
    <3>1. Promise!vars' # Promise!vars
      BY ZenonT(90), <1>12, <2>2 DEF Promise!vars
    <3> QED BY ZenonT(90), <1>4, <2>6, <3>1 DEF Promise!Next
  <2>8. ConsumesFresh
    BY ZenonT(90), <1>12 DEF ConsumesFresh
  <2> QED BY ZenonT(90), <2>5, <2>7, <2>8 DEF StepOK
<1> QED BY ZenonT(90), <1>1, <1>11, <1>12

(* initialize_context_authority.                                           *)
LEMMA InitializeContextAuthorityStep ==
    ASSUME IInv, InitializeContextAuthority
    PROVE  StepOK
<1> PICK c : c = [disk EXCEPT !.fenced = TRUE]
  BY ZenonT(90)
<1>1. ContentOK(disk) /\ clock \in Times
  BY ZenonT(90) DEF IInv
<1>2. IsContent(disk)
  BY ZenonT(90), <1>1 DEF ContentOK
<1>3. IsContent(c) /\ c.records = disk.records /\ c.families = disk.families
  BY <1>2, ZenonT(90) DEF IsContent
<1>4. ContentOK(c)
  <2>1. ASSUME NEW i \in DOMAIN disk.records PROVE RecordOK(c, i)
    <3>1. RecordIsValid(disk, disk.records[i])
      BY ZenonT(90), <1>1 DEF ContentOK, RecordOK
    <3>2. RecordIsValid(c, disk.records[i])
      BY ZenonT(90), <1>3, <3>1, ValidStays
    <3> QED BY ZenonT(90), <1>1, <1>3, <3>2 DEF ContentOK, RecordOK
  <2> QED BY ZenonT(90), <1>1, <1>3, <2>1 DEF ContentOK
<1>5. Evolves(disk, c)
  BY ZenonT(90), <1>3 DEF Evolves, Later
<1>6. (Replaced(<<c>>) \/ Unanswered(<<c>>)) /\ UNCHANGED histories /\ clock' \in Times
  BY ZenonT(90), <1>1 DEF InitializeContextAuthority
<1> QED BY ZenonT(90), <1>4, <1>5, <1>6, UnansweredStep

(* Time, the policy owner and the processes leave the directory alone.     *)
LEMMA SurroundingsStep ==
    ASSUME IInv, UNCHANGED <<directory, histories>>, clock' \in Times
    PROVE  StepOK
<1>1. disk' = disk /\ surviving' = surviving /\ disk \in surviving /\ ContentOK(disk)
  BY ZenonT(90) DEF directory, IInv
<1>2. \A c \in {disk} : ContentOK(c) /\ Evolves(disk, c)
  BY ZenonT(90), <1>1, EvolvesReflexive
<1>3. disk' \in surviving' /\ disk' \in {disk} /\ surviving' \subseteq surviving \cup {disk}
  BY ZenonT(90), <1>1
<1> QED BY ZenonT(90), <1>2, <1>3, QuietStep

(* Power is lost: every content that may be left is in order by itself.    *)
LEMMA PowerLossStep ==
    ASSUME IInv, PowerLoss
    PROVE  StepOK
<1>1. /\ disk' \in surviving /\ surviving' = {disk'} /\ receipts' = {}
      /\ uses' = uses /\ revoked' = revoked /\ clock' = clock
  BY ZenonT(90) DEF PowerLoss, DirectoryLosesPower
<1> PICK c : c = disk'
  OBVIOUS
<1>2. ContentOK(c) /\ Backs(c)
  BY ZenonT(90), <1>1 DEF IInv
<1>3. Backs(c)'
  BY ZenonT(90), <1>1, <1>2 DEF Backs
<1>4. ReceiptsBacked'
  BY ZenonT(90), <1>1 DEF ReceiptsBacked
<1>5. IInv'
  BY ZenonT(90), <1>1, <1>2, <1>3, <1>4 DEF IInv
<1>6. UNCHANGED Promise!vars
  BY <1>1 DEF Promise!vars
<1>7. ConsumesFresh
  BY ZenonT(90), <1>1 DEF ConsumesFresh
<1> QED BY ZenonT(90), <1>5, <1>6, <1>7 DEF StepOK

(* Every step keeps the invariant, is one that PermitUse allows and        *)
(* consumes in time.                                                       *)
LEMMA NextStep ==
    ASSUME IInv, [Next]_vars
    PROVE  StepOK
<1>1. clock \in Times
  BY ZenonT(90) DEF IInv
<1>2. CASE \E p \in Proposals, t \in Times : Issue(p, t)
  BY ZenonT(90), <1>2, IssueStep
<1>3. ASSUME NEW i \in PermitIds, NEW t \in Times,
             \/ Consume(i, t)
             \/ ConsumeWithPreflight(i, t)
             \/ ConsumeNormalChat(i, t)
             \/ \E report \in Reports : RecordReportedOutcome(i, report, t)
             \/ Revoke(i, t)
      PROVE  StepOK
  BY ZenonT(90), <1>3, ConsumeStep, ConsumeWithPreflightStep, ConsumeNormalChatStep,
     RecordReportedOutcomeStep, RevokeStep
<1>4. CASE \E k \in continuations, bytes \in Sizes : SettleNormalChat(k, bytes)
  BY ZenonT(90), <1>4, SettleNormalChatStep
<1>5. CASE InitializeContextAuthority
  BY ZenonT(90), <1>5, InitializeContextAuthorityStep
<1>6. CASE Tick
  <2>1. clock' \in Times
    BY <1>1, <1>6, TimesAssumption DEF Tick, Times
  <2> QED BY ZenonT(90), <1>6, <2>1, SurroundingsStep DEF Tick
<1>7. CASE ClockRegresses
  <2>1. clock' \in Times
    BY <1>1, <1>7, TimesAssumption DEF ClockRegresses, Times
  <2> QED BY ZenonT(90), <1>7, <2>1, SurroundingsStep DEF ClockRegresses
<1>8. CASE OwnerDecides
  BY ZenonT(90), <1>1, <1>8, SurroundingsStep DEF OwnerDecides
<1>9. CASE ProcessCrash
  BY ZenonT(90), <1>1, <1>9, SurroundingsStep DEF ProcessCrash
<1>10. CASE PowerLoss
  BY ZenonT(90), <1>10, PowerLossStep
<1>11. CASE UNCHANGED vars
  BY ZenonT(90), <1>1, <1>11, SurroundingsStep DEF vars
<1> QED BY ZenonT(90), <1>2, <1>3, <1>4, <1>5, <1>6, <1>7, <1>8, <1>9, <1>10, <1>11 DEF Next

-----------------------------------------------------------------------------
(* Results.                                                                *)

(* The empty store satisfies the invariant.                                *)
LEMMA InitOK ==
    ASSUME Init
    PROVE  IInv /\ Promise!Init
<1>1. /\ disk = EmptyStore /\ surviving = {EmptyStore} /\ uses = Empty
      /\ revoked = {} /\ receipts = {} /\ clock = 0
  BY ZenonT(90) DEF Init, DirectoryInit
<1>2. DOMAIN Empty = {}
  BY DEF Empty
<1>3. /\ IsContent(EmptyStore) /\ EmptyStore.records = Empty /\ EmptyStore.families = Empty
  BY DEF EmptyStore, IsContent
<1>4. ContentOK(EmptyStore)
  BY ZenonT(90), <1>2, <1>3 DEF ContentOK
<1>5. Backs(EmptyStore)
  BY ZenonT(90), <1>1, <1>2 DEF Backs
<1>6. ReceiptsBacked
  BY ZenonT(90), <1>1 DEF ReceiptsBacked
<1>7. clock \in Times
  BY <1>1, TimesAssumption DEF Times
<1>8. IInv
  BY ZenonT(90), <1>1, <1>4, <1>5, <1>6, <1>7 DEF IInv
<1>9. Promise!Init
  BY ZenonT(90), <1>1, <1>2 DEF Promise!Init
<1> QED BY <1>8, <1>9

(* The invariant of the store: every content that a power loss may leave   *)
(* is in order and shows every consumption and revocation answered.        *)
THEOREM StoreInvariant == Spec => []IInv
<1>1. Init => IInv
  BY ZenonT(90), InitOK
<1>2. IInv /\ [Next]_vars => IInv'
  BY ZenonT(90), NextStep DEF StepOK
<1> QED BY <1>1, <1>2, PTL DEF Spec

(* Whatever call stops wherever and whatever a power loss takes back,      *)
(* read_record accepts every record that is left, and until power is lost  *)
(* an outcome or settlement that was answered is the one on record.        *)
THEOREM RecordsKept == Spec => []RecordsAreKept
<1>1. IInv => RecordsAreKept
  <2> SUFFICES ASSUME IInv PROVE RecordsAreKept
    OBVIOUS
  <2>1. RecordsStayReadable
    BY ZenonT(90) DEF IInv, ContentOK, RecordOK, RecordsStayReadable
  <2>2. ASSUME NEW x \in receipts
        PROVE  /\ x = [permit |-> x.permit, kind |-> x.kind, body |-> x.body]
               /\ x.body = IF x.kind = "outcome" THEN disk.records[x.permit].outcome
                           ELSE disk.records[x.permit].settlement
    BY ZenonT(90) DEF IInv, ReceiptsBacked
  <2>3. ASSUME NEW x \in receipts, NEW y \in receipts, x.permit = y.permit, x.kind = y.kind
        PROVE  x = y
    <3>1. x.body = y.body
      BY ZenonT(90), <2>2, <2>3
    <3> QED BY ZenonT(90), <2>2, <2>3, <3>1
  <2> QED BY ZenonT(90), <2>1, <2>2, <2>3 DEF RecordsAreKept, ReceiptsAreFinal
<1> QED BY <1>1, StoreInvariant, PTL

(* No child record survives without its allocation, and the allocations of *)
(* a parent never exceed its ceiling: issue_authority reserves before it   *)
(* publishes.                                                              *)
THEOREM AllocationsCovered == Spec => []AllocationsCoverChildren
<1>1. IInv => AllocationsCoverChildren
  BY ZenonT(90) DEF IInv, ContentOK, RecordOK, AllocationsCoverChildren
<1> QED BY <1>1, StoreInvariant, PTL

(* Under a control permit at most one effect of each normal-chat attempt   *)
(* runs: the journal holds one permit per number.                          *)
LEMMA OneEffect ==
    ASSUME IInv
    PROVE  OneEffectPerAttempt
<1>1. ContentOK(disk) /\ Backs(disk)
  BY ZenonT(90) DEF IInv
<1>2. ASSUME NEW i \in DOMAIN uses, i.binding.tool = NormalChat
      PROVE  /\ disk.families[i.binding.parent].operation = i.binding.args.operation
             /\ disk.families[i.binding.parent].attempts[i.binding.args.number].permit = i
  <2> PICK r : r = disk.records[i]
    OBVIOUS
  <2>1. i \in DOMAIN disk.records /\ r.retained # None
    BY ZenonT(90), <1>1, <1>2 DEF Backs
  <2>2. PermitId(r.permit) = i /\ InJournal(disk, r.permit)
    BY ZenonT(90), <1>1, <2>1 DEF ContentOK, RecordOK, RecordIsValid
  <2>3. i.binding.parent = r.permit.binding.parent /\ i.binding.args = r.permit.binding.args
    BY ZenonT(90), <2>2, IdFields
  <2>4. [attempt |-> r.permit.binding.args, permit |-> PermitId(r.permit)].permit = i
    BY <2>2
  <2>5. /\ disk.families[r.permit.binding.parent].operation = r.permit.binding.args.operation
        /\ disk.families[r.permit.binding.parent].attempts[r.permit.binding.args.number]
               = [attempt |-> r.permit.binding.args, permit |-> PermitId(r.permit)]
    BY <2>2, ZenonT(90) DEF InJournal
  <2> QED BY ZenonT(90), <2>3, <2>4, <2>5
<1> QED BY ZenonT(90), <1>2 DEF OneEffectPerAttempt

(* Each attempt runs at most once, and a consumption under the lock comes  *)
(* before the permit, its parent and the owner's consent expire.           *)
THEOREM AttemptsOnceInTime == Spec => AttemptsRunOnceInTime
<1>1. IInv => OneEffectPerAttempt
  BY ZenonT(90), OneEffect
<1>2. IInv' => OneEffectPerAttempt'
  BY <1>1, PTL
<1>3. IInv /\ [Next]_vars => [OneEffectPerAttempt' /\ ConsumesFresh]_vars
  BY ZenonT(90), <1>2, NextStep DEF StepOK
<1> QED BY <1>3, StoreInvariant, PTL DEF Spec, AttemptsRunOnceInTime

(* The store implements PermitUse: a permit is used at most once, and      *)
(* never after its revocation or that of its parent was answered, through  *)
(* stopped calls, power loss and regressing clocks.                        *)
THEOREM StoreImplementsPermitUse == Spec => Implements
<1>1. Init => Promise!Init
  BY ZenonT(90), InitOK
<1>2. IInv /\ [Next]_vars => [Promise!Next]_(Promise!vars)
  BY ZenonT(90), NextStep DEF StepOK
<1> QED BY <1>1, <1>2, StoreInvariant, PTL DEF Spec, Implements, Promise!Spec
=============================================================================
