-------------------------- MODULE DelegationProofs --------------------------
(***************************************************************************)
(* What is delegated.  Authority, to the children of a family: they stay a *)
(* tree within its grant, and a revocation that was answered is final, for *)
(* every set of grants and requests, whatever fails, dies or loses power.  *)
(* A command, to the process of a shell dispatch: its answer is true and   *)
(* the process is over, for every limit of the output.                     *)
(***************************************************************************)
EXTENDS FamilyAuthority, SandboxAnswer, Integers, FiniteSetTheorems, TLAPS

(* What the file may hold: a content that keeps its grant, in which the    *)
(* children and what they reserved can be counted.                         *)
FamilyFile(s) ==
    /\ s \in States
    /\ IsFiniteSet(Children(s)) /\ IsFiniteSet(Units(s))
    /\ KeepsGrant(s)

(* The visible content has every answer.                                   *)
FamilyInv ==
    /\ clock \in Nat
    /\ disk \in surviving
    /\ \A s \in surviving : s = None \/ FamilyFile(s)
    /\ \A g \in opened : disk # None /\ disk.grant = g
    /\ \A q \in reserved : q \in Requests /\ disk # None /\ disk.children[q.child] = q
    /\ revoked => disk # None /\ disk.parent_revoked_at # None

(* A new content keeps what the old one answered.                          *)
Keeps(s, new) ==
    s # None =>
        /\ new # None /\ new.grant = s.grant
        /\ s.parent_revoked_at # None => new.parent_revoked_at # None
        /\ \A q \in Requests : s.children[q.child] = q => new.children[q.child] = q

(* One file is replaced, or the call stops before or after its rename.     *)
LEMMA FamilyReplaces ==
    ASSUME NEW new, disk \in surviving,
           Replaced(<<new>>) \/ Unanswered(<<new>>)
    PROVE  /\ disk' \in {disk, new} /\ disk' \in surviving' /\ surviving' \subseteq surviving \cup {new}
           /\ Replaced(<<new>>) => disk' = new
<1>1. Len(<<new>>) = 1 /\ <<new>>[1] = new /\ <<new>> # << >>
  OBVIOUS
<1>2. Replaced(<<new>>) => disk' = new /\ surviving' = {new}
  BY <1>1 DEF Replaced
<1>3. ASSUME NEW k \in 1 .. Len(<<new>>), StopsAt(<<new>>, k)
      PROVE  \/ disk' = disk /\ surviving' = surviving
             \/ disk' = new /\ surviving' = surviving \cup {new}
  <2>1. k = 1
    BY <1>1
  <2>2. QED
    BY <1>1, <1>3, <2>1 DEF StopsAt
<1>4. QED
  BY <1>2, <1>3 DEF Unanswered

(* A call that replaces the file by a content that keeps the answers.      *)
LEMMA FamilyKeeps ==
    ASSUME FamilyInv, NEW new, FamilyFile(new), Keeps(disk, new),
           Replaced(<<new>>) \/ Unanswered(<<new>>)
    PROVE  /\ disk' \in surviving' /\ \A s \in surviving' : s = None \/ FamilyFile(s)
           /\ Keeps(disk, disk')
           /\ Replaced(<<new>>) => disk' = new
<1>1. /\ disk' \in {disk, new} /\ disk' \in surviving' /\ surviving' \subseteq surviving \cup {new}
      /\ Replaced(<<new>>) => disk' = new
  BY FamilyReplaces DEF FamilyInv
<1>2. \A s \in surviving' : s = None \/ FamilyFile(s)
  BY ZenonT(90), <1>1 DEF FamilyInv
<1>3. Keeps(disk, disk')
  BY ZenonT(90), <1>1 DEF Keeps
<1>4. QED
  BY ZenonT(90), <1>1, <1>2, <1>3

(* The units of one child are as many as its budget.                       *)
LEMMA ChildUnits ==
    ASSUME NEW c, NEW k \in Nat
    PROVE  IsFiniteSet({c} \X (1 .. k)) /\ Cardinality({c} \X (1 .. k)) = k
<1>1. IsFiniteSet({c}) /\ Cardinality({c}) = 1
  BY ZenonT(60), FS_Singleton
<1>2. IsFiniteSet(1 .. k) /\ Cardinality(1 .. k) = k
  BY FS_Interval
<1>3. /\ IsFiniteSet({c} \X (1 .. k))
      /\ Cardinality({c} \X (1 .. k)) = Cardinality({c}) * Cardinality(1 .. k)
  BY ZenonT(90), <1>1, <1>2, FS_Product
<1>4. QED
  BY <1>1, <1>2, <1>3

(* Disjoint sets are counted apart.                                        *)
LEMMA DisjointSets ==
    ASSUME NEW A, IsFiniteSet(A), NEW B, IsFiniteSet(B), A \cap B = {}, NEW C, C = A \cup B
    PROVE  IsFiniteSet(C) /\ Cardinality(C) = Cardinality(A) + Cardinality(B)
<1>1. Cardinality(A) \in Nat /\ Cardinality(B) \in Nat
  BY ZenonT(90), FS_CardinalityType
<1>2. /\ IsFiniteSet(C)
      /\ Cardinality(C) = Cardinality(A) + Cardinality(B) - Cardinality(A \cap B)
  BY ZenonT(90), FS_Union
<1>3. Cardinality(A \cap B) = 0
  BY ZenonT(90), FS_EmptySet
<1>4. QED
  BY <1>1, <1>2, <1>3

(* A child more: it hangs where its request says, and its budget is added. *)
LEMMA FamilyGrows ==
    ASSUME NEW s, FamilyFile(s), NEW q \in Requests, NEW now,
           s.children[q.child] = None, RequestIsValid(s, q, now), Fits(s, q),
           NEW new, new = [s EXCEPT !.children[q.child] = q]
    PROVE  FamilyFile(new) /\ Keeps(s, new)
<1>1. /\ s \in States /\ q.child \in ChildIds /\ None \notin Requests
      /\ q.budget \in Nat /\ q.depth \in Nat
      /\ s.grant \in Grants /\ s.children \in [ChildIds -> Requests \cup {None}]
  BY FamilyAssumption DEF FamilyFile, States, ChildIds, FamilyConstants
<1>2. /\ new.grant = s.grant /\ new.parent_revoked_at = s.parent_revoked_at
      /\ new.children = [s.children EXCEPT ![q.child] = q]
  BY <1>1 DEF States
<1>3. new \in States
  BY <1>1 DEF States
<1>4. new.children[q.child] = q /\ \A c \in ChildIds : c # q.child => new.children[c] = s.children[c]
  BY <1>1, <1>2
<1>5. Children(new) = Children(s) \cup {q.child} /\ q.child \notin Children(s)
  BY <1>1, <1>4 DEF Children
<1>6. Units(new) = Units(s) \cup ({q.child} \X (1 .. q.budget))
  <2>1. \A c \in Children(s) : new.children[c] = s.children[c]
    BY <1>4, <1>5 DEF Children
  <2>2. QED
    BY <1>4, <1>5, <2>1 DEF Units
<1>7. Units(s) \cap ({q.child} \X (1 .. q.budget)) = {}
  BY <1>5 DEF Units
<1>8. /\ IsFiniteSet(Children(new))
      /\ Cardinality(Children(new)) = Cardinality(Children(s)) + 1
      /\ Cardinality(Children(s)) \in Nat
  BY <1>5, FS_AddElement, FS_CardinalityType DEF FamilyFile
<1>9. /\ IsFiniteSet(Units(new)) /\ Reserved(s) \in Nat
      /\ Reserved(new) = Reserved(s) + q.budget
  <2>1. /\ IsFiniteSet({q.child} \X (1 .. q.budget))
        /\ Cardinality({q.child} \X (1 .. q.budget)) = q.budget
    BY ZenonT(90), <1>1, ChildUnits
  <2>2. IsFiniteSet(Units(s)) /\ Cardinality(Units(s)) \in Nat
    BY ZenonT(90), FS_CardinalityType DEF FamilyFile
  <2>3. PICK B : B = {q.child} \X (1 .. q.budget)
    BY ZenonT(60)
  <2>4. IsFiniteSet(B) /\ Units(s) \cap B = {} /\ Units(new) = Units(s) \cup B
    BY ZenonT(60), <1>6, <1>7, <2>1, <2>3
  <2>5. /\ IsFiniteSet(Units(new))
        /\ Cardinality(Units(new)) = Cardinality(Units(s)) + Cardinality(B)
    BY ZenonT(90), <2>2, <2>4, DisjointSets
  <2>6. QED
    BY ZenonT(90), <2>1, <2>2, <2>3, <2>5 DEF Reserved
<1>10. /\ Cardinality(Children(new)) <= new.grant.max_children
       /\ Reserved(new) <= new.grant.budget
  <2>1. s.grant.max_children \in Nat /\ s.grant.budget \in Nat
    BY ZenonT(90), <1>1, FamilyAssumption DEF FamilyConstants
  <2>2. /\ Cardinality(Children(s)) < s.grant.max_children
        /\ Reserved(s) + q.budget <= s.grant.budget
    BY ZenonT(90) DEF Fits
  <2>3. QED
    BY <1>2, <1>8, <1>9, <2>1, <2>2
<1>11. ASSUME NEW c \in Children(new) PROVE Hangs(new, c)
  <2>1. \A p \in Children(s) : p \in Children(new) /\ new.children[p] = s.children[p]
    BY ZenonT(90), <1>4, <1>5 DEF Children
  <2>2. CASE c = q.child
    BY <1>2, <1>4, <2>1, <2>2 DEF RequestIsValid, Hangs
  <2>3. CASE c \in Children(s)
    <3>1. Hangs(s, c)
      BY ZenonT(90), <2>3 DEF FamilyFile, KeepsGrant
    <3>2. QED
      BY ZenonT(90), <1>2, <2>1, <2>3, <3>1 DEF Hangs
  <2>4. QED
    BY <1>5, <2>2, <2>3
<1>12. KeepsGrant(new)
  BY ZenonT(90), <1>10, <1>11 DEF KeepsGrant
<1>13. Keeps(s, new)
  <2>1. new # None
    BY <1>3, FamilyAssumption DEF FamilyConstants
  <2>2. \A p \in Requests : s.children[p.child] = p => new.children[p.child] = p
    BY <1>1, <1>4 DEF ChildIds
  <2>3. QED
    BY <1>2, <2>1, <2>2 DEF Keeps
<1>14. QED
  BY <1>3, <1>8, <1>9, <1>12, <1>13 DEF FamilyFile

(* An empty family keeps its grant.                                        *)
LEMMA FamilyBegins ==
    ASSUME NEW g \in Grants,
           NEW new, new = [grant |-> g, parent_revoked_at |-> None,
                           children |-> [c \in ChildIds |-> None]]
    PROVE  FamilyFile(new) /\ new.grant = g /\ new # None
<1>1. new \in States /\ new.grant = g
  BY DEF States
<1>2. Children(new) = {} /\ Units(new) = {}
  BY DEF Children, Units
<1>3. IsFiniteSet({}) /\ Cardinality({}) = 0
  BY FS_EmptySet
<1>4. g.max_children \in Nat /\ g.budget \in Nat
  BY ZenonT(90), FamilyAssumption DEF FamilyConstants
<1>5. 0 <= g.max_children /\ 0 <= g.budget
  BY <1>4
<1>6. KeepsGrant(new)
  BY ZenonT(90), <1>1, <1>2, <1>3, <1>5 DEF KeepsGrant, Reserved
<1>7. QED
  BY ZenonT(90), <1>1, <1>2, <1>3, <1>6, FamilyAssumption DEF FamilyFile, FamilyConstants

(* A revocation leaves the children.                                       *)
LEMMA FamilyEnds ==
    ASSUME NEW s, FamilyFile(s), NEW now \in Nat,
           NEW new, new = [s EXCEPT !.parent_revoked_at = now]
    PROVE  FamilyFile(new) /\ Keeps(s, new) /\ new.parent_revoked_at # None /\ new # None
<1>1. s \in States /\ None \notin Nat /\ None \notin States
  BY ZenonT(90), FamilyAssumption DEF FamilyFile, FamilyConstants
<1>2. /\ new \in States /\ new.grant = s.grant /\ new.children = s.children
      /\ new.parent_revoked_at = now
  BY <1>1 DEF States
<1>3. Children(new) = Children(s) /\ Units(new) = Units(s)
  BY ZenonT(90), <1>2 DEF Children, Units
<1>4. \A c \in Children(s) : Hangs(s, c) => Hangs(new, c)
  BY ZenonT(90), <1>2, <1>3 DEF Hangs
<1>5. KeepsGrant(new)
  BY ZenonT(90), <1>2, <1>3, <1>4 DEF FamilyFile, KeepsGrant, Reserved
<1>6. QED
  BY ZenonT(90), <1>1, <1>2, <1>3, <1>5 DEF FamilyFile, Keeps

(* What a call leaves of the invariant once the new content keeps the old  *)
(* answers and has the new ones.                                           *)
LEMMA FamilyAnswers ==
    ASSUME FamilyInv, clock' \in Nat, disk' \in surviving', Keeps(disk, disk'),
           \A s \in surviving' : s = None \/ FamilyFile(s),
           \A g \in opened' : g \in opened \/ (disk' # None /\ disk'.grant = g),
           \A q \in reserved' :
               q \in reserved \/ (q \in Requests /\ disk' # None /\ disk'.children[q.child] = q),
           revoked' => revoked \/ (disk' # None /\ disk'.parent_revoked_at # None)
    PROVE  FamilyInv'
<1>1. \A g \in opened' : disk' # None /\ disk'.grant = g
  BY ZenonT(90) DEF FamilyInv, Keeps
<1>2. \A q \in reserved' : q \in Requests /\ disk' # None /\ disk'.children[q.child] = q
  BY ZenonT(90) DEF FamilyInv, Keeps
<1>3. revoked' => disk' # None /\ disk'.parent_revoked_at # None
  BY ZenonT(90) DEF FamilyInv, Keeps
<1>4. \A s \in surviving' : s = None \/ FamilyFile(s)'
  BY DEF FamilyFile
<1>5. QED
  BY ZenonT(90), <1>1, <1>2, <1>3, <1>4 DEF FamilyInv

(* A step that leaves the file and its answers alone.                      *)
LEMMA FamilyRests ==
    ASSUME FamilyInv, clock' \in Nat, UNCHANGED <<disk, surviving, opened, reserved, revoked>>
    PROVE  FamilyInv'
<1>1. Keeps(disk, disk') /\ disk' \in surviving' /\ \A s \in surviving' : s = None \/ FamilyFile(s)
  BY ZenonT(90) DEF FamilyInv, Keeps
<1>2. QED
  BY ZenonT(90), <1>1, FamilyAnswers

(* Opening a family, again or for the first time.                          *)
LEMMA FamilyOpens ==
    ASSUME FamilyInv, NEW g \in Grants, Open(g)
    PROVE  FamilyInv'
<1>1. clock' \in Nat /\ UNCHANGED <<reserved, revoked>>
  BY DEF Open, FamilyInv
<1>2. CASE disk = None
  <2>1. PICK new : new = [grant |-> g, parent_revoked_at |-> None,
                          children |-> [c \in ChildIds |-> None]]
    BY ZenonT(60)
  <2>2. FamilyFile(new) /\ new.grant = g /\ new # None /\ Keeps(disk, new)
    BY ZenonT(90), <1>2, <2>1, FamilyBegins DEF Keeps
  <2>3. \/ Replaced(<<new>>) /\ opened' = opened \cup {g}
        \/ Unanswered(<<new>>) /\ opened' = opened
    BY <1>2, <2>1 DEF Open
  <2>4. /\ disk' \in surviving' /\ \A s \in surviving' : s = None \/ FamilyFile(s)
        /\ Keeps(disk, disk') /\ (Replaced(<<new>>) => disk' = new)
    BY ZenonT(90), <2>2, <2>3, FamilyKeeps
  <2>5. \A h \in opened' : h \in opened \/ (disk' # None /\ disk'.grant = h)
    BY ZenonT(90), <2>2, <2>3, <2>4
  <2>6. QED
    BY ZenonT(90), <1>1, <2>4, <2>5, FamilyAnswers
<1>3. CASE disk # None
  <2>1. disk.grant = g /\ Replaced(<< >>) /\ opened' = opened \cup {g}
    BY <1>3 DEF Open
  <2>2. disk' = disk /\ surviving' = surviving
    BY <2>1 DEF Replaced, directory
  <2>3. Keeps(disk, disk') /\ disk' \in surviving' /\ \A s \in surviving' : s = None \/ FamilyFile(s)
    BY ZenonT(90), <2>2 DEF FamilyInv, Keeps
  <2>4. QED
    BY ZenonT(90), <1>1, <1>3, <2>1, <2>2, <2>3, FamilyAnswers
<1>4. QED
  BY <1>2, <1>3

(* A reservation, again or for the first time.                             *)
LEMMA FamilyReserves ==
    ASSUME FamilyInv, NEW q \in Requests, ReserveChild(q)
    PROVE  FamilyInv'
<1>1. /\ clock' \in Nat /\ UNCHANGED <<opened, revoked>>
      /\ disk # None /\ FamilyFile(disk) /\ RequestIsValid(disk, q, clock)
      /\ disk.children[q.child] \in {None, q} /\ None \notin Requests
      /\ disk.children[q.child] = None => Fits(disk, q)
  BY ZenonT(90), FamilyAssumption DEF ReserveChild, FamilyInv, FamilyConstants
<1>2. CASE disk.children[q.child] = None
  <2>1. PICK new : new = [disk EXCEPT !.children[q.child] = q]
    BY ZenonT(60)
  <2>2. FamilyFile(new) /\ Keeps(disk, new)
    BY ZenonT(90), <1>1, <1>2, <2>1, FamilyGrows
  <2>3. new # None /\ new.children[q.child] = q
    BY <1>1, <2>1, <2>2 DEF FamilyFile, States, ChildIds, Keeps
  <2>4. \/ Replaced(<<new>>) /\ reserved' = reserved \cup {q}
        \/ Unanswered(<<new>>) /\ reserved' = reserved
    BY <1>1, <1>2, <2>1 DEF ReserveChild
  <2>5. /\ disk' \in surviving' /\ \A s \in surviving' : s = None \/ FamilyFile(s)
        /\ Keeps(disk, disk') /\ (Replaced(<<new>>) => disk' = new)
    BY ZenonT(90), <2>2, <2>4, FamilyKeeps
  <2>6. \A p \in reserved' :
            p \in reserved \/ (p \in Requests /\ disk' # None /\ disk'.children[p.child] = p)
    <3>1. ASSUME NEW p \in reserved', p \notin reserved PROVE p = q /\ disk' = new
      BY <2>4, <2>5, <3>1
    <3>2. QED
      BY <2>3, <3>1
  <2>7. QED
    BY ZenonT(90), <1>1, <2>5, <2>6, FamilyAnswers
<1>3. CASE disk.children[q.child] = q
  <2>1. Replaced(<< >>) /\ reserved' = reserved \cup {q}
    BY <1>1, <1>3 DEF ReserveChild
  <2>2. disk' = disk /\ surviving' = surviving
    BY <2>1 DEF Replaced, directory
  <2>3. Keeps(disk, disk') /\ disk' \in surviving' /\ \A s \in surviving' : s = None \/ FamilyFile(s)
    BY ZenonT(90), <2>2 DEF FamilyInv, Keeps
  <2>4. QED
    BY ZenonT(90), <1>1, <1>3, <2>1, <2>2, <2>3, FamilyAnswers
<1>4. QED
  BY <1>1, <1>2, <1>3

(* A revocation, again or for the first time.                              *)
LEMMA FamilyIsRevoked ==
    ASSUME FamilyInv, RevokeParent
    PROVE  FamilyInv'
<1>1. clock \in Nat /\ clock' \in Nat /\ UNCHANGED <<opened, reserved>> /\ disk # None /\ FamilyFile(disk)
  BY ZenonT(90) DEF RevokeParent, FamilyInv
<1>2. CASE disk.parent_revoked_at = None
  <2>1. PICK new : new = [disk EXCEPT !.parent_revoked_at = clock]
    BY ZenonT(60)
  <2>2. FamilyFile(new) /\ Keeps(disk, new) /\ new # None /\ new.parent_revoked_at # None
    BY ZenonT(90), <1>1, <2>1, FamilyEnds
  <2>3. \/ Replaced(<<new>>)
        \/ Unanswered(<<new>>) /\ revoked' = revoked
    BY <1>2, <2>1 DEF RevokeParent
  <2>4. /\ disk' \in surviving' /\ \A s \in surviving' : s = None \/ FamilyFile(s)
        /\ Keeps(disk, disk') /\ (Replaced(<<new>>) => disk' = new)
    BY ZenonT(90), <2>2, <2>3, FamilyKeeps
  <2>5. revoked' => revoked \/ (disk' # None /\ disk'.parent_revoked_at # None)
    BY ZenonT(60), <2>2, <2>3, <2>4
  <2>6. QED
    BY ZenonT(90), <1>1, <2>4, <2>5, FamilyAnswers
<1>3. CASE disk.parent_revoked_at # None
  <2>1. Replaced(<< >>)
    BY <1>3 DEF RevokeParent
  <2>2. disk' = disk /\ surviving' = surviving
    BY <2>1 DEF Replaced, directory
  <2>3. Keeps(disk, disk') /\ disk' \in surviving' /\ \A s \in surviving' : s = None \/ FamilyFile(s)
    BY ZenonT(90), <2>2 DEF FamilyInv, Keeps
  <2>4. QED
    BY ZenonT(90), <1>1, <1>3, <2>2, <2>3, FamilyAnswers
<1>4. QED
  BY <1>2, <1>3

(* The visible content, and every content a power loss may leave, keeps    *)
(* the grant; the visible one has every answer since the last power loss.  *)
LEMMA FamilyInvariance ==
    Spec => []FamilyInv
<1>1. Init => FamilyInv
  BY DEF Init, DirectoryInit, FamilyInv
<1>2. ASSUME FamilyInv, [Next]_vars PROVE FamilyInv'
  <2>1. ASSUME NEW q \in Requests,
               CheckBefore(q) \/ Dispatch(q) \/ EffectReturns(q) \/ RecordSuccess(q)
        PROVE  FamilyInv'
    <3>1. clock' \in Nat /\ UNCHANGED <<disk, surviving, opened, reserved, revoked>>
      BY <1>2, <2>1
      DEF CheckBefore, Dispatch, EffectReturns, RecordSuccess, histories, directory, FamilyInv
    <3>2. QED
      BY <1>2, <3>1, FamilyRests
  <2>2. CASE Tick \/ ProcessCrash
    <3>1. clock' \in Nat /\ UNCHANGED <<disk, surviving, opened, reserved, revoked>>
      BY <1>2, <2>2
      DEF Tick, ProcessCrash, histories, directory, FamilyInv
    <3>2. QED
      BY <1>2, <3>1, FamilyRests
  <2>3. CASE PowerLoss
    <3>1. /\ disk' \in surviving /\ surviving' = {disk'} /\ clock' = clock
          /\ opened' = {} /\ reserved' = {} /\ revoked' = FALSE
      BY <2>3 DEF PowerLoss, DirectoryLosesPower
    <3>2. \A s \in surviving' : s = None \/ FamilyFile(s)'
      BY ZenonT(90), <1>2, <3>1 DEF FamilyInv, FamilyFile
    <3>3. QED
      BY <1>2, <3>1, <3>2 DEF FamilyInv
  <2>4. CASE UNCHANGED vars
    <3>1. clock' \in Nat /\ UNCHANGED <<disk, surviving, opened, reserved, revoked>>
      BY <1>2, <2>4 DEF vars, histories, directory, FamilyInv
    <3>2. QED
      BY <1>2, <3>1, FamilyRests
  <2>5. QED
    BY ZenonT(90), <1>2, <2>1, <2>2, <2>3, <2>4, FamilyOpens, FamilyReserves, FamilyIsRevoked
    DEF Next
<1>3. QED
  BY <1>1, <1>2, PTL DEF Spec

(* However openers and runs race, fail and retry, and whatever a power     *)
(* loss brings back, the children form a tree below the root, within the   *)
(* depth, number and budget of the grant; one grant and one request per    *)
(* child are answered.                                                     *)
THEOREM FamilyStaysATree ==
    Spec => []AllocationsFormATree
<1>1. FamilyInv => AllocationsFormATree
  BY ZenonT(90) DEF FamilyInv, FamilyFile, AllocationsFormATree
<1>2. QED
  BY <1>1, FamilyInvariance, PTL

(* Every request has a stage.                                              *)
StageOfEach == DOMAIN stage = Requests

LEMMA StagesAreTotal ==
    Spec => []StageOfEach
<1>1. Init => StageOfEach
  BY DEF Init, StageOfEach
<1>2. ASSUME StageOfEach, [Next]_vars PROVE StageOfEach'
  <2>1. ASSUME NEW q \in Requests,
               CheckBefore(q) \/ Dispatch(q) \/ EffectReturns(q) \/ RecordSuccess(q)
        PROVE  StageOfEach'
    <3>1. \E where : Goes(q, where)
      BY <2>1 DEF CheckBefore, Dispatch, EffectReturns, RecordSuccess
    <3>2. QED
      BY <1>2, <3>1 DEF Goes, StageOfEach
  <2>2. CASE ProcessCrash \/ PowerLoss
    BY <2>2 DEF ProcessCrash, PowerLoss, StageOfEach
  <2>3. ASSUME \/ \E g \in Grants : Open(g)
               \/ \E q \in Requests : ReserveChild(q)
               \/ RevokeParent \/ Tick \/ UNCHANGED vars
        PROVE  StageOfEach'
    BY ZenonT(60), <1>2, <2>3 DEF Open, ReserveChild, RevokeParent, Tick, vars, StageOfEach
  <2>4. QED
    BY ZenonT(60), <1>2, <2>1, <2>2, <2>3 DEF Next
<1>3. QED
  BY <1>1, <1>2, PTL DEF Spec

(* Once a revocation was answered, and until power is lost, nothing is     *)
(* reserved and no run passes a check: what begins or is recorded later    *)
(* was allowed before.                                                     *)
THEOREM FamilyRevocationIsFinal ==
    Spec => RevocationIsFinal
<1> DEFINE Final == /\ UNCHANGED reserved
                    /\ Steps("cleared")' \subseteq Steps("cleared")
                    /\ Steps("running")' \subseteq Steps("running") \cup Steps("cleared")
                    /\ Steps("kept")' \subseteq Steps("kept")
                    /\ succeeded' \subseteq succeeded \cup (Steps("kept") \ Steps("kept")')
<1>1. ASSUME FamilyInv, StageOfEach, [Next]_vars
      PROVE  [revoked /\ revoked' => Final]_vars
  <2> SUFFICES ASSUME revoked, revoked', Next
               PROVE  Final
    BY <1>1
  <2>1. disk.parent_revoked_at # None
    BY <1>1 DEF FamilyInv
  <2>2. \A q \in Requests : ~ReserveChild(q) /\ ~CheckBefore(q) /\ ~GuardAllows(q)
    BY ZenonT(90), <2>1
    DEF ReserveChild, RequestIsValid, CheckBefore, GuardAllows
  <2>3. ASSUME NEW q \in Requests, Dispatch(q)
        PROVE  Final
    BY <2>3 DEF Dispatch, At, Goes, Steps, histories
  <2>4. ASSUME NEW q \in Requests, EffectReturns(q)
        PROVE  Final
    <3>1. Goes(q, "idle")
      BY <2>2, <2>4 DEF EffectReturns
    <3>2. QED
      BY <2>4, <3>1 DEF EffectReturns, Goes, At, Steps, histories
  <2>5. ASSUME NEW q \in Requests, RecordSuccess(q)
        PROVE  Final
    BY <1>1, <2>5 DEF StageOfEach, RecordSuccess, At, Goes, Steps
  <2>6. ~PowerLoss
    BY DEF PowerLoss
  <2>7. ASSUME (\E g \in Grants : Open(g)) \/ RevokeParent \/ Tick
        PROVE  Final
    <3>1. UNCHANGED <<stage, reserved, succeeded>>
      BY ZenonT(60), <2>7 DEF Open, RevokeParent, Tick, histories
    <3>2. QED
      BY <3>1 DEF Steps, At
  <2>8. CASE ProcessCrash
    BY <2>8 DEF ProcessCrash, Steps, At, histories
  <2>9. QED
    BY <2>2, <2>3, <2>4, <2>5, <2>6, <2>7, <2>8 DEF Next
<1>2. QED
  BY <1>1, FamilyInvariance, StagesAreTotal, PTL DEF Spec, RevocationIsFinal

-----------------------------------------------------------------------------
(* One shell dispatch.                                                     *)

CONSTANT MaxOutput
VARIABLES phase, parent, late, holds, kept, dropped, reader, flags

Sandbox == INSTANCE SandboxEngine

(* The thread's place, the launcher and how it ended.                      *)
ProcessInv ==
    /\ phase \in {"probe", "payload"} /\ parent \in {"valid", "revoked"}
    /\ launcher \in {"none", "running", "zombie", "reaped"}
    /\ pc \in {"start", "spawn", "stdout", "stderr", "judge", "done"} =>
           launcher \in {"none", "reaped"}
    /\ pc \in {"check", "loop", "poll"} => launcher \in {"running", "zombie"}
    /\ pc \in {"start", "spawn", "check", "loop", "poll", "stdout", "stderr", "judge", "done"}
    /\ launcher = "running" => code = Sandbox!None
    /\ launcher = "zombie" \/ code = "zero" => tree = "gone"
    /\ doomed => parent = "revoked" /\ pc \in {"check", "done"} /\ result.kind # "ok"
    /\ pc # "done" => result.kind # "ok"

(* What a reader has retained and counted, and what it has sent.           *)
Closed(s) == launcher \in {"zombie", "reaped"} /\ (tree = "gone" \/ s \notin holds)

StreamInv(s) ==
    /\ kept[s] + dropped[s] <= written[s]
    /\ kept[s] <= Sandbox!stream_limit[s]
    /\ dropped[s] > 0 => kept[s] = Sandbox!stream_limit[s]
    /\ reader[s] = "sent" => kept[s] + dropped[s] = written[s] /\ Closed(s)

OutputInv ==
    /\ Limit \in Nat
    /\ written \in [Sandbox!Streams -> Nat] /\ kept \in [Sandbox!Streams -> Nat] /\ dropped \in [Sandbox!Streams -> Nat]
    /\ reader \in [Sandbox!Streams -> {"none", "reading", "sent", "failed"}]
    /\ \A s \in Sandbox!Streams : StreamInv(s)
    /\ proved => written["stderr"] >= Sandbox!ProofBlock
    /\ pc \in {"stderr", "judge"} => reader["stdout"] = "sent"
    /\ pc = "judge" => reader["stderr"] = "sent"

(* The answer is the one the thread put together, and nothing changes what *)
(* it was put together from.                                               *)
ResultInv ==
    result.kind = "ok" =>
        /\ pc = "done" /\ proved
        /\ reader["stdout"] = "sent" /\ reader["stderr"] = "sent"
        /\ result.code = code
        /\ result.stdout = [kept |-> kept["stdout"], dropped |-> dropped["stdout"]]
        /\ result.stderr = Sandbox!enforce_retained_limit

SandboxInv == ProcessInv /\ OutputInv /\ ResultInv

(* A launch that has not begun satisfies the invariant.                    *)
LEMMA SandboxInit ==
    ASSUME Limit \in Nat, Sandbox!Init
    PROVE  SandboxInv
  BY DEF Sandbox!Init, SandboxInv, ProcessInv, OutputInv, StreamInv, ResultInv, Closed, Sandbox!Nothing, Sandbox!Streams,
      Sandbox!stream_limit, Sandbox!Pending, Sandbox!None, Sandbox!ProofBlock

(* Every action keeps the launcher where the thread believes it is.        *)
LEMMA ProcessStep ==
    ASSUME SandboxInv, Sandbox!Next
    PROVE  ProcessInv'
<1> USE DEF ProcessInv, Sandbox!Return, Sandbox!SetupFailed, Sandbox!None
<1>1. CASE Sandbox!execute
  BY ZenonT(90), <1>1 DEF Sandbox!execute, Sandbox!DispatchRefused, Sandbox!process, SandboxInv
<1>2. CASE Sandbox!probe_version
  BY <1>2 DEF Sandbox!probe_version, Sandbox!Spawned, Sandbox!process, Sandbox!pipes, SandboxInv
<1>3. CASE Sandbox!spawn_bash_trampoline
  BY ZenonT(90), <1>3 DEF Sandbox!spawn_bash_trampoline, Sandbox!Spawned, Sandbox!process, Sandbox!pipes, SandboxInv
<1>4. CASE Sandbox!CheckSpawned
  BY <1>4 DEF Sandbox!CheckSpawned, Sandbox!ChildGuardDrop, Sandbox!validate_parent, SandboxInv
<1>5. CASE Sandbox!SuperviseAuthority
  BY <1>5 DEF Sandbox!SuperviseAuthority, Sandbox!KillAndWait, Sandbox!Reap, SandboxInv
<1>6. CASE Sandbox!SupervisePoll
  BY <1>6 DEF Sandbox!SupervisePoll, Sandbox!KillAndWait, Sandbox!Reap, SandboxInv
<1>7. CASE Sandbox!receive_output("stdout", "stderr") \/ Sandbox!receive_output("stderr", "judge")
  BY <1>7 DEF Sandbox!receive_output, Sandbox!SupervisionFailed, Sandbox!process, SandboxInv
<1>8. CASE Sandbox!ProbeAnswer \/ Sandbox!PayloadAnswer
  BY <1>8 DEF Sandbox!ProbeAnswer, Sandbox!PayloadAnswer, Sandbox!process, SandboxInv
<1>9. CASE \E s \in Sandbox!Streams : Sandbox!read_bounded(s) \/ Sandbox!TreeWrites(s)
  BY <1>9 DEF Sandbox!read_bounded, Sandbox!TreeWrites, Sandbox!thread, Sandbox!process, SandboxInv
<1>10. CASE Sandbox!PayloadStarts \/ Sandbox!LauncherExits \/ Sandbox!TreeDies
  BY <1>10 DEF Sandbox!PayloadStarts, Sandbox!LauncherExits, Sandbox!TreeDies, Sandbox!thread, SandboxInv
<1>11. CASE Sandbox!DeadlinePasses \/ Sandbox!Revoke \/ Sandbox!Stops
  BY <1>11 DEF Sandbox!DeadlinePasses, Sandbox!Revoke, Sandbox!Stops, Sandbox!thread, Sandbox!process, Sandbox!vars, SandboxInv
<1> QED BY ZenonT(90), <1>1, <1>2, <1>3, <1>4, <1>5, <1>6, <1>7, <1>8, <1>9, <1>10, <1>11
        DEF Sandbox!Next, Sandbox!Dispatching

(* A spawn starts the counts over.                                         *)
LEMMA SpawnedCounts ==
    ASSUME Limit \in Nat, Sandbox!Spawned, pc' = "loop" \/ pc' = "check",
           \/ reader' = [s \in Sandbox!Streams |-> "none"]
           \/ reader' = [s \in Sandbox!Streams |-> "reading"]
    PROVE  OutputInv'
  BY DEF Sandbox!Spawned, OutputInv, StreamInv, Sandbox!Nothing, Sandbox!Streams, Sandbox!stream_limit, Sandbox!ProofBlock

(* A step of the thread that leaves the pipes and the tree alone and ends  *)
(* the launcher at most.                                                   *)
LEMMA SandboxQuietStep ==
    ASSUME OutputInv, UNCHANGED <<tree, holds, written, proved, kept, dropped>>,
           launcher' = launcher \/ launcher' = "reaped",
           UNCHANGED reader \/ reader' = [s \in Sandbox!Streams |-> "reading"],
           pc' \in {"stderr", "judge"} => reader' = reader /\ reader["stdout"] = "sent",
           pc' = "judge" => reader["stderr"] = "sent"
    PROVE  OutputInv'
<1>1. ASSUME NEW s \in Sandbox!Streams PROVE StreamInv(s)'
  BY <1>1 DEF OutputInv, StreamInv, Closed, Sandbox!Streams, Sandbox!stream_limit
<1> QED BY <1>1 DEF OutputInv, Sandbox!Streams

(* A reader thread keeps the part of the invariant that is about it.       *)
LEMMA ReaderStep ==
    ASSUME OutputInv, NEW s \in Sandbox!Streams, Sandbox!read_bounded(s)
    PROVE  OutputInv'
<1>1. UNCHANGED <<pc, launcher, tree, holds, written, proved>> /\ reader[s] = "reading"
  BY DEF Sandbox!read_bounded, Sandbox!thread, Sandbox!process
<1>2. Sandbox!stream_limit[s] \in Nat /\ written[s] \in Nat /\ kept[s] \in Nat /\ dropped[s] \in Nat
  BY DEF OutputInv, Sandbox!Streams, Sandbox!stream_limit, Sandbox!ProofBlock
<1>3. CASE Sandbox!Unread(s) > 0 /\ reader' = reader
  <2>1. PICK n \in 1 .. Sandbox!Unread(s) :
            LET available == IF kept[s] < Sandbox!stream_limit[s] THEN Sandbox!stream_limit[s] - kept[s] ELSE 0
                keep == IF available < n THEN available ELSE n
            IN /\ kept' = [kept EXCEPT ![s] = @ + keep]
               /\ dropped' = [dropped EXCEPT ![s] = @ + (n - keep)]
    BY <1>1, <1>3 DEF Sandbox!read_bounded, OutputInv, Sandbox!Streams
  <2>2. kept' \in [Sandbox!Streams -> Nat] /\ dropped' \in [Sandbox!Streams -> Nat]
    BY <1>2, <2>1 DEF OutputInv, Sandbox!Unread
  <2>3. StreamInv(s)'
    BY <1>1, <1>2, <1>3, <2>1 DEF OutputInv, StreamInv, Sandbox!Unread, Sandbox!Streams, Sandbox!stream_limit
  <2>4. ASSUME NEW q \in Sandbox!Streams, q # s PROVE StreamInv(q)'
    BY ZenonT(90), <1>1, <1>3, <2>1, <2>4 DEF OutputInv, StreamInv, Sandbox!Streams, Sandbox!stream_limit, Closed
  <2> QED BY <1>1, <1>3, <2>2, <2>3, <2>4 DEF OutputInv
<1>4. CASE kept' = kept /\ dropped' = dropped /\ reader' = [reader EXCEPT ![s] = "failed"]
  BY ZenonT(90), <1>1, <1>4 DEF OutputInv, StreamInv, Sandbox!Streams, Sandbox!stream_limit, Closed
<1>5. CASE kept' = kept /\ dropped' = dropped /\ Sandbox!AtEnd(s) /\ reader' = [reader EXCEPT ![s] = "sent"]
  <2>1. kept[s] + dropped[s] = written[s] /\ Closed(s)
    BY <1>2, <1>5 DEF Sandbox!AtEnd, Sandbox!Unread, Closed
  <2>2. ASSUME NEW q \in Sandbox!Streams PROVE StreamInv(q)'
    BY ZenonT(90), <1>1, <1>5, <2>1, <2>2 DEF OutputInv, StreamInv, Sandbox!Streams, Sandbox!stream_limit, Closed
  <2> QED BY <1>1, <1>5, <2>2 DEF OutputInv, Sandbox!Streams
<1> QED BY <1>3, <1>4, <1>5 DEF Sandbox!read_bounded

(* The processes write only to streams that are not closed.                *)
LEMMA TreeStep ==
    ASSUME SandboxInv, (\E s \in Sandbox!Streams : Sandbox!TreeWrites(s)) \/ Sandbox!PayloadStarts \/ Sandbox!LauncherExits \/ Sandbox!TreeDies
    PROVE  OutputInv'
<1>1. UNCHANGED <<pc, kept, dropped, reader>>
  BY ZenonT(90) DEF Sandbox!TreeWrites, Sandbox!PayloadStarts, Sandbox!LauncherExits, Sandbox!TreeDies, Sandbox!thread, Sandbox!pipes
<1>2. ASSUME NEW s \in Sandbox!Streams, Sandbox!TreeWrites(s) PROVE OutputInv'
  <2>1. s \in holds /\ tree # "gone" /\ UNCHANGED <<launcher, tree, proved>>
    BY <1>2 DEF Sandbox!TreeWrites, Sandbox!Alive
  <2>2. \/ written' = [written EXCEPT ![s] = @ + 1] /\ holds' = holds
        \/ written' = written /\ holds' = holds \ {s}
    BY <1>2 DEF Sandbox!TreeWrites
  <2>3. ASSUME NEW q \in Sandbox!Streams PROVE StreamInv(q)'
    BY <1>1, <2>1, <2>2, <2>3 DEF SandboxInv, OutputInv, StreamInv, Closed, Sandbox!Streams, Sandbox!stream_limit
  <2> QED BY <1>1, <2>1, <2>2, <2>3 DEF SandboxInv, OutputInv, Sandbox!Streams, Sandbox!ProofBlock
<1>3. CASE Sandbox!PayloadStarts
  <2>1. /\ launcher = "running" /\ written["stderr"] = 0
        /\ written' = [written EXCEPT !["stderr"] = Sandbox!ProofBlock] /\ launcher' = launcher
    BY <1>3 DEF Sandbox!PayloadStarts
  <2>2. ASSUME NEW q \in Sandbox!Streams PROVE StreamInv(q)'
    BY <1>1, <2>1, <2>2 DEF SandboxInv, OutputInv, StreamInv, Closed, Sandbox!Streams, Sandbox!stream_limit, Sandbox!ProofBlock
  <2> QED BY <1>1, <2>1, <2>2 DEF SandboxInv, OutputInv, Sandbox!Streams, Sandbox!ProofBlock
<1>4. CASE Sandbox!LauncherExits \/ Sandbox!TreeDies
  <2>1. UNCHANGED <<written, proved, holds>> /\ tree' = "gone"
        /\ (launcher' = launcher \/ launcher' = "zombie")
    BY <1>4 DEF Sandbox!LauncherExits, Sandbox!TreeDies
  <2>2. ASSUME NEW q \in Sandbox!Streams PROVE StreamInv(q)'
    BY <1>1, <2>1, <2>2 DEF SandboxInv, OutputInv, StreamInv, Closed, Sandbox!Streams, Sandbox!stream_limit
  <2> QED BY <1>1, <2>1, <2>2 DEF SandboxInv, OutputInv, Sandbox!Streams
<1> QED BY <1>2, <1>3, <1>4

(* Every step keeps what the captured output says of the streams.          *)
LEMMA OutputStep ==
    ASSUME SandboxInv, Sandbox!Next
    PROVE  OutputInv'
<1> USE DEF Sandbox!Return
<1>0. Limit \in Nat
  BY ZenonT(90) DEF SandboxInv, OutputInv
<1>1. CASE Sandbox!execute
  BY <1>1, SandboxQuietStep DEF Sandbox!execute, Sandbox!DispatchRefused, Sandbox!process, Sandbox!pipes, SandboxInv
<1>2. CASE Sandbox!probe_version
  <2>1. CASE Sandbox!Spawned /\ pc' = "loop" /\ reader' = [s \in Sandbox!Streams |-> "reading"]
    BY <1>0, <2>1, SpawnedCounts
  <2>2. CASE pc' = "done" /\ UNCHANGED <<Sandbox!process, Sandbox!pipes>>
    BY <2>2, SandboxQuietStep DEF Sandbox!process, Sandbox!pipes, SandboxInv
  <2> QED BY <1>2, <2>1, <2>2 DEF Sandbox!probe_version
<1>3. CASE Sandbox!spawn_bash_trampoline
  <2>1. CASE Sandbox!Spawned /\ pc' = "check" /\ reader' = [s \in Sandbox!Streams |-> "none"]
    BY <1>0, <2>1, SpawnedCounts
  <2>2. CASE pc' = "done" /\ UNCHANGED <<Sandbox!process, Sandbox!pipes>>
    BY <2>2, SandboxQuietStep DEF Sandbox!process, Sandbox!pipes, SandboxInv
  <2> QED BY <1>3, <2>1, <2>2 DEF Sandbox!spawn_bash_trampoline
<1>4. CASE Sandbox!CheckSpawned
  BY <1>4, SandboxQuietStep DEF Sandbox!CheckSpawned, Sandbox!ChildGuardDrop, SandboxInv
<1>5. CASE Sandbox!SuperviseAuthority
  BY <1>5, SandboxQuietStep DEF Sandbox!SuperviseAuthority, Sandbox!KillAndWait, Sandbox!Reap, Sandbox!pipes, SandboxInv
<1>6. CASE Sandbox!SupervisePoll
  BY <1>6, SandboxQuietStep DEF Sandbox!SupervisePoll, Sandbox!KillAndWait, Sandbox!Reap, Sandbox!pipes, SandboxInv
<1>7. CASE Sandbox!receive_output("stdout", "stderr") \/ Sandbox!receive_output("stderr", "judge")
  BY ZenonT(90), <1>7, SandboxQuietStep DEF Sandbox!receive_output, Sandbox!SupervisionFailed, Sandbox!process, Sandbox!pipes, SandboxInv, OutputInv
<1>8. CASE Sandbox!ProbeAnswer \/ Sandbox!PayloadAnswer
  BY ZenonT(90), <1>8, SandboxQuietStep DEF Sandbox!ProbeAnswer, Sandbox!PayloadAnswer, Sandbox!process, Sandbox!pipes, SandboxInv
<1>9. CASE \E s \in Sandbox!Streams : Sandbox!read_bounded(s)
  BY <1>9, ReaderStep DEF SandboxInv
<1>10. CASE (\E s \in Sandbox!Streams : Sandbox!TreeWrites(s)) \/ Sandbox!PayloadStarts \/ Sandbox!LauncherExits \/ Sandbox!TreeDies
  BY <1>10, TreeStep
<1>11. CASE Sandbox!DeadlinePasses \/ Sandbox!Revoke \/ Sandbox!Stops
  BY ZenonT(90), <1>11, SandboxQuietStep DEF Sandbox!DeadlinePasses, Sandbox!Revoke, Sandbox!Stops, Sandbox!thread, Sandbox!process, Sandbox!pipes, Sandbox!vars, SandboxInv, OutputInv
<1> QED BY <1>1, <1>2, <1>3, <1>4, <1>5, <1>6, <1>7, <1>8, <1>9, <1>10, <1>11
        DEF Sandbox!Next, Sandbox!Dispatching

(* Once the thread is done only the readers that have not sent, the        *)
(* launcher's tree, the clock and the parent's owner still move.           *)
LEMMA ResultStep ==
    ASSUME SandboxInv, Sandbox!Next
    PROVE  ResultInv'
<1> USE DEF Sandbox!Return, Sandbox!SetupFailed
<1>1. CASE result'.kind # "ok"
  BY ZenonT(90), <1>1 DEF ResultInv
<1>2. CASE Sandbox!PayloadAnswer /\ result'.kind = "ok"
  <2>1. proved /\ result' = [kind |-> "ok", code |-> code, flags |-> flags,
            stdout |-> [kept |-> kept["stdout"], dropped |-> dropped["stdout"]],
            stderr |-> Sandbox!enforce_retained_limit]
    BY <1>2 DEF Sandbox!PayloadAnswer
  <2>2. pc = "judge" /\ pc' = "done" /\ UNCHANGED <<Sandbox!process, Sandbox!pipes>>
    BY <1>2 DEF Sandbox!PayloadAnswer
  <2>3. Sandbox!enforce_retained_limit' = Sandbox!enforce_retained_limit
    BY <2>2 DEF Sandbox!enforce_retained_limit, Sandbox!StderrKept, Sandbox!pipes
  <2> QED BY ZenonT(90), <2>1, <2>2, <2>3 DEF ResultInv, SandboxInv, OutputInv, Sandbox!process, Sandbox!pipes
<1>3. CASE result'.kind = "ok" /\ result.kind = "ok"
  <2>1. pc = "done" /\ reader["stdout"] = "sent" /\ reader["stderr"] = "sent"
    BY <1>3 DEF SandboxInv, ResultInv
  <2>2. launcher # "running"
    BY <2>1 DEF SandboxInv, ProcessInv
  <2>3. UNCHANGED <<pc, result, proved, code, kept, dropped, reader>>
    <3>1. CASE \E s \in Sandbox!Streams : Sandbox!read_bounded(s) \/ Sandbox!TreeWrites(s)
      BY ZenonT(90), <2>1, <3>1 DEF Sandbox!read_bounded, Sandbox!TreeWrites, Sandbox!Streams, Sandbox!thread, Sandbox!pipes, Sandbox!process
    <3>2. CASE Sandbox!PayloadStarts \/ Sandbox!LauncherExits \/ Sandbox!TreeDies
      BY <2>2, <3>2 DEF Sandbox!PayloadStarts, Sandbox!LauncherExits, Sandbox!TreeDies, Sandbox!thread, Sandbox!pipes
    <3>3. CASE Sandbox!DeadlinePasses \/ Sandbox!Revoke \/ Sandbox!Stops
      BY ZenonT(90), <3>3 DEF Sandbox!DeadlinePasses, Sandbox!Revoke, Sandbox!Stops, Sandbox!thread, Sandbox!process, Sandbox!pipes, Sandbox!vars
    <3>4. ~Sandbox!Dispatching
      BY <2>1 DEF Sandbox!Dispatching, Sandbox!execute, Sandbox!probe_version, Sandbox!spawn_bash_trampoline, Sandbox!CheckSpawned,
                  Sandbox!SuperviseAuthority, Sandbox!SupervisePoll, Sandbox!receive_output, Sandbox!ProbeAnswer, Sandbox!PayloadAnswer
    <3> QED BY <3>1, <3>2, <3>3, <3>4 DEF Sandbox!Next
  <2>4. Sandbox!enforce_retained_limit' = Sandbox!enforce_retained_limit
    BY <2>3 DEF Sandbox!enforce_retained_limit, Sandbox!StderrKept
  <2> QED BY <1>3, <2>3, <2>4 DEF SandboxInv, ResultInv
<1>4. result'.kind = "ok" => Sandbox!PayloadAnswer \/ result.kind = "ok"
  <2>1. CASE Sandbox!Dispatching
    BY <2>1 DEF Sandbox!Dispatching, Sandbox!execute, Sandbox!DispatchRefused, Sandbox!probe_version, Sandbox!spawn_bash_trampoline,
       Sandbox!CheckSpawned, Sandbox!SuperviseAuthority, Sandbox!SupervisePoll, Sandbox!KillAndWait, Sandbox!receive_output,
       Sandbox!SupervisionFailed, Sandbox!ProbeAnswer
  <2>2. CASE ~Sandbox!Dispatching
    BY ZenonT(90), <2>2 DEF Sandbox!Next, Sandbox!read_bounded, Sandbox!TreeWrites, Sandbox!PayloadStarts, Sandbox!LauncherExits, Sandbox!TreeDies,
       Sandbox!DeadlinePasses, Sandbox!Revoke, Sandbox!Stops, Sandbox!thread, Sandbox!vars
  <2> QED BY <2>1, <2>2
<1> QED BY <1>1, <1>2, <1>3, <1>4

(* The inductive invariant of the supervision holds throughout.            *)
LEMMA SandboxInvariance ==
    Sandbox!Spec => []SandboxInv
<1>1. ASSUME SandboxInv, [Sandbox!Next]_(Sandbox!vars) PROVE SandboxInv'
  <2>1. CASE Sandbox!Next
    BY <1>1, <2>1, ProcessStep, OutputStep, ResultStep DEF SandboxInv
  <2>2. CASE UNCHANGED Sandbox!vars
    BY ZenonT(90), <1>1, <2>2 DEF Sandbox!vars, SandboxInv, ProcessInv, OutputInv, StreamInv, Closed, ResultInv,
                      Sandbox!enforce_retained_limit, Sandbox!StderrKept
  <2> QED BY <1>1, <2>1, <2>2
<1>2. Sandbox!Init => SandboxInv
  BY SandboxInit, LimitAssumption
<1> QED BY <1>1, <1>2, PTL DEF Sandbox!Spec

(* No return of execute leaves the launcher behind.                        *)
THEOREM LauncherAlwaysReaped ==
    Sandbox!Spec => []LauncherIsReaped
<1>1. SandboxInv => LauncherIsReaped
  BY DEF SandboxInv, ProcessInv, LauncherIsReaped
<1> QED BY <1>1, SandboxInvariance, PTL

(* The blocks behind the proof, retained or counted.                       *)
LEMMA Accounted ==
    ASSUME SandboxInv, result.kind = "ok"
    PROVE  /\ result.stdout.kept <= Limit /\ result.stderr.kept <= Limit
           /\ result.stdout.kept + result.stdout.dropped = written["stdout"]
           /\ ProofBlock + result.stderr.kept + result.stderr.dropped = written["stderr"]
<1>0. Limit \in Nat
  BY DEF SandboxInv, OutputInv
<1>1. /\ kept["stdout"] \in Nat /\ dropped["stdout"] \in Nat /\ kept["stdout"] <= Limit
      /\ kept["stdout"] + dropped["stdout"] = written["stdout"]
  BY DEF SandboxInv, ResultInv, OutputInv, StreamInv, Sandbox!Streams, Sandbox!stream_limit
<1>2. /\ kept["stderr"] \in Nat /\ dropped["stderr"] \in Nat
      /\ kept["stderr"] <= Limit + Sandbox!ProofBlock
      /\ dropped["stderr"] > 0 => kept["stderr"] = Limit + Sandbox!ProofBlock
      /\ kept["stderr"] + dropped["stderr"] = written["stderr"]
      /\ written["stderr"] >= Sandbox!ProofBlock
  BY DEF SandboxInv, ResultInv, OutputInv, StreamInv, Sandbox!Streams, Sandbox!stream_limit
<1>3. Sandbox!enforce_retained_limit = [kept |-> kept["stderr"] - 1, dropped |-> dropped["stderr"]]
  BY <1>2, <1>0 DEF Sandbox!enforce_retained_limit, Sandbox!StderrKept, Sandbox!ProofBlock
<1> QED BY <1>0, <1>1, <1>2, <1>3 DEF SandboxInv, ResultInv, Sandbox!ProofBlock, ProofBlock

(* Every reported output is bounded and accounts for all that was written. *)
THEOREM OutputAlwaysAccounted ==
    Sandbox!Spec => []OutputIsAccountedFor
<1>1. SandboxInv => OutputIsAccountedFor
  BY ZenonT(90), Accounted DEF OutputIsAccountedFor
<1> QED BY <1>1, SandboxInvariance, PTL

(* Every success is the payload's own, complete and under a valid parent.  *)
THEOREM SuccessAlwaysEarned ==
    Sandbox!Spec => []SuccessIsEarned
<1>1. ASSUME SandboxInv, Success
      PROVE  /\ proved /\ code = "zero" /\ tree = "gone" /\ ~doomed
             /\ written["stdout"] <= Limit /\ written["stderr"] <= Limit + ProofBlock
  <2>1. /\ result.kind = "ok" /\ result.code = "zero"
        /\ result.stdout.dropped = 0 /\ result.stderr.dropped = 0
    BY <1>1 DEF Success
  <2>2. proved /\ code = "zero" /\ tree = "gone" /\ ~doomed
    BY <1>1, <2>1 DEF SandboxInv, ResultInv, ProcessInv
  <2>3. result.stdout.kept \in Nat /\ result.stderr.kept \in Int
    BY <1>1, <2>1
    DEF SandboxInv, ResultInv, OutputInv, Sandbox!Streams, Sandbox!enforce_retained_limit, Sandbox!StderrKept, Sandbox!ProofBlock
  <2>4. Limit \in Nat
    BY <1>1 DEF SandboxInv, OutputInv
  <2> QED BY <1>1, <2>1, <2>2, <2>3, <2>4, Accounted DEF ProofBlock
<1>2. SandboxInv => SuccessIsEarned
  BY <1>1 DEF SuccessIsEarned
<1> QED BY <1>2, SandboxInvariance, PTL

(* For every output limit a dispatch returns what happened, whatever the   *)
(* launcher and its tree do.                                               *)
THEOREM DispatchesAreSupervised ==
    Sandbox!Spec => []DispatchIsSupervised
<1>1. LauncherIsReaped /\ OutputIsAccountedFor /\ SuccessIsEarned => DispatchIsSupervised
  BY DEF DispatchIsSupervised
<1> QED BY <1>1, LauncherAlwaysReaped, OutputAlwaysAccounted, SuccessAlwaysEarned, PTL
=============================================================================
