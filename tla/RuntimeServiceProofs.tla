------------------------ MODULE RuntimeServiceProofs ------------------------
(***************************************************************************)
(* AnswersAreTrue and LeavesFollowExecutions of RuntimeService, for every  *)
(* number of threads, processes, operations, keys and calls.  The module   *)
(* states the invariant of the calls, the runs, the rows and the leaves,   *)
(* and takes the actions one by one.                                       *)
(***************************************************************************)
EXTENDS RuntimeService, Integers, TLAPS

Row == [key : Keys, cancel : BOOLEAN]
Points ==
    {"idle", "denied", "lookup", "prior", "admit", "acquire", "open", "execute", "locate",
     "authorize", "queue", "replay", "reauthorize", "status", "request", "drain"}
CallType == [pc : Points, call : Calls \cup {None}, count : Nat]
Executing(t) == At(t, "open") \/ At(t, "execute")

(* Past its first steps a call of idempotent_submit is bound to a row.     *)
Keyed(t) == call[t].call.kind = "keyed"
Bound(o, k) == rows[o] # None /\ rows[o].key = k
Holds(t) == \E q \in {"prior", "acquire", "open", "execute"} : At(t, q)

(* A thread off idle is in a call, and one of idempotent_submit never gets *)
(* where only the provider path and cancel do.                             *)
CallInv ==
    /\ call \in [Threads -> CallType]
    /\ \A t \in Threads : ~At(t, "idle") =>
          /\ call[t].call \in Calls
          /\ Keyed(t) => ~At(t, "reauthorize") /\ ~At(t, "replay") /\ ~At(t, "locate")
                         /\ ~At(t, "authorize") /\ ~At(t, "queue")
          /\ At(t, "lookup") \/ At(t, "prior") \/ At(t, "admit") => Keyed(t)
    /\ \A a \in answers : a.call \in Calls

RunType == [Operations -> {"absent", "created", "open", "ended"}]
Executed == [o \in Operations |-> IF run[o] \in {"open", "ended"} THEN 1 ELSE 0]

(* An operation was executed once if its run has receipts and not at all   *)
(* otherwise; whoever executes it, or goes on to answer from its evidence, *)
(* has a run to show.                                                      *)
RunInv ==
    /\ run \in RunType /\ executions = Executed
    /\ \A t \in Threads : At(t, "execute") => run[Op(t)] \in {"open", "ended"}
    /\ \A t \in Threads : At(t, "reauthorize") => run[Op(t)] = "ended"
    /\ \A a \in answers : a.result = "handle" => run[a.call.op] = "ended"

(* What a handle saw of the file is still there, and what a call was told  *)
(* or relies on is in the file.                                            *)
RowInv ==
    /\ rows \in [Operations -> Row \cup {None}]
    /\ snapshot \in [Processes -> [Operations -> Row \cup {None}]]
    /\ \A o, q \in Operations : rows[o] # None /\ rows[q] # None /\ rows[o].key = rows[q].key => o = q
    /\ \A p \in Processes, o \in Operations : snapshot[p][o] # None => Bound(o, snapshot[p][o].key)
    /\ \A t \in Threads : Holds(t) /\ Keyed(t) => Bound(Op(t), Key(t))
    /\ \A t \in Threads : At(t, "drain") => rows[Op(t)] # None /\ rows[Op(t)].cancel
    /\ \A a \in answers : a.call.kind = "keyed" /\ a.result = "handle" => Bound(a.call.op, a.call.key)
    /\ \A a \in answers : a.result = "requested" => rows[a.call.op] # None /\ rows[a.call.op].cancel

(* The leaves of a process, one per thread that executes.                  *)
LeafInv ==
    /\ leaf \in [Processes -> [Operations -> {"absent", "active", "draining", "spent"}]]
    /\ \A p \in Processes, o \in Operations :
          IsActive(p, o) <=> \E t \in Threads : Home[t] = p /\ Executing(t) /\ Op(t) = o
    /\ \A t, u \in Threads :
          Home[t] = Home[u] /\ Executing(t) /\ Executing(u) /\ Op(t) = Op(u) => t = u

ServiceInv == CallInv /\ RunInv /\ RowInv /\ LeafInv

(* How the call of one thread moves on.                                    *)
Moved(t, q) ==
    /\ call' \in [Threads -> CallType]
    /\ call'[t].pc = q /\ call'[t].call = call[t].call
    /\ \A u \in Threads \ {t} : call'[u] = call[u]
Tells(t, r) == answers' = answers \cup {[call |-> call[t].call, result |-> r]}

(* Goes changes the point of one call.                                     *)
LEMMA GoesMoves ==
    ASSUME CallInv, NEW t \in Threads, NEW q \in Points, Goes(t, q)
    PROVE  Moved(t, q)
<1>1. call[t] \in CallType
  BY DEF CallInv
<1>2. call' = [call EXCEPT ![t] = [call[t] EXCEPT !.pc = q]]
  BY DEF Goes
<1>3. /\ [call[t] EXCEPT !.pc = q] \in CallType
      /\ [call[t] EXCEPT !.pc = q].pc = q
      /\ [call[t] EXCEPT !.pc = q].call = call[t].call
  BY <1>1 DEF CallType
<1> HIDE DEF CallType
<1>4. call'[t] = [call[t] EXCEPT !.pc = q]
  BY <1>2 DEF CallInv
<1>5. call' \in [Threads -> CallType] /\ \A u \in Threads \ {t} : call'[u] = call[u]
  BY <1>2, <1>3 DEF CallInv
<1> QED BY <1>3, <1>4, <1>5 DEF Moved

(* Returns ends it, and answers.                                           *)
LEMMA ReturnsMoves ==
    ASSUME CallInv, NEW t \in Threads, NEW r, Returns(t, r)
    PROVE  Moved(t, "idle") /\ Tells(t, r)
<1>1. Goes(t, "idle") /\ Tells(t, r)
  BY ZenonT(90) DEF Returns, Tells
<1>2. "idle" \in Points
  BY DEF Points
<1> QED BY <1>1, <1>2, GoesMoves, ZenonT(90)

(* A call that moves on stays a call of Calls.                             *)
LEMMA CallKept ==
    ASSUME CallInv, NEW t \in Threads, NEW q, Moved(t, q), ~At(t, "idle"),
           UNCHANGED answers \/ \E r : Tells(t, r),
           q \in {"reauthorize", "replay", "locate", "authorize", "queue"} => ~Keyed(t),
           q \in {"lookup", "prior", "admit"} => Keyed(t)
    PROVE  CallInv'
<1>1. call[t].call \in Calls
  BY DEF CallInv
<1>2. ASSUME NEW u \in Threads, ~At(u, "idle")'
      PROVE  /\ call'[u].call \in Calls
             /\ Keyed(u)' => /\ call'[u].pc # "reauthorize" /\ call'[u].pc # "replay"
                             /\ call'[u].pc # "locate" /\ call'[u].pc # "authorize"
                             /\ call'[u].pc # "queue"
             /\ call'[u].pc \in {"lookup", "prior", "admit"} => Keyed(u)'
  BY <1>1, <1>2 DEF CallInv, Moved, At, Keyed
<1>3. \A a \in answers' : a.call \in Calls
  BY <1>1 DEF CallInv, Tells
<1>4. call' \in [Threads -> CallType]
  BY DEF Moved, CallType
<1> QED BY <1>2, <1>3, <1>4, ZenonT(90) DEF CallInv, At, Keyed

(* The runs stay, and the call answers from one that ended if at all.      *)
LEMMA RunKept ==
    ASSUME CallInv, RunInv, NEW t \in Threads, NEW q, Moved(t, q), UNCHANGED <<run, executions>>,
           q # "execute", q = "reauthorize" => run[Op(t)] = "ended",
           UNCHANGED answers \/ \E r : Tells(t, r) /\ (r = "handle" => run[Op(t)] = "ended")
    PROVE  RunInv'
<1>1. ASSUME NEW u \in Threads
      PROVE  /\ (At(u, "execute") => run[Op(u)] \in {"open", "ended"})'
             /\ (At(u, "reauthorize") => run[Op(u)] = "ended")'
  BY DEF RunInv, Moved, At, Op
<1>2. \A a \in answers' : a.result = "handle" => run[a.call.op] = "ended"
  BY DEF RunInv, Tells, Op
<1> QED BY <1>1, <1>2 DEF RunInv, Executed

(* No row is lost, changes its key or forgets a cancellation.              *)
Grows ==
    \A o \in Operations : rows[o] # None =>
        /\ rows'[o] # None /\ rows'[o].key = rows[o].key
        /\ rows[o].cancel => rows'[o].cancel

(* The file grows, the snapshots follow it, and the call relies on and is  *)
(* answered what is in it.                                                 *)
LEMMA RowKept ==
    ASSUME CallInv, RowInv, NEW t \in Threads, NEW q, Moved(t, q), ~At(t, "idle"), Grows,
           (rows \in [Operations -> Row \cup {None}])',
           (snapshot \in [Processes -> [Operations -> Row \cup {None}]])',
           (\A o, p \in Operations : rows[o] # None /\ rows[p] # None /\ rows[o].key = rows[p].key => o = p)',
           (\A p \in Processes, o \in Operations : snapshot[p][o] # None => Bound(o, snapshot[p][o].key))',
           q \in {"prior", "acquire", "open", "execute"} /\ Keyed(t) => Bound(Op(t), Key(t))',
           q = "drain" => rows'[Op(t)] # None /\ rows'[Op(t)].cancel,
           UNCHANGED answers \/ \E r : /\ Tells(t, r)
                                       /\ r = "handle" /\ Keyed(t) => Bound(Op(t), Key(t))
                                       /\ r = "requested" => rows[Op(t)] # None /\ rows[Op(t)].cancel
    PROVE  RowInv'
<1>1. call[t].call \in Calls /\ Op(t) \in Operations
  BY CallsAssumption DEF CallInv, Op
<1>2. ASSUME NEW u \in Threads, (Holds(u) /\ Keyed(u))'
      PROVE  Bound(Op(u), Key(u))'
  <2>1. CASE u = t
    BY <1>2, <2>1 DEF Moved, Holds, At, Keyed
  <2>2. CASE u # t
    <3>1. call'[u] = call[u] /\ Holds(u) /\ Keyed(u)
      BY <1>2, <2>2 DEF Moved, Holds, At, Keyed
    <3>2. ~At(u, "idle") /\ Op(u) \in Operations
      BY <3>1, CallsAssumption DEF Holds, At, CallInv, Op
    <3>3. Bound(Op(u), Key(u))
      BY <3>1 DEF RowInv
    <3>4. Op(u)' = Op(u) /\ Key(u)' = Key(u)
      BY <3>1 DEF Op, Key
    <3> QED BY <3>2, <3>3, <3>4 DEF Grows, Bound
  <2> QED BY <2>1, <2>2
<1>3. ASSUME NEW u \in Threads, At(u, "drain")'
      PROVE  (rows[Op(u)] # None /\ rows[Op(u)].cancel)'
  <2>1. CASE u = t
    BY <1>3, <2>1 DEF Moved, At, Op
  <2>2. CASE u # t
    <3>1. call'[u] = call[u] /\ At(u, "drain")
      BY <1>3, <2>2 DEF Moved, At
    <3>2. Op(u) \in Operations
      BY <3>1, CallsAssumption DEF At, CallInv, Op
    <3> QED BY ZenonT(90), <3>1, <3>2 DEF RowInv, Grows, Op
  <2> QED BY <2>1, <2>2
<1>4. ASSUME NEW a \in answers'
      PROVE  /\ a.call.kind = "keyed" /\ a.result = "handle" => Bound(a.call.op, a.call.key)'
             /\ a.result = "requested" => (rows[a.call.op] # None /\ rows[a.call.op].cancel)'
  <2>1. CASE a \in answers
    <3>1. a.call.op \in Operations
      BY <2>1, CallsAssumption DEF CallInv
    <3> QED BY <2>1, <3>1 DEF RowInv, Grows, Bound
  <2>2. CASE a \notin answers
    <3>1. PICK r : /\ a = [call |-> call[t].call, result |-> r]
                   /\ r = "handle" /\ Keyed(t) => Bound(Op(t), Key(t))
                   /\ r = "requested" => rows[Op(t)] # None /\ rows[Op(t)].cancel
      BY <1>4, <2>2 DEF Tells
    <3> QED BY ZenonT(90), <1>1, <3>1 DEF Grows, Bound, Op, Key, Keyed
  <2> QED BY <2>1, <2>2
<1> QED BY <1>2, <1>3, <1>4 DEF RowInv

(* Nothing is acquired or released.                                        *)
LEMMA LeafKept ==
    ASSUME LeafInv, NEW t \in Threads, NEW q, Moved(t, q), UNCHANGED leaf,
           Executing(t) <=> q \in {"open", "execute"}
    PROVE  LeafInv'
<1>1. \A u \in Threads : (Executing(u)' <=> Executing(u)) /\ Op(u)' = Op(u)
  BY DEF Moved, Executing, At, Op
<1>2. ASSUME NEW p \in Processes, NEW o \in Operations
      PROVE  (IsActive(p, o) <=> \E u \in Threads : Home[u] = p /\ Executing(u) /\ Op(u) = o)'
  <2>1. IsActive(p, o) <=> \E u \in Threads : Home[u] = p /\ Executing(u) /\ Op(u) = o
    BY DEF LeafInv
  <2>2. IsActive(p, o)' <=> IsActive(p, o)
    BY DEF IsActive
  <2> QED BY <1>1, <2>1, <2>2
<1>3. ASSUME NEW u \in Threads, NEW w \in Threads,
             (Home[u] = Home[w] /\ Executing(u) /\ Executing(w) /\ Op(u) = Op(w))'
      PROVE  u = w
  BY <1>1, <1>3 DEF LeafInv
<1> QED BY <1>2, <1>3 DEF LeafInv

(* A step that leaves the file and the runs alone.                         *)
LEMMA QuietStep ==
    ASSUME CallInv, RunInv, RowInv, NEW t \in Threads, NEW q, Moved(t, q), ~At(t, "idle"),
           UNCHANGED <<rows, snapshot, run, executions>>,
           q # "execute", q # "drain", q = "reauthorize" => run[Op(t)] = "ended",
           q \in {"reauthorize", "replay", "locate", "authorize", "queue"} => ~Keyed(t),
           q \in {"lookup", "prior", "admit"} => Keyed(t),
           q \in {"prior", "acquire", "open"} /\ Keyed(t) => Bound(Op(t), Key(t)),
           UNCHANGED answers \/ \E r : /\ Tells(t, r) /\ r # "requested"
                                       /\ r = "handle" => run[Op(t)] = "ended"
                                       /\ r = "handle" /\ Keyed(t) => Bound(Op(t), Key(t))
    PROVE  CallInv' /\ RunInv' /\ RowInv'
<1>1. CallInv'
  BY CallKept
<1>2. RunInv'
  BY RunKept
<1>3. Grows
  BY DEF Grows
<1>4. (rows \in [Operations -> Row \cup {None}])'
      /\ (snapshot \in [Processes -> [Operations -> Row \cup {None}]])'
  BY DEF RowInv
<1>5. (\A o, p \in Operations : rows[o] # None /\ rows[p] # None /\ rows[o].key = rows[p].key => o = p)'
  BY DEF RowInv
<1>6. (\A p \in Processes, o \in Operations : snapshot[p][o] # None => Bound(o, snapshot[p][o].key))'
  BY DEF RowInv, Bound
<1>7. q \in {"prior", "acquire", "open", "execute"} /\ Keyed(t) => Bound(Op(t), Key(t))'
  BY DEF Moved, Bound, Op, Key
<1>8. UNCHANGED answers \/ \E r : /\ Tells(t, r)
                                  /\ r = "handle" /\ Keyed(t) => Bound(Op(t), Key(t))
                                  /\ r = "requested" => rows[Op(t)] # None /\ rows[Op(t)].cancel
  BY ZenonT(90)
<1>9. RowInv'
  BY <1>3, <1>4, <1>5, <1>6, <1>7, <1>8, RowKept, ZenonT(90)
<1> QED BY <1>1, <1>2, <1>9

(* The call goes to q, or answers, from what it read of the run.           *)
Reads(t, q) ==
    /\ Moved(t, q)
    /\ q = "reauthorize" => run[Op(t)] = "ended"
    /\ q \in {"reauthorize", "replay", "authorize", "queue"} => ~Keyed(t)
    /\ \/ UNCHANGED answers
       \/ \E r : /\ Tells(t, r) /\ r # "requested"
                 /\ r = "handle" => run[Op(t)] = "ended" /\ ~Keyed(t)

(* Deny, Status, Locate, Authorize, Replay and Reauthorize read only.      *)
LEMMA ReadingStep ==
    ASSUME ServiceInv, NEW t \in Threads,
           Deny(t) \/ Locate(t) \/ Authorize(t) \/ Replay(t) \/ Reauthorize(t) \/ Status(t)
    PROVE  ServiceInv'
<1> DEFINE Read == {"idle", "authorize", "replay", "queue", "reauthorize", "request"}
<1>1. ~At(t, "idle") /\ ~Executing(t) /\ UNCHANGED <<rows, snapshot, leaf, run, executions>>
  BY DEF Deny, Locate, Authorize, Replay, Reauthorize, Status, At, Executing, store, histories
<1>2. At(t, "locate") \/ At(t, "authorize") \/ At(t, "replay") \/ At(t, "reauthorize") => ~Keyed(t)
  BY <1>1 DEF ServiceInv, CallInv
<1>3. ASSUME NEW q \in Points, Goes(t, q) PROVE Moved(t, q)
  BY <1>3, GoesMoves DEF ServiceInv
<1>4. ASSUME Returns(t, "refused") \/ Returns(t, "terminal")
      PROVE  \E q \in Read : Reads(t, q)
  <2>1. Moved(t, "idle") /\ (Tells(t, "refused") \/ Tells(t, "terminal"))
    BY <1>4, ReturnsMoves, ZenonT(90) DEF ServiceInv
  <2> QED BY <2>1 DEF Reads
<1>5. ASSUME NEW q \in Read, Goes(t, q), UNCHANGED answers, q = "reauthorize" => run[Op(t)] = "ended",
             q = "request" \/ ~Keyed(t)
      PROVE  \E p \in Read : Reads(t, p)
  <2>1. Moved(t, q)
    BY <1>3, <1>5 DEF Points
  <2> QED BY <1>5, <2>1, ZenonT(90) DEF Reads
<1>6. \E q \in Read : Reads(t, q)
  <2>1. CASE Deny(t)
    BY <1>4, <2>1, ZenonT(90) DEF Deny
  <2>2. CASE Locate(t)
    <3>1. ~Keyed(t) /\ UNCHANGED answers /\ (Goes(t, "authorize") \/ Goes(t, "replay"))
      BY <1>2, <2>2 DEF Locate, histories
    <3> QED BY <1>5, <3>1
  <2>3. CASE Authorize(t)
    BY <1>2, <1>4, <1>5, <2>3 DEF Authorize
  <2>4. CASE Replay(t)
    BY <1>2, <1>4, <1>5, <2>4 DEF Replay
  <2>5. CASE Reauthorize(t)
    <3>1. run[Op(t)] = "ended" /\ ~Keyed(t)
      BY <1>2, <2>5 DEF ServiceInv, RunInv, Reauthorize
    <3>2. Returns(t, "refused") \/ Returns(t, "handle")
      BY <2>5, ZenonT(90) DEF Reauthorize
    <3>3. CASE Returns(t, "handle")
      <4>1. Moved(t, "idle") /\ Tells(t, "handle")
        BY <3>3, ReturnsMoves, ZenonT(90) DEF ServiceInv
      <4> QED BY <3>1, <4>1 DEF Reads
    <3> QED BY <1>4, <3>2, <3>3
  <2>6. CASE Status(t)
    <3>1. Returns(t, "refused") \/ Returns(t, "terminal") \/ (Goes(t, "request") /\ UNCHANGED answers)
      BY <2>6 DEF Status
    <3> QED BY <1>4, <1>5, <3>1
  <2> QED BY <2>1, <2>2, <2>3, <2>4, <2>5, <2>6
<1>7. PICK q \in Read : Reads(t, q)
  BY <1>6
<1>8. CallInv' /\ RunInv' /\ RowInv'
  BY <1>1, <1>7, QuietStep DEF ServiceInv, Reads
<1>9. LeafInv'
  BY <1>1, <1>7, LeafKept DEF ServiceInv, Reads
<1> QED BY <1>8, <1>9 DEF ServiceInv

(* The answer is no handle and no requested cancellation.                  *)
Refuses(t) ==
    Returns(t, "refused") \/ Returns(t, "conflict") \/ Returns(t, "poisoned")

(* LookUp and VerifyPrior trust the snapshot, which the file has outgrown  *)
(* at most.                                                                *)
LEMMA LookUpStep ==
    ASSUME ServiceInv, NEW t \in Threads, LookUp(t) \/ VerifyPrior(t)
    PROVE  ServiceInv'
<1>1. /\ ~At(t, "idle") /\ ~Executing(t) /\ UNCHANGED <<rows, snapshot, leaf, run, executions>>
      /\ Home[t] \in Processes /\ Op(t) \in Operations /\ Keyed(t)
  BY CallsAssumption
  DEF LookUp, VerifyPrior, At, Executing, store, ServiceInv, CallInv, Op
<1>2. CASE Refuses(t)
  <2>1. Moved(t, "idle") /\ (Tells(t, "refused") \/ Tells(t, "conflict") \/ Tells(t, "poisoned"))
    BY <1>2, ReturnsMoves, ZenonT(90) DEF ServiceInv, Refuses
  <2>2. CallInv' /\ RunInv' /\ RowInv'
    BY <1>1, <2>1, QuietStep DEF ServiceInv
  <2>3. LeafInv'
    BY <1>1, <2>1, LeafKept DEF ServiceInv
  <2> QED BY <2>2, <2>3 DEF ServiceInv
<1>3. CASE LookUp(t) /\ Goes(t, "admit") /\ UNCHANGED answers
  <2>1. Moved(t, "admit")
    BY <1>3, GoesMoves DEF ServiceInv, Points
  <2>2. CallInv' /\ RunInv' /\ RowInv'
    BY <1>1, <1>3, <2>1, QuietStep DEF ServiceInv
  <2>3. LeafInv'
    BY <1>1, <2>1, LeafKept DEF ServiceInv
  <2> QED BY <2>2, <2>3 DEF ServiceInv
<1>4. CASE /\ Goes(t, "prior") /\ UNCHANGED answers
           /\ Op(t) \in {o \in Operations : snapshot[Home[t]][o] # None
                                              /\ snapshot[Home[t]][o].key = Key(t)}
  <2>1. Moved(t, "prior")
    BY <1>4, GoesMoves DEF ServiceInv, Points
  <2>2. Bound(Op(t), Key(t))
    BY ZenonT(60), <1>1, <1>4 DEF ServiceInv, RowInv
  <2>3. CallInv' /\ RunInv' /\ RowInv'
    BY ZenonT(60), <1>1, <1>4, <2>1, <2>2, QuietStep DEF ServiceInv
  <2>4. LeafInv'
    BY <1>1, <2>1, LeafKept DEF ServiceInv
  <2> QED BY <2>3, <2>4 DEF ServiceInv
<1>5. CASE VerifyPrior(t)
  <2>1. Keyed(t) => Bound(Op(t), Key(t))
    BY <1>5 DEF VerifyPrior, Holds, ServiceInv, RowInv
  <2>2. (Returns(t, "handle") /\ run[Op(t)] = "ended") \/ Refuses(t)
    BY <1>5 DEF VerifyPrior, Refuses
  <2>3. CASE Returns(t, "handle") /\ run[Op(t)] = "ended"
    <3>1. Moved(t, "idle") /\ Tells(t, "handle")
      BY <2>3, ReturnsMoves, ZenonT(90) DEF ServiceInv
    <3>2. CallInv' /\ RunInv' /\ RowInv'
      BY <1>1, <2>1, <2>3, <3>1, QuietStep DEF ServiceInv
    <3>3. LeafInv'
      BY <1>1, <3>1, LeafKept DEF ServiceInv
    <3> QED BY <3>2, <3>3 DEF ServiceInv
  <2> QED BY <1>2, <2>2, <2>3
<1>6. CASE LookUp(t)
  BY ZenonT(90), <1>2, <1>3, <1>4, <1>6 DEF LookUp, Refuses
<1> QED BY <1>5, <1>6

(* A leaf is taken by a thread that did not execute.                       *)
LEMMA LeafTaken ==
    ASSUME CallInv, LeafInv, NEW t \in Threads, Moved(t, "open"), ~At(t, "idle"), ~Executing(t),
           leaf[Home[t]][Op(t)] = "absent",
           leaf' = [leaf EXCEPT ![Home[t]][Op(t)] = "active"]
    PROVE  LeafInv'
<1>1. Home[t] \in Processes /\ Op(t) \in Operations
  BY CallsAssumption DEF CallInv, Op
<1>2. \A u \in Threads : Executing(u)' <=> Executing(u) \/ u = t
  BY DEF Moved, Executing, At
<1>3. \A u \in Threads : Op(u)' = Op(u)
  BY DEF Moved, Op
<1>4. leaf' \in [Processes -> [Operations -> {"absent", "active", "draining", "spent"}]]
  BY <1>1 DEF LeafInv
<1>5. \A p \in Processes, o \in Operations :
          IsActive(p, o)' <=> IsActive(p, o) \/ (p = Home[t] /\ o = Op(t))
  BY <1>1 DEF LeafInv, IsActive
<1>6. ASSUME NEW p \in Processes, NEW o \in Operations
      PROVE  (IsActive(p, o) <=> \E u \in Threads : Home[u] = p /\ Executing(u) /\ Op(u) = o)'
  <2>1. IsActive(p, o) <=> \E u \in Threads : Home[u] = p /\ Executing(u) /\ Op(u) = o
    BY DEF LeafInv
  <2> QED BY <1>2, <1>3, <1>5, <2>1
<1>7. ~IsActive(Home[t], Op(t))
  BY DEF IsActive
<1>8. \A u \in Threads : Home[u] = Home[t] /\ Op(u) = Op(t) => ~Executing(u)
  BY <1>1, <1>7 DEF LeafInv
<1>9. ASSUME NEW u \in Threads, NEW w \in Threads,
             (Home[u] = Home[w] /\ Executing(u) /\ Executing(w) /\ Op(u) = Op(w))'
      PROVE  u = w
  BY <1>2, <1>3, <1>8, <1>9 DEF LeafInv
<1> QED BY <1>4, <1>6, <1>9 DEF LeafInv

(* It is given back by the thread that executes under it, and no other.    *)
LEMMA LeafReleased ==
    ASSUME CallInv, LeafInv, NEW t \in Threads, Moved(t, "idle"), Executing(t), Release(t)
    PROVE  LeafInv'
<1>1. Home[t] \in Processes /\ Op(t) \in Operations
  BY CallsAssumption DEF CallInv, Op, Executing, At
<1>2. \A u \in Threads : Executing(u)' <=> Executing(u) /\ u # t
  BY DEF Moved, Executing, At
<1>3. \A u \in Threads : Op(u)' = Op(u)
  BY DEF Moved, Op
<1>4. leaf' \in [Processes -> [Operations -> {"absent", "active", "draining", "spent"}]]
  BY <1>1 DEF LeafInv, Release
<1>5. \A p \in Processes, o \in Operations :
          IsActive(p, o)' <=> IsActive(p, o) /\ ~(p = Home[t] /\ o = Op(t))
  BY <1>1 DEF LeafInv, IsActive, Release
<1>6. \A u \in Threads : u # t /\ Home[u] = Home[t] /\ Op(u) = Op(t) => ~Executing(u)
  BY DEF LeafInv
<1>7. ASSUME NEW p \in Processes, NEW o \in Operations
      PROVE  (IsActive(p, o) <=> \E u \in Threads : Home[u] = p /\ Executing(u) /\ Op(u) = o)'
  <2>1. IsActive(p, o) <=> \E u \in Threads : Home[u] = p /\ Executing(u) /\ Op(u) = o
    BY DEF LeafInv
  <2> QED BY <1>2, <1>3, <1>5, <1>6, <2>1
<1>8. ASSUME NEW u \in Threads, NEW w \in Threads,
             (Home[u] = Home[w] /\ Executing(u) /\ Executing(w) /\ Op(u) = Op(w))'
      PROVE  u = w
  BY <1>2, <1>3, <1>8 DEF LeafInv
<1> QED BY <1>4, <1>7, <1>8 DEF LeafInv

(* Acquire and Queue: a leaf, or a refusal.                                *)
LEMMA AcquireStep ==
    ASSUME ServiceInv, NEW t \in Threads, Acquire(t) \/ Queue(t)
    PROVE  ServiceInv'
<1>1. ~At(t, "idle") /\ ~Executing(t) /\ UNCHANGED <<rows, snapshot, run, executions>>
  BY DEF Acquire, Queue, At, Executing, store
<1>2. Keyed(t) => Bound(Op(t), Key(t))
  <2>1. At(t, "queue") => ~Keyed(t)
    BY ZenonT(60), <1>1 DEF ServiceInv, CallInv
  <2>2. At(t, "acquire") => Holds(t)
    BY DEF Holds
  <2>3. At(t, "queue") \/ At(t, "acquire")
    BY DEF Acquire, Queue
  <2> QED BY ZenonT(90), <2>1, <2>2, <2>3 DEF ServiceInv, RowInv
<1>3. \/ Returns(t, "refused") /\ UNCHANGED leaf
      \/ /\ leaf[Home[t]][Op(t)] = "absent"
         /\ leaf' = [leaf EXCEPT ![Home[t]][Op(t)] = "active"]
         /\ Goes(t, "open") /\ UNCHANGED answers
  BY DEF Acquire, Queue
<1>4. CASE Returns(t, "refused") /\ UNCHANGED leaf
  <2>1. Moved(t, "idle") /\ Tells(t, "refused")
    BY <1>4, ReturnsMoves, ZenonT(90) DEF ServiceInv
  <2>2. CallInv' /\ RunInv' /\ RowInv'
    BY <1>1, <2>1, QuietStep DEF ServiceInv
  <2>3. LeafInv'
    BY <1>1, <1>4, <2>1, LeafKept DEF ServiceInv
  <2> QED BY <2>2, <2>3 DEF ServiceInv
<1>5. CASE /\ leaf[Home[t]][Op(t)] = "absent"
           /\ leaf' = [leaf EXCEPT ![Home[t]][Op(t)] = "active"]
           /\ Goes(t, "open") /\ UNCHANGED answers
  <2>1. Moved(t, "open")
    BY <1>5, GoesMoves DEF ServiceInv, Points
  <2>2. CallInv' /\ RunInv' /\ RowInv'
    BY <1>1, <1>2, <1>5, <2>1, QuietStep DEF ServiceInv
  <2>3. LeafInv'
    BY ZenonT(90), <1>1, <1>5, <2>1, LeafTaken DEF ServiceInv
  <2> QED BY <2>2, <2>3 DEF ServiceInv
<1> QED BY <1>3, <1>4, <1>5

(* A step that changes the runs, and not the file.                         *)
LEMMA RowStill ==
    ASSUME CallInv, RowInv, NEW t \in Threads, NEW q, Moved(t, q), ~At(t, "idle"),
           UNCHANGED <<rows, snapshot>>, q # "drain",
           Keyed(t) => Bound(Op(t), Key(t)),
           UNCHANGED answers \/ \E r : Tells(t, r) /\ r # "requested"
    PROVE  RowInv'
<1>1. Grows
  BY DEF Grows
<1>2. (rows \in [Operations -> Row \cup {None}])'
      /\ (snapshot \in [Processes -> [Operations -> Row \cup {None}]])'
  BY ZenonT(90) DEF RowInv
<1>3. (\A o, p \in Operations : rows[o] # None /\ rows[p] # None /\ rows[o].key = rows[p].key => o = p)'
  BY ZenonT(90) DEF RowInv
<1>4. (\A p \in Processes, o \in Operations : snapshot[p][o] # None => Bound(o, snapshot[p][o].key))'
  BY ZenonT(90) DEF RowInv, Bound
<1>5. Keyed(t) => Bound(Op(t), Key(t))'
  BY DEF Moved, Bound, Op, Key
<1>6. UNCHANGED answers \/ \E r : /\ Tells(t, r)
                                  /\ r = "handle" /\ Keyed(t) => Bound(Op(t), Key(t))
                                  /\ r = "requested" => rows[Op(t)] # None /\ rows[Op(t)].cancel
  BY ZenonT(90)
<1> QED BY <1>1, <1>2, <1>3, <1>4, <1>5, <1>6, RowKept, ZenonT(90)

(* Runs advance, and the call counts its execution.                        *)
Advances ==
    /\ run' \in RunType /\ executions' = Executed'
    /\ \A o \in Operations : run[o] = "open" => run'[o] \in {"open", "ended"}
    /\ \A o \in Operations : run[o] = "ended" => run'[o] = "ended"

(* A step that advances a run.                                             *)
LEMMA RunAdvances ==
    ASSUME CallInv, RunInv, NEW t \in Threads, NEW q, Moved(t, q), ~At(t, "idle"), Advances,
           q = "execute" => run'[Op(t)] \in {"open", "ended"}, q # "reauthorize",
           UNCHANGED answers \/ \E r : Tells(t, r) /\ (r = "handle" => run'[Op(t)] = "ended")
    PROVE  RunInv'
<1>1. \A u \in Threads : ~At(u, "idle") => Op(u) \in Operations
  BY ZenonT(90), CallsAssumption DEF CallInv, Op
<1>2. ASSUME NEW u \in Threads
      PROVE  /\ (At(u, "execute") => run[Op(u)] \in {"open", "ended"})'
             /\ (At(u, "reauthorize") => run[Op(u)] = "ended")'
  <2>1. CASE u = t
    BY <2>1 DEF Moved, At, Op
  <2>2. CASE u # t
    <3>1. call'[u] = call[u]
      BY <2>2 DEF Moved
    <3>2. At(u, "execute") \/ At(u, "reauthorize") => Op(u) \in Operations
      BY <1>1 DEF At
    <3>3. /\ At(u, "execute") => run[Op(u)] \in {"open", "ended"}
          /\ At(u, "reauthorize") => run[Op(u)] = "ended"
      BY DEF RunInv
    <3>4. /\ At(u, "execute")' = At(u, "execute") /\ At(u, "reauthorize")' = At(u, "reauthorize")
          /\ Op(u)' = Op(u)
      BY <3>1 DEF At, Op
    <3> QED BY <3>2, <3>3, <3>4 DEF Advances
  <2> QED BY <2>1, <2>2
<1>3. ASSUME NEW a \in answers', a.result = "handle"
      PROVE  run'[a.call.op] = "ended"
  <2>1. CASE a \in answers
    BY ZenonT(60), <1>3, <2>1, CallsAssumption DEF CallInv, RunInv, Advances
  <2>2. CASE a \notin answers
    BY <1>3, <2>2 DEF Tells, Op
  <2> QED BY <2>1, <2>2
<1> QED BY ZenonT(60), <1>2, <1>3 DEF RunInv, Advances

(* Open starts the effects of a run that has no receipts, once.            *)
LEMMA OpenStep ==
    ASSUME ServiceInv, NEW t \in Threads, Open(t)
    PROVE  ServiceInv'
<1>1. ~At(t, "idle") /\ Executing(t) /\ UNCHANGED <<rows, snapshot>> /\ Op(t) \in Operations
  BY ZenonT(90), CallsAssumption DEF Open, At, Executing, store, ServiceInv, CallInv, Op
<1>2. Keyed(t) => Bound(Op(t), Key(t))
  BY ZenonT(90) DEF Open, Holds, ServiceInv, RowInv
<1>3. CASE /\ run[Op(t)] \in {"absent", "created"}
           /\ run' = [run EXCEPT ![Op(t)] = "open"]
           /\ executions' = [executions EXCEPT ![Op(t)] = @ + 1]
           /\ Goes(t, "execute")
           /\ UNCHANGED <<leaf, answers>>
  <2>1. Moved(t, "execute")
    BY <1>3, GoesMoves DEF ServiceInv, Points
  <2>2. CallInv'
    BY <1>1, <1>3, <2>1, CallKept DEF ServiceInv
  <2>3. RowInv'
    BY <1>1, <1>2, <1>3, <2>1, RowStill DEF ServiceInv
  <2>4. LeafInv'
    BY <1>1, <1>3, <2>1, LeafKept DEF ServiceInv
  <2>5. Advances
    BY <1>1, <1>3 DEF ServiceInv, RunInv, Advances, RunType, Executed
  <2>6. run'[Op(t)] = "open"
    BY <1>1, <1>3 DEF ServiceInv, RunInv, RunType
  <2>7. RunInv'
    BY <1>1, <1>3, <2>1, <2>5, <2>6, RunAdvances DEF ServiceInv
  <2> QED BY <2>2, <2>3, <2>4, <2>7 DEF ServiceInv
<1>4. CASE /\ run[Op(t)] \in {"open", "ended"}
           /\ Returns(t, IF run[Op(t)] = "ended" THEN "handle" ELSE "refused")
           /\ Release(t)
           /\ UNCHANGED <<run, executions>>
  <2>1. PICK r : Returns(t, r) /\ r # "requested" /\ (r = "handle" => run[Op(t)] = "ended")
    BY <1>4
  <2>2. Moved(t, "idle") /\ Tells(t, r)
    BY <2>1, ReturnsMoves, ZenonT(90) DEF ServiceInv
  <2>3. CallInv' /\ RunInv' /\ RowInv'
    BY <1>1, <1>2, <1>4, <2>1, <2>2, QuietStep DEF ServiceInv
  <2>4. LeafInv'
    BY <1>1, <1>4, <2>2, LeafReleased DEF ServiceInv
  <2> QED BY <2>3, <2>4 DEF ServiceInv
<1>5. CASE /\ run[Op(t)] = "absent"
           /\ run' = [run EXCEPT ![Op(t)] = "created"]
           /\ Returns(t, "refused") /\ Release(t)
           /\ UNCHANGED executions
  <2>1. Moved(t, "idle") /\ Tells(t, "refused")
    BY <1>5, ReturnsMoves, ZenonT(90) DEF ServiceInv
  <2>2. CallInv'
    BY <1>1, <2>1, CallKept DEF ServiceInv
  <2>3. RowInv'
    BY <1>1, <1>2, <2>1, RowStill DEF ServiceInv
  <2>4. LeafInv'
    BY <1>1, <1>5, <2>1, LeafReleased DEF ServiceInv
  <2>5. Advances
    BY <1>1, <1>5 DEF ServiceInv, RunInv, Advances, RunType, Executed
  <2>6. RunInv'
    BY <1>1, <2>1, <2>5, RunAdvances DEF ServiceInv
  <2> QED BY <2>2, <2>3, <2>4, <2>6 DEF ServiceInv
<1> QED BY <1>3, <1>4, <1>5 DEF Open

(* Execute ends the run, or leaves it open.                                *)
LEMMA ExecuteStep ==
    ASSUME ServiceInv, NEW t \in Threads, Execute(t)
    PROVE  ServiceInv'
<1>1. /\ ~At(t, "idle") /\ Executing(t) /\ UNCHANGED <<rows, snapshot, executions>> /\ Release(t)
      /\ Op(t) \in Operations
  BY ZenonT(90), CallsAssumption DEF Execute, At, Executing, store, ServiceInv, CallInv, Op
<1>2. Keyed(t) => Bound(Op(t), Key(t))
  BY ZenonT(90) DEF Execute, Holds, ServiceInv, RowInv
<1>3. run[Op(t)] \in {"open", "ended"}
  BY ZenonT(90) DEF Execute, ServiceInv, RunInv
<1>4. CASE run' = [run EXCEPT ![Op(t)] = "ended"] /\ Returns(t, "handle")
  <2>1. Moved(t, "idle") /\ Tells(t, "handle")
    BY <1>4, ReturnsMoves, ZenonT(90) DEF ServiceInv
  <2>2. CallInv'
    BY <1>1, <2>1, CallKept DEF ServiceInv
  <2>3. RowInv'
    BY <1>1, <1>2, <2>1, RowStill DEF ServiceInv
  <2>4. LeafInv'
    BY <1>1, <2>1, LeafReleased DEF ServiceInv
  <2>5. Advances
    BY <1>1, <1>3, <1>4 DEF ServiceInv, RunInv, Advances, RunType, Executed
  <2>6. run'[Op(t)] = "ended"
    BY <1>1, <1>4 DEF ServiceInv, RunInv, RunType
  <2>7. RunInv'
    BY <1>1, <2>1, <2>5, <2>6, RunAdvances DEF ServiceInv
  <2> QED BY <2>2, <2>3, <2>4, <2>7 DEF ServiceInv
<1>5. CASE Returns(t, "refused") /\ UNCHANGED run
  <2>1. Moved(t, "idle") /\ Tells(t, "refused")
    BY <1>5, ReturnsMoves, ZenonT(90) DEF ServiceInv
  <2>2. CallInv' /\ RunInv' /\ RowInv'
    BY <1>1, <1>5, <2>1, QuietStep DEF ServiceInv
  <2>3. LeafInv'
    BY <1>1, <2>1, LeafReleased DEF ServiceInv
  <2> QED BY <2>2, <2>3 DEF ServiceInv
<1> QED BY <1>4, <1>5 DEF Execute

(* A step that writes the file, after which its handle's snapshot is the   *)
(* file or what it was.                                                    *)
LEMMA FileGrows ==
    ASSUME CallInv, RowInv, NEW t \in Threads, NEW q, Moved(t, q), ~At(t, "idle"), Grows,
           rows' \in [Operations -> Row \cup {None}],
           \A o, p \in Operations :
               rows'[o] # None /\ rows'[p] # None /\ rows'[o].key = rows'[p].key => o = p,
           snapshot' = snapshot \/ snapshot' = [snapshot EXCEPT ![Home[t]] = rows'],
           q \in {"prior", "acquire", "open", "execute"} /\ Keyed(t) =>
               rows'[Op(t)] # None /\ rows'[Op(t)].key = Key(t),
           q = "drain" => rows'[Op(t)] # None /\ rows'[Op(t)].cancel,
           UNCHANGED answers \/ Tells(t, "poisoned")
    PROVE  RowInv'
<1>1. (rows \in [Operations -> Row \cup {None}])'
      /\ (snapshot \in [Processes -> [Operations -> Row \cup {None}]])'
  <2>1. snapshot \in [Processes -> [Operations -> Row \cup {None}]]
    BY ZenonT(90) DEF RowInv
  <2> QED BY ZenonT(90), <2>1
<1>2. (\A o, p \in Operations : rows[o] # None /\ rows[p] # None /\ rows[o].key = rows[p].key => o = p)'
  OBVIOUS
<1>3. ASSUME NEW p \in Processes, NEW o \in Operations, snapshot'[p][o] # None
      PROVE  rows'[o] # None /\ rows'[o].key = snapshot'[p][o].key
  <2>1. CASE snapshot'[p] = rows'
    BY ZenonT(90), <1>3, <2>1
  <2>2. CASE snapshot'[p] = snapshot[p]
    <3>0. snapshot[p][o] # None
      BY ZenonT(90), <1>3, <2>2
    <3>1. rows[o] # None /\ rows[o].key = snapshot[p][o].key
      BY ZenonT(90), <3>0 DEF RowInv, Bound
    <3> QED BY <2>2, <3>1 DEF Grows
  <2> QED BY ZenonT(90), <2>1, <2>2 DEF RowInv
<1>4. (\A p \in Processes, o \in Operations : snapshot[p][o] # None => Bound(o, snapshot[p][o].key))'
  BY ZenonT(90), <1>3 DEF Bound
<1>5. q \in {"prior", "acquire", "open", "execute"} /\ Keyed(t) => Bound(Op(t), Key(t))'
  BY ZenonT(90) DEF Moved, Bound, Op, Key
<1>6. UNCHANGED answers \/ \E r : /\ Tells(t, r)
                                  /\ r = "handle" /\ Keyed(t) => Bound(Op(t), Key(t))
                                  /\ r = "requested" => rows[Op(t)] # None /\ rows[Op(t)].cancel
  OBVIOUS
<1> QED BY <1>1, <1>2, <1>4, <1>5, <1>6, RowKept, ZenonT(90)

(* A refused or uncertain write: the file grew, or it did not.             *)
LEMMA PoisonedWrite ==
    ASSUME ServiceInv, NEW t \in Threads, ~At(t, "idle"), ~Executing(t),
           UNCHANGED <<leaf, run, executions, snapshot>>, Returns(t, "poisoned"), Grows,
           rows' \in [Operations -> Row \cup {None}],
           \A o, p \in Operations :
               rows'[o] # None /\ rows'[p] # None /\ rows'[o].key = rows'[p].key => o = p
    PROVE  ServiceInv'
<1>1. Moved(t, "idle") /\ Tells(t, "poisoned")
  BY ReturnsMoves, ZenonT(90) DEF ServiceInv
<1>2. CallInv'
  BY <1>1, CallKept DEF ServiceInv
<1>3. RunInv'
  BY <1>1, RunKept DEF ServiceInv
<1>4. RowInv'
  BY <1>1, FileGrows DEF ServiceInv
<1>5. LeafInv'
  BY <1>1, LeafKept DEF ServiceInv
<1> QED BY <1>2, <1>3, <1>4, <1>5 DEF ServiceInv

(* A row is not None.                                                      *)
LEMMA NoneIsNoRow == None \notin Row
  BY CallsAssumption DEF Row

(* Admit compares the key with the file, whatever the snapshot showed.     *)
LEMMA AdmitStep ==
    ASSUME ServiceInv, NEW t \in Threads, Admit(t)
    PROVE  ServiceInv'
<1> DEFINE new == IF rows[Op(t)] # None THEN rows
                  ELSE [rows EXCEPT ![Op(t)] = [key |-> Key(t), cancel |-> FALSE]]
<1>1. ~At(t, "idle") /\ ~Executing(t) /\ UNCHANGED <<leaf, run, executions>>
  BY ZenonT(90) DEF Admit, At, Executing
<1>2. Op(t) \in Operations /\ Key(t) \in Keys
  <2>1. call[t].call \in Calls /\ Keyed(t)
    BY ZenonT(90), <1>1 DEF Admit, ServiceInv, CallInv
  <2> QED BY <2>1, CallsAssumption DEF Op, Key, Keyed
<1>3. ASSUME Admissible(t), rows' = rows \/ rows' = new
      PROVE  /\ Grows /\ rows' \in [Operations -> Row \cup {None}]
             /\ \A o, p \in Operations :
                    rows'[o] # None /\ rows'[p] # None /\ rows'[o].key = rows'[p].key => o = p
  <2>1. rows \in [Operations -> Row \cup {None}]
        /\ \A o, p \in Operations :
               rows[o] # None /\ rows[p] # None /\ rows[o].key = rows[p].key => o = p
    BY ZenonT(90) DEF ServiceInv, RowInv
  <2>2. CASE rows' = rows
    BY <2>1, <2>2 DEF Grows
  <2>3. CASE rows[Op(t)] = None /\ rows' = [rows EXCEPT ![Op(t)] = [key |-> Key(t), cancel |-> FALSE]]
    <3>1. [key |-> Key(t), cancel |-> FALSE] \in Row /\ [key |-> Key(t), cancel |-> FALSE].key = Key(t)
      BY <1>2 DEF Row
    <3>2. rows'[Op(t)].key = Key(t) /\ \A o \in Operations \ {Op(t)} : rows'[o] = rows[o]
      BY <1>2, <2>1, <2>3, <3>1
    <3>3. \A o \in Operations : rows[o] # None => rows[o].key # Key(t)
      BY <1>3, <2>3 DEF Admissible
    <3>4. rows' \in [Operations -> Row \cup {None}]
      BY ZenonT(90), <2>1, <2>3, <3>1
    <3>5. Grows
      BY <2>3, <3>2 DEF Grows
    <3>6. ASSUME NEW o \in Operations, NEW p \in Operations,
                 rows'[o] # None, rows'[p] # None, rows'[o].key = rows'[p].key
          PROVE  o = p
      BY <2>1, <3>2, <3>3, <3>6
    <3> QED BY <3>4, <3>5, <3>6
  <2> QED BY <1>3, <2>2, <2>3
<1>4. ASSUME Admissible(t), rows' = new
      PROVE  rows'[Op(t)] # None /\ rows'[Op(t)].key = Key(t)
  <2>1. CASE rows[Op(t)] # None
    BY <1>4, <2>1 DEF Admissible
  <2>2. CASE rows[Op(t)] = None
    <3>1. rows'[Op(t)] = [key |-> Key(t), cancel |-> FALSE]
      BY <1>2, <1>4, <2>2 DEF ServiceInv, RowInv
    <3>2. [key |-> Key(t), cancel |-> FALSE] \in Row
      BY <1>2 DEF Row
    <3>3. [key |-> Key(t), cancel |-> FALSE].key = Key(t)
      OBVIOUS
    <3> QED BY <3>1, <3>2, <3>3, NoneIsNoRow, ZenonT(90)
  <2> QED BY <2>1, <2>2
<1>5. CASE /\ Admissible(t) /\ rows' = new /\ snapshot' = [snapshot EXCEPT ![Home[t]] = new]
           /\ Goes(t, "acquire") /\ UNCHANGED answers
  <2>1. Moved(t, "acquire")
    BY <1>5, GoesMoves DEF ServiceInv, Points
  <2>2. CallInv'
    BY <1>1, <1>5, <2>1, CallKept DEF ServiceInv
  <2>3. RunInv'
    BY ZenonT(90), <1>1, <1>5, <2>1, RunKept DEF ServiceInv
  <2>4. RowInv'
    <3>1. rows' = new /\ snapshot' = [snapshot EXCEPT ![Home[t]] = rows']
      BY <1>5, ZenonT(90)
    <3> HIDE DEF new
    <3>2. /\ Grows /\ rows' \in [Operations -> Row \cup {None}]
          /\ \A o, p \in Operations :
                 rows'[o] # None /\ rows'[p] # None /\ rows'[o].key = rows'[p].key => o = p
          /\ rows'[Op(t)] # None /\ rows'[Op(t)].key = Key(t)
      BY <1>3, <1>4, <1>5, <3>1, ZenonT(90)
    <3> QED BY <1>1, <1>5, <2>1, <3>1, <3>2, FileGrows, ZenonT(90) DEF ServiceInv
  <2>5. LeafInv'
    BY <1>1, <2>1, LeafKept DEF ServiceInv
  <2> QED BY <2>2, <2>3, <2>4, <2>5 DEF ServiceInv
<1>6. CASE Returns(t, "poisoned") /\ UNCHANGED store
  <2>1. Grows
    BY <1>6 DEF store, Grows
  <2>2. /\ rows' = rows /\ rows \in [Operations -> Row \cup {None}]
        /\ \A o, p \in Operations :
               rows[o] # None /\ rows[p] # None /\ rows[o].key = rows[p].key => o = p
    BY ZenonT(90), <1>6 DEF store, ServiceInv, RowInv
  <2> QED BY <1>1, <1>6, <2>1, <2>2, PoisonedWrite DEF store
<1>7. CASE Admissible(t) /\ rows' \in {rows, new} /\ Returns(t, "poisoned") /\ UNCHANGED snapshot
  <2> HIDE DEF new
  <2> QED BY <1>1, <1>3, <1>7, PoisonedWrite
<1> QED BY <1>5, <1>6, <1>7 DEF Admit

(* request_cancel sets the flag of a row, and nothing else.                *)
LEMMA RequestCancelStep ==
    ASSUME ServiceInv, NEW t \in Threads, RequestCancel(t)
    PROVE  ServiceInv'
<1> DEFINE new == [rows EXCEPT ![Op(t)].cancel = TRUE]
<1>1. ~At(t, "idle") /\ ~Executing(t) /\ UNCHANGED <<leaf, run, executions>>
  BY DEF RequestCancel, At, Executing
<1>2. Op(t) \in Operations
  BY ZenonT(90), <1>1, CallsAssumption DEF ServiceInv, CallInv, Op
<1>3. /\ rows \in [Operations -> Row \cup {None}]
      /\ \A o, p \in Operations :
             rows[o] # None /\ rows[p] # None /\ rows[o].key = rows[p].key => o = p
  BY ZenonT(90) DEF ServiceInv, RowInv
<1>4. ASSUME rows[Op(t)] # None, rows' = rows \/ rows' = new
      PROVE  /\ Grows /\ rows' \in [Operations -> Row \cup {None}]
             /\ \A o, p \in Operations :
                    rows'[o] # None /\ rows'[p] # None /\ rows'[o].key = rows'[p].key => o = p
             /\ rows' = new => rows'[Op(t)] # None /\ rows'[Op(t)].cancel
  <2>1. CASE rows' = new
    <3> PICK flagged : flagged = [rows[Op(t)] EXCEPT !.cancel = TRUE]
      BY ZenonT(60)
    <3>1. rows' = [rows EXCEPT ![Op(t)] = flagged]
      BY <2>1
    <3>2. flagged \in Row /\ flagged.key = rows[Op(t)].key /\ flagged.cancel
      BY ZenonT(90), <1>2, <1>3, <1>4 DEF Row
    <3>3. flagged # None
      BY ZenonT(90), <3>2, NoneIsNoRow
    <3>4. rows'[Op(t)] = flagged /\ \A o \in Operations \ {Op(t)} : rows'[o] = rows[o]
      BY <1>2, <1>3, <3>1
    <3>5. rows' \in [Operations -> Row \cup {None}]
      BY ZenonT(90), <1>3, <3>1, <3>2
    <3>6. Grows
      BY ZenonT(90), <3>2, <3>3, <3>4 DEF Grows
    <3>7. \A o \in Operations : rows'[o] # None => rows[o] # None /\ rows'[o].key = rows[o].key
      BY ZenonT(90), <1>4, <3>2, <3>4
    <3>8. \A o, p \in Operations :
              rows'[o] # None /\ rows'[p] # None /\ rows'[o].key = rows'[p].key => o = p
      BY <1>3, <3>7
    <3> QED BY <3>2, <3>3, <3>4, <3>5, <3>6, <3>8
  <2>2. CASE rows' = rows /\ rows' # new
    BY <1>3, <2>2 DEF Grows
  <2> QED BY <1>4, <2>1, <2>2
<1> HIDE DEF new
<1>5. CASE /\ rows[Op(t)] # None /\ rows' = new /\ snapshot' = [snapshot EXCEPT ![Home[t]] = new]
           /\ Goes(t, "drain") /\ UNCHANGED answers
  <2>1. Moved(t, "drain")
    BY <1>5, GoesMoves DEF ServiceInv, Points
  <2>2. CallInv'
    BY <1>1, <1>5, <2>1, CallKept DEF ServiceInv
  <2>3. RunInv'
    BY <1>1, <1>5, <2>1, RunKept DEF ServiceInv
  <2>4. RowInv'
    <3>1. snapshot' = [snapshot EXCEPT ![Home[t]] = rows']
      BY <1>5, ZenonT(90)
    <3> QED BY <1>1, <1>4, <1>5, <2>1, <3>1, FileGrows, ZenonT(90) DEF ServiceInv
  <2>5. LeafInv'
    BY <1>1, <2>1, LeafKept DEF ServiceInv
  <2> QED BY <2>2, <2>3, <2>4, <2>5 DEF ServiceInv
<1>6. CASE Returns(t, "poisoned") /\ UNCHANGED <<rows, snapshot>>
  <2>1. Grows
    BY <1>6 DEF Grows
  <2> QED BY <1>1, <1>3, <1>6, <2>1, PoisonedWrite
<1>7. CASE rows[Op(t)] # None /\ (rows' = rows \/ rows' = new) /\ Returns(t, "poisoned") /\ UNCHANGED snapshot
  BY <1>1, <1>4, <1>7, PoisonedWrite
<1> QED BY <1>5, <1>6, <1>7 DEF RequestCancel, store, new

(* Drain answers that the cancellation was requested, which it was.        *)
LEMMA DrainStep ==
    ASSUME ServiceInv, NEW t \in Threads, Drain(t)
    PROVE  ServiceInv'
<1>1. ~At(t, "idle") /\ ~Executing(t) /\ UNCHANGED <<rows, snapshot, run, executions>>
  BY DEF Drain, At, Executing, store
<1>2. Op(t) \in Operations /\ Home[t] \in Processes
  BY ZenonT(60), <1>1, CallsAssumption DEF ServiceInv, CallInv, Op
<1>3. rows[Op(t)] # None /\ rows[Op(t)].cancel
  BY DEF Drain, ServiceInv, RowInv
<1>4. PICK r \in {"requested", "refused"} : Returns(t, r)
  BY DEF Drain
<1>5. Moved(t, "idle") /\ Tells(t, r)
  BY <1>4, ReturnsMoves, ZenonT(90) DEF ServiceInv
<1>6. CallInv'
  BY <1>1, <1>5, CallKept DEF ServiceInv
<1>7. RunInv'
  BY <1>1, <1>5, RunKept DEF ServiceInv
<1>8. RowInv'
  <2>1. Grows
    BY <1>1 DEF Grows
  <2>2. (rows \in [Operations -> Row \cup {None}])'
        /\ (snapshot \in [Processes -> [Operations -> Row \cup {None}]])'
    BY ZenonT(90), <1>1 DEF ServiceInv, RowInv
  <2>3. (\A o, p \in Operations : rows[o] # None /\ rows[p] # None /\ rows[o].key = rows[p].key => o = p)'
    BY ZenonT(90), <1>1 DEF ServiceInv, RowInv
  <2>4. (\A p \in Processes, o \in Operations : snapshot[p][o] # None => Bound(o, snapshot[p][o].key))'
    BY ZenonT(90), <1>1 DEF ServiceInv, RowInv, Bound
  <2>5. \E s : /\ Tells(t, s)
               /\ s = "handle" /\ Keyed(t) => Bound(Op(t), Key(t))
               /\ s = "requested" => rows[Op(t)] # None /\ rows[Op(t)].cancel
    BY <1>3, <1>4, <1>5
  <2> QED BY <1>1, <1>5, <2>1, <2>2, <2>3, <2>4, <2>5, RowKept DEF ServiceInv
<1>9. LeafInv'
  <2>1. \A u \in Threads : (Executing(u)' <=> Executing(u)) /\ Op(u)' = Op(u)
    BY <1>1, <1>5 DEF Moved, Executing, At, Op
  <2>2. /\ leaf' \in [Processes -> [Operations -> {"absent", "active", "draining", "spent"}]]
        /\ \A p \in Processes, o \in Operations : IsActive(p, o)' <=> IsActive(p, o)
    <3>1. leaf \in [Processes -> [Operations -> {"absent", "active", "draining", "spent"}]]
      BY DEF ServiceInv, LeafInv
    <3>2. CASE /\ leaf[Home[t]][Op(t)] = "active"
               /\ leaf' = [leaf EXCEPT ![Home[t]][Op(t)] = "draining"]
      BY <1>2, <3>1, <3>2 DEF IsActive
    <3>3. CASE UNCHANGED leaf
      BY <3>1, <3>3 DEF IsActive
    <3> QED BY <3>2, <3>3 DEF Drain
  <2>3. ASSUME NEW p \in Processes, NEW o \in Operations
        PROVE  (IsActive(p, o) <=> \E u \in Threads : Home[u] = p /\ Executing(u) /\ Op(u) = o)'
    <3>1. IsActive(p, o) <=> \E u \in Threads : Home[u] = p /\ Executing(u) /\ Op(u) = o
      BY DEF ServiceInv, LeafInv
    <3> QED BY <2>1, <2>2, <3>1
  <2>4. ASSUME NEW u \in Threads, NEW w \in Threads,
               (Home[u] = Home[w] /\ Executing(u) /\ Executing(w) /\ Op(u) = Op(w))'
        PROVE  u = w
    BY <2>1, <2>4 DEF ServiceInv, LeafInv
  <2> QED BY <2>2, <2>3, <2>4 DEF LeafInv
<1> QED BY <1>6, <1>7, <1>8, <1>9 DEF ServiceInv

(* A call begins at its first step.                                        *)
LEMMA BeginStep ==
    ASSUME ServiceInv, NEW t \in Threads, NEW c \in Calls, Begin(t, c)
    PROVE  ServiceInv'
<1> DEFINE begun == [pc |-> FirstStep(c), call |-> c, count |-> call[t].count + 1]
<1>1. UNCHANGED <<rows, snapshot, leaf, run, executions, answers>> /\ At(t, "idle")
  BY DEF Begin, store, histories
<1>2. /\ FirstStep(c) \in {"denied", "acquire", "lookup", "locate", "status"}
      /\ FirstStep(c) = "lookup" => c.kind = "keyed"
      /\ FirstStep(c) \in {"acquire", "locate"} => c.kind # "keyed"
  BY CallsAssumption DEF FirstStep
<1>3. call[t] \in CallType /\ call \in [Threads -> CallType]
  BY ZenonT(90) DEF ServiceInv, CallInv
<1>4. begun \in CallType
  BY <1>2, <1>3 DEF CallType, Points
<1>5. call' = [call EXCEPT ![t] = begun]
  BY DEF Begin
<1>6. begun.pc = FirstStep(c) /\ begun.call = c
  BY ZenonT(60)
<1> HIDE DEF begun
<1>7. /\ call' \in [Threads -> CallType] /\ call'[t] = begun
      /\ \A u \in Threads \ {t} : call'[u] = call[u]
  BY <1>3, <1>4, <1>5
<1>8. CallInv'
  <2>1. ASSUME NEW u \in Threads, ~At(u, "idle")'
        PROVE  /\ call'[u].call \in Calls
               /\ Keyed(u)' => /\ call'[u].pc # "reauthorize" /\ call'[u].pc # "replay"
                               /\ call'[u].pc # "locate" /\ call'[u].pc # "authorize"
                               /\ call'[u].pc # "queue"
               /\ call'[u].pc \in {"lookup", "prior", "admit"} => Keyed(u)'
    <3>1. CASE u = t
      BY <1>2, <1>6, <1>7, <3>1 DEF Keyed
    <3>2. CASE u # t
      BY ZenonT(90), <1>7, <2>1, <3>2 DEF ServiceInv, CallInv, At, Keyed
    <3> QED BY ZenonT(90), <3>1, <3>2
  <2>2. \A a \in answers' : a.call \in Calls
    BY ZenonT(90), <1>1 DEF ServiceInv, CallInv
  <2> QED BY <1>7, <2>1, <2>2, ZenonT(90) DEF CallInv, At, Keyed
<1>9. RunInv'
  <2>1. ASSUME NEW u \in Threads
        PROVE  /\ (At(u, "execute") => run[Op(u)] \in {"open", "ended"})'
               /\ (At(u, "reauthorize") => run[Op(u)] = "ended")'
    BY ZenonT(90), <1>1, <1>2, <1>6, <1>7 DEF ServiceInv, RunInv, At, Op
  <2> QED BY ZenonT(90), <1>1, <2>1 DEF ServiceInv, RunInv, Executed
<1>10. RowInv'
  <2>1. ASSUME NEW u \in Threads, (Holds(u) /\ Keyed(u))'
        PROVE  Bound(Op(u), Key(u))'
    <3>1. u # t
      BY <1>2, <1>6, <1>7, <2>1 DEF Holds, At, Keyed
    <3>2. call'[u] = call[u]
      BY <1>7, <3>1
    <3>3. Bound(Op(u), Key(u))
      BY ZenonT(90), <2>1, <3>2 DEF Holds, At, Keyed, ServiceInv, RowInv
    <3> QED BY ZenonT(90), <1>1, <3>2, <3>3 DEF Bound, Op, Key
  <2>2. ASSUME NEW u \in Threads, At(u, "drain")'
        PROVE  (rows[Op(u)] # None /\ rows[Op(u)].cancel)'
    <3>1. u # t
      BY <1>2, <1>6, <1>7, <2>2 DEF At
    <3>2. call'[u] = call[u]
      BY <1>7, <3>1
    <3> QED BY ZenonT(90), <1>1, <2>2, <3>2 DEF At, Op, ServiceInv, RowInv
  <2> QED BY ZenonT(90), <1>1, <2>1, <2>2 DEF ServiceInv, RowInv, Bound
<1>11. LeafInv'
  <2>1. \A u \in Threads : Executing(u)' <=> Executing(u)
    BY <1>1, <1>2, <1>6, <1>7 DEF Executing, At
  <2>2. \A u \in Threads : Executing(u) => Op(u)' = Op(u)
    BY <1>1, <1>7 DEF Executing, At, Op
  <2>3. ASSUME NEW p \in Processes, NEW o \in Operations
        PROVE  (IsActive(p, o) <=> \E u \in Threads : Home[u] = p /\ Executing(u) /\ Op(u) = o)'
    <3>1. IsActive(p, o) <=> \E u \in Threads : Home[u] = p /\ Executing(u) /\ Op(u) = o
      BY DEF ServiceInv, LeafInv
    <3>2. IsActive(p, o)' <=> IsActive(p, o)
      BY ZenonT(60), <1>1 DEF IsActive
    <3> QED BY <2>1, <2>2, <3>1, <3>2
  <2>4. ASSUME NEW u \in Threads, NEW w \in Threads,
               (Home[u] = Home[w] /\ Executing(u) /\ Executing(w) /\ Op(u) = Op(w))'
        PROVE  u = w
    BY <2>1, <2>2, <2>4 DEF ServiceInv, LeafInv
  <2> QED BY <1>1, <2>3, <2>4 DEF ServiceInv, LeafInv
<1> QED BY <1>8, <1>9, <1>10, <1>11 DEF ServiceInv

(* The process of p ends: its threads are idle and its leaves are gone.    *)
LEMMA CrashStep ==
    ASSUME ServiceInv, NEW p \in Processes, Crash(p)
    PROVE  ServiceInv'
<1>1. UNCHANGED <<rows, run, executions, answers>>
  BY DEF Crash, histories
<1>2. call \in [Threads -> CallType]
  BY ZenonT(60) DEF ServiceInv, CallInv
<1>3. ASSUME NEW t \in Threads
      PROVE  /\ call'[t] \in CallType
             /\ Home[t] # p => call'[t] = call[t]
             /\ Home[t] = p => call'[t].pc = "idle" /\ call'[t].call = call[t].call
  <2>1. call[t] \in CallType
    BY <1>2
  <2>2. call'[t] = IF Home[t] = p THEN [call[t] EXCEPT !.pc = "idle"] ELSE call[t]
    BY DEF Crash
  <2> QED BY <2>1, <2>2 DEF CallType, Points
<1>4. call' \in [Threads -> CallType]
  <2>1. call' = [t \in Threads |-> call'[t]]
    BY DEF Crash
  <2> QED BY <1>3, <2>1
<1>5. CallInv'
  <2>1. ASSUME NEW u \in Threads, ~At(u, "idle")'
        PROVE  /\ call'[u].call \in Calls
               /\ Keyed(u)' => /\ call'[u].pc # "reauthorize" /\ call'[u].pc # "replay"
                               /\ call'[u].pc # "locate" /\ call'[u].pc # "authorize"
                               /\ call'[u].pc # "queue"
               /\ call'[u].pc \in {"lookup", "prior", "admit"} => Keyed(u)'
    BY ZenonT(90), <1>3, <2>1 DEF ServiceInv, CallInv, At, Keyed
  <2>2. \A a \in answers' : a.call \in Calls
    BY ZenonT(60), <1>1 DEF ServiceInv, CallInv
  <2> QED BY <1>4, <2>1, <2>2, ZenonT(90) DEF CallInv, At, Keyed
<1>6. RunInv'
  <2>1. ASSUME NEW u \in Threads
        PROVE  /\ (At(u, "execute") => run[Op(u)] \in {"open", "ended"})'
               /\ (At(u, "reauthorize") => run[Op(u)] = "ended")'
    BY <1>1, <1>3 DEF ServiceInv, RunInv, At, Op
  <2> QED BY ZenonT(90), <1>1, <2>1 DEF ServiceInv, RunInv, Executed
<1>7. RowInv'
  <2>1. ASSUME NEW u \in Threads, (Holds(u) /\ Keyed(u))'
        PROVE  Bound(Op(u), Key(u))'
    <3>1. call'[u] = call[u]
      BY <1>3, <2>1 DEF Holds, At
    <3>2. Bound(Op(u), Key(u))
      BY ZenonT(90), <2>1, <3>1 DEF Holds, At, Keyed, ServiceInv, RowInv
    <3> QED BY <1>1, <3>1, <3>2 DEF Bound, Op, Key
  <2>2. ASSUME NEW u \in Threads, At(u, "drain")'
        PROVE  (rows[Op(u)] # None /\ rows[Op(u)].cancel)'
    <3>1. call'[u] = call[u]
      BY <1>3, <2>2 DEF At
    <3> QED BY ZenonT(90), <1>1, <2>2, <3>1 DEF At, Op, ServiceInv, RowInv
  <2>3. snapshot' = [snapshot EXCEPT ![p] = rows] /\ snapshot \in [Processes -> [Operations -> Row \cup {None}]]
        /\ rows \in [Operations -> Row \cup {None}]
    BY DEF Crash, ServiceInv, RowInv
  <2>4. snapshot' \in [Processes -> [Operations -> Row \cup {None}]]
    BY <2>3
  <2>5. ASSUME NEW w \in Processes, NEW o \in Operations, snapshot'[w][o] # None
        PROVE  Bound(o, snapshot'[w][o].key)
    <3>1. CASE w = p
      BY <2>3, <2>5, <3>1 DEF Bound
    <3>2. CASE w # p
      BY ZenonT(90), <2>3, <2>5, <3>2 DEF ServiceInv, RowInv
    <3> QED BY <3>1, <3>2
  <2> QED BY ZenonT(90), <1>1, <2>1, <2>2, <2>4, <2>5 DEF ServiceInv, RowInv, Bound
<1>8. LeafInv'
  <2>1. /\ leaf' \in [Processes -> [Operations -> {"absent", "active", "draining", "spent"}]]
        /\ \A w \in Processes, o \in Operations : IsActive(w, o)' <=> w # p /\ IsActive(w, o)
    BY DEF Crash, ServiceInv, LeafInv, IsActive
  <2>2. \A u \in Threads : (Executing(u)' <=> Home[u] # p /\ Executing(u)) /\ Op(u)' = Op(u)
    BY <1>3 DEF Executing, At, Op
  <2>3. ASSUME NEW w \in Processes, NEW o \in Operations
        PROVE  (IsActive(w, o) <=> \E u \in Threads : Home[u] = w /\ Executing(u) /\ Op(u) = o)'
    <3>1. IsActive(w, o) <=> \E u \in Threads : Home[u] = w /\ Executing(u) /\ Op(u) = o
      BY DEF ServiceInv, LeafInv
    <3> QED BY <2>1, <2>2, <3>1
  <2>4. ASSUME NEW u \in Threads, NEW w \in Threads,
               (Home[u] = Home[w] /\ Executing(u) /\ Executing(w) /\ Op(u) = Op(w))'
        PROVE  u = w
    BY <2>2, <2>4 DEF ServiceInv, LeafInv
  <2> QED BY <2>1, <2>3, <2>4 DEF LeafInv
<1> QED BY <1>5, <1>6, <1>7, <1>8 DEF ServiceInv

(* No service has been called yet.                                         *)
LEMMA ServiceInit ==
    ASSUME Init
    PROVE  ServiceInv
<1>1. call \in [Threads -> CallType] /\ \A t \in Threads : call[t].pc = "idle"
  BY DEF Init, CallType, Points
<1>2. CallInv
  BY <1>1 DEF Init, CallInv, At
<1>3. RunInv
  BY <1>1 DEF Init, RunInv, RunType, Executed, At
<1>4. RowInv
  BY ZenonT(90), <1>1 DEF Init, RowInv, Holds, At, Bound
<1>5. LeafInv
  BY <1>1 DEF Init, LeafInv, IsActive, Executing, At
<1> QED BY <1>2, <1>3, <1>4, <1>5 DEF ServiceInv

(* The invariant of the calls, the rows, the runs and the leaves.          *)
THEOREM ServiceInvariant == Spec => []ServiceInv
<1>1. Init => ServiceInv
  BY ServiceInit
<1>2. ASSUME ServiceInv, [Next]_vars PROVE ServiceInv'
  <2>1. ASSUME NEW t \in Threads, Step(t) PROVE ServiceInv'
    BY <1>2, <2>1, ReadingStep, LookUpStep, AdmitStep, AcquireStep, OpenStep, ExecuteStep,
       RequestCancelStep, DrainStep, ZenonT(90)
    DEF Step
  <2>2. ASSUME NEW t \in Threads, NEW c \in Calls, Begin(t, c) PROVE ServiceInv'
    BY <1>2, <2>2, BeginStep
  <2>3. ASSUME NEW p \in Processes, Crash(p) PROVE ServiceInv'
    BY <1>2, <2>3, CrashStep
  <2>4. CASE UNCHANGED vars
    <3>1. CallInv'
      BY ZenonT(90), <1>2, <2>4 DEF vars, ServiceInv, CallInv, At, Keyed
    <3>2. RunInv'
      BY ZenonT(90), <1>2, <2>4 DEF vars, ServiceInv, RunInv, Executed, At, Op
    <3>3. RowInv'
      BY ZenonT(90), <1>2, <2>4 DEF vars, ServiceInv, RowInv, Bound, Holds, Keyed, At, Op, Key
    <3>4. LeafInv'
      <4>1. LeafInv /\ UNCHANGED <<call, leaf>>
        BY ZenonT(90), <1>2, <2>4 DEF vars, ServiceInv
      <4>2. leaf' \in [Processes -> [Operations -> {"absent", "active", "draining", "spent"}]]
        BY <4>1 DEF LeafInv
      <4>3. \A p, o : IsActive(p, o)' <=> IsActive(p, o)
        BY <4>1 DEF IsActive
      <4>4. \A t : (Executing(t)' <=> Executing(t)) /\ Op(t)' = Op(t)
        BY <4>1 DEF Executing, At, Op
      <4> QED BY ZenonT(60), <4>1, <4>2, <4>3, <4>4 DEF LeafInv
    <3> QED BY <3>1, <3>2, <3>3, <3>4 DEF ServiceInv
  <2> QED BY <1>2, <2>1, <2>2, <2>3, <2>4, ZenonT(90) DEF Next, Done
<1> QED BY <1>1, <1>2, PTL DEF Spec

(* What callers are told is true for good: no operation is executed twice, *)
(* whichever of submit, idempotent_submit and submit_provider_egress_v3    *)
(* they use, from whichever process, whatever fails; a handle names a run  *)
(* that was executed and verifies, under the key it was asked for with;    *)
(* and a cancellation reported as requested is in the scheduler file.      *)
THEOREM AnswersStayTrue == Spec => []AnswersAreTrue
<1>1. ServiceInv => AnswersAreTrue
  <2> SUFFICES ASSUME ServiceInv PROVE AnswersAreTrue
    OBVIOUS
  <2>1. ExecutesAtMostOnce
    <3>1. executions = Executed
      BY ZenonT(60) DEF ServiceInv, RunInv
    <3>2. \A a \in answers : a.call.op \in Operations /\ (a.result = "handle" => run[a.call.op] = "ended")
      BY ZenonT(90), CallsAssumption DEF ServiceInv, CallInv, RunInv
    <3>3. \A o \in Operations : executions[o] <= 1 /\ (run[o] = "ended" => executions[o] = 1)
      BY <3>1 DEF Executed
    <3> QED BY ZenonT(60), <3>2, <3>3 DEF ExecutesAtMostOnce
  <2>2. KeysNameOneOperation
    <3>1. ASSUME NEW c \in Answered("keyed", "handle") PROVE rows[c.op] # None /\ rows[c.op].key = c.key
      <4>1. \E a \in answers : a.call = c /\ a.call.kind = "keyed" /\ a.result = "handle"
        BY ZenonT(90), <3>1 DEF Answered
      <4> QED BY ZenonT(90), <4>1 DEF ServiceInv, RowInv, Bound
    <3> QED BY ZenonT(90), <3>1 DEF ServiceInv, RowInv, KeysNameOneOperation
  <2>3. RequestedCancelsAreRecorded
    <3>1. ASSUME NEW c \in Answered("cancel", "requested") PROVE rows[c.op] # None /\ rows[c.op].cancel
      <4>1. \E a \in answers : a.call = c /\ a.result = "requested"
        BY ZenonT(90), <3>1 DEF Answered
      <4> QED BY ZenonT(90), <4>1 DEF ServiceInv, RowInv
    <3> QED BY <3>1 DEF RequestedCancelsAreRecorded
  <2> QED BY <2>1, <2>2, <2>3 DEF AnswersAreTrue
<1> QED BY <1>1, ServiceInvariant, PTL

(* A leaf is occupied exactly while a thread of its process executes the   *)
(* operation: no answer, error or cancellation leaves capacity behind.     *)
THEOREM LeavesAlwaysFollow == Spec => []LeavesFollowExecutions
<1>1. ServiceInv => LeavesFollowExecutions
  BY DEF ServiceInv, LeafInv, LeavesFollowExecutions, Executing
<1> QED BY <1>1, ServiceInvariant, PTL
=============================================================================
