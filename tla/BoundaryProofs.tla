--------------------------- MODULE BoundaryProofs ---------------------------
(***************************************************************************)
(* The parts that face other processes: SlotsMatchWorkers and              *)
(* RepliesAreCorrelated of DaemonServer, for every number of daemons,      *)
(* connections, identifiers and worker slots; SatisfiedOnce of             *)
(* McpCorrelator, for every limit and number of calls.                     *)
(***************************************************************************)
EXTENDS DaemonServer, McpRequests, Integers, FiniteSetTheorems, TLAPS

Stages == {"none", "queued", "spawned", "closed"} \cup Handled
Frame == [id : Ids, decodes : BOOLEAN]
ConnState ==
    [server : Daemons \cup {None}, stage : Stages, hung : BOOLEAN, inbox : Seq(Frame),
     admitted : SUBSET Ids, request : Ids \cup {None}, sent : Seq(Ids), replied : Seq(Ids)]

TypeInv ==
    /\ node \in Daemons \cup {None}
    /\ active \in [Daemons -> Int] /\ open \in [Daemons -> Int]
    /\ conn \in [Clients -> ConnState]
    /\ \A c \in Clients : conn[c].stage # "none" => Server(c) \in Daemons

(* The identifiers that were sent are the ones replied to, the one being   *)
(* dispatched and the ones not read yet, in that order.                    *)
Taken(c) == Len(conn[c].replied) + IF conn[c].request = None THEN 0 ELSE 1

ReplyInv(c) ==
    /\ Len(conn[c].sent) = Taken(c) + Len(conn[c].inbox)
    /\ \A i \in 1 .. Len(conn[c].replied) :
          /\ conn[c].replied[i] = conn[c].sent[i]
          /\ conn[c].replied[i] \in conn[c].admitted \ {conn[c].request}
    /\ \A i, j \in 1 .. Len(conn[c].replied) : conn[c].replied[i] = conn[c].replied[j] => i = j
    /\ conn[c].request # None =>
          /\ conn[c].request = conn[c].sent[Taken(c)]
          /\ conn[c].request \in conn[c].admitted
    /\ \A i \in 1 .. Len(conn[c].inbox) : conn[c].inbox[i].id = conn[c].sent[Taken(c) + i]
    /\ conn[c].stage \in {"none", "queued", "spawned", "peer", "reading"} => conn[c].request = None
    /\ conn[c].stage \in {"dispatching", "replying"} => conn[c].request # None

IInv == TypeInv /\ SlotsMatchWorkers /\ \A c \in Clients : ReplyInv(c)

(* A connection whose fields are replaced one by one is one.               *)
LEMMA ConnStates ==
    ASSUME NEW r \in ConnState
    PROVE  /\ \A s \in Stages : [r EXCEPT !.stage = s] \in ConnState
           /\ \A d \in Daemons, s \in Stages : [r EXCEPT !.server = d, !.stage = s] \in ConnState
           /\ [r EXCEPT !.hung = TRUE] \in ConnState
           /\ \A i \in Seq(Frame), s \in Seq(Ids) : [r EXCEPT !.inbox = i, !.sent = s] \in ConnState
<1>1. \A s \in Stages : [r EXCEPT !.stage = s] \in ConnState
  BY ZenonT(90) DEF ConnState
<1>2. \A d \in Daemons, s \in Stages : [r EXCEPT !.server = d, !.stage = s] \in ConnState
  BY ZenonT(90) DEF ConnState
<1>3. [r EXCEPT !.hung = TRUE] \in ConnState
  BY ZenonT(90) DEF ConnState
<1>4. \A i \in Seq(Frame), s \in Seq(Ids) : [r EXCEPT !.inbox = i, !.sent = s] \in ConnState
  BY ZenonT(90) DEF ConnState
<1>5. QED
  BY <1>1, <1>2, <1>3, <1>4, ZenonT(90)

(* The stage of a connection changes and nothing else of it.               *)
LEMMA StageMoves ==
    ASSUME TypeInv, NEW c \in Clients, NEW s \in Stages, Goes(c, s)
    PROVE  /\ conn' \in [Clients -> ConnState]
           /\ conn'[c] = [conn[c] EXCEPT !.stage = s]
           /\ \A x \in Clients \ {c} : conn'[x] = conn[x]
<1>1. conn' = [conn EXCEPT ![c] = [conn[c] EXCEPT !.stage = s]]
  BY DEF Goes
<1>2. [conn[c] EXCEPT !.stage = s] \in ConnState
  BY ConnStates, ZenonT(90) DEF TypeInv
<1>3. QED
  BY <1>1, <1>2 DEF TypeInv

(* How the workers of a daemon change with the stage of one connection.    *)
LEMMA WorkersMove ==
    ASSUME NEW c \in Clients, NEW d, NEW S,
           \A x \in Clients \ {c} : conn'[x] = conn[x]
    PROVE  /\ IsFiniteSet(Workers(d, S)) /\ Cardinality(Workers(d, S)) \in Nat
           /\ (Server(c) = d /\ conn[c].stage \in S) = (Server(c)' = d /\ conn'[c].stage \in S) =>
                 Workers(d, S)' = Workers(d, S)
           /\ ~(Server(c) = d /\ conn[c].stage \in S) /\ Server(c)' = d /\ conn'[c].stage \in S =>
                 Cardinality(Workers(d, S)') = Cardinality(Workers(d, S)) + 1
           /\ Server(c) = d /\ conn[c].stage \in S /\ ~(Server(c)' = d /\ conn'[c].stage \in S) =>
                 Cardinality(Workers(d, S)') = Cardinality(Workers(d, S)) - 1
<1>1. IsFiniteSet(Workers(d, S)) /\ Cardinality(Workers(d, S)) \in Nat
  BY FS_Subset, FS_CardinalityType, DaemonAssumption DEF Workers
<1>2. ASSUME (Server(c) = d /\ conn[c].stage \in S) = (Server(c)' = d /\ conn'[c].stage \in S)
      PROVE  Workers(d, S)' = Workers(d, S)
  BY <1>2 DEF Workers, Server
<1>3. ASSUME ~(Server(c) = d /\ conn[c].stage \in S), Server(c)' = d /\ conn'[c].stage \in S
      PROVE  Cardinality(Workers(d, S)') = Cardinality(Workers(d, S)) + 1
  <2>1. Workers(d, S)' = Workers(d, S) \cup {c} /\ c \notin Workers(d, S)
    BY <1>3 DEF Workers, Server
  <2>2. QED
    BY ZenonT(90), <1>1, <2>1, FS_AddElement
<1>4. ASSUME Server(c) = d /\ conn[c].stage \in S, ~(Server(c)' = d /\ conn'[c].stage \in S)
      PROVE  Cardinality(Workers(d, S)') = Cardinality(Workers(d, S)) - 1
  <2>1. Workers(d, S)' = Workers(d, S) \ {c} /\ c \in Workers(d, S)
    BY <1>4 DEF Workers, Server
  <2>2. QED
    BY ZenonT(90), <1>1, <2>1, FS_RemoveElement
<1>5. QED
  BY <1>1, <1>2, <1>3, <1>4

(* The slots and the count that a connection has at a stage.               *)
Holds(s) == IF s \in Handled \cup {"spawned"} THEN 1 ELSE 0
Counts(s) == IF s \in Handled THEN 1 ELSE 0

(* The slots match the workers after a step of one connection that adds    *)
(* and gives back what its stages hold.                                    *)
LEMMA SlotsMove ==
    ASSUME TypeInv, SlotsMatchWorkers, NEW c \in Clients, NEW d \in Daemons,
           d = Server(c), Server(c)' = d, poisoned' = poisoned,
           \A x \in Clients \ {c} : conn'[x] = conn[x],
           \A x \in Daemons \ {d} : active'[x] = active[x] /\ open'[x] = open[x],
           active'[d] = active[d] + Holds(conn'[c].stage) - Holds(conn[c].stage),
           d \notin poisoned =>
               open'[d] = open[d] + Counts(conn'[c].stage) - Counts(conn[c].stage),
           active'[d] <= Max
    PROVE  SlotsMatchWorkers'
<1> DEFINE A == Handled \cup {"spawned"}
<1>1. ASSUME NEW x \in Daemons, x # d
      PROVE  Workers(x, A)' = Workers(x, A) /\ Workers(x, Handled)' = Workers(x, Handled)
  <2>1. Server(c) # x /\ Server(c)' # x
    BY <1>1
  <2>2. QED
    BY <2>1, WorkersMove
<1>2. Cardinality(Workers(d, A)') = Cardinality(Workers(d, A)) + Holds(conn'[c].stage) - Holds(conn[c].stage)
  BY WorkersMove DEF Holds
<1>3. Cardinality(Workers(d, Handled)')
         = Cardinality(Workers(d, Handled)) + Counts(conn'[c].stage) - Counts(conn[c].stage)
  BY WorkersMove DEF Counts
<1>4. ASSUME NEW x \in Daemons
      PROVE  /\ active'[x] = Cardinality(Workers(x, A)')
             /\ x \notin poisoned' => open'[x] = Cardinality(Workers(x, Handled)')
             /\ active'[x] <= Max
  <2>1. CASE x = d
    BY ZenonT(90), <1>2, <1>3, <2>1 DEF SlotsMatchWorkers
  <2>2. CASE x # d
    BY ZenonT(90), <1>1, <2>2 DEF SlotsMatchWorkers
  <2>3. QED
    BY <2>1, <2>2
<1>5. QED
  BY <1>4 DEF SlotsMatchWorkers, Workers

(* A step that leaves the requests and replies of a connection alone.      *)
LEMMA RepliesStay ==
    ASSUME NEW c \in Clients, ReplyInv(c),
           conn'[c].inbox = conn[c].inbox, conn'[c].sent = conn[c].sent,
           conn'[c].request = conn[c].request, conn'[c].replied = conn[c].replied,
           conn'[c].admitted = conn[c].admitted,
           conn'[c].stage \in {"none", "queued", "spawned", "peer", "reading"} => conn[c].request = None,
           conn'[c].stage \in {"dispatching", "replying"} => conn[c].request # None
    PROVE  ReplyInv(c)'
  BY ZenonT(90) DEF ReplyInv, Taken

(* A step of one connection leaves the other connections alone.            *)
LEMMA OthersStay ==
    ASSUME IInv, NEW c \in Clients, \A x \in Clients \ {c} : conn'[x] = conn[x], ReplyInv(c)'
    PROVE  \A x \in Clients : ReplyInv(x)'
<1>1. ASSUME NEW x \in Clients, x # c PROVE ReplyInv(x)'
  <2>1. ReplyInv(x) /\ conn'[x] = conn[x]
    BY <1>1 DEF IInv
  <2>2. /\ conn[x].stage \in {"none", "queued", "spawned", "peer", "reading"} =>
              conn[x].request = None
        /\ conn[x].stage \in {"dispatching", "replying"} => conn[x].request # None
    BY ZenonT(90), <2>1 DEF ReplyInv
  <2>3. QED
    BY <2>1, <2>2, RepliesStay
<1>2. QED
  BY <1>1

(* The invariant after a step of one connection that moves its stage.      *)
LEMMA StageStep ==
    ASSUME IInv, NEW c \in Clients, NEW s \in Stages \ {"none"}, Goes(c, s),
           conn[c].stage # "none", UNCHANGED <<node, poisoned>>,
           active' \in [Daemons -> Int], open' \in [Daemons -> Int],
           \A x \in Daemons \ {Server(c)} : active'[x] = active[x] /\ open'[x] = open[x],
           active'[Server(c)] = active[Server(c)] + Holds(s) - Holds(conn[c].stage),
           Server(c) \notin poisoned =>
               open'[Server(c)] = open[Server(c)] + Counts(s) - Counts(conn[c].stage),
           active'[Server(c)] <= Max,
           s \in {"none", "queued", "spawned", "peer", "reading"} => conn[c].request = None,
           s \in {"dispatching", "replying"} => conn[c].request # None
    PROVE  IInv'
<1>1. PICK d \in Daemons : d = Server(c)
  BY DEF IInv, TypeInv
<1>2. /\ conn' \in [Clients -> ConnState]
      /\ conn'[c] = [conn[c] EXCEPT !.stage = s]
      /\ \A x \in Clients \ {c} : conn'[x] = conn[x]
  BY StageMoves DEF IInv
<1>3. /\ conn'[c].stage = s /\ Server(c)' = d
      /\ conn'[c].inbox = conn[c].inbox /\ conn'[c].sent = conn[c].sent
      /\ conn'[c].request = conn[c].request /\ conn'[c].replied = conn[c].replied
      /\ conn'[c].admitted = conn[c].admitted
  BY <1>1, <1>2 DEF IInv, TypeInv, ConnState, Server
<1>4. TypeInv'
  BY <1>1, <1>2, <1>3, ZenonT(90) DEF IInv, TypeInv, Server
<1>5. SlotsMatchWorkers'
  BY <1>1, <1>2, <1>3, SlotsMove, ZenonT(90) DEF IInv
<1>6. \A x \in Clients : ReplyInv(x)'
  <2>1. ReplyInv(c)'
    BY ZenonT(90), <1>3, RepliesStay DEF IInv
  <2>2. QED
    BY <1>2, <2>1, OthersStay
<1>7. QED
  BY <1>4, <1>5, <1>6 DEF IInv

(* A connection is closed with what it holds given back.                   *)
LEMMA EndsStep ==
    ASSUME IInv, NEW c \in Clients, conn[c].stage \in Handled, Ends(c), UNCHANGED <<node, poisoned>>
    PROVE  IInv'
<1>1. PICK d \in Daemons : d = Server(c)
  BY DEF IInv, TypeInv, Handled
<1>2. /\ active' = [active EXCEPT ![d] = active[d] - 1]
      /\ open' = IF d \in poisoned THEN open ELSE [open EXCEPT ![d] = open[d] - 1]
      /\ Goes(c, "closed")
  BY <1>1 DEF Ends
<1>3. active \in [Daemons -> Int] /\ open \in [Daemons -> Int] /\ active[d] <= Max
  BY DEF IInv, TypeInv, SlotsMatchWorkers
<1>4. /\ active' \in [Daemons -> Int] /\ open' \in [Daemons -> Int]
      /\ \A x \in Daemons \ {d} : active'[x] = active[x] /\ open'[x] = open[x]
      /\ active'[d] = active[d] - 1 /\ active'[d] <= Max
      /\ d \notin poisoned => open'[d] = open[d] - 1
  BY <1>2, <1>3, DaemonAssumption
<1>5. /\ conn[c].stage # "none" /\ "closed" \in Stages \ {"none"}
      /\ Holds("closed") = 0 /\ Counts("closed") = 0
      /\ Holds(conn[c].stage) = 1 /\ Counts(conn[c].stage) = 1
  BY DEF Holds, Counts, Handled, Stages
<1>6. /\ active'[d] = active[d] + Holds("closed") - Holds(conn[c].stage)
      /\ d \notin poisoned => open'[d] = open[d] + Counts("closed") - Counts(conn[c].stage)
  BY <1>3, <1>4, <1>5
<1>7. QED
  BY <1>1, <1>2, <1>4, <1>5, <1>6, StageStep

(* Accepting a connection, or turning it away, keeps the invariant.        *)
LEMMA AcceptStep ==
    ASSUME IInv, NEW c \in Clients, Accept(c)
    PROVE  IInv'
<1>1. PICK d \in Daemons : d = Server(c)
  BY DEF IInv, TypeInv, Accept, At
<1>2. /\ conn[c].stage = "queued" /\ {"closed", "spawned"} \subseteq Stages \ {"none"}
      /\ Holds("queued") = 0 /\ Counts("queued") = 0 /\ Holds("closed") = 0
      /\ Counts("closed") = 0 /\ Holds("spawned") = 1 /\ Counts("spawned") = 0
  BY DEF Accept, At, Holds, Counts, Handled, Stages
<1>3. /\ active \in [Daemons -> Int] /\ open \in [Daemons -> Int] /\ active[d] <= Max
      /\ conn[c].request = None
  BY <1>2 DEF IInv, TypeInv, SlotsMatchWorkers, ReplyInv
<1>4. UNCHANGED <<node, open, poisoned>>
  BY DEF Accept, listeners
<1>5. CASE active[d] < Max
  <2>1. active' = [active EXCEPT ![d] = active[d] + 1] /\ Goes(c, "spawned")
    BY ZenonT(90), <1>1, <1>5 DEF Accept
  <2>2. /\ active' \in [Daemons -> Int] /\ \A x \in Daemons \ {d} : active'[x] = active[x]
        /\ active'[d] = active[d] + Holds("spawned") - Holds(conn[c].stage) /\ active'[d] <= Max
        /\ open'[d] = open[d] + Counts("spawned") - Counts(conn[c].stage)
    BY <1>2, <1>3, <1>4, <1>5, <2>1, DaemonAssumption
  <2>3. QED
    BY <1>1, <1>2, <1>3, <1>4, <2>1, <2>2, StageStep
<1>6. CASE ~(active[d] < Max)
  <2>1. active' = active /\ Goes(c, "closed")
    BY ZenonT(90), <1>1, <1>6 DEF Accept
  <2>2. /\ active'[d] = active[d] + Holds("closed") - Holds(conn[c].stage)
        /\ open'[d] = open[d] + Counts("closed") - Counts(conn[c].stage)
    BY <1>2, <1>3, <1>4, <2>1
  <2>3. QED
    BY ZenonT(90), <1>1, <1>2, <1>3, <1>4, <2>1, <2>2, StageStep
<1>7. QED
  BY <1>5, <1>6

(* A worker that takes up or ends a connection keeps the invariant.        *)
LEMMA WorkStep ==
    ASSUME IInv, NEW c \in Clients, Work(c)
    PROVE  IInv'
<1>1. PICK d \in Daemons : d = Server(c)
  BY DEF IInv, TypeInv, Work, At
<1>2. /\ conn[c].stage = "spawned" /\ {"closed", "peer"} \subseteq Stages \ {"none"}
      /\ Holds("spawned") = 1 /\ Counts("spawned") = 0 /\ Holds("closed") = 0
      /\ Counts("closed") = 0 /\ Holds("peer") = 1 /\ Counts("peer") = 1
  BY DEF Work, At, Holds, Counts, Handled, Stages
<1>3. /\ active \in [Daemons -> Int] /\ open \in [Daemons -> Int] /\ active[d] <= Max
      /\ conn[c].request = None
  BY <1>2 DEF IInv, TypeInv, SlotsMatchWorkers, ReplyInv
<1>4. UNCHANGED <<node, poisoned>>
  BY DEF Work, listeners
<1>5. CASE d \notin poisoned
  <2>1. open' = [open EXCEPT ![d] = open[d] + 1] /\ active' = active /\ Goes(c, "peer")
    BY ZenonT(90), <1>1, <1>5 DEF Work
  <2>2. /\ open' \in [Daemons -> Int] /\ \A x \in Daemons \ {d} : open'[x] = open[x]
        /\ active'[d] = active[d] + Holds("peer") - Holds(conn[c].stage)
        /\ open'[d] = open[d] + Counts("peer") - Counts(conn[c].stage)
    BY <1>2, <1>3, <2>1
  <2>3. QED
    BY <1>1, <1>2, <1>3, <1>4, <2>1, <2>2, StageStep
<1>6. CASE d \in poisoned
  <2>1. active' = [active EXCEPT ![d] = active[d] - 1] /\ open' = open /\ Goes(c, "closed")
    BY ZenonT(90), <1>1, <1>6 DEF Work
  <2>2. /\ active' \in [Daemons -> Int] /\ \A x \in Daemons \ {d} : active'[x] = active[x]
        /\ active'[d] = active[d] + Holds("closed") - Holds(conn[c].stage) /\ active'[d] <= Max
        /\ open'[d] = open[d] + Counts("closed") - Counts("closed")
    BY <1>2, <1>3, <2>1, DaemonAssumption
  <2>3. QED
    BY ZenonT(90), <1>1, <1>2, <1>3, <1>4, <1>6, <2>1, <2>2, StageStep
<1>7. QED
  BY <1>5, <1>6

(* A handled connection moves to another stage in which it is handled.     *)
LEMMA HandledStep ==
    ASSUME IInv, NEW c \in Clients, conn[c].stage \in Handled, NEW s \in Handled, Goes(c, s),
           UNCHANGED <<node, counts, poisoned>>,
           s \in {"none", "queued", "spawned", "peer", "reading"} => conn[c].request = None,
           s \in {"dispatching", "replying"} => conn[c].request # None
    PROVE  IInv'
<1>1. PICK d \in Daemons : d = Server(c)
  BY ZenonT(90) DEF IInv, TypeInv, Handled
<1>2. /\ conn[c].stage # "none" /\ s \in Stages \ {"none"}
      /\ Holds(conn[c].stage) = 1 /\ Counts(conn[c].stage) = 1 /\ Holds(s) = 1 /\ Counts(s) = 1
  BY DEF Holds, Counts, Handled, Stages
<1>3. /\ active \in [Daemons -> Int] /\ open \in [Daemons -> Int] /\ active[d] <= Max
      /\ active' = active /\ open' = open
  BY DEF IInv, TypeInv, SlotsMatchWorkers, counts
<1>4. /\ active'[d] = active[d] + Holds(s) - Holds(conn[c].stage)
      /\ open'[d] = open[d] + Counts(s) - Counts(conn[c].stage)
  BY <1>2, <1>3
<1>5. QED
  BY ZenonT(90), <1>1, <1>2, <1>3, <1>4, StageStep

(* Authenticating the peer keeps the invariant.                            *)
LEMMA AuthenticateStep ==
    ASSUME IInv, NEW c \in Clients, Authenticate(c)
    PROVE  IInv'
<1>1. conn[c].stage = "peer" /\ "peer" \in Handled /\ "reading" \in Handled
  BY DEF Authenticate, At, Handled
<1>2. UNCHANGED <<node, poisoned>> /\ conn[c].request = None
  BY ZenonT(90), <1>1 DEF Authenticate, listeners, IInv, ReplyInv
<1>3. CASE Goes(c, "reading") /\ UNCHANGED counts
  BY <1>1, <1>2, <1>3, HandledStep
<1>4. CASE Ends(c)
  BY <1>1, <1>2, <1>4, EndsStep
<1>5. QED
  BY <1>3, <1>4 DEF Authenticate

(* Dispatching a request keeps the invariant.                              *)
LEMMA DispatchStep ==
    ASSUME IInv, NEW c \in Clients, Dispatch(c)
    PROVE  IInv'
<1>1. conn[c].stage = "dispatching" /\ "dispatching" \in Handled /\ "replying" \in Handled
  BY DEF Dispatch, At, Handled
<1>2. UNCHANGED <<node, counts, poisoned>> /\ Goes(c, "replying") /\ conn[c].request # None
  BY ZenonT(90), <1>1 DEF Dispatch, listeners, IInv, ReplyInv
<1>3. QED
  BY ZenonT(90), <1>1, <1>2, HandledStep

(* A read that ends the connection keeps the invariant.                    *)
LEMMA ReadEndsStep ==
    ASSUME IInv, NEW c \in Clients, ReadEnds(c)
    PROVE  IInv'
<1>1. conn[c].stage \in Handled /\ UNCHANGED <<node, poisoned>> /\ Ends(c)
  BY DEF ReadEnds, At, Handled, listeners
<1>2. QED
  BY <1>1, EndsStep

(* The slots after a step of one connection that keeps its stage class.    *)
LEMMA SlotsStay ==
    ASSUME IInv, NEW c \in Clients,
           \A x \in Clients \ {c} : conn'[x] = conn[x], UNCHANGED <<active, open, poisoned>>,
           Server(c)' = Server(c), Server(c) \in Daemons,
           Holds(conn'[c].stage) = Holds(conn[c].stage),
           Counts(conn'[c].stage) = Counts(conn[c].stage)
    PROVE  SlotsMatchWorkers'
<1>1. PICK d \in Daemons : d = Server(c)
  OBVIOUS
<1>2. active[d] \in Int /\ open[d] \in Int /\ active[d] <= Max
  BY DEF IInv, TypeInv, SlotsMatchWorkers
<1> DEFINE h == Holds(conn[c].stage)
           n == Counts(conn[c].stage)
<1>3. active'[d] = active[d] + h - h /\ open'[d] = open[d] + n - n
  <2>1. h \in Int /\ n \in Int
    BY DEF Holds, Counts
  <2> HIDE DEF h, n
  <2>2. QED
    BY <1>2, <2>1
<1>4. QED
  BY <1>1, <1>2, <1>3, SlotsMove, ZenonT(90) DEF IInv

(* What the head and the tail of a sequence are.                           *)
LEMMA HeadAndTail ==
    ASSUME NEW S, NEW q \in Seq(S), q # << >>
    PROVE  /\ Head(q) \in S /\ Head(q) = q[1] /\ Len(q) \in Nat \ {0}
           /\ Tail(q) \in Seq(S) /\ Len(Tail(q)) = Len(q) - 1
           /\ \A i \in 1 .. Len(q) - 1 : Tail(q)[i] = q[i + 1]
  OBVIOUS

(* What a sequence is after an element was appended.                       *)
LEMMA Appended ==
    ASSUME NEW S, NEW q \in Seq(S), NEW x \in S
    PROVE  /\ Append(q, x) \in Seq(S) /\ Len(q) \in Nat /\ Len(Append(q, x)) = Len(q) + 1
           /\ Append(q, x)[Len(q) + 1] = x
           /\ \A i \in 1 .. Len(q) : Append(q, x)[i] = q[i]
  OBVIOUS

(* How many requests of a connection were taken from its frames.           *)
LEMMA TakenIs ==
    ASSUME NEW c, Len(conn[c].replied) \in Nat
    PROVE  /\ conn[c].request = None => Taken(c) = Len(conn[c].replied)
           /\ conn[c].request # None => Taken(c) = Len(conn[c].replied) + 1
<1>1. ASSUME NEW n \in Nat PROVE n + 0 = n
  OBVIOUS
<1>2. QED
  BY ZenonT(90), <1>1 DEF Taken

(* The same of the state a step leads to.                                  *)
LEMMA TakenBecomes ==
    ASSUME NEW c, Len(conn'[c].replied) \in Nat
    PROVE  /\ conn'[c].request = None => Taken(c)' = Len(conn'[c].replied)
           /\ conn'[c].request # None => Taken(c)' = Len(conn'[c].replied) + 1
<1>1. ASSUME NEW n \in Nat PROVE n + 0 = n
  OBVIOUS
<1>2. QED
  BY ZenonT(90), <1>1 DEF Taken

(* An admitted request is the next one sent and is not answered yet.       *)
LEMMA ReadStep ==
    ASSUME IInv, NEW c \in Clients, Read(c)
    PROVE  IInv'
<1> DEFINE k == conn[c]
           f == Head(conn[c].inbox)
<1>1. /\ k.stage = "reading" /\ k.inbox # << >> /\ UNCHANGED <<node, poisoned>>
      /\ "reading" \in Handled /\ "dispatching" \in Handled
  BY ZenonT(90) DEF Read, At, listeners, Handled
<1>2. CASE Ends(c)
  BY <1>1, <1>2, EndsStep
<1>3. CASE /\ Admits(c, f) /\ UNCHANGED counts
           /\ conn' = [conn EXCEPT ![c].stage = "dispatching", ![c].request = f.id,
                                   ![c].admitted = @ \cup {f.id}, ![c].inbox = Tail(@)]
  <2>1. conn' = [conn EXCEPT ![c] = [conn[c] EXCEPT !.stage = "dispatching", !.request = f.id,
                                       !.admitted = @ \cup {f.id}, !.inbox = Tail(@)]]
    BY <1>3, ZenonT(90)
  <2>2. k \in ConnState /\ ReplyInv(c) /\ conn \in [Clients -> ConnState]
    BY DEF IInv, TypeInv
  <2>3. /\ k.inbox \in Seq(Frame) /\ k.sent \in Seq(Ids) /\ k.replied \in Seq(Ids)
        /\ k.admitted \in SUBSET Ids /\ k.request = None /\ Server(c) \in Daemons
    BY <1>1, <2>2, ZenonT(90) DEF ConnState, ReplyInv, IInv, TypeInv, Server
  <2>4. /\ f \in Frame /\ f.id \in Ids /\ f.id # None /\ f = k.inbox[1]
        /\ Tail(k.inbox) \in Seq(Frame) /\ Len(Tail(k.inbox)) = Len(k.inbox) - 1
        /\ Len(k.inbox) \in Nat \ {0}
        /\ \A i \in 1 .. Len(k.inbox) - 1 : Tail(k.inbox)[i] = k.inbox[i + 1]
    <3>1. f \in Frame => f.id \in Ids
      BY ZenonT(90) DEF Frame
    <3>2. QED
      BY ZenonT(90), <1>1, <2>3, <3>1, HeadAndTail, DaemonAssumption
  <2>5. /\ conn'[c].stage = "dispatching" /\ conn'[c].request = f.id
        /\ conn'[c].admitted = k.admitted \cup {f.id} /\ conn'[c].inbox = Tail(k.inbox)
        /\ conn'[c].sent = k.sent /\ conn'[c].replied = k.replied /\ Server(c)' = Server(c)
        /\ \A x \in Clients \ {c} : conn'[x] = conn[x]
    BY <2>1, <2>2 DEF ConnState, Server
  <2>6. TypeInv'
    <3>1. [conn[c] EXCEPT !.stage = "dispatching", !.request = f.id,
                          !.admitted = @ \cup {f.id}, !.inbox = Tail(@)] \in ConnState
      BY <1>1, <2>2, <2>3, <2>4, ZenonT(90) DEF ConnState, Stages
    <3>2. conn' \in [Clients -> ConnState]
      BY ZenonT(90), <2>1, <2>2, <3>1
    <3>3. QED
      BY <1>1, <1>3, <2>3, <2>5, <3>2, ZenonT(90) DEF IInv, TypeInv, Server, counts
  <2>7. SlotsMatchWorkers'
    BY <1>1, <1>3, <2>3, <2>5, SlotsStay, ZenonT(90) DEF Holds, Counts, counts, Handled
  <2>8. ReplyInv(c)'
    <3>1. Taken(c) = Len(k.replied) /\ Taken(c)' = Len(k.replied) + 1 /\ Len(k.replied) \in Nat
      <4>1. Len(k.replied) \in Nat
        BY <2>3
      <4>2. QED
        BY ZenonT(90), <2>3, <2>4, <2>5, <4>1, TakenIs, TakenBecomes
    <3>2. f.id = k.sent[Len(k.replied) + 1] /\ f.id \notin k.admitted
      <4>1. 1 \in 1 .. Len(k.inbox)
        BY <2>4
      <4>2. k.inbox[1].id = k.sent[Len(k.replied) + 1]
        BY ZenonT(90), <2>2, <3>1, <4>1 DEF ReplyInv
      <4>3. QED
        BY ZenonT(90), <1>3, <2>4, <4>2 DEF Admits
    <3>3. Len(conn'[c].sent) = Taken(c)' + Len(conn'[c].inbox)
      <4>1. Len(k.sent) = Len(k.replied) + Len(k.inbox)
        BY ZenonT(90), <2>2, <3>1 DEF ReplyInv
      <4>2. /\ Len(k.inbox) \in Nat /\ Len(conn'[c].inbox) = Len(k.inbox) - 1
            /\ Len(conn'[c].sent) = Len(k.sent)
        BY ZenonT(90), <2>4, <2>5
      <4>3. \A n, m \in Nat : n + m = (n + 1) + (m - 1)
        OBVIOUS
      <4>4. Len(k.replied) + Len(k.inbox) = (Len(k.replied) + 1) + (Len(k.inbox) - 1)
        BY <3>1, <4>2, <4>3, ZenonT(90)
      <4>5. QED
        BY <3>1, <4>1, <4>2, <4>4, ZenonT(90)
    <3>4. \A i \in 1 .. Len(conn'[c].inbox) : conn'[c].inbox[i].id = conn'[c].sent[Taken(c)' + i]
      <4>1. ASSUME NEW i \in 1 .. Len(k.inbox) - 1
            PROVE  Tail(k.inbox)[i].id = k.sent[Len(k.replied) + 1 + i]
        <5>1. i + 1 \in 1 .. Len(k.inbox) /\ Len(k.replied) + (i + 1) = Len(k.replied) + 1 + i
          <6> DEFINE m == Len(k.inbox)
                     n == Len(k.replied)
          <6>1. m \in Nat /\ n \in Nat /\ i \in 1 .. m - 1
            BY ZenonT(90), <2>4, <3>1
          <6> HIDE DEF m, n
          <6>2. i + 1 \in 1 .. m /\ n + (i + 1) = n + 1 + i
            BY <6>1
          <6>3. QED
            BY <6>2, ZenonT(90) DEF m, n
        <5>2. k.inbox[i + 1].id = k.sent[Len(k.replied) + (i + 1)]
          BY <2>2, <3>1, <5>1, ZenonT(90) DEF ReplyInv
        <5>3. QED
          BY <2>4, <5>1, <5>2, ZenonT(90)
      <4>2. QED
        BY ZenonT(90), <2>4, <2>5, <3>1, <4>1
    <3>5. \A i \in 1 .. Len(k.replied) :
             k.replied[i] = k.sent[i] /\ k.replied[i] \in (k.admitted \cup {f.id}) \ {f.id}
      BY ZenonT(90), <2>2, <3>2 DEF ReplyInv
    <3>6. \A i, j \in 1 .. Len(k.replied) : k.replied[i] = k.replied[j] => i = j
      BY ZenonT(90), <2>2 DEF ReplyInv
    <3>7. QED
      BY <2>4, <2>5, <3>1, <3>2, <3>3, <3>4, <3>5, <3>6, ZenonT(90) DEF ReplyInv
  <2>9. QED
    BY ZenonT(90), <2>5, <2>6, <2>7, <2>8, OthersStay DEF IInv
<1>4. QED
  BY ZenonT(90), <1>2, <1>3 DEF Read

(* A reply is the next identifier sent.                                    *)
LEMMA ReplyStep ==
    ASSUME IInv, NEW c \in Clients, Reply(c)
    PROVE  IInv'
<1> DEFINE k == conn[c]
<1>1. /\ k.stage = "replying" /\ UNCHANGED <<node, poisoned>>
      /\ "reading" \in Handled /\ "replying" \in Handled
  BY DEF Reply, At, listeners, Handled
<1>2. CASE Ends(c)
  BY <1>1, <1>2, EndsStep
<1>3. CASE /\ UNCHANGED counts
           /\ conn' = [conn EXCEPT ![c].stage = "reading", ![c].request = None,
                                   ![c].replied = Append(@, conn[c].request)]
  <2>1. conn' = [conn EXCEPT ![c] = [conn[c] EXCEPT !.stage = "reading", !.request = None,
                                       !.replied = Append(@, k.request)]]
    BY <1>3, ZenonT(90)
  <2>2. k \in ConnState /\ ReplyInv(c) /\ conn \in [Clients -> ConnState]
    BY DEF IInv, TypeInv
  <2>3. /\ k.sent \in Seq(Ids) /\ k.replied \in Seq(Ids) /\ Len(k.inbox) \in Nat
        /\ k.request # None /\ k.request \in Ids /\ Server(c) \in Daemons
    <3>1. /\ k.sent \in Seq(Ids) /\ k.replied \in Seq(Ids) /\ k.inbox \in Seq(Frame)
          /\ k.request \in Ids \cup {None}
      BY <2>2 DEF ConnState
    <3>2. k.request # None /\ Server(c) \in Daemons
      BY ZenonT(90), <1>1, <2>2 DEF ReplyInv, IInv, TypeInv
    <3>3. QED
      BY <3>1, <3>2
  <2>4. /\ Append(k.replied, k.request) \in Seq(Ids) /\ Len(k.replied) \in Nat
        /\ Len(Append(k.replied, k.request)) = Len(k.replied) + 1
        /\ Append(k.replied, k.request)[Len(k.replied) + 1] = k.request
        /\ \A i \in 1 .. Len(k.replied) : Append(k.replied, k.request)[i] = k.replied[i]
    BY <2>3
  <2>5. /\ conn'[c].stage = "reading" /\ conn'[c].request = None
        /\ conn'[c].replied = Append(k.replied, k.request)
        /\ conn'[c].sent = k.sent /\ conn'[c].inbox = k.inbox /\ conn'[c].admitted = k.admitted
        /\ Server(c)' = Server(c) /\ \A x \in Clients \ {c} : conn'[x] = conn[x]
    BY <2>1, <2>2 DEF ConnState, Server
  <2>6. TypeInv'
    <3>1. [conn[c] EXCEPT !.stage = "reading", !.request = None,
                          !.replied = Append(@, k.request)] \in ConnState
      BY <1>1, <2>2, <2>4, ZenonT(90) DEF ConnState, Stages
    <3>2. conn' \in [Clients -> ConnState]
      BY <2>1, <2>2, <3>1
    <3>3. QED
      BY ZenonT(90), <1>1, <1>3, <2>3, <2>5, <3>2 DEF IInv, TypeInv, Server, counts
  <2>7. SlotsMatchWorkers'
    BY <1>1, <1>3, <2>3, <2>5, SlotsStay, ZenonT(90) DEF Holds, Counts, counts, Handled
  <2>8. ReplyInv(c)'
    <3> DEFINE n == Len(k.replied)
               r == Append(k.replied, k.request)
    <3>1. Taken(c) = n + 1 /\ Taken(c)' = n + 1
      <4>1. n \in Nat /\ Len(r) \in Nat /\ Len(r) = n + 1
        BY <2>4
      <4>2. QED
        BY ZenonT(90), <2>3, <2>5, <4>1, TakenIs, TakenBecomes
    <3>2. /\ Len(k.sent) = n + 1 + Len(k.inbox)
          /\ k.request = k.sent[n + 1] /\ k.request \in k.admitted
          /\ \A i \in 1 .. Len(k.inbox) : k.inbox[i].id = k.sent[n + 1 + i]
      BY ZenonT(90), <2>2, <2>3, <3>1 DEF ReplyInv
    <3>3. /\ \A i \in 1 .. n : k.replied[i] = k.sent[i] /\ k.replied[i] \in k.admitted \ {k.request}
          /\ \A i, j \in 1 .. n : k.replied[i] = k.replied[j] => i = j
      BY ZenonT(90), <2>2 DEF ReplyInv
    <3>4. \A i \in 1 .. n + 1 : i \in 1 .. n \/ i = n + 1
      BY <2>4
    <3>5. \A i \in 1 .. n + 1 : r[i] = k.sent[i] /\ r[i] \in k.admitted
      BY ZenonT(90), <2>4, <3>2, <3>3, <3>4
    <3>6. \A i, j \in 1 .. n + 1 : r[i] = r[j] => i = j
      BY ZenonT(90), <2>4, <3>3, <3>4
    <3>7. \A i \in 1 .. n + 1 : r[i] # None
      <4>1. \A i \in 1 .. n + 1 : r[i] \in Ids
        BY <2>4
      <4>2. QED
        BY ZenonT(90), <4>1, DaemonAssumption
    <3>8. QED
      BY <2>4, <2>5, <3>1, <3>2, <3>5, <3>6, <3>7, ZenonT(90) DEF ReplyInv
  <2>9. QED
    BY ZenonT(90), <2>5, <2>6, <2>7, <2>8, OthersStay DEF IInv
<1>4. QED
  BY ZenonT(90), <1>2, <1>3 DEF Reply

(* A client that connects keeps the invariant.                             *)
LEMMA ConnectStep ==
    ASSUME IInv, NEW c \in Clients, Connect(c)
    PROVE  IInv'
<1>1. PICK d \in Daemons : d = node
  BY DEF IInv, TypeInv, Connect
<1>2. /\ conn[c].stage = "none" /\ UNCHANGED <<node, active, open, poisoned>>
      /\ conn' = [conn EXCEPT ![c] = [conn[c] EXCEPT !.server = d, !.stage = "queued"]]
  BY <1>1, ZenonT(90) DEF Connect, At, listeners, counts
<1>3. conn \in [Clients -> ConnState] /\ conn[c] \in ConnState /\ ReplyInv(c)
  BY DEF IInv, TypeInv
<1>4. [conn[c] EXCEPT !.server = d, !.stage = "queued"] \in ConnState
  BY <1>3, ConnStates, ZenonT(90) DEF Stages
<1>5. /\ conn' \in [Clients -> ConnState] /\ \A x \in Clients \ {c} : conn'[x] = conn[x]
      /\ conn'[c] = [conn[c] EXCEPT !.server = d, !.stage = "queued"]
  BY <1>2, <1>3, <1>4
<1>6. /\ conn'[c].stage = "queued" /\ Server(c)' = d /\ conn'[c].inbox = conn[c].inbox
      /\ conn'[c].sent = conn[c].sent /\ conn'[c].request = conn[c].request
      /\ conn'[c].replied = conn[c].replied /\ conn'[c].admitted = conn[c].admitted
  BY <1>3, <1>5 DEF ConnState, Server
<1>7. TypeInv'
  BY <1>2, <1>5, <1>6 DEF IInv, TypeInv, Server
<1>8. ReplyInv(c)'
  <2>1. conn[c].request = None
    BY ZenonT(90), <1>2, <1>3 DEF ReplyInv
  <2>2. QED
    BY ZenonT(90), <1>3, <1>6, <2>1, RepliesStay
<1>9. SlotsMatchWorkers'
  <2>1. ASSUME NEW x \in Daemons
        PROVE  /\ Workers(x, Handled \cup {"spawned"})' = Workers(x, Handled \cup {"spawned"})
               /\ Workers(x, Handled)' = Workers(x, Handled)
    BY <1>2, <1>5, <1>6, WorkersMove DEF Handled
  <2>2. QED
    BY ZenonT(90), <1>2, <2>1 DEF IInv, SlotsMatchWorkers
<1>10. QED
  BY <1>5, <1>7, <1>8, <1>9, OthersStay DEF IInv

(* A client that hangs up keeps the invariant.                             *)
LEMMA HangupStep ==
    ASSUME IInv, NEW c \in Clients, Hangup(c)
    PROVE  IInv'
<1>1. /\ UNCHANGED <<node, active, open, poisoned>> /\ conn[c].stage # "none"
      /\ conn' = [conn EXCEPT ![c] = [conn[c] EXCEPT !.hung = TRUE]]
  BY ZenonT(90) DEF Hangup, Connected, listeners, counts
<1>2. conn \in [Clients -> ConnState] /\ conn[c] \in ConnState /\ ReplyInv(c) /\ Server(c) \in Daemons
  BY <1>1 DEF IInv, TypeInv
<1>3. [conn[c] EXCEPT !.hung = TRUE] \in ConnState
  BY <1>2, ConnStates, ZenonT(90)
<1>4. /\ conn' \in [Clients -> ConnState] /\ \A x \in Clients \ {c} : conn'[x] = conn[x]
      /\ conn'[c] = [conn[c] EXCEPT !.hung = TRUE]
  BY <1>1, <1>2, <1>3
<1>5. /\ conn'[c].stage = conn[c].stage /\ Server(c)' = Server(c)
      /\ conn'[c].inbox = conn[c].inbox /\ conn'[c].sent = conn[c].sent
      /\ conn'[c].request = conn[c].request /\ conn'[c].replied = conn[c].replied
      /\ conn'[c].admitted = conn[c].admitted
  BY <1>2, <1>4 DEF ConnState, Server
<1>6. TypeInv'
  BY <1>1, <1>2, <1>4, <1>5 DEF IInv, TypeInv, Server
<1>7. ReplyInv(c)'
  <2>1. /\ conn[c].stage \in {"none", "queued", "spawned", "peer", "reading"} =>
              conn[c].request = None
        /\ conn[c].stage \in {"dispatching", "replying"} => conn[c].request # None
    BY ZenonT(90), <1>2 DEF ReplyInv
  <2>2. QED
    BY ZenonT(90), <1>2, <1>5, <2>1, RepliesStay
<1>8. SlotsMatchWorkers'
  BY <1>1, <1>2, <1>4, <1>5, SlotsStay
<1>9. QED
  BY <1>4, <1>6, <1>7, <1>8, OthersStay DEF IInv

(* A frame that is sent is the last one not read yet.                      *)
LEMMA SendStep ==
    ASSUME IInv, NEW c \in Clients, NEW id \in Ids, NEW decodes \in BOOLEAN, Send(c, id, decodes)
    PROVE  IInv'
<1> DEFINE k == conn[c]
           f == [id |-> id, decodes |-> decodes]
<1>1. /\ UNCHANGED <<node, active, open, poisoned>> /\ k.stage # "none"
      /\ conn' = [conn EXCEPT ![c] = [conn[c] EXCEPT !.inbox = Append(@, f), !.sent = Append(@, id)]]
  BY ZenonT(90) DEF Send, Connected, listeners, counts
<1>2. conn \in [Clients -> ConnState] /\ k \in ConnState /\ ReplyInv(c) /\ Server(c) \in Daemons
  BY <1>1 DEF IInv, TypeInv
<1>3. /\ k.inbox \in Seq(Frame) /\ k.sent \in Seq(Ids) /\ k.replied \in Seq(Ids) /\ f \in Frame
  BY ZenonT(90), <1>2 DEF ConnState, Frame
<1>4. /\ Append(k.inbox, f) \in Seq(Frame) /\ Append(k.sent, id) \in Seq(Ids)
      /\ Len(k.inbox) \in Nat /\ Len(k.sent) \in Nat /\ Len(k.replied) \in Nat
      /\ Len(Append(k.inbox, f)) = Len(k.inbox) + 1 /\ Len(Append(k.sent, id)) = Len(k.sent) + 1
      /\ Append(k.inbox, f)[Len(k.inbox) + 1] = f /\ Append(k.sent, id)[Len(k.sent) + 1] = id
      /\ \A i \in 1 .. Len(k.inbox) : Append(k.inbox, f)[i] = k.inbox[i]
      /\ \A i \in 1 .. Len(k.sent) : Append(k.sent, id)[i] = k.sent[i]
  <2>1. Len(k.replied) \in Nat
    BY <1>3
  <2>2. /\ Append(k.inbox, f) \in Seq(Frame) /\ Len(k.inbox) \in Nat
        /\ Len(Append(k.inbox, f)) = Len(k.inbox) + 1
        /\ Append(k.inbox, f)[Len(k.inbox) + 1] = f
        /\ \A i \in 1 .. Len(k.inbox) : Append(k.inbox, f)[i] = k.inbox[i]
    <3> HIDE DEF k, f
    <3>1. QED
      BY <1>3, Appended
  <2>3. /\ Append(k.sent, id) \in Seq(Ids) /\ Len(k.sent) \in Nat
        /\ Len(Append(k.sent, id)) = Len(k.sent) + 1
        /\ Append(k.sent, id)[Len(k.sent) + 1] = id
        /\ \A i \in 1 .. Len(k.sent) : Append(k.sent, id)[i] = k.sent[i]
    <3> HIDE DEF k
    <3>1. QED
      BY <1>3, Appended
  <2>4. QED
    BY <2>1, <2>2, <2>3, ZenonT(90)
<1>5. [conn[c] EXCEPT !.inbox = Append(@, f), !.sent = Append(@, id)] \in ConnState
  BY <1>2, <1>4, ConnStates, ZenonT(90)
<1>6. /\ conn' \in [Clients -> ConnState] /\ \A x \in Clients \ {c} : conn'[x] = conn[x]
      /\ conn'[c] = [conn[c] EXCEPT !.inbox = Append(@, f), !.sent = Append(@, id)]
  BY <1>1, <1>2, <1>5
<1>7. /\ conn'[c].stage = k.stage /\ Server(c)' = Server(c)
      /\ conn'[c].inbox = Append(k.inbox, f) /\ conn'[c].sent = Append(k.sent, id)
      /\ conn'[c].request = k.request /\ conn'[c].replied = k.replied
      /\ conn'[c].admitted = k.admitted
  BY <1>2, <1>6 DEF ConnState, Server
<1>8. TypeInv'
  BY ZenonT(90), <1>1, <1>2, <1>6, <1>7 DEF IInv, TypeInv, Server
<1>9. SlotsMatchWorkers'
  BY ZenonT(90), <1>1, <1>2, <1>6, <1>7, SlotsStay
<1>10. ReplyInv(c)'
  <2> DEFINE t == Taken(c)
             n == Len(k.replied)
             m == Len(k.inbox)
             l == Len(k.sent)
  <2>1. Taken(c)' = t /\ t \in Nat /\ n <= t /\ (k.request # None => t = n + 1)
    <3>1. Taken(c)' = t
      BY ZenonT(90), <1>7 DEF Taken
    <3>2. \A x \in Nat : x + 0 \in Nat /\ x + 1 \in Nat /\ x <= x + 0 /\ x <= x + 1
      OBVIOUS
    <3>3. t = n + IF k.request = None THEN 0 ELSE 1
      BY DEF Taken
    <3>4. QED
      BY <1>4, <3>1, <3>2, <3>3, ZenonT(90)
  <2>2. l = t + m
    BY ZenonT(90), <1>2 DEF ReplyInv
  <2>3. /\ \A i \in 1 .. n : k.replied[i] = k.sent[i] /\ k.replied[i] \in k.admitted \ {k.request}
        /\ \A i, j \in 1 .. n : k.replied[i] = k.replied[j] => i = j
        /\ k.request # None => k.request = k.sent[t] /\ k.request \in k.admitted
        /\ \A i \in 1 .. m : k.inbox[i].id = k.sent[t + i]
        /\ k.stage \in {"none", "queued", "spawned", "peer", "reading"} => k.request = None
        /\ k.stage \in {"dispatching", "replying"} => k.request # None
    BY ZenonT(90), <1>2 DEF ReplyInv
  <2>4. m \in Nat /\ n \in Nat /\ l \in Nat
    BY ZenonT(90), <1>4
  <2>5. /\ \A i \in 1 .. n : i \in 1 .. l
        /\ k.request # None => t \in 1 .. l
        /\ \A i \in 1 .. m : t + i \in 1 .. l
        /\ \A i \in 1 .. m + 1 : i \in 1 .. m \/ i = m + 1
        /\ t + (m + 1) = l + 1
    <3> HIDE DEF t, n, m, l
    <3>1. QED
      BY <2>1, <2>2, <2>4
  <2>6. \A i \in 1 .. m + 1 : Append(k.inbox, f)[i].id = Append(k.sent, id)[t + i]
    BY SMTT(30), <1>4, <2>3, <2>5
  <2>7. \A i \in 1 .. n : k.replied[i] = Append(k.sent, id)[i]
    BY ZenonT(90), <1>4, <2>3, <2>5
  <2>8. k.request # None => k.request = Append(k.sent, id)[t]
    BY ZenonT(90), <1>4, <2>3, <2>5
  <2>9. QED
    BY <1>4, <1>7, <2>1, <2>3, <2>5, <2>6, <2>7, <2>8, ZenonT(90) DEF ReplyInv
<1>11. QED
  BY ZenonT(90), <1>6, <1>8, <1>9, <1>10, OthersStay DEF IInv

(* A daemon that dies takes its connections, slots and counts with it.     *)
LEMMA DieStep ==
    ASSUME IInv, NEW d \in Daemons, Die(d)
    PROVE  IInv'
<1>1. /\ active' = [active EXCEPT ![d] = 0] /\ open' = [open EXCEPT ![d] = 0]
      /\ poisoned' = poisoned \ {d} /\ node' = node
      /\ conn' = [c \in Clients |->
                     IF Server(c) = d THEN [conn[c] EXCEPT !.stage = "closed"] ELSE conn[c]]
  BY DEF Die
<1>2. ASSUME NEW c \in Clients
      PROVE  /\ conn'[c] \in ConnState /\ Server(c)' = Server(c)
             /\ IF Server(c) = d THEN conn'[c].stage = "closed" ELSE conn'[c] = conn[c]
             /\ conn'[c].inbox = conn[c].inbox /\ conn'[c].sent = conn[c].sent
             /\ conn'[c].request = conn[c].request /\ conn'[c].replied = conn[c].replied
             /\ conn'[c].admitted = conn[c].admitted
  <2>1. conn[c] \in ConnState /\ "closed" \in Stages
    BY DEF IInv, TypeInv, Stages
  <2>2. CASE Server(c) = d
    <3>1. conn'[c] = [conn[c] EXCEPT !.stage = "closed"] /\ conn'[c] \in ConnState
      BY <1>1, <2>1, <2>2, ConnStates, ZenonT(90)
    <3>2. QED
      BY <2>1, <2>2, <3>1, ZenonT(90) DEF ConnState, Server
  <2>3. CASE Server(c) # d
    BY <1>1, <2>1, <2>3 DEF Server
  <2>4. QED
    BY ZenonT(90), <2>2, <2>3
<1>3. TypeInv'
  <2>1. conn' = [c \in Clients |-> conn'[c]]
    BY <1>1
  <2>2. conn' \in [Clients -> ConnState]
    BY <1>2, <2>1
  <2>3. \A c \in Clients : conn'[c].stage # "none" => Server(c)' \in Daemons
    BY <1>2 DEF IInv, TypeInv
  <2>4. QED
    BY <1>1, <2>2, <2>3 DEF IInv, TypeInv
<1>4. SlotsMatchWorkers'
  <2>1. Workers(d, Handled \cup {"spawned"})' = {} /\ Workers(d, Handled)' = {}
    BY ZenonT(90), <1>2 DEF Workers, Handled
  <2>2. ASSUME NEW x \in Daemons \ {d}
        PROVE  /\ Workers(x, Handled \cup {"spawned"})' = Workers(x, Handled \cup {"spawned"})
               /\ Workers(x, Handled)' = Workers(x, Handled)
    BY <1>2 DEF Workers, Server
  <2>3. active'[d] = 0 /\ open'[d] = 0 /\ 0 <= Max
    BY <1>1, DaemonAssumption DEF IInv, TypeInv
  <2>4. \A x \in Daemons \ {d} : active'[x] = active[x] /\ open'[x] = open[x]
    BY <1>1 DEF IInv, TypeInv
  <2>5. QED
    BY <1>1, <2>1, <2>2, <2>3, <2>4, FS_EmptySet, ZenonT(90) DEF IInv, SlotsMatchWorkers
<1>5. ASSUME NEW c \in Clients PROVE ReplyInv(c)'
  <2>1. /\ ReplyInv(c)
        /\ conn'[c].stage \in {"none", "queued", "spawned", "peer", "reading"} =>
              conn[c].request = None
        /\ conn'[c].stage \in {"dispatching", "replying"} => conn[c].request # None
    BY <1>2, ZenonT(90) DEF IInv, ReplyInv
  <2>2. QED
    BY ZenonT(90), <1>2, <2>1, RepliesStay
<1>6. QED
  BY ZenonT(90), <1>3, <1>4, <1>5 DEF IInv

(* A step that touches no connection.                                      *)
LEMMA ConnectionsStay ==
    ASSUME IInv, conn' = conn, UNCHANGED counts, poisoned \subseteq poisoned',
           node' \in Daemons \cup {None}
    PROVE  IInv'
<1>1. TypeInv'
  BY DEF IInv, TypeInv, counts, Server
<1>2. SlotsMatchWorkers'
  <2>1. \A x \in Daemons : /\ Workers(x, Handled \cup {"spawned"})' = Workers(x, Handled \cup {"spawned"})
                           /\ Workers(x, Handled)' = Workers(x, Handled)
    BY DEF Workers, Server
  <2>2. QED
    BY ZenonT(90), <2>1 DEF IInv, SlotsMatchWorkers, counts
<1>3. ASSUME NEW c \in Clients PROVE ReplyInv(c)'
  <2>1. /\ ReplyInv(c)
        /\ conn[c].stage \in {"none", "queued", "spawned", "peer", "reading"} =>
              conn[c].request = None
        /\ conn[c].stage \in {"dispatching", "replying"} => conn[c].request # None
    BY ZenonT(90) DEF IInv, ReplyInv
  <2>2. QED
    BY <2>1, RepliesStay
<1>4. QED
  BY <1>1, <1>2, <1>3 DEF IInv

(* Every step of the daemon and its clients preserves the invariant.       *)
LEMMA NextIInv == IInv /\ [Next]_vars => IInv'
<1> SUFFICES ASSUME IInv, [Next]_vars PROVE IInv'
  OBVIOUS
<1>1. ASSUME NEW c \in Clients, Serve(c) PROVE IInv'
  BY <1>1, AcceptStep, WorkStep, AuthenticateStep, ReadStep, ReadEndsStep, DispatchStep, ReplyStep,
     ZenonT(90)
  DEF Serve
<1>2. ASSUME NEW d \in Daemons, Unlink(d) \/ BindSocket(d) \/ Poison(d) PROVE IInv'
  <2>1. conn' = conn /\ UNCHANGED counts /\ poisoned \subseteq poisoned'
    BY <1>2 DEF Unlink, BindSocket, Poison
  <2>2. node' \in Daemons \cup {None}
    BY <1>2 DEF Unlink, BindSocket, Poison, IInv, TypeInv, listeners
  <2>3. QED
    BY ZenonT(90), <2>1, <2>2, ConnectionsStay
<1>3. CASE UNCHANGED vars
  BY ZenonT(90), <1>3, ConnectionsStay DEF vars, listeners, IInv, TypeInv
<1>4. QED
  BY <1>1, <1>2, <1>3, DieStep, ConnectStep, HangupStep, SendStep, ZenonT(90) DEF Next

(* A daemon without connections satisfies the invariant.                   *)
LEMMA InitIInv == Init => IInv
<1> SUFFICES ASSUME Init PROVE IInv
  OBVIOUS
<1>1. NoConn \in ConnState
  BY DEF NoConn, ConnState, Stages
<1>2. \A c \in Clients : conn[c] = NoConn
  BY DEF Init
<1>3. TypeInv
  BY <1>1, <1>2 DEF Init, TypeInv, NoConn
<1>4. SlotsMatchWorkers
  <2>1. \A d \in Daemons : Workers(d, Handled \cup {"spawned"}) = {} /\ Workers(d, Handled) = {}
    BY <1>2 DEF Workers, NoConn, Handled
  <2>2. Cardinality({}) = 0 /\ 0 <= Max
    BY FS_EmptySet, DaemonAssumption
  <2>3. \A d \in Daemons : active[d] = 0 /\ open[d] = 0
    BY DEF Init
  <2>4. QED
    BY ZenonT(90), <2>1, <2>2, <2>3 DEF SlotsMatchWorkers
<1>5. \A c \in Clients : ReplyInv(c)
  <2>1. ASSUME NEW c \in Clients
        PROVE  /\ conn[c].sent = << >> /\ conn[c].replied = << >> /\ conn[c].inbox = << >>
               /\ conn[c].request = None /\ conn[c].stage = "none"
    BY <1>2 DEF NoConn
  <2>2. Len(<< >>) = 0 /\ 1 .. 0 = {} /\ 0 + 0 = 0
    OBVIOUS
  <2>3. ASSUME NEW c \in Clients PROVE ReplyInv(c)
    <3>1. Taken(c) = 0 /\ Len(conn[c].sent) = 0 /\ Len(conn[c].replied) = 0 /\ Len(conn[c].inbox) = 0
      BY <2>1, <2>2, ZenonT(90) DEF Taken
    <3>2. Len(conn[c].sent) = Taken(c) + Len(conn[c].inbox)
      BY <2>2, <3>1, ZenonT(90)
    <3>3. QED
      BY <2>1, <2>2, <3>1, <3>2, ZenonT(90) DEF ReplyInv
  <2>4. QED
    BY <2>3
<1>6. QED
  BY <1>3, <1>4, <1>5 DEF IInv

(* The inductive invariant holds.                                          *)
LEMMA AlwaysIInv == Spec => []IInv
  BY InitIInv, NextIInv, PTL DEF Spec

(* Every worker slot and every count of a connection is given back, on     *)
(* every way a connection may end, for any number of connections.          *)
THEOREM SlotsAlwaysMatch == Spec => []SlotsMatchWorkers
<1>1. IInv => SlotsMatchWorkers
  BY DEF IInv
<1>2. QED
  BY AlwaysIInv, <1>1, PTL

(* Replies answer requests in order and once, for any number of frames     *)
(* and any limit on identifiers.                                           *)
THEOREM RepliesStayCorrelated == Spec => []RepliesAreCorrelated
<1>1. IInv => RepliesAreCorrelated
  <2>1. ASSUME IInv, NEW c \in Clients
        PROVE  Len(conn[c].replied) <= Len(conn[c].sent)
    <3>1. Len(conn[c].replied) \in Nat /\ Len(conn[c].inbox) \in Nat
      BY <2>1 DEF IInv, TypeInv, ConnState
    <3>2. Len(conn[c].sent)
             = (Len(conn[c].replied) + IF conn[c].request = None THEN 0 ELSE 1) + Len(conn[c].inbox)
      BY <2>1, ZenonT(90) DEF IInv, ReplyInv, Taken
    <3>3. \A n, m, k \in Nat : n <= (n + k) + m
      OBVIOUS
    <3>4. (IF conn[c].request = None THEN 0 ELSE 1) \in Nat
      OBVIOUS
    <3>5. QED
      BY <3>1, <3>2, <3>3, <3>4, ZenonT(90)
  <2>2. QED
    BY <2>1, ZenonT(90) DEF IInv, ReplyInv, RepliesAreCorrelated
<1>2. QED
  BY AlwaysIInv, <1>1, PTL

-----------------------------------------------------------------------------
(* The correlator of the MCP client.                                       *)

CONSTANTS Methods, in_flight_limit
VARIABLES next_id, network

Mcp == INSTANCE McpCorrelator

(* An entry is marked exactly when its cancellation was accepted, and      *)
(* neither an entry, nor a cancelled id, nor an id that is still to come   *)
(* has been satisfied.                                                     *)
McpInv ==
    /\ MaxIssued \in Nat
    /\ next_id \in Nat
    /\ satisfied \in [Mcp!RequestIds -> Nat]
    /\ outstanding = [id \in DOMAIN outstanding |-> outstanding[id]]
    /\ \A id \in DOMAIN outstanding :
           /\ id \in Mcp!RequestIds /\ id < next_id
           /\ outstanding[id] \in [method : Methods, cancel : {"running", "cancel_requested"}]
           /\ outstanding[id].cancel = "cancel_requested" <=> id \in cancelled
    /\ \A id \in cancelled : id \in Mcp!RequestIds /\ id < next_id
    /\ \A id \in Mcp!RequestIds :
           /\ satisfied[id] <= 1
           /\ id \in DOMAIN outstanding \/ id \in cancelled \/ id >= next_id => satisfied[id] = 0

(* correlate accepts only a response to an entry that is not cancelled.    *)
LEMMA AcceptedIsRunning ==
    ASSUME McpInv, NEW response, NEW expected, Mcp!Verdict(response, expected) = "accepted"
    PROVE  response.id \in DOMAIN outstanding /\ response.id \notin cancelled
<1>1. response.id \in DOMAIN outstanding
  BY DEF Mcp!Verdict
<1>2. outstanding[response.id].cancel # "cancel_requested"
  BY <1>1 DEF Mcp!Verdict
<1> QED BY <1>1, <1>2 DEF McpInv

(* An empty correlator satisfies the invariant.                            *)
LEMMA McpInit ==
    ASSUME MaxIssued \in Nat, Mcp!Init
    PROVE  McpInv
  BY DEF Mcp!Init, McpInv, Mcp!RequestIds

(* Issuing a request keeps the invariant.                                  *)
LEMMA IssuePreserves ==
    ASSUME McpInv, NEW method \in Methods, Mcp!issue(method)
    PROVE  McpInv'
<1>1. next_id \in Mcp!RequestIds /\ next_id' = next_id + 1 /\ next_id' \in Nat
  BY DEF Mcp!issue, McpInv, Mcp!RequestIds
<1>2. next_id \notin DOMAIN outstanding /\ next_id \notin cancelled
  BY DEF McpInv
<1> DEFINE issued == [id \in DOMAIN outstanding \cup {next_id} |->
                          IF id = next_id THEN [method |-> method, cancel |-> "running"]
                          ELSE outstanding[id]]
<1>3. UNCHANGED outstanding \/ outstanding' = issued
  BY DEF Mcp!issue
<1>4. CASE UNCHANGED outstanding
  BY <1>1, <1>4 DEF Mcp!issue, McpInv, Mcp!RequestIds
<1>5. CASE outstanding' = issued
  <2>1. outstanding' = [id \in DOMAIN outstanding \cup {next_id} |->
                            IF id = next_id THEN [method |-> method, cancel |-> "running"]
                            ELSE outstanding[id]]
    BY ZenonT(90), <1>5
  <2>2. satisfied' = satisfied /\ cancelled' = cancelled
    BY ZenonT(90) DEF Mcp!issue
  <2>3. ASSUME NEW id \in DOMAIN outstanding'
        PROVE  /\ id \in Mcp!RequestIds /\ id < next_id'
               /\ outstanding'[id] \in [method : Methods, cancel : {"running", "cancel_requested"}]
               /\ outstanding'[id].cancel = "cancel_requested" <=> id \in cancelled'
    BY <1>1, <1>2, <2>1, <2>2 DEF McpInv, Mcp!RequestIds
  <2>4. \A id \in Mcp!RequestIds : id >= next_id' => id >= next_id
    BY <1>1 DEF McpInv, Mcp!RequestIds
  <2>5. \A id \in Mcp!RequestIds : id \in DOMAIN outstanding' => id \in DOMAIN outstanding \/ id >= next_id
    BY <1>1, <2>1 DEF McpInv, Mcp!RequestIds
  <2>6. \A id \in cancelled' : id \in Mcp!RequestIds /\ id < next_id'
    BY <1>1, <2>2 DEF McpInv, Mcp!RequestIds
  <2> QED BY <1>1, <2>1, <2>2, <2>3, <2>4, <2>5, <2>6 DEF McpInv, Mcp!RequestIds
<1> QED BY <1>3, <1>4, <1>5

(* Cancelling a request keeps the invariant.                               *)
LEMMA CancelPreserves ==
    ASSUME McpInv, NEW id \in Mcp!RequestIds, Mcp!request_cancel(id)
    PROVE  McpInv'
  BY ZenonT(90) DEF McpInv, Mcp!request_cancel, Mcp!RequestIds

(* Correlating a response keeps the invariant.                             *)
LEMMA CorrelatePreserves ==
    ASSUME McpInv, NEW response, NEW expected, Mcp!correlate(response, expected)
    PROVE  McpInv'
<1>1. CASE Mcp!Verdict(response, expected) = "accepted"
  <2>1. response.id \in DOMAIN outstanding /\ response.id \notin cancelled
    BY ZenonT(90), <1>1, AcceptedIsRunning
  <2>2. /\ outstanding' = [id \in DOMAIN outstanding \ {response.id} |-> outstanding[id]]
        /\ satisfied' = [satisfied EXCEPT ![response.id] = @ + 1]
        /\ cancelled' = cancelled /\ next_id' = next_id
    BY ZenonT(90), <1>1 DEF Mcp!correlate
  <2>3. response.id \in Mcp!RequestIds /\ response.id < next_id /\ satisfied[response.id] = 0
    BY <2>1 DEF McpInv
  <2> QED BY <2>1, <2>2, <2>3 DEF McpInv, Mcp!RequestIds
<1>2. CASE Mcp!Verdict(response, expected) # "accepted"
  BY ZenonT(90), <1>2 DEF Mcp!correlate, McpInv, Mcp!RequestIds
<1> QED BY <1>1, <1>2

(* The client never lets a response satisfy a request twice, or one that   *)
(* was cancelled, whatever the transport does with the responses.          *)
THEOREM RequestsAreSatisfiedOnce == Mcp!Spec => []SatisfiedOnce
<1>1. ASSUME McpInv, [Mcp!Next]_(Mcp!vars) PROVE McpInv'
  <2>1. CASE UNCHANGED Mcp!vars
    BY ZenonT(90), <1>1, <2>1 DEF McpInv, Mcp!RequestIds, Mcp!vars
  <2>2. CASE \E method \in Methods : Mcp!issue(method)
    BY <1>1, <2>2, IssuePreserves
  <2>3. CASE \E id \in Mcp!RequestIds : Mcp!request_cancel(id)
    BY ZenonT(90), <1>1, <2>3, CancelPreserves
  <2>4. CASE Mcp!ServerAnswers
    BY ZenonT(90), <1>1, <2>4 DEF Mcp!ServerAnswers, McpInv, Mcp!RequestIds
  <2>5. CASE \E response \in network, expected \in Methods \cup {"none"} :
                 Mcp!correlate(response, expected)
    BY <1>1, <2>5, CorrelatePreserves
  <2> QED BY ZenonT(90), <1>1, <2>1, <2>2, <2>3, <2>4, <2>5 DEF Mcp!Next
<1>2. McpInv => SatisfiedOnce
  BY ZenonT(90) DEF McpInv, Mcp!RequestIds, RequestIds, SatisfiedOnce
<1>3. Mcp!Init => McpInv
  BY McpInit, MaxIssuedAssumption
<1> QED BY <1>1, <1>2, <1>3, PTL DEF Mcp!Spec
=============================================================================
