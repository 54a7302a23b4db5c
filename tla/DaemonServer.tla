---------------------------- MODULE DaemonServer ----------------------------
(***************************************************************************)
(* The native IPC daemon: bind_private_socket of                           *)
(* crates/recursive-agent-daemon/src/socket.rs, the accept loop, worker    *)
(* slots and connection handler of server.rs, and the request identifiers  *)
(* of protocol.rs.                                                         *)
(*                                                                         *)
(* A frame is an identifier and whether it decodes; what the runtime does  *)
(* for a request is RuntimeService, here a call that returns an answer or  *)
(* an error, both of which become one correlated reply.                    *)
(***************************************************************************)
EXTENDS Naturals, Sequences, FiniteSets

CONSTANTS
    Daemons,    \* processes given the same socket path
    Clients,    \* connections that may be made
    Owners,     \* those of the user that runs the daemon
    Ids,        \* request identifiers
    MaxIds,     \* MAX_REQUEST_IDS_PER_CONNECTION
    Max,        \* max_concurrent
    MaxSends,   \* bound: frames a client sends
    Faults,     \* subset of {"crash", "poison"}
    None

ASSUME DaemonAssumption ==
    /\ IsFiniteSet(Clients) /\ Owners \subseteq Clients
    /\ None \notin Ids \cup Daemons
    /\ Max \in Nat \ {0} /\ MaxIds \in Nat /\ MaxSends \in Nat
    /\ Faults \subseteq {"crash", "poison"}

VARIABLES
    node,       \* what the socket path names: a daemon's listener, or None
    daemon,     \* per daemon: "down", "binding" or "listening"
    active,     \* per daemon: the worker slots reserved
    open,       \* per daemon: open_ipc_connections of its runtime
    poisoned,   \* the daemons whose admission state is poisoned
    conn        \* per client: the connection, both ends

listeners == <<node, daemon>>
counts == <<active, open>>
vars == <<listeners, counts, poisoned, conn>>

NoConn == [server |-> None, stage |-> "none", hung |-> FALSE, inbox |-> << >>,
           admitted |-> {}, request |-> None, sent |-> << >>, replied |-> << >>]

Init ==
    /\ node = None
    /\ daemon = [d \in Daemons |-> "down"]
    /\ active = [d \in Daemons |-> 0] /\ open = [d \in Daemons |-> 0]
    /\ poisoned = {}
    /\ conn = [c \in Clients |-> NoConn]

Server(c) == conn[c].server
At(c, stage) == conn[c].stage = stage
Goes(c, stage) == conn' = [conn EXCEPT ![c].stage = stage]

-----------------------------------------------------------------------------
(* The socket.                                                             *)

(* A socket of that name is taken to be stale and removed.                 *)
Unlink(d) ==
    /\ daemon[d] = "down"
    /\ node' = None
    /\ daemon' = [daemon EXCEPT ![d] = "binding"]
    /\ UNCHANGED <<counts, poisoned, conn>>

BindSocket(d) ==
    /\ daemon[d] = "binding"
    /\ IF node = None
       THEN node' = d /\ daemon' = [daemon EXCEPT ![d] = "listening"]
       ELSE daemon' = [daemon EXCEPT ![d] = "down"] /\ UNCHANGED node
    /\ UNCHANGED <<counts, poisoned, conn>>

(* The process ends; its socket stays, its connections do not.             *)
Die(d) ==
    /\ "crash" \in Faults /\ daemon[d] = "listening"
    /\ daemon' = [daemon EXCEPT ![d] = "down"]
    /\ active' = [active EXCEPT ![d] = 0] /\ open' = [open EXCEPT ![d] = 0]
    /\ poisoned' = poisoned \ {d}
    /\ conn' = [c \in Clients |->
                   IF Server(c) = d THEN [conn[c] EXCEPT !.stage = "closed"] ELSE conn[c]]
    /\ UNCHANGED node

(* A thread panics while it holds the state of the admission domain.       *)
Poison(d) ==
    /\ "poison" \in Faults /\ daemon[d] = "listening"
    /\ poisoned' = poisoned \cup {d}
    /\ UNCHANGED <<listeners, counts, conn>>

-----------------------------------------------------------------------------
(* The clients.                                                            *)

Connect(c) ==
    /\ At(c, "none") /\ node # None /\ daemon[node] = "listening"
    /\ conn' = [conn EXCEPT ![c].server = node, ![c].stage = "queued"]
    /\ UNCHANGED <<listeners, counts, poisoned>>

Connected(c) == conn[c].stage \notin {"none", "closed"} /\ ~conn[c].hung

Send(c, id, decodes) ==
    /\ Connected(c) /\ Len(conn[c].sent) < MaxSends
    /\ conn' = [conn EXCEPT ![c].inbox = Append(@, [id |-> id, decodes |-> decodes]),
                            ![c].sent = Append(@, id)]
    /\ UNCHANGED <<listeners, counts, poisoned>>

Hangup(c) ==
    /\ Connected(c)
    /\ conn' = [conn EXCEPT ![c].hung = TRUE]
    /\ UNCHANGED <<listeners, counts, poisoned>>

-----------------------------------------------------------------------------
(* The server.                                                             *)

(* serve: a slot is reserved and a worker spawned, or the client denied.   *)
Accept(c) ==
    LET d == Server(c) IN
    /\ At(c, "queued")
    /\ IF active[d] < Max
       THEN active' = [active EXCEPT ![d] = @ + 1] /\ Goes(c, "spawned")
       ELSE Goes(c, "closed") /\ UNCHANGED active
    /\ UNCHANGED <<listeners, open, poisoned>>

(* Mutant of Work: a worker that could not be counted keeps its slot.      *)
WorkLeaks(c) ==
    LET d == Server(c) IN
    /\ At(c, "spawned")
    /\ IF d \notin poisoned
       THEN open' = [open EXCEPT ![d] = @ + 1] /\ Goes(c, "peer")
       ELSE Goes(c, "closed") /\ UNCHANGED open
    /\ UNCHANGED <<listeners, active, poisoned>>

(* ActiveGuard::new: the runtime counts the connection, or cannot.         *)
Work(c) ==
    LET d == Server(c) IN
    /\ At(c, "spawned")
    /\ IF d \notin poisoned
       THEN open' = [open EXCEPT ![d] = @ + 1] /\ Goes(c, "peer") /\ UNCHANGED active
       ELSE active' = [active EXCEPT ![d] = @ - 1] /\ Goes(c, "closed") /\ UNCHANGED open
    /\ UNCHANGED <<listeners, poisoned>>

(* handle_connection returns and the guard is dropped.                     *)
Ends(c) ==
    LET d == Server(c) IN
    /\ active' = [active EXCEPT ![d] = @ - 1]
    /\ open' = IF d \in poisoned THEN open ELSE [open EXCEPT ![d] = @ - 1]
    /\ Goes(c, "closed")

Authenticate(c) ==
    /\ At(c, "peer")
    /\ IF c \in Owners THEN Goes(c, "reading") /\ UNCHANGED counts ELSE Ends(c)
    /\ UNCHANGED <<listeners, poisoned>>

(* decode_request_frame and ConnectionRequestIds::admit.                   *)
Admits(c, frame) ==
    /\ frame.decodes
    /\ frame.id \notin conn[c].admitted
    /\ Cardinality(conn[c].admitted) < MaxIds

Read(c) ==
    /\ At(c, "reading") /\ conn[c].inbox # << >>
    /\ LET frame == Head(conn[c].inbox) IN
       IF Admits(c, frame)
       THEN /\ conn' = [conn EXCEPT ![c].stage = "dispatching", ![c].request = frame.id,
                                    ![c].admitted = @ \cup {frame.id}, ![c].inbox = Tail(@)]
            /\ UNCHANGED counts
       ELSE Ends(c)
    /\ UNCHANGED <<listeners, poisoned>>

(* Mutant of ReadEnds: no time-out is set on the socket.                   *)
ReadEndsOnClose(c) ==
    /\ At(c, "reading") /\ conn[c].inbox = << >> /\ conn[c].hung
    /\ Ends(c)
    /\ UNCHANGED <<listeners, poisoned>>

(* Nothing more comes: the client closed, or the read timed out.           *)
ReadEnds(c) ==
    /\ At(c, "reading") /\ conn[c].inbox = << >>
    /\ Ends(c)
    /\ UNCHANGED <<listeners, poisoned>>

(* dispatch: an answer or a typed error, either of them a response.        *)
Dispatch(c) ==
    /\ At(c, "dispatching")
    /\ Goes(c, "replying")
    /\ UNCHANGED <<listeners, counts, poisoned>>

(* The response is written; or the client is gone, or does not read and    *)
(* the write times out.                                                    *)
Reply(c) ==
    /\ At(c, "replying")
    /\ \/ /\ ~conn[c].hung
          /\ conn' = [conn EXCEPT ![c].stage = "reading", ![c].request = None,
                                  ![c].replied = Append(@, conn[c].request)]
          /\ UNCHANGED counts
       \/ Ends(c)
    /\ UNCHANGED <<listeners, poisoned>>

Serve(c) ==
    \/ Accept(c) \/ Work(c) \/ Authenticate(c)
    \/ Read(c) \/ ReadEnds(c) \/ Dispatch(c) \/ Reply(c)

Next ==
    \/ \E d \in Daemons : Unlink(d) \/ BindSocket(d) \/ Die(d) \/ Poison(d)
    \/ \E c \in Clients :
          \/ Connect(c) \/ Hangup(c) \/ Serve(c)
          \/ \E id \in Ids, decodes \in BOOLEAN : Send(c, id, decodes)

Spec == Init /\ [][Next]_vars
FairSpec == Spec /\ \A c \in Clients : WF_vars(Serve(c))

-----------------------------------------------------------------------------
Workers(d, stages) == {c \in Clients : Server(c) = d /\ conn[c].stage \in stages}
Handled == {"peer", "reading", "dispatching", "replying"}

(* On every way a connection may end, the slot and the count of it are     *)
(* given back: the reserved slots are the live workers, never more than    *)
(* max_concurrent, and the runtime counts the ones being handled until its *)
(* state is poisoned.                                                      *)
SlotsMatchWorkers ==
    \A d \in Daemons :
        /\ active[d] = Cardinality(Workers(d, Handled \cup {"spawned"}))
        /\ d \notin poisoned => open[d] = Cardinality(Workers(d, Handled))
        /\ active[d] <= Max

(* The replies of a connection answer its requests in the order they were  *)
(* sent, and no identifier is answered twice, though the client sends      *)
(* ahead, reuses identifiers and hangs up at any point.                    *)
RepliesAreCorrelated ==
    \A c \in Clients :
        LET replied == conn[c].replied IN
        /\ Len(replied) <= Len(conn[c].sent)
        /\ \A i \in 1 .. Len(replied) : replied[i] = conn[c].sent[i]
        /\ \A i, j \in 1 .. Len(replied) : replied[i] = replied[j] => i = j

(* A connection that was made ends, also when its client stays silent or   *)
(* stops reading ("a small number of idle clients cannot exhaust           *)
(* max_concurrent forever").                                               *)
ConnectionsEnd == \A c \in Clients : At(c, "queued") ~> At(c, "closed")
=============================================================================
