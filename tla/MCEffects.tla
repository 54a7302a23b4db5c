----------------------------- MODULE MCEffects ------------------------------
(***************************************************************************)
(* What the runtime lets happen outside of it, for TLC: instances of the   *)
(* sandbox, of autonomous runs and of chats with a backend.  A behaviour   *)
(* is of one instance, which part names.                                   *)
(***************************************************************************)
EXTENDS SandboxEngine

CONSTANTS p1, p2, e1, e2, Json

VARIABLES file, tail, proc, runs, effects, marks
VARIABLES data, meta, firm, put, acked, record, chat, calls, dispatched, answered
VARIABLE part

autonomousVars == <<file, tail, proc, runs, effects, marks>>
chatVars == <<data, meta, firm, put, acked, record, chat, calls, dispatched, answered>>
allVars == <<vars, autonomousVars, chatVars, part>>

(* One run with children.                                                  *)
Budgets == INSTANCE Autonomous WITH
    Processes <- {e1}, MaxDepth <- 2, MaxSteps <- 4, MaxChildren <- 2, MaxOutput <- 4,
    MaxLines <- 40, MaxRuns <- 1, Faults <- {}

(* Appends fail, a process dies in its run, and another one opens the      *)
(* transcript after it.                                                    *)
Restarts == INSTANCE Autonomous WITH
    Processes <- {e1}, MaxDepth <- 1, MaxSteps <- 1, MaxChildren <- 1, MaxOutput <- 3,
    MaxLines <- 20, MaxRuns <- 2, Faults <- {"io", "crash"}

(* Two processes that may have the transcript open at the same time.       *)
Overlaps == INSTANCE Autonomous WITH
    Processes <- {e1, e2}, MaxDepth <- 1, MaxSteps <- 1, MaxChildren <- 1, MaxOutput <- 1,
    MaxLines <- 1, MaxRuns <- 3, Faults <- {"crash"}

(* A transcript that may fill up.                                          *)
Filling == INSTANCE Autonomous WITH
    Processes <- {e1}, MaxDepth <- 2, MaxSteps <- 3, MaxChildren <- 2, MaxOutput <- 4,
    MaxLines <- 12, MaxRuns <- 1, Faults <- {}

(* Two executors over two permits, without a fault.                        *)
Chats == INSTANCE NormalChat WITH
    Blobs <- {<<"response", p1>>, <<"response", p2>>, <<"observation", p1>>, <<"observation", p2>>},
    Medias <- {Json}, Writers <- {e1, e2}, Permits <- {p1, p2}, MaxCalls <- 3, Faults <- {}

-----------------------------------------------------------------------------
PartsInit ==
    /\ Init /\ Overlaps!Init /\ Chats!Init
    /\ part \in {"sandbox", "budgets", "restarts", "overlaps", "filling", "chats"}

AutonomousNext ==
    \/ part = "budgets" /\ Budgets!Next
    \/ part = "restarts" /\ Restarts!Next
    \/ part = "overlaps" /\ Overlaps!Next
    \/ part = "filling" /\ Filling!Next

PartsNext ==
    \/ part = "sandbox" /\ Next /\ UNCHANGED <<autonomousVars, chatVars, part>>
    \/ AutonomousNext /\ UNCHANGED <<vars, chatVars, part>>
    \/ part = "chats" /\ Chats!Next /\ UNCHANGED <<vars, autonomousVars, part>>

(* The threads of the runtime keep running, the clock moves and a call of  *)
(* the backend returns; the launcher, its tree, the readers and the        *)
(* planner owe nothing.                                                    *)
PartsFairness ==
    /\ WF_vars(part = "sandbox" /\ Dispatching) /\ WF_vars(part = "sandbox" /\ DeadlinePasses)
    /\ WF_autonomousVars(part = "filling" /\ Filling!Step(e1))
    /\ \A e \in {e1, e2} : WF_chatVars(part = "chats" /\ Chats!Step(e))

PartsSpec == PartsInit /\ [][PartsNext]_allVars /\ PartsFairness

-----------------------------------------------------------------------------
(* What was begun ends.  Every dispatch of the sandbox returns: neither a  *)
(* command that never ends nor a process that keeps a pipe open holds the  *)
(* runner beyond the deadline.  An autonomous run returns, whatever the    *)
(* planner proposes and the executor answers: the budgets bound the loops  *)
(* and the recursion, and a full transcript stops neither the run nor the  *)
(* report of its error.  Without a fault every call a chat makes of the    *)
(* backend is accounted for by a recorded outcome.                         *)
EverythingBegunEnds ==
    /\ part = "sandbox" ~> pc = "done"
    /\ part = "filling" /\ proc[e1].at = "open" ~> proc[e1].at = "closed"
    /\ Chats!EffectsAreAccountedFor

(* Budgets and cancellation bound a whole autonomous run, not one node of  *)
(* it: at most one effect begins after the cancellation flag is set or the *)
(* wall time has run out, the one that had passed its guard; an effect     *)
(* begins only while the budgets of depth, steps, children and output,     *)
(* summed over all nodes of the run, allow it, and takes the step it was   *)
(* charged for; and when the run returns, the last receipt of each node it *)
(* observed is terminal, the nodes that failed because of a child          *)
(* included, unless the transcript is full.                                *)
AutonomyStaysBounded ==
    [][ /\ Budgets!AtMostOneBeyond'
        /\ part = "budgets" => Budgets!EffectIsBudgeted /\ Budgets!ReturnClosesNodes
        /\ part = "filling" => Filling!ReturnClosesNodes
      ]_allVars

(* Unless an append failed with bytes in the file, or two processes had    *)
(* the transcript open at one time, every later process can open it,       *)
(* wherever a process stopped: what is left after an incomplete last line  *)
(* is dropped verifies.  Every call of the executor was preceded by a      *)
(* receipt of its own, written and synced, over all the processes that     *)
(* used the transcript one after the other, whatever appends failed.       *)
TranscriptIsKept ==
    /\ marks = {} => Restarts!TranscriptVerifies
    /\ "overlapped" \notin marks => Restarts!EffectsAreRecordedFirst
=============================================================================
