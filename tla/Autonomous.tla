----------------------------- MODULE Autonomous -----------------------------
(***************************************************************************)
(* The autonomous runner of                                                *)
(* crates/recursive-agent-runner/src/autonomous.rs: run_node asks a        *)
(* planner for intents, executes one of them at a time, delegates to child *)
(* nodes within its budgets, and records every step in a transcript, one   *)
(* line per receipt.                                                       *)
(*                                                                         *)
(* A process opens the transcript and makes one run.  No lock keeps two    *)
(* processes from one transcript.  The recursion of run_node is a stack of *)
(* nodes.  The planner, the executor, the memory and the skills may answer *)
(* or fail at every call.  The cancellation flag may be set, and the wall  *)
(* time may run out, before any step.  The sequence number and the chain   *)
(* digest of a receipt both say which lines its writer had seen; they are  *)
(* one number here.                                                        *)
(***************************************************************************)
EXTENDS Integers, Sequences, FiniteSets, SequencesExt

CONSTANTS
    Processes,  \* the processes that may have the transcript open
    MaxDepth, MaxSteps, MaxChildren, MaxOutput,    \* AutonomousBudgetV1
    MaxLines,   \* MAX_TRANSCRIPT_BYTES, in receipts
    MaxRuns,    \* bound: times the transcript is opened
    Faults      \* subset of {"io", "crash"}

VARIABLES
    file,       \* the complete lines of the transcript
    tail,       \* what was written after the last newline, one element per write
    proc,       \* process -> its handle of the transcript and its runner
    runs,       \* bound: times the transcript was opened
    effects,    \* history: calls of the executor
    marks       \* history: what may spoil a transcript: subset of {"failed", "overlapped"}

vars == <<file, tail, proc, runs, effects, marks>>

(* at is "closed", "truncate" and "refuse" (open found an incomplete last  *)
(* line after lines that verify, or do not), or "open"; seen is the lines  *)
(* that open read, stored the ones that this process takes for the file    *)
(* (next_sequence), wrote that the receipt is written and not its newline. *)
(* beyond counts the effects begun after the flag was set or the time up.  *)
Closed ==
    [at |-> "closed", seen |-> 0, stored |-> 0, wrote |-> FALSE, stack |-> << >>, steps |-> 0,
     children |-> 0, output |-> 0, cancelled |-> FALSE, late |-> FALSE, beyond |-> 0]

Init ==
    /\ file = << >> /\ tail = << >>
    /\ proc = [p \in Processes |-> Closed]
    /\ runs = 0 /\ effects = 0 /\ marks = {}

-----------------------------------------------------------------------------
(* The nodes.  A node is named by the children that led to it.             *)

Frame(node) == [node |-> node, pc |-> "enter", plan |-> "none", error |-> "none"]

Top(r) == Last(r.stack)
Depth(r) == Len(r.stack) - 1
At(p, pc) == proc[p].stack # << >> /\ Top(proc[p]).pc = pc /\ ~proc[p].wrote

Goes(r, pc) == [r EXCEPT !.stack[Len(r.stack)].pc = pc]
Plans(r, plan) ==
    [r EXCEPT !.stack[Len(r.stack)].plan = plan, !.stack[Len(r.stack)].pc = "plan"]
Errs(r, kind) ==
    [r EXCEPT !.stack[Len(r.stack)].error = kind, !.stack[Len(r.stack)].pc = "reject"]

(* A node that ends hands its output to the node that delegated to it,     *)
(* which goes on with its loop; the root ends the run.                     *)
Returns(r) ==
    IF Len(r.stack) = 1 THEN Closed ELSE Goes([r EXCEPT !.stack = Front(@)], "loop")

(* The node that delegated fails with the error of its child.              *)
Unwinds(r, kind) ==
    IF Len(r.stack) = 1 THEN Closed ELSE Errs([r EXCEPT !.stack = Front(@)], kind)

(* p goes on with one of the states rs; the transcript is left alone.      *)
Moves(p, rs) ==
    /\ \E r \in rs : proc' = [proc EXCEPT ![p] = r]
    /\ UNCHANGED <<file, tail, runs, marks>>

Quietly(p, rs) == Moves(p, rs) /\ UNCHANGED effects

-----------------------------------------------------------------------------
(* The transcript.                                                         *)

Torn == [sequence |-> -1, node |-> << >>, action |-> "torn"]

(* What open verifies.                                                     *)
Contiguous(lines) == \A i \in 1 .. Len(lines) : lines[i].sequence = i - 1

Opened(at) ==
    [Closed EXCEPT !.at = at, !.seen = Len(file), !.stored = Len(file),
                   !.stack = IF at = "open" THEN <<Frame(<< >>)>> ELSE << >>]

(* open reads the file, which may be too long, and drops an incomplete     *)
(* last line from it; the lines that it read must verify.                  *)
Open(p) ==
    /\ proc[p].at = "closed" /\ runs < MaxRuns
    /\ runs' = runs + 1
    /\ proc' = [proc EXCEPT ![p] =
          IF Len(file) > MaxLines THEN Closed
          ELSE IF tail # << >> THEN Opened(IF Contiguous(file) THEN "truncate" ELSE "refuse")
          ELSE IF Contiguous(file) THEN Opened("open") ELSE Closed]
    /\ marks' = IF \E q \in Processes \ {p} : proc[q].at # "closed"
                THEN marks \cup {"overlapped"} ELSE marks
    /\ UNCHANGED <<file, tail, effects>>

(* set_len to the end of the last line that was read: what others appended *)
(* meanwhile goes, and a file that others have cut shorter is padded.      *)
SetLen(lines) ==
    /\ file' = IF Len(file) < lines THEN file ELSE SubSeq(file, 1, lines)
    /\ tail' = IF Len(file) < lines THEN Append(tail, Torn) ELSE << >>

Truncate(p) ==
    LET r == proc[p] IN
    /\ r.at \in {"truncate", "refuse"}
    /\ \/ /\ SetLen(r.seen)
          /\ proc' = [proc EXCEPT ![p] =
                IF r.at = "refuse" THEN Closed
                ELSE [r EXCEPT !.at = "open", !.stack = <<Frame(<< >>)>>]]
       \/ /\ "io" \in Faults
          /\ SetLen(r.seen) \/ UNCHANGED <<file, tail>>
          /\ proc' = [proc EXCEPT ![p] = Closed]
    /\ UNCHANGED <<runs, effects, marks>>

(* What a node appends, by its place.                                      *)
Action(r) ==
    CASE Top(r).pc = "plan" -> "propose"
      [] Top(r).pc = "limit" -> "rejected"
      [] Top(r).pc = "reject" -> Top(r).error
      [] OTHER -> Top(r).pc

Appends(r) ==
    /\ r.stack # << >>
    /\ Action(r) \in {"observe", "recall", "propose", "complete", "execute", "review",
                      "delegate", "rejected", "cancelled"}
    /\ Top(r).pc # "propose"

Receipt(r) == [sequence |-> r.stored, node |-> Top(r).node, action |-> Action(r)]

Recurses(r) == Depth(r) < MaxDepth /\ r.children < MaxChildren

(* After the review, a delegation takes a child or meets the limits.       *)
Reviewed(r) ==
    IF Top(r).plan = "execute" THEN Goes(r, "loop")
    ELSE IF Recurses(r) THEN Goes([r EXCEPT !.children = @ + 1], "delegate")
    ELSE Goes(r, "limit")

Delegated(r) ==
    [Goes(r, "waiting") EXCEPT !.stack = Append(@, Frame(Append(Top(r).node, r.children)))]

(* How a node goes on when its receipt was appended, and when append       *)
(* failed.  run_node records the error of a node; a failure to do so       *)
(* replaces it.                                                            *)
Recorded(r) ==
    CASE Top(r).pc = "observe" -> Goes(r, "loop")
      [] Top(r).pc = "recall" -> Goes(r, "propose")
      [] Top(r).pc = "plan" -> Goes(r, IF Top(r).plan = "complete" THEN "complete" ELSE "select")
      [] Top(r).pc = "complete" -> Goes(r, "learn")
      [] Top(r).pc = "execute" -> Goes(r, "effect")
      [] Top(r).pc = "review" -> Reviewed(r)
      [] Top(r).pc = "limit" -> Errs(r, "rejected")
      [] Top(r).pc = "delegate" -> Delegated(r)
      [] Top(r).pc = "reject" -> Unwinds(r, Top(r).error)

Unrecorded(r) ==
    IF Top(r).pc = "reject" THEN Unwinds(r, "rejected") ELSE Errs(r, "rejected")

(* append refuses a receipt that would not fit in the file as this process *)
(* knows it.                                                               *)
TranscriptFull(p) ==
    LET r == proc[p] IN
    /\ Appends(r) /\ ~r.wrote /\ r.stored >= MaxLines
    /\ Quietly(p, {Unrecorded(r)})

(* write_all of the receipt; when it fails, nothing or a part is written.  *)
WriteReceipt(p) ==
    LET r == proc[p] IN
    /\ Appends(r) /\ ~r.wrote /\ r.stored < MaxLines
    /\ \/ /\ tail' = Append(tail, Receipt(r))
          /\ proc' = [proc EXCEPT ![p].wrote = TRUE] /\ UNCHANGED marks
       \/ /\ "io" \in Faults /\ proc' = [proc EXCEPT ![p] = Unrecorded(r)]
          /\ \/ UNCHANGED <<tail, marks>>
             \/ tail' = Append(tail, Torn) /\ marks' = marks \cup {"failed"}
    /\ UNCHANGED <<file, runs, effects>>

(* A newline ends the line, with all that was written to it; an empty line *)
(* is none.                                                                *)
Newline ==
    /\ file' = IF tail = << >> THEN file
               ELSE Append(file, IF Len(tail) = 1 THEN tail[1] ELSE Torn)
    /\ tail' = << >>

(* write_all of the newline, and sync_data; either may fail.               *)
WriteNewline(p) ==
    LET r == [proc[p] EXCEPT !.wrote = FALSE] IN
    /\ proc[p].wrote
    /\ \/ /\ Newline /\ UNCHANGED marks
          /\ proc' = [proc EXCEPT ![p] = Recorded([r EXCEPT !.stored = @ + 1])]
       \/ /\ "io" \in Faults /\ proc' = [proc EXCEPT ![p] = Unrecorded(r)]
          /\ Newline \/ UNCHANGED <<file, tail>>
          /\ marks' = marks \cup {"failed"}
    /\ UNCHANGED <<runs, effects>>

-----------------------------------------------------------------------------
(* The steps of a node that do not write.                                  *)

WithinBudget(r) ==
    Depth(r) <= MaxDepth /\ r.steps < MaxSteps /\ r.output < MaxOutput /\ ~r.late

(* Mutant of guard: the flag is not looked at.                             *)
guardDeaf(r, pc) == IF ~WithinBudget(r) THEN Errs(r, "rejected") ELSE Goes(r, pc)

(* guard(...)?                                                             *)
guard(r, pc) ==
    IF r.cancelled THEN Errs(r, "cancelled")
    ELSE IF ~WithinBudget(r) THEN Errs(r, "rejected")
    ELSE Goes(r, pc)

Passes(r) == ~r.cancelled /\ WithinBudget(r)

Enter(p) == At(p, "enter") /\ Quietly(p, {guard(proc[p], "observe")})

(* The guard of the loop, and the search in the memory.                    *)
Loop(p) ==
    LET r == proc[p] IN
    /\ At(p, "loop")
    /\ Quietly(p, {guard(r, "recall")} \cup {e \in {Errs(r, "rejected")} : Passes(r)})

(* The planner answers with a valid plan, or not.                          *)
Propose(p) ==
    LET r == proc[p] IN
    /\ At(p, "propose")
    /\ Quietly(p, {Plans(r, plan) : plan \in {"complete", "execute", "delegate"}}
                  \cup {Errs(r, "rejected")})

(* The output is stored in the memory.                                     *)
Learn(p) ==
    /\ At(p, "learn")
    /\ Quietly(p, {Returns(proc[p]), Errs(proc[p], "rejected")})

(* Mutant of Select: the receipt of the intent is left to the review.      *)
SelectUnrecorded(p) ==
    LET r == [proc[p] EXCEPT !.steps = @ + 1] IN
    /\ At(p, "select")
    /\ Quietly(p, IF Passes(proc[p]) THEN {Goes(r, "effect"), Errs(r, "rejected")}
                  ELSE {guard(proc[p], "effect")})

(* The search picks an intent, which takes a step and must be an admitted  *)
(* skill.                                                                  *)
Select(p) ==
    LET r == [proc[p] EXCEPT !.steps = @ + 1] IN
    /\ At(p, "select")
    /\ Quietly(p, IF Passes(proc[p]) THEN {Goes(r, "execute"), Errs(r, "rejected")}
                  ELSE {guard(proc[p], "execute")})

(* executor.execute: an output of one or two units, or an error.           *)
Effect(p) ==
    LET begun == [proc[p] EXCEPT !.beyond = @ + (IF proc[p].cancelled \/ proc[p].late THEN 1 ELSE 0)]
        Answer(size) == [begun EXCEPT !.output = @ + size]
    IN
    /\ At(p, "effect")
    /\ effects' = effects + 1
    /\ Moves(p, {IF Answer(size).output > MaxOutput THEN Errs(Answer(size), "rejected")
                 ELSE Goes(Answer(size), "review") : size \in 1 .. 2}
                \cup {Errs(begun, "rejected")})

Step(p) ==
    \/ Truncate(p) \/ TranscriptFull(p) \/ WriteReceipt(p) \/ WriteNewline(p)
    \/ Enter(p) \/ Loop(p) \/ Propose(p) \/ Learn(p) \/ Select(p) \/ Effect(p)

(* Another thread sets the flag.                                           *)
Cancel(p) ==
    /\ proc[p].at = "open" /\ ~proc[p].cancelled
    /\ Quietly(p, {[proc[p] EXCEPT !.cancelled = TRUE]})

WallTimeEnds(p) ==
    /\ proc[p].at = "open" /\ ~proc[p].late
    /\ Quietly(p, {[proc[p] EXCEPT !.late = TRUE]})

(* A process dies, perhaps with a part of a receipt written.               *)
ProcessDies(p) ==
    /\ "crash" \in Faults /\ proc[p].at # "closed"
    /\ \/ UNCHANGED tail
       \/ Appends(proc[p]) /\ ~proc[p].wrote /\ proc[p].stored < MaxLines
          /\ tail' = Append(tail, Torn)
    /\ proc' = [proc EXCEPT ![p] = Closed]
    /\ UNCHANGED <<file, runs, effects, marks>>

Next ==
    \E p \in Processes :
        Open(p) \/ Step(p) \/ Cancel(p) \/ WallTimeEnds(p) \/ ProcessDies(p)

Spec == Init /\ [][Next]_vars

-----------------------------------------------------------------------------
(* Every later process can open the transcript: what is left after an      *)
(* incomplete last line is dropped verifies ("an append-only,              *)
(* restart-verifiable autonomy transcript", autonomous.rs:5-6).            *)
TranscriptVerifies == Contiguous(file)

(* Every call of the executor was preceded by a receipt of its own that    *)
(* was written and synced, over all the processes that used the transcript.*)
EffectsAreRecordedFirst ==
    effects <= Cardinality({i \in 1 .. Len(file) : file[i].action = "execute"})

(* At most one effect of a run begins after the cancellation flag is set   *)
(* or the wall time has run out: the one that had passed its guard.        *)
AtMostOneBeyond == \A p \in Processes : proc[p].beyond <= 1

(* An effect begins only while every budget of the run that is counted,    *)
(* summed over all its nodes, allows it, and takes the step it was charged *)
(* for.                                                                    *)
EffectIsBudgeted ==
    effects' > effects =>
        \E p \in Processes :
            /\ At(p, "effect") /\ proc[p].output < MaxOutput /\ proc[p].steps <= MaxSteps
            /\ proc[p].children <= MaxChildren /\ Depth(proc[p]) <= MaxDepth

Terminal == {"complete", "cancelled", "rejected"}

(* When a run returns, the last receipt of each node it observed is        *)
(* terminal, the nodes that failed because of a child included, unless the *)
(* transcript is full.                                                     *)
ReturnClosesNodes ==
    \A p \in Processes :
        proc[p].at = "open" /\ proc'[p].at = "closed" /\ proc[p].stored < MaxLines =>
            \A i \in proc[p].seen + 1 .. Len(file') :
                \E j \in i .. Len(file') :
                    file'[j].node = file'[i].node /\ file'[j].action \in Terminal
=============================================================================
