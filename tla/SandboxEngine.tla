---------------------------- MODULE SandboxEngine ----------------------------
(***************************************************************************)
(* One shell dispatch of the runner (dispatch_tool, sandbox_engine):       *)
(* execute checks the consumed permit, probes the launcher's version,      *)
(* spawns the launcher with the payload behind it, and supervises it:      *)
(* two threads drain its pipes, the loop polls the parent's authority, the *)
(* child and the deadline, and the answer is put together from the exit    *)
(* status and from what the threads retained.                              *)
(*                                                                         *)
(* Output is counted in blocks; the setup proof is one block of stderr.    *)
(* The launcher's process tree is outside the repository: it is modelled   *)
(* from the arguments build_argv gives it (the payload dies with the       *)
(* launcher, but only some time after it).                                 *)
(***************************************************************************)
EXTENDS SandboxAnswer, FiniteSets

CONSTANT MaxOutput  \* bound: blocks a process writes to one stream
ASSUME MaxOutputAssumption == MaxOutput \in Nat

VARIABLES
    phase,      \* the launcher's run under supervision: "probe" or "payload"
    parent,     \* the parent permit: "valid" or "revoked"
    late,       \* the deadline has passed
    holds,      \* the streams that command still has open
    kept,       \* blocks retained by each reader
    dropped,    \* blocks counted and dropped by each reader
    reader,     \* the reader threads: "none", "reading", "sent", "failed"
    flags       \* subset of {"timed_out", "authority_terminated"}

thread == <<pc, phase, flags, result, doomed>>
process == <<launcher, code, tree, holds, written, proved>>
pipes == <<kept, dropped, reader>>
vars == <<pc, phase, parent, late, launcher, code, tree, holds, written, proved, kept,
          dropped, reader, flags, result, doomed>>

None == "none"
Pending == [kind |-> "pending"]
Streams == {"stdout", "stderr"}
Nothing == [s \in Streams |-> 0]
stream_limit == [stdout |-> Limit, stderr |-> Limit + ProofBlock]

Init ==
    /\ pc = "start" /\ phase = "probe" /\ parent = "valid" /\ late = FALSE
    /\ launcher = "none" /\ code = None /\ tree = "none" /\ holds = {}
    /\ written = Nothing /\ proved = FALSE
    /\ kept = Nothing /\ dropped = Nothing /\ reader = [s \in Streams |-> "none"]
    /\ flags = {} /\ result = Pending /\ doomed = FALSE

-----------------------------------------------------------------------------
(* The dispatching thread.                                                 *)

validate_parent == parent = "valid"

SetupFailed(reason) == [kind |-> "setup_failed", reason |-> reason]

Return(answer) == pc' = "done" /\ result' = answer

(* The call, its effect, its budget or the pinned executables are not the  *)
(* ones of the consumed permit.                                            *)
DispatchRefused == Return([kind |-> "refused"])

WallTimeLeft == ~late

(* execute and the head of execute_linux.                                  *)
execute ==
    /\ pc = "start"
    /\ \/ DispatchRefused
       \/ validate_parent /\ WallTimeLeft /\ pc' = "spawn" /\ UNCHANGED result
    /\ UNCHANGED <<phase, parent, late, process, pipes, flags, doomed>>

(* posix_spawn of the trampoline; the child is a process-group leader.     *)
Spawned ==
    /\ launcher' = "running" /\ code' = None
    /\ tree' = "setup" /\ holds' = Streams
    /\ written' = Nothing /\ proved' = FALSE
    /\ kept' = Nothing /\ dropped' = Nothing

probe_version ==
    /\ pc = "spawn" /\ phase = "probe"
    /\ \/ /\ Spawned
          /\ pc' = "loop"
          /\ reader' = [s \in Streams |-> "reading"]
          /\ UNCHANGED result
       \/ Return(SetupFailed("descriptor_transfer_failed")) /\ UNCHANGED <<process, pipes>>
    /\ UNCHANGED <<phase, parent, late, flags, doomed>>

(* After the probe: the filter and the arguments are built, the deadline   *)
(* is checked, every pinned source must still be the one its path names,   *)
(* and the payload is spawned.                                             *)
spawn_bash_trampoline ==
    /\ pc = "spawn" /\ phase = "payload"
    /\ IF late THEN Return(SetupFailed("launcher_timed_out")) /\ UNCHANGED <<process, pipes, doomed>>
       ELSE \/ \E reason \in {"seccomp_generation_failed", "descriptor_transfer_failed",
                              "launcher_setup_failed"} :
                   Return(SetupFailed(reason)) /\ UNCHANGED <<process, pipes, doomed>>
            \/ /\ Spawned
               /\ pc' = "check"
               /\ reader' = [s \in Streams |-> "none"]
               /\ doomed' = (parent = "revoked")
               /\ UNCHANGED result
    /\ UNCHANGED <<phase, parent, late, flags>>

(* The guard is dropped armed: what still runs is killed, and reaped.      *)
ChildGuardDrop ==
    /\ launcher' = "reaped"
    /\ code' = IF launcher = "running" THEN "killed" ELSE code

(* The parent is validated again once the payload exists.                  *)
CheckSpawned ==
    /\ pc = "check"
    /\ IF validate_parent
       THEN /\ pc' = "loop" /\ reader' = [s \in Streams |-> "reading"]
            /\ UNCHANGED <<result, launcher, code>>
       ELSE /\ Return(SetupFailed("authorization_expired"))
            /\ ChildGuardDrop
            /\ UNCHANGED reader
    /\ UNCHANGED <<phase, parent, late, tree, holds, written, proved, kept, dropped, flags, doomed>>

(* waitpid: the launcher is gone for good and its status is taken.         *)
Reap == launcher' = "reaped"

(* kill, then wait: the status is "killed" unless it ended before.         *)
KillAndWait(flag) ==
    /\ Reap
    /\ code' = IF launcher = "running" THEN "killed" ELSE code
    /\ flags' = flags \cup {flag}
    /\ pc' = "stdout"

(* An iteration of supervise first looks at the parent's authority; the    *)
(* probe has no context to look at.                                        *)
SuperviseAuthority ==
    /\ pc = "loop"
    /\ IF phase = "payload" /\ ~validate_parent
       THEN KillAndWait("authority_terminated")
       ELSE pc' = "poll" /\ UNCHANGED <<launcher, code, flags>>
    /\ UNCHANGED <<phase, parent, late, tree, holds, written, proved, pipes, result, doomed>>

(* Mutant of SupervisePoll: the deadline is not looked at.                 *)
SupervisePollForever ==
    /\ pc = "poll"
    /\ IF launcher = "zombie" THEN launcher' = "reaped" /\ pc' = "stdout"
       ELSE pc' = "loop" /\ UNCHANGED launcher
    /\ UNCHANGED <<phase, parent, late, code, tree, holds, written, proved, pipes, flags,
                   result, doomed>>

(* ... then at the child, then at the deadline, and sleeps.                *)
SupervisePoll ==
    /\ pc = "poll"
    /\ CASE launcher = "zombie" -> Reap /\ pc' = "stdout" /\ UNCHANGED <<code, flags>>
         [] launcher # "zombie" /\ late -> KillAndWait("timed_out")
         [] OTHER -> pc' = "loop" /\ UNCHANGED <<launcher, code, flags>>
    /\ UNCHANGED <<phase, parent, late, tree, holds, written, proved, pipes, result, doomed>>

SupervisionFailed ==
    Return(SetupFailed(IF phase = "probe" THEN "launcher_probe_failed" ELSE "launcher_timed_out"))

(* receive_output: the reader's answer, its error, or the end of the grace *)
(* period without either.                                                  *)
receive_output(s, next) ==
    /\ pc = s
    /\ \/ reader[s] = "sent" /\ pc' = next /\ UNCHANGED result
       \/ reader[s] \in {"failed", "reading"} /\ SupervisionFailed
    /\ UNCHANGED <<phase, parent, late, process, pipes, flags, doomed>>

(* The answer of the probe: a version, or a failure.                       *)
ProbeAnswer ==
    /\ pc = "judge" /\ phase = "probe"
    /\ \/ "timed_out" \in flags /\ Return(SetupFailed("launcher_timed_out")) /\ UNCHANGED phase
       \/ "timed_out" \notin flags /\ Return(SetupFailed("launcher_probe_failed")) /\ UNCHANGED phase
       \/ /\ "timed_out" \notin flags /\ code = "zero" /\ kept["stdout"] > 0
          /\ pc' = "spawn" /\ phase' = "payload" /\ UNCHANGED result
    /\ UNCHANGED <<parent, late, process, pipes, flags, doomed>>

(* The blocks of stderr behind the setup proof, cut to the bound once more *)
(* (consume_setup_proof, enforce_retained_limit).                          *)
StderrKept == kept["stderr"] - ProofBlock
enforce_retained_limit ==
    IF StderrKept > Limit THEN [kept |-> Limit, dropped |-> dropped["stderr"] + StderrKept - Limit]
    ELSE [kept |-> StderrKept, dropped |-> dropped["stderr"]]

(* Without the proof at the head of stderr nothing is reported as enforced. *)
PayloadAnswer ==
    /\ pc = "judge" /\ phase = "payload"
    /\ IF proved
       THEN Return([kind |-> "ok", code |-> code, flags |-> flags,
                    stdout |-> [kept |-> kept["stdout"], dropped |-> dropped["stdout"]],
                    stderr |-> enforce_retained_limit])
       ELSE Return(SetupFailed(IF "timed_out" \in flags THEN "launcher_timed_out"
                               ELSE "launcher_setup_failed"))
    /\ UNCHANGED <<phase, parent, late, process, pipes, flags, doomed>>

-----------------------------------------------------------------------------
(* The reader threads.                                                     *)

Unread(s) == written[s] - kept[s] - dropped[s]

(* A pipe ends when nobody has its write end any more.                     *)
AtEnd(s) ==
    /\ Unread(s) = 0
    /\ launcher \in {"zombie", "reaped"}
    /\ tree = "gone" \/ s \notin holds

(* Mutant of read_bounded: a pipe that is empty for now is taken to have   *)
(* ended.                                                                  *)
read_bounded_short(s) ==
    /\ reader[s] = "reading"
    /\ IF Unread(s) > 0 /\ kept[s] < stream_limit[s]
       THEN kept' = [kept EXCEPT ![s] = @ + 1] /\ UNCHANGED <<dropped, reader>>
       ELSE IF Unread(s) > 0 THEN dropped' = [dropped EXCEPT ![s] = @ + 1] /\ UNCHANGED <<kept, reader>>
       ELSE reader' = [reader EXCEPT ![s] = "sent"] /\ UNCHANGED <<kept, dropped>>
    /\ UNCHANGED <<thread, parent, late, process>>

(* read_bounded: every block is retained or counted; the answer is sent at *)
(* the end of the stream.                                                  *)
read_bounded(s) ==
    /\ reader[s] = "reading"
    /\ \/ /\ Unread(s) > 0
          /\ \E n \in 1 .. Unread(s) :
                 LET available == IF kept[s] < stream_limit[s] THEN stream_limit[s] - kept[s] ELSE 0
                     keep == IF available < n THEN available ELSE n
                 IN /\ kept' = [kept EXCEPT ![s] = @ + keep]
                    /\ dropped' = [dropped EXCEPT ![s] = @ + (n - keep)]
          /\ UNCHANGED reader
       \/ AtEnd(s) /\ reader' = [reader EXCEPT ![s] = "sent"] /\ UNCHANGED <<kept, dropped>>
       \/ reader' = [reader EXCEPT ![s] = "failed"] /\ UNCHANGED <<kept, dropped>>
    /\ UNCHANGED <<thread, parent, late, process>>

-----------------------------------------------------------------------------
(* The launcher's processes, the clock and the parent's owner.             *)

Alive == tree \in {"setup", "payload"}

(* The last command of build_argv: the setup proof goes to stderr, then    *)
(* the payload takes over.                                                 *)
PayloadStarts ==
    /\ phase = "payload" /\ launcher = "running" /\ tree = "setup" /\ written["stderr"] = 0
    /\ tree' = "payload"
    /\ proved' = TRUE
    /\ written' = [written EXCEPT !["stderr"] = ProofBlock]
    /\ UNCHANGED <<thread, parent, late, launcher, code, holds, pipes>>

(* The tree writes a block; the payload may also close a stream.           *)
TreeWrites(s) ==
    /\ Alive /\ s \in holds
    /\ \/ written[s] < MaxOutput /\ written' = [written EXCEPT ![s] = @ + 1] /\ UNCHANGED holds
       \/ tree = "payload" /\ holds' = holds \ {s} /\ UNCHANGED written
    /\ UNCHANGED <<thread, parent, late, launcher, code, tree, proved, pipes>>

(* The command ends by itself, and the launcher with its status.           *)
LauncherExits ==
    /\ launcher = "running"
    /\ launcher' = "zombie"
    /\ code' \in {"zero", "nonzero"}
    /\ tree' = "gone"
    /\ UNCHANGED <<thread, parent, late, holds, written, proved, pipes>>

(* The tree follows a launcher that was killed.                            *)
TreeDies ==
    /\ launcher \in {"zombie", "reaped"} /\ Alive
    /\ tree' = "gone"
    /\ UNCHANGED <<thread, parent, late, launcher, code, holds, written, proved, pipes>>

DeadlinePasses ==
    /\ pc # "done" /\ ~late
    /\ late' = TRUE
    /\ UNCHANGED <<thread, parent, process, pipes>>

Revoke ==
    /\ pc # "done" /\ parent = "valid"
    /\ parent' = "revoked"
    /\ UNCHANGED <<thread, late, process, pipes>>

Stops ==
    pc = "done" /\ UNCHANGED vars

Dispatching ==
    \/ execute \/ probe_version \/ spawn_bash_trampoline \/ CheckSpawned
    \/ SuperviseAuthority \/ SupervisePoll
    \/ receive_output("stdout", "stderr") \/ receive_output("stderr", "judge")
    \/ ProbeAnswer \/ PayloadAnswer

Next ==
    \/ Dispatching
    \/ \E s \in Streams : read_bounded(s) \/ TreeWrites(s)
    \/ PayloadStarts \/ LauncherExits \/ TreeDies
    \/ DeadlinePasses \/ Revoke
    \/ Stops

Spec == Init /\ [][Next]_vars

(* The thread keeps running and the clock moves; the launcher, its tree    *)
(* and the readers owe nothing.                                            *)
FairSpec == Spec /\ WF_vars(Dispatching) /\ WF_vars(DeadlinePasses)
=============================================================================
