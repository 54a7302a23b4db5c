--------------------------- MODULE SandboxAnswer ----------------------------
(***************************************************************************)
(* What a dispatch of the sandbox answers and what really happened behind  *)
(* it: the state the caller's trust in an answer is about, and what is     *)
(* promised of it.  Module SandboxEngine has the steps.                    *)
(***************************************************************************)
EXTENDS Naturals

CONSTANT Limit      \* the output bound of the dispatch, in blocks
ASSUME LimitAssumption == Limit \in Nat

VARIABLES
    pc,         \* where the dispatching thread is
    launcher,   \* "none", "running", "zombie" or "reaped"
    code,       \* how the launcher ended
    tree,       \* the command behind the launcher: "none", "setup", "payload", "gone"
    written,    \* blocks written to each stream
    proved,     \* the first block of stderr is the setup proof
    result,     \* what execute returned
    doomed      \* history: the parent was already revoked when the payload was spawned

ProofBlock == 1

-----------------------------------------------------------------------------
(* What dispatch_tool reports as a success.                                *)

Success ==
    /\ result.kind = "ok"
    /\ result.flags = {} /\ result.code = "zero"
    /\ result.stdout.dropped = 0 /\ result.stderr.dropped = 0

(* No return of execute, early or not, leaves a launcher running or        *)
(* unreaped: the guard covers the returns before supervise, the loop its   *)
(* own.                                                                    *)
LauncherIsReaped == pc = "done" => launcher \in {"none", "reaped"}

(* A reported output is within its bound and accounts for every block the  *)
(* payload wrote behind the setup proof, although it is counted by another *)
(* thread than the one that sees the launcher end.                         *)
OutputIsAccountedFor ==
    result.kind = "ok" =>
        /\ result.stdout.kept <= Limit /\ result.stderr.kept <= Limit
        /\ result.stdout.kept + result.stdout.dropped = written["stdout"]
        /\ ProofBlock + result.stderr.kept + result.stderr.dropped = written["stderr"]

(* A success is the payload's own exit, with all of its output, and of a   *)
(* payload whose parent was not already revoked when it was spawned.       *)
SuccessIsEarned ==
    Success =>
        /\ proved /\ code = "zero" /\ tree = "gone" /\ ~doomed
        /\ written["stdout"] <= Limit /\ written["stderr"] <= Limit + ProofBlock

(* What execute returns is what happened: the launcher is gone and reaped, *)
(* the output is bounded and complete or counted as dropped, and a success *)
(* is the own exit of a payload that lost no output.                       *)
DispatchIsSupervised == LauncherIsReaped /\ OutputIsAccountedFor /\ SuccessIsEarned
=============================================================================
