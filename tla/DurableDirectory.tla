-------------------------- MODULE DurableDirectory --------------------------
(***************************************************************************)
(* A directory of small files that are replaced one at a time: a file is   *)
(* written under a temporary name and synced, renamed over the old one,    *)
(* and the directory is synced (replace_record, write_state,               *)
(* write_normal_chat_family_state, replace_context_state).                 *)
(*                                                                         *)
(* disk is the content every reader sees, surviving the contents a power   *)
(* loss may leave.  A call that replaces several files is given by the     *)
(* sequence of contents it steps through.                                  *)
(***************************************************************************)
EXTENDS Naturals, Sequences

CONSTANTS
    Faults          \* faults that may happen: subset of {"io", "crash", "power", "clock"}

VARIABLES
    disk,       \* the visible content of the directory
    surviving   \* the contents a power loss may leave

directory == <<disk, surviving>>

DirectoryInit(content) == disk = content /\ surviving = {content}

(* Mutant of Replaced: the directory is not synced after a rename.         *)
ReplacedUnsynced(steps) ==
    IF steps = << >> THEN UNCHANGED directory
    ELSE /\ disk' = steps[Len(steps)]
         /\ surviving' = surviving \cup {steps[k] : k \in 1 .. Len(steps)}

(* Every file of the call is replaced; each directory sync also covers the *)
(* renames before it.                                                      *)
Replaced(steps) ==
    IF steps = << >> THEN UNCHANGED directory
    ELSE disk' = steps[Len(steps)] /\ surviving' = {steps[Len(steps)]}

(* The call stops at its k-th file: before the rename, or after it and     *)
(* before the directory sync.                                              *)
StopsAt(steps, k) ==
    LET done == IF k = 1 THEN disk ELSE steps[k - 1]
        kept == IF k = 1 THEN surviving ELSE {steps[k - 1]}
    IN \/ disk' = done /\ surviving' = kept
       \/ disk' = steps[k] /\ surviving' = kept \cup {steps[k]}

(* The call ends without its answer: an error or the end of its process    *)
(* stops it at some file, or only the answer is lost.                      *)
Unanswered(steps) ==
    /\ {"io", "crash"} \cap Faults # {}
    /\ Replaced(steps) \/ \E k \in 1 .. Len(steps) : StopsAt(steps, k)

DirectoryLosesPower ==
    /\ "power" \in Faults
    /\ disk' \in surviving
    /\ surviving' = {disk'}
=============================================================================
