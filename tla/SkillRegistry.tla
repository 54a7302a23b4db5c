--------------------------- MODULE SkillRegistry ----------------------------
(***************************************************************************)
(* The skill registry: the manifests of a directory are pinned when the    *)
(* registry is opened, a load checks the pin before and after it reads,    *)
(* and expand puts the bindings of a call into the arguments of a step.    *)
(*                                                                         *)
(* A manifest file is [ino, text]; its length is the length of the text.   *)
(* Text is a sequence of words; Hole(p) is the placeholder of parameter p, *)
(* and Quote stands for what JSON cannot hold unescaped.                   *)
(***************************************************************************)
EXTENDS Naturals, Sequences, SequencesExt

CONSTANTS
    Params,     \* the declared parameters, all required
    Texts,      \* the arguments a manifest may have
    Values,     \* the texts a parameter may be bound to
    Inodes      \* the inode numbers the directory's file system has

VARIABLES
    file,       \* the file the manifest's name leads to
    pinned,     \* the identity taken when the registry was opened
    opened,     \* history: the text at that time
    unseen,     \* history: an edit left the name with the pinned identity
    pc,         \* "idle", "opened", "read", "expanding", "expanded", "failed"
    fd,         \* the file load has open
    args,       \* the text read, with the substitutions made so far
    bindings,   \* parameter -> text
    left        \* bindings not yet substituted

vars == <<file, pinned, opened, unseen, pc, fd, args, bindings, left>>
world == <<file, pinned, opened, unseen>>

Hole(p) == [hole |-> p]
Quote == [quote |-> TRUE]

descriptor_identity(f) == <<f.ino, Len(f.text)>>

Init ==
    /\ \E ino \in Inodes, text \in Texts : file = [ino |-> ino, text |-> text]
    /\ pinned = descriptor_identity(file) /\ opened = file.text /\ unseen = FALSE
    /\ pc = "idle" /\ fd = file /\ args = << >>
    /\ bindings \in [Params -> Values] /\ left = {}

(* load: the name is opened and its identity must be the pinned one.       *)
LoadOpens ==
    /\ pc = "idle"
    /\ fd' = file
    /\ pc' = IF descriptor_identity(file) = pinned THEN "opened" ELSE "failed"
    /\ UNCHANGED <<world, args, bindings, left>>

(* The descriptor is read, with what was written to its file since.        *)
LoadReads ==
    /\ pc = "opened"
    /\ args' = fd.text
    /\ pc' = "read"
    /\ UNCHANGED <<world, fd, bindings, left>>


(* The name must still lead to the same identity.  What was read may be no *)
(* manifest of this name; or the bindings lack a parameter or have another.*)
LoadChecks ==
    /\ pc = "read"
    /\ \/ descriptor_identity(file) = pinned /\ pc' = "expanding" /\ left' = Params
       \/ pc' = "failed" /\ UNCHANGED left
    /\ UNCHANGED <<world, fd, args, bindings>>

Replaced(text, p, value) ==
    FlattenSeq([i \in 1 .. Len(text) |-> IF text[i] = Hole(p) THEN value ELSE <<text[i]>>])

(* One round of expand's loop; the bindings come out of a HashMap in any   *)
(* order, and a value goes in as it is.                                    *)
Substitute(p) ==
    /\ pc = "expanding" /\ p \in left
    /\ args' = Replaced(args, p, bindings[p])
    /\ left' = left \ {p}
    /\ UNCHANGED <<world, pc, fd, bindings>>

(* The arguments are parsed again: a quote a value brought ends the string *)
(* it stands in, and what follows may parse or not.                        *)
Parse ==
    /\ pc = "expanding" /\ left = {}
    /\ \/ pc' = "expanded"
       \/ Contains(args, Quote) /\ pc' = "failed"
    /\ UNCHANGED <<world, fd, args, bindings, left>>

(* The registry keeps no manifest open but the one it loads.               *)
Used == {file.ino} \cup (IF pc \in {"opened", "read"} THEN {fd.ino} ELSE {})

(* Another process puts a new file under the name, whose inode number may  *)
(* have been that of a file that is gone, or writes to the file there is.  *)
Edit ==
    /\ \E text \in Texts :
          \/ \E ino \in Inodes \ Used :
                 file' = [ino |-> ino, text |-> text] /\ UNCHANGED fd
          \/ /\ file' = [file EXCEPT !.text = text]
             /\ fd' = IF fd.ino = file.ino THEN file' ELSE fd
    /\ unseen' = (unseen \/ descriptor_identity(file') = pinned)
    /\ UNCHANGED <<pinned, opened, pc, args, bindings, left>>

Next ==
    \/ LoadOpens \/ LoadReads \/ LoadChecks
    \/ \E p \in Params : Substitute(p)
    \/ Parse \/ Edit

Spec == Init /\ [][Next]_vars

-----------------------------------------------------------------------------
(* What the comment of expand says: the placeholders in the arguments are  *)
(* substituted, all of them at once.                                       *)
Expansion(text) ==
    FlattenSeq([i \in 1 .. Len(text) |->
                    IF \E p \in Params : text[i] = Hole(p)
                    THEN bindings[CHOOSE p \in Params : text[i] = Hole(p)]
                    ELSE <<text[i]>>])

(* What is expanded comes from the manifest that was there when the        *)
(* registry was opened, whatever is put under its name or written to its   *)
(* file before, while and after it is read; unless an edit leaves the name *)
(* with the pinned device, inode and length, which load cannot tell from   *)
(* the pinned manifest.                                                    *)
ExpandsPinnedManifest == pc = "expanding" /\ left = Params /\ ~unseen => args = opened

(* Unless a value names the placeholder of another parameter, every        *)
(* placeholder of the arguments is replaced by its binding, and only those *)
(* that the manifest wrote, in whatever order the bindings are visited; a  *)
(* value may name its own placeholder.                                     *)
SubstitutesArguments ==
    LET Independent == \A p, q \in Params : p # q => ~Contains(bindings[p], Hole(q)) IN
    pc = "expanded" /\ ~unseen /\ Independent => args = Expansion(opened)
=============================================================================
