----------------------------- MODULE MctsSearch -----------------------------
(***************************************************************************)
(* The bounded tree search over tool sequences (recursive-agent-mcts).     *)
(*                                                                         *)
(* A node is the path of tools that leads to it; visits holds the nodes    *)
(* of the tree and how often each was visited.  The pseudo-random tool     *)
(* that may be added is any tool.  Scores are finite floating-point        *)
(* numbers: among visited children the order of uct, or of the mean        *)
(* scores, is any order, while an unvisited child comes before them.       *)
(***************************************************************************)
EXTENDS Naturals, Sequences, FiniteSetsExt

CONSTANTS
    Tools,          \* the distinct names of available_tools
    Depth,          \* max_depth after its clamp
    Iterations      \* iterations after the cap of 100000

VARIABLES
    visits,     \* the visits of the nodes of the tree
    path,       \* the path of the current iteration
    done        \* completed iterations

vars == <<visits, path, done>>

root == << >>

Init == visits = [n \in {root} |-> 0] /\ path = root /\ done = 0

ChildrenIn(tree, n) == {Append(n, t) : t \in Tools} \cap DOMAIN tree

(* A tool that is not yet a child of the node is added with no visits.     *)
Expanded(n, t) ==
    IF Append(n, t) \in DOMAIN visits THEN visits
    ELSE [m \in DOMAIN visits \cup {Append(n, t)} |->
             IF m \in DOMAIN visits THEN visits[m] ELSE 0]

(* The children uct may put first.                                         *)
Preferred(tree, n) ==
    LET fresh == {c \in ChildrenIn(tree, n) : tree[c] = 0}
    IN IF fresh # {} THEN fresh ELSE ChildrenIn(tree, n)

(* One level of the descent: a missing child may be added, and the child   *)
(* with the greatest bound is entered.                                     *)
Descend ==
    /\ done < Iterations /\ Len(path) < Depth
    /\ \E t \in Tools :
          /\ visits' = Expanded(path, t)
          /\ path' \in Preferred(visits', path)
    /\ UNCHANGED done

OnPath(n) == Len(n) <= Len(path) /\ n = SubSeq(path, 1, Len(n))

(* Mutant of Visited: the last node of the path is not updated.            *)
VisitedAbove(n) == IF OnPath(n) /\ n # path THEN visits[n] + 1 ELSE visits[n]

(* The nodes of the path, the root included, count the visit.              *)
Visited(n) == IF OnPath(n) THEN visits[n] + 1 ELSE visits[n]

(* The path is scored and the tree updated.                                *)
UpdatePath ==
    /\ done < Iterations /\ Len(path) = Depth
    /\ visits' = [n \in DOMAIN visits |-> Visited(n)]
    /\ path' = root
    /\ done' = done + 1

Next == Descend \/ UpdatePath

Spec == Init /\ [][Next]_vars

(* The child best_path may go on with.                                     *)
BestChildren(n) == {c \in ChildrenIn(visits, n) : visits[c] > 0}

-----------------------------------------------------------------------------
(* Between two iterations every inner node was visited as often as its     *)
(* children together, the root as often as there were iterations: no score *)
(* update_path spreads is lost or counted twice, however the tree grew     *)
(* during the descent.                                                     *)
VisitsAreConserved ==
    path = root =>
       /\ visits[root] = done
       /\ \A n \in DOMAIN visits : Len(n) < Depth =>
             visits[n] = MapThenSumSet(LAMBDA c : visits[c], ChildrenIn(visits, n))

(* After an iteration best_path descends to the full depth whatever the    *)
(* scores: no visited node is a dead end, so the answer of the search      *)
(* always names a first tool.                                              *)
BestPathIsComplete ==
    path = root /\ done > 0 =>
       \A n \in DOMAIN visits :
          (n = root \/ visits[n] > 0) /\ Len(n) < Depth => BestChildren(n) # {}

(* A tool that was added is tried before any other child is tried again:   *)
(* between iterations no node is left unvisited.                           *)
NoNodeIsStarved ==
    path = root /\ done > 0 => \A n \in DOMAIN visits : visits[n] > 0
=============================================================================
