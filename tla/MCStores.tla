----------------------------- MODULE MCStores -------------------------------
(***************************************************************************)
(* What a run leaves behind and the libraries below it, for TLC: instances *)
(* of NormalChat and the artifact store below it, of run packs and their   *)
(* vault, the receipt chain, the correlator of the MCP client, the skill   *)
(* registry and the tree search.  A behaviour is of one instance, which    *)
(* part names.                                                             *)
(***************************************************************************)
EXTENDS NormalChat, McpRequests, TLC

CONSTANTS p1, p2, h1, h2, h3, i1, i2, i3, r1, r2, d1, text

VARIABLES dest, synced, export, lock, admit, receipt, object, quarantined, used, begun,
          exported, admitted
VARIABLES next_id, network
VARIABLES log, logs, linked, projection, metas, handle, acknowledged, reported
VARIABLES file, pinned, opened, unseen, pc, fd, args, bindings, left
VARIABLES visits, path, done
VARIABLE part

packVars == <<dest, synced, export, lock, admit, receipt, object, quarantined, used, begun,
              exported, admitted>>
mcpVars == <<outstanding, next_id, network, satisfied, cancelled>>
chainVars == <<log, logs, linked, projection, metas, handle, acknowledged, reported>>
skillVars == <<file, pinned, opened, unseen, pc, fd, args, bindings, left>>
searchVars == <<visits, path, done>>

ChatBlobs == {Response(p) : p \in Permits} \cup {Observation(p) : p \in Permits}

(* The ids of receipts, vault objects and inodes are interchangeable in    *)
(* every instance.                                                         *)
Symmetry == Permutations({i1, i2, i3})

-----------------------------------------------------------------------------
(* Three writers of one blob, with two media types.                        *)
Writing == INSTANCE ArtifactStore WITH
    Blobs <- {text}, Medias <- {Json, text}, Writers <- {h1, h2, h3}, Faults <- {"io", "crash"}

(* One writer that loses power.                                            *)
Losing == INSTANCE ArtifactStore WITH
    Blobs <- {i1, i2}, Medias <- {Json, text}, Writers <- {h1}, Faults <- {"power"}

(* Two exporters of one destination.                                       *)
Exports == INSTANCE PackVault WITH
    Runs <- {r1, r2}, Destinations <- {d1}, Ids <- {i1}, Exporters <- {h1, h2},
    Admitters <- {h3}, MaxExports <- 2, MaxAdmissions <- 1, Reuse <- TRUE,
    Faults <- {"io", "crash", "power"}

(* Two admitters of packs that are replaced while they are copied.         *)
Admissions == INSTANCE PackVault WITH
    Runs <- {r1, r2}, Destinations <- {d1}, Ids <- {i1, i2, i3}, Exporters <- {h3},
    Admitters <- {h1, h2}, MaxExports <- 3, MaxAdmissions <- 3, Reuse <- TRUE, Faults <- {}

(* Two admitters that fail and die.                                        *)
Retries == INSTANCE PackVault WITH
    Runs <- {r1}, Destinations <- {d1}, Ids <- {i1, i2, i3}, Exporters <- {h3},
    Admitters <- {h1, h2}, MaxExports <- 3, MaxAdmissions <- 4, Reuse <- FALSE,
    Faults <- {"io", "crash"}

(* Two processes over one run directory.                                   *)
Shared == INSTANCE ReceiptChain WITH
    Handles <- {h1, h2}, Ids <- {i1, i2}, MaxLength <- 2

(* A longer chain, which one process keeps.                                *)
Chain == INSTANCE ReceiptChain WITH
    Handles <- {h1}, Ids <- {i1, i2, i3}, MaxLength <- 3

(* The correlator, with two methods and two requests in flight.            *)
Mcp == INSTANCE McpCorrelator WITH Methods <- {"list", "call"}, in_flight_limit <- 2

Word(w) == [word |-> w]
Hole(p) == [hole |-> p]

(* Two parameters, bound to texts with and without placeholders and to one *)
(* that breaks the JSON it is put into.                                    *)
Skills == INSTANCE SkillRegistry WITH
    Params <- {"x", "y"},
    Texts <- {<<Word("say"), Hole("x")>>, <<Hole("x"), Hole("y"), Hole("x")>>,
              <<Word("ls"), Word("-l")>>},
    Values <- {<<Word("a"), Word("b")>>, <<Hole("x"), Word("c")>>, <<Hole("y")>>,
               <<[quote |-> TRUE]>>},
    Inodes <- {i1, i2, i3}

Search == INSTANCE MctsSearch WITH
    Tools <- {"ta", "tb", "tc"}, Depth <- 2, Iterations <- 6

-----------------------------------------------------------------------------
NoSkill ==
    /\ Skills!Init
    /\ file = [ino |-> i1, text |-> <<Word("say"), Hole("x")>>]
    /\ bindings = [p \in {"x", "y"} |-> <<Hole("y")>>]

PartsInit ==
    /\ Mcp!Init /\ Search!Init
    /\ \/ part \in {"chat", "admissions", "shared", "chain", "mcp", "search"}
          /\ Init /\ Admissions!Init /\ NoSkill
       \/ part = "writing" /\ Writing!StoreInit /\ ChatInit /\ Admissions!Init /\ NoSkill
       \/ part = "losing" /\ Losing!StoreInit /\ ChatInit /\ Admissions!Init /\ NoSkill
       \/ part = "exports" /\ Init /\ Exports!Init /\ NoSkill
       \/ part = "retries" /\ Init /\ Retries!Init /\ NoSkill
       \/ part = "skills" /\ Init /\ Admissions!Init /\ Skills!Init
    /\ IF part = "shared" THEN Shared!Init ELSE Chain!Init

StoreStep ==
    \/ part = "writing" /\ Writing!StoreNext
    \/ part = "losing" /\ Losing!StoreNext

PackStep ==
    \/ part = "exports" /\ Exports!Next
    \/ part = "admissions" /\ Admissions!Next
    \/ part = "retries" /\ Retries!Next

ChainStep ==
    \/ part = "shared" /\ Shared!Next
    \/ part = "chain" /\ Chain!Next

PartsNext ==
    /\ UNCHANGED part
    /\ \/ part = "chat" /\ Next
          /\ UNCHANGED <<packVars, mcpVars, chainVars, skillVars, searchVars>>
       \/ StoreStep
          /\ UNCHANGED <<chatVars, packVars, mcpVars, chainVars, skillVars, searchVars>>
       \/ PackStep /\ UNCHANGED <<vars, mcpVars, chainVars, skillVars, searchVars>>
       \/ ChainStep /\ UNCHANGED <<vars, packVars, mcpVars, skillVars, searchVars>>
       \/ part = "mcp" /\ Mcp!Next
          /\ UNCHANGED <<vars, packVars, chainVars, skillVars, searchVars>>
       \/ part = "skills" /\ Skills!Next
          /\ UNCHANGED <<vars, packVars, mcpVars, chainVars, searchVars>>
       \/ part = "search" /\ Search!Next
          /\ UNCHANGED <<vars, packVars, mcpVars, chainVars, skillVars>>

PartsSpec ==
    /\ PartsInit
    /\ [][PartsNext]_<<vars, packVars, mcpVars, chainVars, skillVars, searchVars, part>>

-----------------------------------------------------------------------------
(* AcknowledgedArtifactsStay is checked of the writers and of the chat.    *)

(* A visible pack is complete at every moment, and an acknowledged export  *)
(* keeps its pack until the operator removes it, whichever of several      *)
(* exporters of one destination comes first, through errors, crashes and   *)
(* power losses (export_run_pack: "incomplete packs are cleaned up before  *)
(* publication").  Every published object of the vault is one whole pack   *)
(* that its receipt binds, though its source may be removed and exported   *)
(* anew while it is copied, and repairs and quarantines go on.  A pack is  *)
(* admitted once: no race, retry, repair or interruption gives it a second *)
(* id, as long as its directory is left alone while it is copied           *)
(* (admit_locked looks the pack up before it copies it).  An acknowledged  *)
(* admission stays retrievable or is in quarantine.                        *)
PacksAreKept ==
    /\ part = "exports" => Exports!ExportsAreWholeAndStay
    /\ part = "admissions" => Admissions!ObjectsMatchReceipts /\ Admissions!AdmissionsStay
    /\ part = "retries" => Retries!OneIdPerPack /\ Retries!AdmissionsStay

(* Stale handles, failed appends, repairs and power losses never leave a   *)
(* log that recovery and scan_complete_bytes would refuse: no fork, no     *)
(* repeated receipt.  A head that append returned is on disk: whatever a   *)
(* power loss leaves, the chain recovered from it extends that head.  A    *)
(* head that open, a reader or append returned stays a prefix of the log,  *)
(* whatever calls fail or processes die, until power is lost.              *)
ChainIsKept ==
    /\ part = "shared" => Shared!TypeOK
    /\ part = "chain" => Chain!TypeOK
    /\ Chain!ChainStaysReadable
    /\ Chain!AcknowledgedReceiptsSurvive /\ Chain!ReportedReceiptsStay

(* The chain as the next call will find it behaves as the append-only log  *)
(* of module ReceiptLog.                                                   *)
Implements == Chain!Implements

-----------------------------------------------------------------------------

(* Between two iterations every inner node was visited as often as its     *)
(* children together, the root as often as there were iterations: no score *)
(* update_path spreads is lost or counted twice, however the tree grew     *)
(* during the descent.  No node is left unvisited: a tool that was added   *)
(* is tried before any other child is tried again.  So best_path descends  *)
(* to the full depth whatever the scores, and the search always names a    *)
(* first tool.                                                             *)
SearchIsConserved ==
    Search!VisitsAreConserved /\ Search!NoNodeIsStarved /\ Search!BestPathIsComplete
=============================================================================
