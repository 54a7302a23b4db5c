------------------------------ MODULE MCPermits ---------------------------
(***************************************************************************)
(* PermitStore for TLC.  A behaviour is of one part, which says what is    *)
(* proposed and what fails in it, so the states of the run are the union   *)
(* of those of the parts.                                                  *)
(***************************************************************************)
EXTENDS PermitStore

VARIABLES part

Files == [network |-> FALSE, roots |-> {"work"}]
Closed == [network |-> TRUE, roots |-> {}]

Call(n) == [call |-> n]

Binding(tool, args, effect, budget, parent, from, until) ==
    [subject |-> "run", tool |-> tool, args |-> args, effect |-> effect,
     budget |-> budget, parent |-> parent,
     issued_at |-> from, not_before |-> from, expires_at |-> until]

Action(tool, args, effect) == [tool |-> tool, args |-> args, effect |-> effect]

Ceiling(transition, audiences, actions, budget, from, until) ==
    [subject |-> "run", transition |-> transition, audiences |-> audiences,
     actions |-> actions, budget |-> budget, not_before |-> from, expires_at |-> until]

Effect(b) == [binding |-> b, purpose |-> "effect", ceiling |-> None]

(* A control permit with a budget of 3 delegates control to permits that   *)
(* need 2 each, and those to effects that need 1 and 2.  The same effect   *)
(* is also proposed an instant later, and beyond the window of its parent. *)
Shell(n) == Action("shell", Call(n), Files)
Root == [binding |-> Binding("plan", Call(0), Files, 3, None, 0, 3), purpose |-> "control",
         ceiling |-> Ceiling("control_to_control", {"plan"}, {Shell(1), Shell(2)}, 3, 0, 3)]
Branch(n) ==
    [binding |-> Binding("plan", Call(n), Files, 2, PermitId(Root), 0, 2), purpose |-> "control",
     ceiling |-> Ceiling("control_to_effect", {"shell"}, {Shell(1), Shell(2)}, 2, 0, 2)]
Leaf(n, budget, from, until) ==
    Effect(Binding("shell", Call(n), Files, budget, PermitId(Branch(1)), from, until))

DelegationProposals ==
    {Root, Branch(1), Branch(2), Leaf(1, 1, 0, 1), Leaf(1, 1, 1, 2), Leaf(2, 2, 0, 2),
     Leaf(3, 1, 0, 2)}

(* Two attempts of one chat operation, the first with two requests, and an *)
(* attempt beyond the family.                                              *)
Attempt(n, request) ==
    [operation |-> "chat", max_attempts |-> 2, number |-> n, request |-> request, wall |-> 1]
ChatRoot ==
    [binding |-> Binding("plan", Call(0), Files, 2, None, 0, 3), purpose |-> "control",
     ceiling |-> Ceiling("control_to_effect", {NormalChat},
                         {Action(NormalChat, Attempt(1, "x"), Closed)}, 2, 0, 3)]
Chat(n, request, until) ==
    Effect(Binding(NormalChat, Attempt(n, request), Closed, 1, PermitId(ChatRoot), 0, until))
ChatProposals ==
    {ChatRoot, Chat(1, "x", 1), Chat(1, "y", 2), Chat(2, "x", 2), Chat(3, "x", 2)}

(* An approved external effect, proposed twice, and a sealed completion    *)
(* whose admission ends before its parent does.                            *)
Sealed == [not_after |-> 1]
SealedRoot ==
    [binding |-> Binding("plan", Call(0), Files, 1, None, 0, 3), purpose |-> "control",
     ceiling |-> Ceiling("control_to_effect", {SealedCompletion},
                         {Action(SealedCompletion, Sealed, Closed)}, 1, 0, 3)]
ExternalProposals ==
    {Effect(Binding("shell", Call(1), Files, 1, None, 0, 1)),
     Effect(Binding("shell", Call(1), Files, 1, None, 1, 2)),
     SealedRoot,
     Effect(Binding(SealedCompletion, Sealed, Closed, 1, PermitId(SealedRoot), 0, 1))}

ReceiptProposals == {ChatRoot, Chat(1, "x", 1)}

AllProposals == DelegationProposals \cup ChatProposals \cup ExternalProposals

AllReports ==
    {[state |-> "succeeded", duration |-> 1], [state |-> "outcome_ambiguous", duration |-> 2]}

-----------------------------------------------------------------------------
(* Control is delegated twice before an effect.                            *)
Delegation == INSTANCE PermitStore WITH
    Proposals <- DelegationProposals, Reports <- {}, Sizes <- {}, Consents <- {},
    Faults <- {"io", "power"}

(* An effect approved from outside, and a sealed completion.               *)
External == INSTANCE PermitStore WITH
    Proposals <- ExternalProposals, Reports <- {}, Sizes <- {}, Consents <- {},
    Faults <- {"io", "power"}

(* Two attempts of one chat, requested in two ways.                        *)
Chats == INSTANCE PermitStore WITH
    Proposals <- ChatProposals, Reports <- {}, Sizes <- {},
    Faults <- {"io", "crash", "power"}

(* The outcomes and the settlement of one attempt, and a clock that may    *)
(* go back.                                                                *)
Receipts == INSTANCE PermitStore WITH
    Proposals <- ReceiptProposals, Consents <- {2}, Faults <- {"io", "crash", "clock"}

PartsInit == Init /\ part \in {"delegation", "external", "chats", "receipts"}

PartsNext ==
    \/ part = "delegation" /\ Delegation!Next /\ UNCHANGED part
    \/ part = "external" /\ External!Next /\ UNCHANGED part
    \/ part = "chats" /\ Chats!Next /\ UNCHANGED part
    \/ part = "receipts" /\ Receipts!Next /\ UNCHANGED part

PartsSpec == PartsInit /\ [][PartsNext]_<<vars, part>>
=============================================================================
