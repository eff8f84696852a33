--------------------------- MODULE MCApprovalFlow ---------------------------
(* Finite instances of ApprovalFlow.                                       *)
EXTENDS ApprovalFlow, TLC

CONSTANTS t1, t2, c1, c2

OneTask    == {t1}
TwoTasks   == {t1, t2}
TwoClients == {c1, c2}

OneOfEachPath == {"open_application", "demo_echo", "approval_demo"}
AllCommands   == AllKinds

(* Confirmation on; confirmation off with focus_window disallowed.         *)
Confirmed == [enabled |-> TRUE, allow_open_application |-> TRUE,
              allow_focus_window |-> TRUE, require_confirmation |-> TRUE]
Direct    == [Confirmed EXCEPT !.require_confirmation = FALSE,
                               !.allow_focus_window = FALSE]
ConfirmedOrDirect == {Confirmed, Direct}
EveryPolicy       == InteractionPolicy

Symmetry == Permutations(TwoTasks) \cup Permutations(TwoClients)
=============================================================================
