-------------------------- MODULE MCDesktopSession --------------------------
(* A UI and another client on a core with confirmation on and no helper    *)
(* for windows: the other client's interaction fails, the UI's plans       *)
(* complete.                                                               *)
EXTENDS DesktopSession, MCInteraction

Defaults == LoadInteraction([process |-> << >>, dotenv |-> << >>])
MCPolicy == PolicyOf([Defaults EXCEPT !.allow_focus_window = TRUE])
MCBackend == BackendOf(Defaults)
MCRequests == {[type |-> "window", title |-> <<"Calendar">>, name |-> None, app |-> None]}
MCPresses == {<<"card", "approved">>, <<"banner", "denied">>, <<"other", "approved">>}
=============================================================================
