---------------------------- MODULE MCIpcServer ----------------------------
(* Finite instances of IpcServer. *)
EXTENDS IpcServer, TLC

CONSTANTS c1, c2, abrain, whisper, piper, command

AsksSplit == 
  c1 :> {"ping", "query", "speak"} @@ c2 :> {"query", "speak"} @@ Console :> {"voice", "speak"}
OneClient == {c1}
TwoClients == {c1, c2}
Chains == [stt |-> <<whisper>>, text |-> <<abrain>>, tts |-> <<piper, command>>]
(* A core without speech, one that listens and speaks on request, and one  *)
(* that also speaks its answers.                                           *)
ThreeSetups == {[tts |-> FALSE, stt |-> FALSE, auto |-> TRUE],
                [tts |-> TRUE,  stt |-> TRUE,  auto |-> FALSE],
                [tts |-> TRUE,  stt |-> TRUE,  auto |-> TRUE]}
=============================================================================
