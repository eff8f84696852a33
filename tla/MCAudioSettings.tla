-------------------------- MODULE MCAudioSettings --------------------------
(* Finite instances of AudioSettings.                                      *)
EXTENDS AudioSettings

CONSTANTS c1, whisper, cmdOnly, long

OneClient == {c1}
OneCmd    == {whisper}
Chains    == {cmdOnly, long}

(* The environment names a command for listening and none for speaking.    *)
OneCmdEnv ==
  [ax \in Axis |->
     [enabled |-> FALSE, cmd |-> IF ax = "stt" THEN whisper ELSE None, chain |-> cmdOnly]]
=============================================================================
