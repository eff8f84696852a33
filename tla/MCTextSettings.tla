--------------------------- MODULE MCTextSettings ---------------------------
(* Finite instances of TextSettings.                                       *)
EXTENDS TextSettings

CONSTANTS c1, c2, v, abrain, local

TwoClients == {c1, c2}
Values     == {v}
Chains     == {abrain, local}

(* Two connections that never write the same part.  local_http goes the    *)
(* way of llamafile and is left to its default.                            *)
OwnsSplit == [c \in TwoClients |->
  IF c = c1 THEN {"llamafile", "cloud_http", "api_key"} ELSE {"chain"}]

(* Nothing in the environment; AudioSettings runs with a value there.      *)
BareEnv == [p \in Part |-> IF p = "chain" THEN abrain ELSE None]
=============================================================================
