------------------------- MODULE MCLlamafileRuntime -------------------------
(* Finite instances of LlamafileRuntime.                                   *)
EXTENDS LlamafileRuntime, TLC

CONSTANTS c1, c2
TwoCallers == {c1, c2}
AnyConfig  == Initials
Symmetry   == Permutations(TwoCallers)
=============================================================================
