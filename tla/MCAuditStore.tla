---------------------------- MODULE MCAuditStore ----------------------------
(* Finite instances of AuditStore.                                         *)
EXTENDS AuditStore, TLC

CONSTANTS w1, w2, w3
ThreeRecorders == {w1, w2, w3}
Symmetry == Permutations(ThreeRecorders)
=============================================================================
