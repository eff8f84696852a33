-------------------------- MODULE MCSettingsStore --------------------------
(* Finite instances of SettingsStore.                                      *)
EXTENDS SettingsStore, TLC

CONSTANTS w1, w2, short, long, i1, i2, i3, i4

OneWriter  == {w1}
TwoWriters == {w1, w2}
Bodies     == {short, long}
Lengths    == short :> 2 @@ long :> 3
ThreeInodes == {i1, i2, i3}
FourInodes == {i1, i2, i3, i4}
=============================================================================
