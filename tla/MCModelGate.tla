---------------------------- MODULE MCModelGate ----------------------------
(* Instances of ModelGate for TLC. *)
EXTENDS ModelGate, TLC

CONSTANTS m1, m2, c1, c2, p1, b1, b2, r1

TwoModels == {m1, m2}
TwoCallers == {c1, c2}
OnePath == {p1}
TwoBytes == {b1, b2}
OneRuntime == {r1}
MCSymmetry == Permutations(TwoCallers) \cup Permutations(TwoModels) \cup Permutations(TwoBytes)
=============================================================================
