---------------------------- MODULE MCAuditChain ----------------------------
(* Instances of AuditChain for TLC. *)
EXTENDS AuditChain, TLC

CONSTANTS w1, w2, k1, none, e1, e2

TwoWriters == {w1, w2}
TwoEvents == {e1, e2}
OneKey == {k1}
ManyKeys == {none, k1}
WriterSymmetry == Permutations(TwoWriters)
=============================================================================
