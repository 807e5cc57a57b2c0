-------------------------- MODULE MCCheckpointStore --------------------------
(* Instances of CheckpointStore for TLC. *)
EXTENDS CheckpointStore, TLC

CONSTANTS w1, w2, k1, none, x1, x2, e1, e2

TwoWriters == {w1, w2}
TwoExporters == {x1, x2}
TwoEvents == {e1, e2}
ManyKeys == {none, k1}
MCSymmetry == Permutations(TwoWriters) \cup Permutations(TwoExporters)
    \cup Permutations(TwoEvents)
=============================================================================
