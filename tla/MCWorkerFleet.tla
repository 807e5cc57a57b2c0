--------------------------- MODULE MCWorkerFleet ---------------------------
(* Instances of WorkerFleet for TLC. *)
EXTENDS WorkerFleet, TLC

CONSTANTS h1, h2, n1, n2

OneThread == {h1}
TwoThreads == {h1, h2}
OneNode == {n1}
TwoNodes == {n1, n2}
MCSymmetry == Permutations(TwoThreads) \cup Permutations(TwoNodes)
=============================================================================
