---------------------------- MODULE MCReviewQueue ----------------------------
(* Instances of ReviewQueue for TLC. *)
EXTENDS ReviewQueue, TLC

CONSTANTS r1, r2, h1, h2

TwoReviews == {r1, r2}
TwoThreads == {h1, h2}
MCSymmetry == Permutations(TwoThreads) \cup Permutations(TwoReviews)
=============================================================================
