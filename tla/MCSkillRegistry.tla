--------------------------- MODULE MCSkillRegistry ---------------------------
(* Instances of SkillRegistry for TLC. *)
EXTENDS SkillRegistry, TLC

CONSTANTS s1, s2, h1, h2

TwoSkills == {s1, s2}
TwoThreads == {h1, h2}
MCSymmetry == Permutations(TwoThreads) \cup Permutations(TwoSkills)
=============================================================================
