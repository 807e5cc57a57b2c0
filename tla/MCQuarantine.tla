---------------------------- MODULE MCQuarantine ----------------------------
(* Instances of Quarantine for TLC. *)
EXTENDS Quarantine, TLC

CONSTANTS i1, h1, h2

OneImport == {i1}
OneThread == {h1}
TwoThreads == {h1, h2}
MCSymmetry == Permutations(TwoThreads)

\* Files at the limits of what a scan allows, and one step beyond each: two
\* entries, ten bytes, twice the packed size, a sample of three bytes.
Plain(suffix, ends) ==
    [suffix |-> suffix, zip |-> "none", entries |-> <<>>,
     marks |-> {[rule |-> "pdf_javascript", ends |-> e] : e \in ends}]
Zip(entries) ==
    [suffix |-> "other", zip |-> "archive", entries |-> entries, marks |-> {}]
Member(suffix, size, packed) ==
    [unsafe |-> FALSE, suffix |-> suffix, size |-> size, packed |-> packed]
Climbing == [Member("text", 20, 20) EXCEPT !.unsafe = TRUE]

MCFiles ==
    {Plain("text", {}), Plain("text", {3}), Plain("other", {4}), Plain("risky", {}),
     Zip(<<Member("text", 6, 3), Member("other", 4, 0)>>),
     Zip(<<Member("text", 6, 3), Member("other", 5, 0)>>),
     Zip(<<Member("text", 5, 2)>>), Zip(<<Member("archive", 1, 1)>>), Zip(<<Climbing>>),
     [Zip(<<>>) EXCEPT !.zip = "broken"]}
=============================================================================
