------------------------------ MODULE Masking ------------------------------
(***************************************************************************)
(* scan_text of packages/govmesh_policy/scanner.py.  A text is a sequence  *)
(* of characters, each named by a positive number; a finding is a text     *)
(* that one of the patterns matches, and its spans are the half-open       *)
(* intervals at which it stands, counted from 0 as in the code.            *)
(***************************************************************************)
EXTENDS Integers, Sequences, Folds

CONSTANT MinMask      \* a mask is at least this wide, 4 in the code

ASSUME MaskAssumption == MinMask \in Nat \ {0}

Star == -1
Stars(n) == [i \in 1 .. n |-> Star]

Larger(m, n) == IF m >= n THEN m ELSE n
Smaller(m, n) == IF m <= n THEN m ELSE n

Spans(text, finding) ==
    {[start |-> i, end |-> i + Len(finding)] :
        i \in {j \in 0 .. Len(text) - Len(finding) :
                  SubSeq(text, j + 1, j + Len(finding)) = finding}}

\* _find: what stands in the text, of all that the patterns match.
FoundIn(text, findings) == {f \in findings : Spans(text, f) # {}}

\* mutant: slices as if counted from 1
CoverOffByOne(text, span) ==
    SubSeq(text, 1, span.start + 1)
        \o Stars(Larger(MinMask, span.end - span.start))
        \o SubSeq(text, span.end + 2, Len(text))

Cover(text, span) ==
    SubSeq(text, 1, span.start)
        \o Stars(Larger(MinMask, span.end - span.start))
        \o SubSeq(text, span.end + 1, Len(text))

\* The order of sorted(..., reverse=True): the last span is covered first, so
\* that those before it keep their place.
After(s, t) == s.start > t.start \/ (s.start = t.start /\ s.end > t.end)
CoveredLast(spans) == CHOOSE s \in spans : \A t \in spans \ {s} : After(t, s)

AllSpans(text, findings) == UNION {Spans(text, f) : f \in findings}

MaskText(text, findings) ==
    MapThenFoldSet(LAMBDA span, masked : Cover(masked, span), text,
                   LAMBDA span : span, CoveredLast, AllSpans(text, findings))

\* scan_text, of whose decision only what a caller stores is kept here: what
\* was found, and the masked text, which is the text itself if nothing was.
ScanText(text, findings) ==
    LET found == FoundIn(text, findings)
    IN  [found |-> found, masked |-> MaskText(text, found)]

\* A mask wider than its finding moves the text behind it, and with it the
\* end of a longer span that starts before it.
Shifts(text, findings) ==
    \E f, g \in findings : \E s \in Spans(text, f), t \in Spans(text, g) :
        /\ s.end - s.start < MinMask
        /\ t.start < s.start /\ s.start < t.end
=============================================================================
