----------------------------- MODULE MCRagIndex -----------------------------
(* Instances of RagIndex for TLC. *)
EXTENDS RagIndex

\* The text of a paragraph whose sentences have these lengths, its characters
\* numbered through.
Numbered(lengths, first) ==
    [i \in DOMAIN lengths |->
        LET before == first + FoldLeft(LAMBDA a, b : a + b, 0, SubSeq(lengths, 1, i - 1))
        IN  [j \in 1 .. lengths[i] |-> before + j]]

\* One long sentence, long and short ones, one with spaces in it, one by one
\* and two together, and a second paragraph.
Long == <<Numbered(<<9>>, 0)>>
Spaced == <<<<<<1, 2, 3, Space, 5, Space, Space, 8>>>>>>
Two == <<Numbered(<<4>>, 0), Numbered(<<2, 2, 5>>, 4)>>
Texts == {Long, <<Numbered(<<3, 6, 2>>, 0)>>, Spaced, Two}

\* Any part of a sentence that neither starts nor ends with a space.
Parts(text) ==
    {f \in UNION {{SubSeq(s, i, j) : i \in 1 .. Len(s), j \in 1 .. Len(s)} :
                    s \in UNION {Range(p) : p \in Range(text)}} :
        f # <<>> /\ f[1] # Space /\ f[Len(f)] # Space}

\* A finding of the width the overlap is enough for, anywhere; one that is
\* wider; one that reaches over an empty line; and two, one of them perhaps
\* narrower than its mask.
Plain == {[paragraphs |-> t, findings |-> {}] : t \in Texts}
WithOne == UNION {{[paragraphs |-> t, findings |-> {f}] : f \in {p \in Parts(t) : Len(p) = 3}}
                     : t \in Texts}
WithWide == {[paragraphs |-> Long, findings |-> {f}] : f \in {p \in Parts(Long) : Len(p) = 4}}
                \cup {[paragraphs |-> Spaced, findings |-> {<<5, Space, Space, 8>>}]}
Across == {[paragraphs |-> Two, findings |-> {<<4, Space, 5>>, f}] : f \in {<<1, 2, 3>>, <<5, Space, 7>>}}
WithTwo == {[paragraphs |-> Long, findings |-> {<<2, 3, 4>>, f}] :
               f \in {p \in Parts(Long) : Len(p) \in {1, 2} /\ p[1] \in 2 .. 4}}

AllDocuments == Plain \cup WithOne \cup WithWide \cup Across \cup WithTwo
=============================================================================
