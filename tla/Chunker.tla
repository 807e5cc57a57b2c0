------------------------------ MODULE Chunker ------------------------------
(***************************************************************************)
(* KoreanTextChunker of packages/govmesh_rag/chunker.py: a text is cut at  *)
(* its paragraphs, a long paragraph at its sentences, and what is still    *)
(* too long into pieces that overlap.                                      *)
(*                                                                         *)
(* A text is a sequence of paragraphs, a paragraph one of sentences, and a *)
(* sentence one of characters: where the two regular expressions cut is    *)
(* given with the text.  White space within a sentence is as long as it is *)
(* in the text; between two sentences it is one Space, though the code     *)
(* leaves it as it is where a paragraph fits in one chunk.                 *)
(***************************************************************************)
EXTENDS Integers, Sequences, SequencesExt

CONSTANTS
    MaxChars,        \* 420 by default
    OverlapChars     \* 40 by default

\* The ValueErrors of the constructor.
ASSUME ChunkerAssumption ==
    /\ MaxChars \in Nat \ {0}
    /\ OverlapChars \in 0 .. MaxChars - 1

Space == 0

\* str.strip()
Strip(text) ==
    LET first == SelectInSeq(text, LAMBDA c : c # Space)
        last  == SelectLastInSeq(text, LAMBDA c : c # Space)
    IN  IF first = 0 THEN <<>> ELSE SubSeq(text, first, last)

\* [chunk for chunk in chunks if chunk]
IfAny(piece) == IF piece = <<>> THEN <<>> ELSE <<piece>>

\* mutant: the next piece starts one character too late
HardSplitLate(text) ==
    LET from[start \in 0 .. Len(text)] ==
            IF start + MaxChars >= Len(text)
            THEN IfAny(Strip(SubSeq(text, start + 1, Len(text))))
            ELSE IfAny(Strip(SubSeq(text, start + 1, start + MaxChars)))
                    \o from[start + MaxChars - OverlapChars + 1]
    IN  from[0]

\* mutant: the last piece is only cut where it is full
HardSplitFull(text) ==
    LET from[start \in 0 .. Len(text)] ==
            IF start + MaxChars > Len(text)
            THEN <<>>
            ELSE IfAny(Strip(SubSeq(text, start + 1, start + MaxChars)))
                    \o from[start + MaxChars - OverlapChars]
    IN  IF Len(text) <= MaxChars THEN <<text>>
        ELSE from[0]

\* Pieces of at most MaxChars, each starting OverlapChars before the end of
\* the one before it.
HardSplit(text) ==
    LET from[start \in 0 .. Len(text)] ==
            IF start + MaxChars >= Len(text)
            THEN IfAny(Strip(SubSeq(text, start + 1, Len(text))))
            ELSE IfAny(Strip(SubSeq(text, start + 1, start + MaxChars)))
                    \o from[start + MaxChars - OverlapChars]
    IN  IF Len(text) <= MaxChars THEN <<text>>
        ELSE from[0]

Join(text, sentence) ==
    IF text = <<>> THEN sentence ELSE text \o <<Space>> \o sentence

\* One round of the loop of _chunk_paragraph: sentences are put together for
\* as long as they fit.
Pack(packed, sentence) ==
    IF packed.text = <<>> \/ Len(packed.text) + 1 + Len(sentence) <= MaxChars
    THEN [packed EXCEPT !.text = Join(@, sentence)]
    ELSE [text |-> sentence, chunks |-> packed.chunks \o HardSplit(packed.text)]

\* mutant: what is left over at the end is taken as it is
ChunkParagraphUncut(sentences) ==
    LET packed == FoldLeft(Pack, [text |-> <<>>, chunks |-> <<>>], sentences)
    IN  packed.chunks \o <<packed.text>>

ChunkParagraph(sentences) ==
    LET whole  == FoldLeft(Join, <<>>, sentences)
        packed == FoldLeft(Pack, [text |-> <<>>, chunks |-> <<>>], sentences)
    IN  IF Len(whole) <= MaxChars THEN <<whole>>
        ELSE packed.chunks \o HardSplit(packed.text)

ChunkText(paragraphs) ==
    FlattenSeq([i \in DOMAIN paragraphs |-> ChunkParagraph(paragraphs[i])])
=============================================================================
