------------------------------ MODULE RagIndex ------------------------------
(***************************************************************************)
(* LocalRAGService (packages/govmesh_rag/service.py) over one of the two   *)
(* vector stores of vector_store.py: documents are cut into chunks, which  *)
(* are scanned, masked and stored one by one, and queries are answered     *)
(* with the chunks that rank best.                                         *)
(*                                                                         *)
(* The documents come under one doc_id, as versions of a file do, or files *)
(* of the same name in two folders: their chunk ids are equal.  The SQLite *)
(* store replaces a chunk of an id it knows and outlives the process; the  *)
(* store in memory does neither.  Ranking is by the cosine of embeddings,  *)
(* of which nothing is assumed: any order is possible.                     *)
(***************************************************************************)
EXTENDS Masking, Chunker, FiniteSetsExt

CONSTANTS
    Documents,      \* the texts, each with what the patterns match in it
    TopK,           \* the contexts a query asks for
    Slack,          \* how many more are searched, 10 in the code
    MaxJobs         \* bound: documents indexed in a behaviour

ASSUME RagAssumption == TopK \in Nat /\ Slack \in Nat /\ MaxJobs \in Nat

\* A text as part.strip() leaves it.
Stripped == {t \in Seq(Nat) : t # <<>> /\ t[1] # Space /\ t[Len(t)] # Space}

\* A character that is no white space is named by the place it stands at.
NamedByPlace(paragraph) ==
    \A s, t \in DOMAIN paragraph :
        \A i \in DOMAIN paragraph[s], j \in DOMAIN paragraph[t] :
            paragraph[s][i] = paragraph[t][j] /\ paragraph[s][i] # Space => s = t /\ i = j

\* No paragraph and no sentence is empty.  What the patterns of scanner.py match
\* neither starts nor ends with white space; it may reach over the empty line
\* between two paragraphs.
ASSUME DocumentsAssumption ==
    \A d \in Documents :
        /\ d \in [paragraphs : Seq(Seq(Stripped) \ {<<>>}), findings : SUBSET Stripped]
        /\ \A p \in Range(d.paragraphs) : NamedByPlace(p)

VARIABLES
    kind,           \* which store it is
    store,          \* its chunks
    job,            \* the document being indexed, and the chunks still to come
    jobs,           \* history: documents begun so far
    latest,         \* history: the document last indexed to its end
    answer          \* the answer to a query just made

vars == <<kind, store, job, jobs, latest, answer>>

NoDocument == [paragraphs |-> <<>>, findings |-> {}]
NoJob == [rest |-> <<>>, next |-> -1, of |-> NoDocument]
NoAnswer == [shown |-> {}]

\* found: the findings of scan_text; a chunk that has any is sensitive.
Chunk == [number : Nat, of : Documents, text : Seq(Int),
          found : SUBSET UNION {d.findings : d \in Documents}]
Sensitive(chunk) == chunk.found # {}

\* What a job still has to store: texts, none empty and none too long.
Fits(text) == Len(text) \in 1 .. MaxChars

TypeOK ==
    /\ kind \in {"memory", "sqlite"}
    /\ store \in Seq(Chunk)
    /\ job.of \in Documents \cup {NoDocument}
    /\ \A i \in DOMAIN job.rest : Fits(job.rest[i])
    /\ jobs \in 0 .. MaxJobs
    /\ latest \in Documents \cup {NoDocument}
    /\ answer \in {NoAnswer} \cup [all : BOOLEAN, shown : SUBSET DOMAIN store]

Init ==
    /\ kind \in {"memory", "sqlite"}
    /\ store = <<>>
    /\ job = NoJob
    /\ jobs = 0
    /\ latest = NoDocument
    /\ answer = NoAnswer

-----------------------------------------------------------------------------
\* mutant: what is scanned is the masked text
StoredChunkScannedLate(d, number, text) ==
    LET masked == ScanText(text, d.findings).masked
    IN  [number |-> number, of |-> d, text |-> masked,
         found |-> ScanText(masked, d.findings).found]

\* The chunk made of a piece of text and of the decision about it.
StoredChunk(d, number, text) ==
    LET decision == ScanText(text, d.findings)
    IN  [number |-> number, of |-> d, text |-> decision.masked, found |-> decision.found]

\* mutant: "insert or ignore"
AddIgnoring(chunk) ==
    IF kind = "sqlite" /\ \E i \in DOMAIN store : store[i].number = chunk.number
    THEN store ELSE Append(store, chunk)

\* The store with this chunk added: SQLite has one of each id.
Add(chunk) ==
    IF kind = "sqlite" /\ \E i \in DOMAIN store : store[i].number = chunk.number
    THEN [i \in DOMAIN store |-> IF store[i].number = chunk.number THEN chunk ELSE store[i]]
    ELSE Append(store, chunk)

Begin(d) ==
    /\ job = NoJob
    /\ jobs < MaxJobs
    /\ job' = [rest |-> ChunkText(d.paragraphs), next |-> 0, of |-> d]
    /\ jobs' = jobs + 1
    /\ latest' = NoDocument
    /\ answer' = NoAnswer
    /\ UNCHANGED <<kind, store>>

AddChunk ==
    /\ job.rest # <<>>
    /\ store' = Add(StoredChunk(job.of, job.next, Head(job.rest)))
    /\ job' = [rest |-> Tail(job.rest), next |-> job.next + 1, of |-> job.of]
    /\ answer' = NoAnswer
    /\ UNCHANGED <<kind, jobs, latest>>

Finish ==
    /\ job # NoJob
    /\ job.rest = <<>>
    /\ latest' = job.of
    /\ job' = NoJob
    /\ answer' = NoAnswer
    /\ UNCHANGED <<kind, store, jobs>>

\* The process ends, perhaps in the middle of a document, and starts again.
Restart ==
    /\ job' = NoJob
    /\ answer' = NoAnswer
    /\ IF kind = "memory" THEN store' = <<>> /\ latest' = NoDocument
                          ELSE UNCHANGED <<store, latest>>
    /\ UNCHANGED <<kind, jobs>>

\* mutant: only as many chunks are searched as are asked for
HitsOfTopK == kSubset(Smaller(TopK, Len(store)), DOMAIN store)

\* search: the chunks at the head of some ranking.
Hits == kSubset(Smaller(TopK + Slack, Len(store)), DOMAIN store)

\* query, with include_sensitive or without it.
Query(all) ==
    \E hits \in Hits :
        LET allowed == {i \in hits : all \/ ~Sensitive(store[i])}
        IN  /\ \E shown \in kSubset(Smaller(TopK, Cardinality(allowed)), allowed) :
                  answer' = [all |-> all, shown |-> shown]
            /\ UNCHANGED <<kind, store, job, jobs, latest>>

Next ==
    \/ \E d \in Documents : Begin(d)
    \/ AddChunk
    \/ Finish
    \/ Restart
    \/ \E all \in BOOLEAN : Query(all)

Spec == Init /\ [][Next]_vars

-----------------------------------------------------------------------------
(* Properties.                                                             *)

Characters(d) ==
    {c \in UNION {Range(s) : s \in UNION {Range(p) : p \in Range(d.paragraphs)}} : c # Space}

\* What chunk() makes of each document, and the text a stored chunk was made of.
Cut == [d \in Documents |-> ChunkText(d.paragraphs)]
Source(chunk) == Cut[chunk.of][chunk.number + 1]

\* What was found in a chunk is masked in it, to the last character, unless a
\* mask had to be wider than what it hides.
FoundIsMasked ==
    \A chunk \in Range(store) :
        \A f \in chunk.found : Range(f) \cap Range(chunk.text) \subseteq {Space}
            \/ Shifts(Source(chunk), chunk.found)

\* Masking loses nothing else: a chunk keeps every character it was made of
\* that is in none of its own findings, unless one of its masks had to be wider
\* than what it hides.  Cutting and packing lose nothing at all: once a document
\* is indexed, every character of it is in the text of a stored chunk.
NothingElseIsLost ==
    /\ \A chunk \in Range(store) :
          \/ Shifts(Source(chunk), chunk.found)
          \/ \A c \in Range(Source(chunk)) \ {Space} :
                c \in Range(chunk.text) \/ \E f \in chunk.found : c \in Range(f)
    /\ latest # NoDocument => \A c \in Characters(latest) :
          \E chunk \in Range(store) : chunk.of = latest /\ c \in Range(Source(chunk))

\* The finding stands within a sentence.  Within a paragraph every match does,
\* for no pattern matches the white space behind the end of a sentence.
WithinSentence(d, f) == \E p \in Range(d.paragraphs) : \E s \in Range(p) : Spans(s, f) # {}

\* What the patterns match within a paragraph of a document is found in one of
\* its chunks, though a chunk may end within it: pieces overlap by enough for
\* anything one character longer than the overlap.  Nothing is said of what
\* they match across an empty line, "system" and "prompt" for one: the text is
\* cut there before it is scanned, and such a finding is in no chunk.
ShortFindingsAreFound ==
    latest # NoDocument =>
        \A f \in latest.findings :
            WithinSentence(latest, f) /\ Len(f) <= OverlapChars + 1 =>
                \E chunk \in Range(store) : chunk.of = latest /\ f \in chunk.found

\* Without include_sensitive no context was made of a text with a finding in
\* it ("Sensitive chunks are left out of the results", HARDENING_NOTES).
ContextsAreClean ==
    answer # NoAnswer /\ ~answer.all => \A i \in answer.shown :
        FoundIn(Source(store[i]), store[i].of.findings) = {}

\* As long as the store has no more sensitive chunks than the slack of the
\* search, leaving them out costs a query no context.
AnswerIsFull ==
    LET clean == {i \in DOMAIN store : ~Sensitive(store[i])}
    IN  answer # NoAnswer /\ Cardinality(DOMAIN store \ clean) <= Slack =>
            Cardinality(answer.shown) =
                Smaller(TopK, IF answer.all THEN Len(store) ELSE Cardinality(clean))

\* Once a document is indexed, SQLite has each of its chunks once, whichever
\* document was there before it or was cut short.
LatestIsStored ==
    latest # NoDocument /\ kind = "sqlite" =>
        \A n \in 1 .. Len(ChunkText(latest.paragraphs)) :
            LET here == {i \in DOMAIN store : store[i].number = n - 1}
            IN  Cardinality(here) = 1 /\ \A i \in here : store[i].of = latest
=============================================================================
