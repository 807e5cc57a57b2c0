----------------------------- MODULE ReviewQueue -----------------------------
(***************************************************************************)
(* The human review queue, packages/govmesh_review/queue.py, behind the    *)
(* /reviews handlers of the control plane: a JSONL file to which a review  *)
(* is appended when it is created and again when it is decided; the last   *)
(* line about a review is its state.                                       *)
(*                                                                         *)
(* decide() reads the file, checks that the review is open, and later      *)
(* appends the decision; the steps of other threads fall in between.  As   *)
(* in AuditChain a write may fail, or stop half way through the line.      *)
(***************************************************************************)
EXTENDS Integers, Sequences, FiniteSets

CONSTANTS
    Reviews,      \* review ids that may be issued
    Threads,      \* threads of the server's pool
    MayTear       \* whether a write may stop half way

ASSUME ReviewAssumption == MayTear \in BOOLEAN

VARIABLES
    file,         \* the lines that can be read, in order
    torn,         \* the file holds a damaged line after them
    frame,        \* the request each thread is serving
    created,      \* ids issued so far
    answered,     \* <<id, status>> of the requests answered with success
    overlapped    \* history: two requests have been in progress at once

vars == <<file, torn, frame, created, answered, overlapped>>

Decisions == {"approved", "rejected", "needs_more_info"}
Status == {"open"} \cup Decisions
Item == [id : Reviews, status : Status, by : Threads]
Idle == [at |-> "idle"]
Busy == [at : {"append", "audit"}, item : Item]

TypeOK ==
    /\ file \in Seq(Item)
    /\ torn \in BOOLEAN
    /\ frame \in [Threads -> {Idle} \cup Busy]
    /\ created \subseteq Reviews
    /\ answered \subseteq Reviews \X Status
    /\ overlapped \in BOOLEAN

Init ==
    /\ file = <<>>
    /\ torn = FALSE
    /\ frame = [h \in Threads |-> Idle]
    /\ created = {}
    /\ answered = {}
    /\ overlapped = FALSE

\* One step of the request that h serves.
Step(h, next) ==
    /\ frame' = [frame EXCEPT ![h] = next]
    /\ overlapped' = (overlapped \/ \E g \in Threads \ {h} : frame[g] # Idle)

NewItem(h, r, status) == [id |-> r, status |-> status, by |-> h]

LinesOf(r) == {i \in 1 .. Len(file) : file[i].id = r}

\* mutant: get() returns the first line about the review, not the last
IsOpenAtFirst(r) == \E i \in LinesOf(r) : file[i].status = "open"

\* get() finds the last line about the review; decide() wants it open.
IsOpen(r) == \E i \in LinesOf(r) :
                /\ file[i].status = "open"
                /\ \A j \in LinesOf(r) : j <= i

-----------------------------------------------------------------------------
(* The handlers.                                                           *)

Create(h, r) ==
    /\ frame[h] = Idle
    /\ r \notin created
    /\ created' = created \cup {r}
    /\ Step(h, [at |-> "append", item |-> NewItem(h, r, "open")])
    /\ UNCHANGED <<file, torn, answered>>

\* The file is read: a damaged line is an error, an unknown review a 404, a
\* decided one a 409.
Decide(h, r, decision) ==
    /\ frame[h] = Idle
    /\ ~torn
    /\ IsOpen(r)
    /\ Step(h, [at |-> "append", item |-> NewItem(h, r, decision)])
    /\ UNCHANGED <<file, torn, created, answered>>

\* What is appended after a damaged line can no longer be read.
AppendLine(h) ==
    /\ frame[h].at = "append"
    /\ file' = IF torn THEN file ELSE Append(file, frame[h].item)
    /\ Step(h, [frame[h] EXCEPT !.at = "audit"])
    /\ UNCHANGED <<torn, created, answered>>

\* mutant: the error of the write is swallowed
FailAppendSilently(h) ==
    /\ frame[h].at = "append"
    /\ Step(h, [frame[h] EXCEPT !.at = "audit"])
    /\ UNCHANGED <<file, torn, created, answered>>

\* The write raises, and so does the request.
FailAppend(h) ==
    /\ frame[h].at = "append"
    /\ Step(h, Idle)
    /\ UNCHANGED <<file, torn, created, answered>>

TearAppend(h) ==
    /\ MayTear
    /\ frame[h].at = "append"
    /\ torn' = TRUE
    /\ Step(h, Idle)
    /\ UNCHANGED <<file, created, answered>>

\* The audit event, then the response.
Answer(h) ==
    /\ frame[h].at = "audit"
    /\ answered' = answered \cup {<<frame[h].item.id, frame[h].item.status>>}
    /\ Step(h, Idle)
    /\ UNCHANGED <<file, torn, created>>

\* audit.append() raises, and so does the request: the line remains.
FailAudit(h) ==
    /\ frame[h].at = "audit"
    /\ Step(h, Idle)
    /\ UNCHANGED <<file, torn, created, answered>>

Restart ==
    /\ frame' = [h \in Threads |-> Idle]
    /\ UNCHANGED <<file, torn, created, answered, overlapped>>

Next ==
    \/ \E h \in Threads, r \in Reviews :
          Create(h, r) \/ \E d \in Decisions : Decide(h, r, d)
    \/ \E h \in Threads :
          AppendLine(h) \/ FailAppend(h) \/ TearAppend(h) \/ Answer(h) \/ FailAudit(h)
    \/ Restart

Spec == Init /\ [][Next]_vars

-----------------------------------------------------------------------------
(* Properties.                                                             *)

Decided(i) == file[i].status # "open"

\* However requests overlap: a thread decides a review at most once, so a
\* review is decided again only by a request that overlaps the first one.
OneDecisionPerThread ==
    \A i, j \in 1 .. Len(file) :
        i # j /\ file[i].id = file[j].id /\ Decided(i) /\ Decided(j)
            => file[i].by # file[j].by

\* What the queue has answered with success is in the file, unless the file
\* is damaged: a creation, and a decision even if another one follows it.
AnsweredIsStored ==
    ~torn => \A a \in answered : \E i \in 1 .. Len(file) :
                file[i].id = a[1] /\ file[i].status = a[2]

-----------------------------------------------------------------------------
(* The promise.                                                            *)

LastIn(lines) == CHOOSE i \in lines : \A j \in lines : j <= i

\* What get() answers of the readable lines, and how many are about a review.
Latest == [r \in Reviews |->
              LET lines == LinesOf(r)
              IN  IF lines = {} THEN "none" ELSE file[LastIn(lines)].status]
Writes == [r \in Reviews |-> Cardinality(LinesOf(r))]

\* Every review is opened once, and decided once it is open, by the last line
\* about it; only once requests have overlapped may a decision replace one.
Register == INSTANCE ReviewRegister WITH
    latest <- Latest, writes <- Writes, contended <- overlapped
ImplementsRegister == Register!Spec
=============================================================================
