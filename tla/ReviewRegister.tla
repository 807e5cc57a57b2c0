--------------------------- MODULE ReviewRegister ---------------------------
(***************************************************************************)
(* What packages/govmesh_review/queue.py promises its callers: for every   *)
(* review a register that is opened once and then decided once - or, when  *)
(* requests have contended for it, decided over again, but never opened    *)
(* again.  Checking the register and writing it is one atomic step here;   *)
(* ReviewQueue, where other threads come in between and the register is    *)
(* spread over the lines of a file, implements this specification.         *)
(***************************************************************************)
EXTENDS Naturals

CONSTANTS
    Reviews,      \* review ids
    Decisions     \* what a review may be decided to

VARIABLES
    latest,       \* the state of each review
    writes,       \* how often each register has been written
    contended     \* whether two requests have overlapped

vars == <<latest, writes, contended>>

Init ==
    /\ latest = [r \in Reviews |-> "none"]
    /\ writes = [r \in Reviews |-> 0]
    /\ contended = FALSE

Write(r, status) ==
    /\ UNCHANGED contended
    /\ writes' = [writes EXCEPT ![r] = @ + 1]
    /\ latest' = [latest EXCEPT ![r] = status]

Open(r) == latest[r] = "none" /\ Write(r, "open")

Settle(r) ==
    /\ latest[r] = "open" \/ (contended /\ latest[r] \in Decisions)
    /\ \E d \in Decisions : Write(r, d)

Contend == contended' = TRUE /\ UNCHANGED <<latest, writes>>

Next ==
    \/ \E r \in Reviews : Open(r) \/ Settle(r)
    \/ Contend

Spec == Init /\ [][Next]_vars
=============================================================================
