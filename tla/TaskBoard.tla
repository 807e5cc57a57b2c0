------------------------------ MODULE TaskBoard ------------------------------
(***************************************************************************)
(* What the task routes of the control plane promise: a board of tasks on  *)
(* which every request is one atomic operation.  The first task in line is *)
(* handed out, if its retries are not spent; a result or a retry changes   *)
(* the task it is about.  Once requests have contended for the board, what *)
(* one wrote may be undone by another; even then no task disappears and    *)
(* none is served beyond its retries.                                      *)
(*                                                                         *)
(* TaskQueue, where a request reads and writes in steps of its own, with   *)
(* those of others in between, implements this specification.              *)
(***************************************************************************)
EXTENDS Naturals

CONSTANTS
    Tasks,        \* ranks of the tasks
    Nodes,        \* the nodes that ask for work
    NoNode,       \* the task is nobody's, or the request names no node
    MaxRetries    \* the retry budget of a task

VARIABLES
    board,        \* the row of each task
    contended     \* whether two requests have overlapped

vars == <<board, contended>>

Results == {"succeeded", "failed", "blocked"}
Row == [status : {"queued", "assigned"} \cup Results,
        node   : Nodes \cup {NoNode},
        retry  : Nat]
Absent == [status |-> "absent"]

InLine == {t \in Tasks : board[t].status \in {"queued", "failed"}}
Spent(row) == row.status = "failed" /\ row.retry >= MaxRetries
Served(row) == row.status \in {"queued", "assigned"}

Init == board = [t \in Tasks |-> Absent] /\ contended = FALSE

Put(t, row) ==
    /\ board' = [board EXCEPT ![t] = row]
    /\ contended' \in {contended, TRUE}

Submit(t) ==
    /\ board[t] = Absent
    /\ Put(t, [status |-> "queued", node |-> NoNode, retry |-> 0])

HandOut(t, n) ==
    /\ t \in InLine /\ \A u \in InLine : t <= u
    /\ ~Spent(board[t])
    /\ Put(t, [board[t] EXCEPT !.status = "assigned",
                               !.node = IF n = NoNode THEN @ ELSE n])

Finish(t, result) ==
    /\ board[t] # Absent
    /\ Put(t, [board[t] EXCEPT !.status = result])

Retry(t) ==
    /\ board[t] # Absent
    /\ Put(t, [board[t] EXCEPT !.status = IF board[t].retry < MaxRetries
                                          THEN "queued" ELSE "failed",
                               !.retry = @ + 1])

Undo(t) ==
    /\ contended
    /\ board[t] # Absent
    /\ board'[t] \in Row
    /\ Served(board'[t]) => board'[t].retry <= MaxRetries
    /\ Put(t, board'[t])

Contend == contended' = TRUE /\ UNCHANGED board

Next ==
    \/ \E t \in Tasks :
          \/ Submit(t)
          \/ \E n \in Nodes \cup {NoNode} : HandOut(t, n)
          \/ \E r \in Results : Finish(t, r)
          \/ Retry(t)
          \/ Undo(t)
    \/ Contend

Spec == Init /\ [][Next]_vars
=============================================================================
