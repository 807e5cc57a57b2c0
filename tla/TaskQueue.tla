------------------------------ MODULE TaskQueue ------------------------------
(***************************************************************************)
(* The task queue of the control plane: the tasks table of                 *)
(* apps/control_plane/repository.py and the handlers of app.py that create *)
(* a task, hand out the next one and take its result.                      *)
(*                                                                         *)
(* Handlers are synchronous functions that FastAPI runs in a pool of       *)
(* threads.  Each repository call opens a connection, runs one statement   *)
(* and commits; nothing spans two calls.  So a handler is a sequence of    *)
(* steps - read a row, save it whole, append the audit event - and those   *)
(* of other threads fall between them.                                     *)
(*                                                                         *)
(* A task is a number: its rank in "order by priority asc, task_id asc",   *)
(* both of which are fixed when the task is created.                       *)
(***************************************************************************)
EXTENDS Integers

CONSTANTS
    Tasks,        \* ranks of the tasks that may be created
    Threads,      \* threads of the server's pool
    Nodes,        \* the nodes that ask for work
    NoNode,       \* assigned_node_id or the node_id parameter is None
    MaxRetries,   \* Task.max_retries; no request can set it
    RetryBound,   \* bound: retries are requested while retry_count is below
    ServerMayFail \* whether requests may raise and the server may be killed

ASSUME ConstantsAssumption ==
    /\ Tasks \subseteq Nat
    /\ NoNode \notin Nodes
    /\ MaxRetries \in Nat
    /\ RetryBound \in Nat
    /\ ServerMayFail \in BOOLEAN

VARIABLES
    tasks,        \* the tasks table
    frame,        \* the request each thread is serving
    trail,        \* the last audit event about each task
    overlapped,   \* history: two requests have been in progress at once
    unaudited     \* history: tasks whose last saved change has no audit event

vars == <<tasks, frame, trail, overlapped, unaudited>>

Results == {"succeeded", "failed", "blocked"}
Row == [status : {"queued", "assigned"} \cup Results,
        node   : Nodes \cup {NoNode},
        retry  : Nat]
Absent == [status |-> "absent"]
Kinds == {"created", "assigned", "result", "retry_scheduled"}
NoEvent == [kind |-> "none"]
Idle == [at |-> "idle"]

\* A request between two of its steps: about to read the row again, to save
\* a row it has computed, or to append the audit event; asked is the node_id
\* parameter of GET /tasks/next.
Rereading == [at : {"reread"}, id : Tasks]
Saving == [at : {"save"}, id : Tasks, row : Row, kind : Kinds,
           asked : Nodes \cup {NoNode}]
Auditing == [at : {"audit"}, id : Tasks, row : Row, kind : Kinds,
             asked : Nodes \cup {NoNode}]

\* An event names the node that was asked for, and the row as it was saved.
Event == [kind : Kinds, row : Row, node : Nodes \cup {NoNode}]

TypeOK ==
    /\ tasks \in [Tasks -> Row \cup {Absent}]
    /\ frame \in [Threads -> {Idle} \cup Rereading \cup Saving \cup Auditing]
    /\ trail \in [Tasks -> Event \cup {NoEvent}]
    /\ overlapped \in BOOLEAN /\ unaudited \subseteq Tasks

Exists(t) == tasks[t] # Absent
Exhausted(row) == row.status = "failed" /\ row.retry >= MaxRetries

Init ==
    /\ tasks = [t \in Tasks |-> Absent]
    /\ frame = [h \in Threads |-> Idle]
    /\ trail = [t \in Tasks |-> NoEvent]
    /\ overlapped = FALSE /\ unaudited = {}

-----------------------------------------------------------------------------
(* The rows the handlers compute.                                          *)

NewRow == [status |-> "queued", node |-> NoNode, retry |-> 0]

\* Without a node_id in the request the row keeps its assigned_node_id.
AssignedRow(row, n) ==
    [row EXCEPT !.status = "assigned", !.node = IF n = NoNode THEN @ ELSE n]

ResultRow(row, result) == [row EXCEPT !.status = result]

\* mutant: the limit is compared with the count before this retry
RetriedRowOffByOne(row) ==
    [row EXCEPT !.status = IF row.retry <= MaxRetries THEN "queued" ELSE "failed",
                !.retry = @ + 1]

\* mutant: the count is not advanced when the task is given up
RetriedRowForgets(row) ==
    [row EXCEPT !.status = IF row.retry + 1 <= MaxRetries THEN "queued" ELSE "failed",
                !.retry = IF row.retry + 1 <= MaxRetries THEN @ + 1 ELSE 0]

RetriedRow(row) ==
    [row EXCEPT !.status = IF row.retry + 1 <= MaxRetries THEN "queued" ELSE "failed",
                !.retry = @ + 1]

-----------------------------------------------------------------------------
(* The handlers.                                                           *)

\* One step of the request that h serves.
Step(h, next) ==
    /\ frame' = [frame EXCEPT ![h] = next]
    /\ overlapped' = (overlapped \/ \E g \in Threads \ {h} : frame[g] # Idle)

\* POST /tasks: a new row is saved; what is left is its audit event.
CreateTask(h, t) ==
    /\ frame[h] = Idle
    /\ ~Exists(t)
    /\ tasks' = [tasks EXCEPT ![t] = NewRow]
    /\ Step(h, [at |-> "audit", id |-> t, row |-> NewRow, kind |-> "created",
               asked |-> NoNode])
    /\ UNCHANGED <<trail, unaudited>>

\* mutant: tasks that are already assigned are selected too
CandidatesAssigned == {t \in Tasks : tasks[t].status \in {"queued", "failed", "assigned"}}

\* mutant: "not in ('assigned', 'succeeded')", which lets blocked tasks in
CandidatesBlocked == {t \in Tasks : tasks[t].status \in {"queued", "failed", "blocked"}}

\* The rows next_task() selects from, and the one the select returns.
Candidates == {t \in Tasks : tasks[t].status \in {"queued", "failed"}}
First(t) == t \in Candidates /\ \A u \in Candidates : t <= u

\* The task next_task() returns, if it returns one: when the first row is an
\* exhausted task the answer is None, whatever stands behind it.
Servable(t) == First(t) /\ ~Exhausted(tasks[t])

\* GET /tasks/next, up to the row the handler will save.
SelectNext(h, n) ==
    /\ frame[h] = Idle
    /\ \E t \in Tasks :
          /\ Servable(t)
          /\ Step(h, [at |-> "save", id |-> t, row |-> AssignedRow(tasks[t], n),
                      kind |-> "assigned", asked |-> n])
    /\ UNCHANGED <<tasks, trail, unaudited>>

\* POST /tasks/{id}/result for anything but a failure to be retried: the row
\* is read (404 if there is none) and its update computed.
ReceiveResult(h, t, result) ==
    /\ frame[h] = Idle
    /\ Exists(t)
    /\ Step(h, [at |-> "save", id |-> t, row |-> ResultRow(tasks[t], result),
                kind |-> "result", asked |-> NoNode])
    /\ UNCHANGED <<tasks, trail, unaudited>>

\* The same request with status "failed" and retry set: the row just read is
\* dropped, retry_task() reads it again.
ReceiveRetry(h, t) ==
    /\ frame[h] = Idle
    /\ Exists(t)
    /\ tasks[t].retry < RetryBound
    /\ Step(h, [at |-> "reread", id |-> t])
    /\ UNCHANGED <<tasks, trail, unaudited>>

RereadForRetry(h) ==
    /\ frame[h].at = "reread"
    /\ LET t == frame[h].id
       IN  Step(h, [at |-> "save", id |-> t, row |-> RetriedRow(tasks[t]),
                    kind |-> "retry_scheduled", asked |-> NoNode])
    /\ UNCHANGED <<tasks, trail, unaudited>>

\* save_task(): insert or replace, whatever the table holds by now.
SaveTask(h) ==
    /\ frame[h].at = "save"
    /\ tasks' = [tasks EXCEPT ![frame[h].id] = frame[h].row]
    /\ Step(h, [frame[h] EXCEPT !.at = "audit"])
    /\ UNCHANGED <<trail, unaudited>>

\* The event of the request that h serves.
EventOf(h) == [kind |-> frame[h].kind, row |-> frame[h].row, node |-> frame[h].asked]

\* mutant: the event of a retry is not appended
AppendAuditSometimes(h) ==
    /\ frame[h].at = "audit"
    /\ trail' = IF frame[h].kind = "retry_scheduled" THEN trail
                ELSE [trail EXCEPT ![frame[h].id] = EventOf(h)]
    /\ unaudited' = unaudited \ {frame[h].id}
    /\ Step(h, Idle)
    /\ UNCHANGED tasks

\* The audit event, then the response.
AppendAudit(h) ==
    /\ frame[h].at = "audit"
    /\ trail' = [trail EXCEPT ![frame[h].id] = EventOf(h)]
    /\ unaudited' = unaudited \ {frame[h].id}
    /\ Step(h, Idle)
    /\ UNCHANGED tasks

\* The tasks that these threads have saved and not yet audited.
SavedBy(threads) == {t \in Tasks : \E h \in threads :
                       frame[h].at = "audit" /\ frame[h].id = t}

\* A repository call or audit.append() raises: the request is answered with
\* an error, and what it has saved stays, without its event.
FailRequest(h) ==
    /\ ServerMayFail
    /\ frame[h] # Idle
    /\ unaudited' = unaudited \cup SavedBy({h})
    /\ Step(h, Idle)
    /\ UNCHANGED <<tasks, trail>>

\* The server is killed, with its requests, and started again.
Restart ==
    /\ ServerMayFail
    /\ frame' = [h \in Threads |-> Idle]
    /\ unaudited' = unaudited \cup SavedBy(Threads)
    /\ UNCHANGED <<tasks, trail, overlapped>>

Next ==
    \/ \E h \in Threads :
          \/ \E t \in Tasks : CreateTask(h, t)
          \/ \E n \in Nodes \cup {NoNode} : SelectNext(h, n)
          \/ \E t \in Tasks, r \in Results : ReceiveResult(h, t, r)
          \/ \E t \in Tasks : ReceiveRetry(h, t)
          \/ RereadForRetry(h)
          \/ SaveTask(h)
          \/ AppendAudit(h)
          \/ FailRequest(h)
    \/ Restart

Spec == Init /\ [][Next]_vars

-----------------------------------------------------------------------------
(* Properties.                                                             *)

Served(row) == row.status \in {"queued", "assigned"}

\* A task that waits or is being worked on is within its retry budget,
\* however many requests overlap on stale copies of its row: the retry that
\* would exceed the budget always leaves the task failed.
ServedWithinBudget ==
    /\ \A t \in Tasks : Exists(t) /\ Served(tasks[t]) => tasks[t].retry <= MaxRetries
    /\ \A h \in Threads :
          frame[h].at \in {"save", "audit"} /\ Served(frame[h].row)
              => frame[h].row.retry <= MaxRetries

\* An audit event of this kind and payload would describe the row.  Of an
\* assignment the event has the node that was asked for, if there was one.
Describes(event, row) ==
    /\ event # NoEvent
    /\ row.status = event.row.status
    /\ event.kind = "assigned" /\ event.node # NoNode => row.node = event.node
    /\ event.kind \in {"result", "retry_scheduled"} => row.retry = event.row.retry

\* "Every important change of state leaves an audit event" (SECURITY_MODEL).
\* Until requests overlap: when no request is at work on a task, and the last
\* one that saved it did not raise or die before its event, the last event
\* describes the row, whatever happened to other tasks and to earlier events.
AuditReflectsTask ==
    ~overlapped =>
        \A t \in Tasks \ unaudited :
            Exists(t) /\ (\A h \in Threads : frame[h] # Idle => frame[h].id # t)
                => Describes(trail[t], tasks[t])

-----------------------------------------------------------------------------
(* The promise.                                                            *)

\* Until requests overlap each one takes effect at once, on the table as it
\* then is: in particular the first task in line is the one handed out, and
\* to nobody else before its result.  Afterwards a request may undo another,
\* but deletes no task and serves none beyond its retries.
Board == INSTANCE TaskBoard WITH board <- tasks, contended <- overlapped
ImplementsBoard == Board!Spec
=============================================================================
