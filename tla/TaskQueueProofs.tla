--------------------------- MODULE TaskQueueProofs ---------------------------
(***************************************************************************)
(* Theorems about TaskQueue and about the agents of WorkerFleet on it, for *)
(* any tasks, threads, nodes and limits.                                   *)
(***************************************************************************)
EXTENDS WorkerFleet, TLAPS

-----------------------------------------------------------------------------
(* Requests that overlap or not.                                           *)

\* retry_task() finds the row it reads again, for rows are never deleted.
RereadExists == \A h \in Threads : frame[h].at = "reread" => Exists(frame[h].id)

\* The type invariant and the budget of the rows that are served, in the
\* table and in the threads' hands.  The frames are what makes the budget
\* inductive: a save writes a row computed from a table that has changed.
IInv == TypeOK /\ ServedWithinBudget /\ RereadExists

\* A thread that is about to save or to append an event holds a whole row.
LEMMA FrameShape ==
    ASSUME TypeOK, NEW h \in Threads
    PROVE  /\ frame[h].at = "reread" => frame[h] \in Rereading
           /\ frame[h].at = "save" => frame[h] \in Saving
           /\ frame[h].at = "audit" => frame[h] \in Auditing
  BY DEF TypeOK, Idle, Rereading, Saving, Auditing

\* The rows the handlers compute are rows, and within the budget when they
\* are to be served.
LEMMA ComputedRows ==
    ASSUME NEW row \in Row
    PROVE  /\ \A n \in Nodes \cup {NoNode} :
                 /\ AssignedRow(row, n) \in Row
                 /\ AssignedRow(row, n).retry = row.retry
           /\ \A r \in Results :
                 ResultRow(row, r) \in Row /\ ~Served(ResultRow(row, r))
           /\ RetriedRow(row) \in Row
           /\ Served(RetriedRow(row)) => RetriedRow(row).retry <= MaxRetries
  <1>1. ASSUME NEW n \in Nodes \cup {NoNode}
        PROVE  AssignedRow(row, n) \in Row /\ AssignedRow(row, n).retry = row.retry
    BY DEF Row, AssignedRow
  <1>2. ASSUME NEW r \in Results
        PROVE  ResultRow(row, r) \in Row /\ ~Served(ResultRow(row, r))
    BY DEF Row, ResultRow, Results, Served
  <1>3. /\ RetriedRow(row) \in Row
        /\ Served(RetriedRow(row)) => RetriedRow(row).retry <= MaxRetries
    <2> DEFINE left == IF row.retry + 1 <= MaxRetries THEN "queued" ELSE "failed"
    <2>1. row.retry \in Nat /\ row.retry + 1 \in Nat
      BY DEF Row
    <2>2. RetriedRow(row) = [row EXCEPT !.status = left, !.retry = row.retry + 1]
      BY DEF RetriedRow
    <2>3. left \in {"queued", "failed"} /\ (left = "queued" => row.retry + 1 <= MaxRetries)
      OBVIOUS
    <2>4. RetriedRow(row).status = left /\ RetriedRow(row).retry = row.retry + 1
      BY <2>2 DEF Row
    <2>5. RetriedRow(row) \in Row
      BY <2>1, <2>2, <2>3 DEF Row, Results
    <2> QED BY <2>3, <2>4, <2>5 DEF Served
  <1> QED BY <1>1, <1>2, <1>3

\* The invariant holds of the empty table.
LEMMA InitIInv == ASSUME Init PROVE IInv
  BY DEF Init, IInv, TypeOK, ServedWithinBudget, RereadExists, Idle, Absent,
         NoEvent, Exists

\* Every step keeps the invariant.
LEMMA StepIInv == ASSUME IInv, [Next]_vars PROVE IInv'
  <1> USE DEF IInv
  <1>1. ASSUME NEW h \in Threads, NEW t \in Tasks, CreateTask(h, t) PROVE IInv'
    <2> DEFINE f == [at |-> "audit", id |-> t, row |-> NewRow, kind |-> "created", asked |-> NoNode]
    <2>1. NewRow \in Row /\ NewRow.retry <= MaxRetries
      BY ConstantsAssumption DEF NewRow, Row, ConstantsAssumption
    <2>2. f \in Auditing
      BY <2>1 DEF Auditing, Kinds
    <2>3. TypeOK'
      BY <1>1, <2>1, <2>2 DEF CreateTask, Step, TypeOK
    <2>4. ServedWithinBudget'
      BY <1>1, <2>1, <2>2 DEF CreateTask, Step, TypeOK, ServedWithinBudget, Exists
    <2>5. RereadExists'
      BY <1>1, <2>1, <2>2 DEF CreateTask, Step, TypeOK, RereadExists, Exists, Absent, Row
    <2> QED BY <2>3, <2>4, <2>5
  <1>2. ASSUME NEW h \in Threads, NEW n \in Nodes \cup {NoNode}, SelectNext(h, n)
        PROVE  IInv'
    <2>1. PICK t \in Tasks :
             /\ Servable(t)
             /\ Step(h, [at |-> "save", id |-> t, row |-> AssignedRow(tasks[t], n),
                         kind |-> "assigned", asked |-> n])
      BY <1>2 DEF SelectNext
    <2>2. tasks[t] \in Row
      BY <2>1 DEF Servable, First, Candidates, TypeOK, Absent
    <2>3. tasks[t].retry <= MaxRetries
      <3>1. CASE tasks[t].status = "queued"
        BY <2>2, <3>1 DEF ServedWithinBudget, Exists, Served, Absent
      <3>2. CASE tasks[t].status = "failed"
        BY <2>1, <2>2, <3>2, ConstantsAssumption
           DEF Servable, Exhausted, Row, ConstantsAssumption
      <3> QED BY <2>1, <3>1, <3>2 DEF Servable, First, Candidates
    <2> DEFINE f == [at |-> "save", id |-> t, row |-> AssignedRow(tasks[t], n),
                     kind |-> "assigned", asked |-> n]
    <2>4. AssignedRow(tasks[t], n) \in Row /\ AssignedRow(tasks[t], n).retry <= MaxRetries
      BY <2>2, <2>3, ComputedRows
    <2>5. f \in Saving
      BY <2>4 DEF Saving, Kinds
    <2>6. TypeOK'
      BY <1>2, <2>1, <2>5 DEF SelectNext, Step, TypeOK
    <2>7. ServedWithinBudget'
      BY <1>2, <2>1, <2>4, <2>5 DEF SelectNext, Step, TypeOK, ServedWithinBudget, Exists
    <2>8. RereadExists'
      BY <1>2, <2>1 DEF SelectNext, Step, TypeOK, RereadExists, Exists
    <2> QED BY <2>6, <2>7, <2>8
  <1>3. ASSUME NEW h \in Threads, NEW t \in Tasks, NEW r \in Results,
               ReceiveResult(h, t, r)
        PROVE  IInv'
    <2> DEFINE f == [at |-> "save", id |-> t, row |-> ResultRow(tasks[t], r),
                     kind |-> "result", asked |-> NoNode]
    <2>1. tasks[t] \in Row
      BY <1>3 DEF ReceiveResult, Exists, TypeOK
    <2>2. ResultRow(tasks[t], r) \in Row /\ ~Served(ResultRow(tasks[t], r))
      BY <2>1, ComputedRows
    <2>3. f \in Saving
      BY <2>2 DEF Saving, Kinds
    <2>4. TypeOK'
      BY <1>3, <2>3 DEF ReceiveResult, Step, TypeOK
    <2>5. ServedWithinBudget'
      BY <1>3, <2>2 DEF ReceiveResult, Step, TypeOK, ServedWithinBudget, Exists
    <2>6. RereadExists'
      BY <1>3 DEF ReceiveResult, Step, TypeOK, RereadExists, Exists
    <2> QED BY <2>4, <2>5, <2>6
  <1>4. ASSUME NEW h \in Threads, NEW t \in Tasks, ReceiveRetry(h, t) PROVE IInv'
    <2> DEFINE f == [at |-> "reread", id |-> t]
    <2>1. f \in Rereading
      BY DEF Rereading
    <2>2. TypeOK'
      BY <1>4, <2>1 DEF ReceiveRetry, Step, TypeOK
    <2>3. ServedWithinBudget'
      BY <1>4 DEF ReceiveRetry, Step, TypeOK, ServedWithinBudget, Exists
    <2>4. RereadExists'
      BY <1>4 DEF ReceiveRetry, Step, TypeOK, RereadExists, Exists
    <2> QED BY <2>2, <2>3, <2>4
  <1>5. ASSUME NEW h \in Threads, RereadForRetry(h) PROVE IInv'
    <2> DEFINE t == frame[h].id
               f == [at |-> "save", id |-> t, row |-> RetriedRow(tasks[t]),
                     kind |-> "retry_scheduled", asked |-> NoNode]
    <2>1. t \in Tasks
      BY <1>5, FrameShape DEF RereadForRetry, Rereading
    <2>2. tasks[t] \in Row
      BY <1>5, <2>1 DEF RereadForRetry, RereadExists, Exists, TypeOK
    <2>3. /\ RetriedRow(tasks[t]) \in Row
          /\ Served(RetriedRow(tasks[t])) => RetriedRow(tasks[t]).retry <= MaxRetries
      BY <2>2, ComputedRows
    <2>4. f \in Saving
      BY <2>1, <2>3 DEF Saving, Kinds
    <2>5. /\ frame' = [frame EXCEPT ![h] = f] /\ UNCHANGED <<tasks, trail, unaudited>>
          /\ overlapped' \in BOOLEAN
      BY <1>5 DEF RereadForRetry, Step
    <2>6. TypeOK'
      BY <2>4, <2>5 DEF TypeOK
    <2>7. ServedWithinBudget'
      BY <2>3, <2>4, <2>5 DEF TypeOK, ServedWithinBudget, Exists
    <2>8. RereadExists'
      BY <2>5 DEF TypeOK, RereadExists, Exists
    <2> QED BY <2>6, <2>7, <2>8
  <1>6. ASSUME NEW h \in Threads, SaveTask(h) PROVE IInv'
    <2> DEFINE f == [frame[h] EXCEPT !.at = "audit"]
    <2>1. frame[h] \in Saving
      BY <1>6, FrameShape DEF SaveTask
    <2>2. f \in Auditing /\ f.row = frame[h].row
      BY <2>1 DEF Saving, Auditing
    <2>3. /\ frame' = [frame EXCEPT ![h] = f]
          /\ tasks' = [tasks EXCEPT ![frame[h].id] = frame[h].row]
          /\ UNCHANGED <<trail, unaudited>>
          /\ overlapped' \in BOOLEAN
      BY <1>6 DEF SaveTask, Step
    <2>4. frame[h].row \in Row /\ (Served(frame[h].row) => frame[h].row.retry <= MaxRetries)
      BY <1>6, <2>1 DEF Saving, SaveTask, ServedWithinBudget
    <2>5. TypeOK'
      BY <2>2, <2>3, <2>4 DEF TypeOK
    <2>6. ServedWithinBudget'
      BY <2>1, <2>2, <2>3, <2>4 DEF TypeOK, ServedWithinBudget, Exists, Saving, Auditing
    <2>7. RereadExists'
      <3> SUFFICES ASSUME NEW g \in Threads, frame'[g].at = "reread"
                   PROVE  tasks'[frame'[g].id] # Absent
        BY DEF RereadExists, Exists
      <3>1. f.at = "audit"
        BY <2>2 DEF Auditing
      <3>2. frame'[g] = frame[g]
        BY <2>3, <3>1 DEF TypeOK
      <3>3. frame[g].id \in Tasks /\ tasks[frame[g].id] # Absent
        BY <3>2, FrameShape DEF Rereading, RereadExists, Exists
      <3>4. frame[h].row # Absent
        BY <2>4 DEF Row, Absent
      <3> QED BY <2>3, <3>2, <3>3, <3>4 DEF TypeOK
    <2> QED BY <2>5, <2>6, <2>7
  <1>7. ASSUME NEW h \in Threads, AppendAudit(h) PROVE IInv'
    <2>1. frame[h] \in Auditing
      BY <1>7, FrameShape DEF AppendAudit
    <2>2. TypeOK'
      <3>1. EventOf(h) \in Event
        BY <2>1 DEF EventOf, Auditing, Event
      <3> QED BY <1>7, <2>1, <3>1 DEF AppendAudit, Step, TypeOK, Auditing
    <2>3. ServedWithinBudget' /\ RereadExists'
      BY <1>7 DEF AppendAudit, Step, TypeOK, ServedWithinBudget, RereadExists, Exists, Idle
    <2> QED BY <2>2, <2>3
  <1>8. ASSUME NEW h \in Threads, FailRequest(h) PROVE IInv'
    BY <1>8 DEF FailRequest, SavedBy, Step, TypeOK, ServedWithinBudget, RereadExists,
                Exists, Idle
  <1>9. CASE Restart
    BY <1>9 DEF Restart, SavedBy, TypeOK, ServedWithinBudget, RereadExists, Exists, Idle
  <1>10. CASE UNCHANGED vars
    BY <1>10 DEF vars, TypeOK, ServedWithinBudget, RereadExists, Exists
  <1> QED
    BY <1>1, <1>2, <1>3, <1>4, <1>5, <1>6, <1>7, <1>8, <1>9, <1>10 DEF Next

LEMMA SpecIInv == Spec => []IInv
  BY InitIInv, StepIInv, PTL DEF Spec

\* Every behaviour keeps the types: the table holds whole rows, and a thread
\* never saves or audits anything else.
THEOREM TypeCorrect == Spec => []TypeOK
  <1>1. IInv => TypeOK
    BY DEF IInv
  <1> QED BY <1>1, SpecIInv, PTL

\* However the requests of any number of threads and nodes overlap, and
\* whenever the server restarts, no task beyond max_retries is queued,
\* assigned, or about to be (next_task and retry_task of repository.py).
THEOREM BudgetKept == Spec => []ServedWithinBudget
  <1>1. IInv => ServedWithinBudget
    BY DEF IInv
  <1> QED BY <1>1, SpecIInv, PTL

-----------------------------------------------------------------------------
(* Requests that have not overlapped.                                      *)

Busy(h) == frame[h] # Idle

\* A step by the only request under way.
Alone(h) == \A g \in Threads : g # h => frame[g] = Idle /\ frame'[g] = Idle

\* The last event about a task describes it.
Described(t) == Exists(t) => Describes(trail[t], tasks[t])

\* A row that is handed out names the node that asked for it.
NamesAsker(f) ==
    f.at \in {"save", "audit"} /\ f.kind = "assigned" /\ f.asked # NoNode
        => f.row.node = f.asked

\* At most one request is under way; nobody has changed the row it is about
\* since it read it, and the row it has saved is in the table.
SerialFrames ==
    ~overlapped =>
        /\ \A g, h \in Threads : Busy(g) /\ Busy(h) => g = h
        /\ \A h \in Threads : frame[h].at = "save" /\ frame[h].kind = "assigned"
              => tasks[frame[h].id].status \in {"queued", "failed"}
        /\ \A h \in Threads : frame[h].at = "save" /\ frame[h].kind # "assigned"
              => frame[h].row.status # "assigned"
        /\ \A h \in Threads : frame[h].at = "audit" => tasks[frame[h].id] = frame[h].row
        /\ \A h \in Threads : NamesAsker(frame[h])

\* The last event about every task describes it, but for those whose event is
\* still to be appended, or never will be.
Trailed ==
    ~overlapped =>
        \A t \in Tasks \ unaudited :
            (\A h \in Threads : frame[h].at = "audit" => frame[h].id # t) => Described(t)

SerialInv == IInv /\ SerialFrames /\ Trailed

\* A step of one thread leaves the others where they are, and is taken alone
\* as long as requests do not overlap.
LEMMA OneStep ==
    ASSUME TypeOK, NEW h \in Threads, NEW next, Step(h, next)
    PROVE  /\ frame'[h] = next /\ \A g \in Threads : g # h => frame'[g] = frame[g]
           /\ ~overlapped' => ~overlapped /\ Alone(h)
  BY DEF Step, TypeOK, Alone

\* A thread at a step is at no other.
LEMMA IdleShape == Idle.at = "idle"
  BY DEF Idle

LEMMA IdleNames == NamesAsker(Idle)
  BY IdleShape DEF NamesAsker

LEMMA InitSerial == ASSUME Init PROVE SerialInv
  <1>1. IInv
    BY InitIInv
  <1>2. \A h \in Threads : ~Busy(h) /\ frame[h].at = "idle"
    BY IdleShape DEF Init, Busy
  <1>3. \A t \in Tasks : ~Exists(t)
    BY DEF Init, Exists
  <1>4. \A h \in Threads : NamesAsker(frame[h])
    BY IdleNames DEF Init
  <1> QED BY <1>1, <1>2, <1>3, <1>4 DEF SerialInv, SerialFrames, Trailed, Described

\* A step to a frame that is no audit, with the table and the trail as they are.
LEMMA QuietSerial ==
    ASSUME SerialInv, NEW h \in Threads, NEW next, Step(h, next),
           UNCHANGED <<tasks, trail, unaudited>>, frame[h].at # "audit", NamesAsker(next),
           next.at = "save" /\ next.kind = "assigned"
              => tasks[next.id].status \in {"queued", "failed"},
           next.at = "save" /\ next.kind # "assigned" => next.row.status # "assigned",
           next.at # "audit"
    PROVE  SerialFrames' /\ Trailed'
  <1>1. /\ frame'[h] = next /\ \A g \in Threads : g # h => frame'[g] = frame[g]
        /\ ~overlapped' => ~overlapped /\ Alone(h)
    BY OneStep DEF SerialInv, IInv
  <1>2. SerialFrames'
    <2>1. ~overlapped' => \A g \in Threads : NamesAsker(frame'[g])
      BY <1>1, IdleNames DEF Alone
    <2> QED BY <1>1, <2>1, IdleShape DEF SerialInv, SerialFrames, Busy, Alone
  <1>3. Trailed'
    BY <1>1 DEF SerialInv, Trailed, Described, Exists
  <1> QED BY <1>2, <1>3

LEMMA StepSerial == ASSUME SerialInv, [Next]_vars PROVE SerialFrames' /\ Trailed'
  <1> USE DEF SerialInv, IInv
  <1>1. ASSUME NEW h \in Threads, NEW t \in Tasks, CreateTask(h, t)
        PROVE  SerialFrames' /\ Trailed'
    <2> DEFINE f == [at |-> "audit", id |-> t, row |-> NewRow, kind |-> "created", asked |-> NoNode]
    <2>1. /\ frame'[h] = f /\ \A g \in Threads : g # h => frame'[g] = frame[g]
          /\ ~overlapped' => ~overlapped /\ Alone(h)
          /\ unaudited' = unaudited /\ trail' = trail
          /\ tasks'[t] = NewRow /\ \A u \in Tasks : u # t => tasks'[u] = tasks[u]
      BY <1>1, OneStep DEF CreateTask, TypeOK
    <2>2. SerialFrames'
      <3>1. ~overlapped' => \A g \in Threads : NamesAsker(frame'[g])
        BY <2>1, IdleNames DEF Alone, NamesAsker
      <3> QED BY <2>1, <3>1, IdleShape DEF SerialFrames, Busy, Alone
    <2>3. frame[h].at = "idle"
      BY <1>1, IdleShape DEF CreateTask
    <2>4. Trailed'
      BY <2>1, <2>3, IdleShape DEF Trailed, Described, Exists, Alone
    <2> QED BY <2>2, <2>4
  <1>2. ASSUME NEW h \in Threads, NEW n \in Nodes \cup {NoNode}, SelectNext(h, n)
        PROVE  SerialFrames' /\ Trailed'
    <2>1. PICK t \in Tasks :
             /\ Servable(t)
             /\ Step(h, [at |-> "save", id |-> t, row |-> AssignedRow(tasks[t], n),
                         kind |-> "assigned", asked |-> n])
      BY <1>2 DEF SelectNext
    <2>2. tasks[t].status \in {"queued", "failed"}
      BY <2>1 DEF Servable, First, Candidates
    <2>3. frame[h].at # "audit" /\ UNCHANGED <<tasks, trail, unaudited>>
      BY <1>2, IdleShape DEF SelectNext
    <2> DEFINE f == [at |-> "save", id |-> t, row |-> AssignedRow(tasks[t], n),
                     kind |-> "assigned", asked |-> n]
    <2>4. NamesAsker(f)
      <3>1. tasks[t] \in Row
        BY <2>1 DEF Servable, First, Candidates, TypeOK, Absent
      <3>2. n # NoNode => AssignedRow(tasks[t], n).node = n
        BY <3>1 DEF AssignedRow, Row
      <3> QED BY <3>2 DEF NamesAsker
    <2> QED BY <2>1, <2>2, <2>3, <2>4, QuietSerial
  <1>3. ASSUME NEW h \in Threads, NEW t \in Tasks, NEW r \in Results, ReceiveResult(h, t, r)
        PROVE  SerialFrames' /\ Trailed'
    <2>1. ResultRow(tasks[t], r).status # "assigned"
      <3>1. tasks[t] \in Row
        BY <1>3 DEF ReceiveResult, Exists, TypeOK
      <3> QED BY <3>1 DEF ResultRow, Row, Results
    <2>2. frame[h].at # "audit" /\ UNCHANGED <<tasks, trail, unaudited>>
      BY <1>3, IdleShape DEF ReceiveResult
    <2> DEFINE f == [at |-> "save", id |-> t, row |-> ResultRow(tasks[t], r),
                     kind |-> "result", asked |-> NoNode]
    <2>3. Step(h, f)
      BY <1>3 DEF ReceiveResult
    <2>4. NamesAsker(f)
      BY DEF NamesAsker
    <2> QED BY <2>1, <2>2, <2>3, <2>4, QuietSerial
  <1>4. ASSUME NEW h \in Threads, NEW t \in Tasks, ReceiveRetry(h, t)
        PROVE  SerialFrames' /\ Trailed'
    <2>1. frame[h].at # "audit" /\ UNCHANGED <<tasks, trail, unaudited>>
      BY <1>4, IdleShape DEF ReceiveRetry
    <2> DEFINE f == [at |-> "reread", id |-> t]
    <2>2. Step(h, f) /\ NamesAsker(f)
      BY <1>4 DEF ReceiveRetry, NamesAsker
    <2> QED BY <2>1, <2>2, QuietSerial
  <1>5. ASSUME NEW h \in Threads, RereadForRetry(h) PROVE SerialFrames' /\ Trailed'
    <2> DEFINE t == frame[h].id
    <2>1. t \in Tasks /\ tasks[t] \in Row
      BY <1>5, FrameShape DEF RereadForRetry, Rereading, RereadExists, Exists, TypeOK
    <2>2. RetriedRow(tasks[t]).status # "assigned"
      BY <2>1 DEF RetriedRow, Row
    <2>3. frame[h].at # "audit" /\ UNCHANGED <<tasks, trail, unaudited>>
      BY <1>5 DEF RereadForRetry
    <2> DEFINE f == [at |-> "save", id |-> t, row |-> RetriedRow(tasks[t]),
                     kind |-> "retry_scheduled", asked |-> NoNode]
    <2>4. Step(h, f) /\ NamesAsker(f)
      BY <1>5 DEF RereadForRetry, NamesAsker
    <2> QED BY <2>2, <2>3, <2>4, QuietSerial
  <1>6. ASSUME NEW h \in Threads, SaveTask(h) PROVE SerialFrames' /\ Trailed'
    <2> DEFINE f == [frame[h] EXCEPT !.at = "audit"]
               t == frame[h].id
    <2>1. frame[h] \in Saving /\ t \in Tasks
      BY <1>6, FrameShape DEF SaveTask, Saving
    <2>2. /\ f.at = "audit" /\ f.id = t /\ f.row = frame[h].row
          /\ f.kind = frame[h].kind /\ f.asked = frame[h].asked
      BY <2>1 DEF Saving
    <2>3. /\ frame'[h] = f /\ \A g \in Threads : g # h => frame'[g] = frame[g]
          /\ ~overlapped' => ~overlapped /\ Alone(h)
          /\ unaudited' = unaudited /\ trail' = trail
          /\ tasks'[t] = frame[h].row /\ \A u \in Tasks : u # t => tasks'[u] = tasks[u]
      BY <1>6, <2>1, OneStep DEF SaveTask, TypeOK
    <2>4. f.at # "save"
      BY <2>2
    <2>5. SerialFrames'
      <3> SUFFICES ASSUME ~overlapped'
                   PROVE  /\ \A g, k \in Threads : Busy(g)' /\ Busy(k)' => g = k
                          /\ \A g \in Threads : frame'[g].at # "save"
                          /\ \A g \in Threads : frame'[g].at = "audit"
                                => tasks'[frame'[g].id] = frame'[g].row
                          /\ \A g \in Threads : NamesAsker(frame'[g])
        BY DEF SerialFrames
      <3>1. \A g \in Threads : g # h => frame'[g] = Idle
        BY <2>3 DEF Alone
      <3>2. tasks'[f.id] = f.row
        BY <2>2, <2>3
      <3>3. NamesAsker(f)
        <4>1. ~overlapped /\ frame[h].at = "save"
          BY <1>6, <2>3 DEF SaveTask
        <4>2. NamesAsker(frame[h])
          BY <4>1 DEF SerialFrames
        <4> HIDE DEF f
        <4> QED BY <2>2, <4>1, <4>2 DEF NamesAsker
      <3>4. \A g \in Threads : NamesAsker(frame'[g])
        BY <2>3, <3>1, <3>3, IdleNames
      <3> QED BY <2>3, <2>4, <3>1, <3>2, <3>4, IdleShape DEF Busy
    <2>6. Trailed'
      <3> SUFFICES ASSUME ~overlapped', NEW u \in Tasks \ unaudited',
                          \A g \in Threads : frame'[g].at = "audit" => frame'[g].id # u,
                          tasks'[u] # Absent
                   PROVE  Describes(trail'[u], tasks'[u])
        BY DEF Trailed, Described, Exists
      <3>1. u # t
        BY <2>2, <2>3
      <3>2. \A g \in Threads : frame[g].at # "audit"
        BY <1>6, <2>3, IdleShape DEF SaveTask, Alone
      <3> QED BY <2>3, <3>1, <3>2 DEF Trailed, Described, Exists
    <2> QED BY <2>5, <2>6
  <1>7. ASSUME NEW h \in Threads, AppendAudit(h) PROVE SerialFrames' /\ Trailed'
    <2> DEFINE t == frame[h].id
               event == EventOf(h)
    <2>1. frame[h] \in Auditing /\ t \in Tasks
      BY <1>7, FrameShape DEF AppendAudit, Auditing
    <2>2. /\ frame'[h] = Idle /\ \A g \in Threads : g # h => frame'[g] = frame[g]
          /\ ~overlapped' => ~overlapped /\ Alone(h)
          /\ unaudited' = unaudited \ {t} /\ tasks' = tasks
          /\ trail'[t] = event /\ \A u \in Tasks : u # t => trail'[u] = trail[u]
      BY <1>7, <2>1, OneStep DEF AppendAudit, TypeOK
    <2>3. SerialFrames'
      <3>1. ~overlapped' => \A g \in Threads : NamesAsker(frame'[g])
        BY <2>2, IdleNames DEF Alone
      <3> QED BY <2>2, <3>1, IdleShape DEF SerialFrames, Busy, Alone
    <2>4. ~overlapped' => Describes(event, tasks[t])
      <3>1. ~overlapped' => tasks[t] = frame[h].row /\ NamesAsker(frame[h])
        BY <1>7, <2>2 DEF SerialFrames, AppendAudit
      <3>2. /\ event.kind = frame[h].kind /\ event.row = frame[h].row
            /\ event.node = frame[h].asked /\ event # NoEvent
        BY DEF EventOf, NoEvent
      <3>3. frame[h].at = "audit"
        BY <1>7 DEF AppendAudit
      <3> HIDE DEF event
      <3> QED BY <3>1, <3>2, <3>3 DEF Describes, NamesAsker
    <2>5. Trailed'
      <3> SUFFICES ASSUME ~overlapped', NEW u \in Tasks \ unaudited'
                   PROVE  tasks[u] # Absent => Describes(trail'[u], tasks[u])
        BY <2>2 DEF Trailed, Described, Exists
      <3>1. CASE u = t
        BY <2>2, <2>4, <3>1
      <3>2. CASE u # t
        <4>1. \A g \in Threads : frame[g].at = "audit" => frame[g].id # u
          BY <2>2, <3>2, IdleShape DEF Alone
        <4> QED BY <2>2, <3>2, <4>1 DEF Trailed, Described, Exists
      <3> QED BY <3>1, <3>2
    <2> QED BY <2>3, <2>5
  <1>8. ASSUME NEW h \in Threads, FailRequest(h) PROVE SerialFrames' /\ Trailed'
    <2>1. /\ frame'[h] = Idle /\ \A g \in Threads : g # h => frame'[g] = frame[g]
          /\ ~overlapped' => ~overlapped /\ Alone(h)
          /\ UNCHANGED <<tasks, trail>> /\ unaudited' = unaudited \cup SavedBy({h})
      BY <1>8, OneStep DEF FailRequest
    <2>2. SerialFrames'
      <3>1. ~overlapped' => \A g \in Threads : NamesAsker(frame'[g])
        BY <2>1, IdleNames DEF Alone
      <3> QED BY <2>1, <3>1, IdleShape DEF SerialFrames, Busy, Alone
    <2>3. Trailed'
      <3> SUFFICES ASSUME ~overlapped', NEW u \in Tasks \ unaudited', tasks[u] # Absent
                   PROVE  Describes(trail[u], tasks[u])
        BY <2>1 DEF Trailed, Described, Exists
      <3>1. u \notin unaudited /\ u \notin SavedBy({h})
        BY <2>1
      <3>2. \A g \in Threads : frame[g].at = "audit" => frame[g].id # u
        BY <2>1, <3>1, IdleShape DEF Alone, SavedBy
      <3> QED BY <2>1, <3>1, <3>2 DEF Trailed, Described, Exists
    <2> QED BY <2>2, <2>3
  <1>9. CASE Restart
    <2>1. \A h \in Threads : frame'[h] = Idle /\ frame'[h].at = "idle"
      BY <1>9, IdleShape DEF Restart
    <2>2. SerialFrames'
      BY <2>1, IdleNames DEF SerialFrames, Busy
    <2>3. Trailed'
      <3> SUFFICES ASSUME ~overlapped, NEW u \in Tasks \ unaudited', tasks[u] # Absent
                   PROVE  Describes(trail[u], tasks[u])
        BY <1>9 DEF Restart, Trailed, Described, Exists
      <3>1. u \notin unaudited /\ u \notin SavedBy(Threads)
        BY <1>9 DEF Restart
      <3>2. \A g \in Threads : frame[g].at = "audit" => frame[g].id # u
        BY <3>1 DEF SavedBy
      <3> QED BY <3>1, <3>2 DEF Trailed, Described, Exists
    <2> QED BY <2>2, <2>3
  <1>10. CASE UNCHANGED vars
    BY <1>10 DEF vars, SerialFrames, Trailed, Described, Exists, Busy
  <1> QED
    BY <1>1, <1>2, <1>3, <1>4, <1>5, <1>6, <1>7, <1>8, <1>9, <1>10 DEF Next

LEMMA SpecSerial == Spec => []SerialInv
  <1>1. SerialInv /\ [Next]_vars => SerialInv'
    BY StepIInv, StepSerial DEF SerialInv
  <1> QED BY <1>1, InitSerial, PTL DEF Spec

\* As long as requests do not overlap, and wherever they raise or the server
\* dies: the last audit event about a task describes its row, unless the last
\* request that saved it never got to its event.
THEOREM AuditIsFaithful == Spec => []AuditReflectsTask
  <1>1. SerialInv => AuditReflectsTask
    BY IdleShape DEF SerialInv, Trailed, Described, AuditReflectsTask
  <1> QED BY <1>1, SpecSerial, PTL

\* Without overlap: a task that is assigned is handed to nobody else before a
\* result is posted for it.
NoSecondAssignment ==
    [][~overlapped' => \A t \in Tasks :
          tasks[t].status = "assigned" /\ tasks'[t].status = "assigned"
              => tasks'[t] = tasks[t]]_vars

\* As long as requests do not overlap, and wherever the server restarts, an
\* assigned task is handed out again only after a result.
THEOREM AssignedOnce == Spec => NoSecondAssignment
  <1> DEFINE Once == ~overlapped' => \A t \in Tasks :
                        tasks[t].status = "assigned" /\ tasks'[t].status = "assigned"
                            => tasks'[t] = tasks[t]
  <1>1. SerialInv /\ [Next]_vars => Once
    <2> SUFFICES ASSUME SerialInv, [Next]_vars, ~overlapped', NEW t \in Tasks,
                        tasks[t].status = "assigned", tasks'[t].status = "assigned"
                 PROVE  tasks'[t] = tasks[t]
      OBVIOUS
    <2>1. ASSUME NEW h \in Threads, NEW u \in Tasks, CreateTask(h, u)
          PROVE  tasks'[t] = tasks[t]
      <3>1. u # t
        BY <2>1 DEF CreateTask, Exists, Absent
      <3> QED BY <2>1, <3>1 DEF CreateTask, SerialInv, IInv, TypeOK
    <2>2. ASSUME NEW h \in Threads, SaveTask(h) PROVE tasks'[t] = tasks[t]
      <3>1. tasks' = [tasks EXCEPT ![frame[h].id] = frame[h].row] /\ ~overlapped
        BY <2>2 DEF SaveTask, Step
      <3>2. CASE frame[h].id = t
        BY <2>2, <3>1, <3>2 DEF SaveTask, SerialInv, SerialFrames, IInv, TypeOK
      <3>3. CASE frame[h].id # t
        BY <3>1, <3>3 DEF SerialInv, IInv, TypeOK
      <3> QED BY <3>2, <3>3
    <2>3. CASE UNCHANGED tasks
      BY <2>3
    <2> QED BY <2>1, <2>2, <2>3 DEF Next, SelectNext, ReceiveResult, ReceiveRetry,
               RereadForRetry, AppendAudit, FailRequest, Restart, vars
  <1>2. Spec => [][Once]_vars
    BY <1>1, SpecSerial, PTL DEF Spec
  <1> QED BY <1>2, PTL DEF NoSecondAssignment

-----------------------------------------------------------------------------
(* The queue implements the board.                                         *)

\* What a thread is about to save is the result of its operation on the row
\* as it is in the table: the next of those in line, handed out, ...
FreshSave(h) ==
    LET t == frame[h].id
        row == frame[h].row
    IN  \/ Servable(t) /\ \E n \in Nodes \cup {NoNode} : row = AssignedRow(tasks[t], n)
        \/ \E r \in Results : row = ResultRow(tasks[t], r)
        \/ row = RetriedRow(tasks[t])

\* Rows are never deleted, and as long as requests do not overlap nobody comes
\* between a read and the save it leads to.
SavesMatch ==
    /\ \A h \in Threads : frame[h].at = "save" => Exists(frame[h].id)
    /\ ~overlapped => \A h \in Threads : frame[h].at = "save" => FreshSave(h)

BoardInv == SerialInv /\ SavesMatch

\* The save of a row that exists is an operation of the board.
LEMMA SaveIsOperation ==
    ASSUME BoardInv, NEW h \in Threads, SaveTask(h)
    PROVE  Board!Next
  <1> DEFINE t == frame[h].id
             row == frame[h].row
  <1>1. frame[h] \in Saving /\ t \in Tasks /\ row \in Row
    BY FrameShape DEF BoardInv, SerialInv, IInv, SaveTask, Saving
  <1>2. tasks' = [tasks EXCEPT ![t] = row] /\ tasks'[t] = row
    BY <1>1 DEF SaveTask, BoardInv, SerialInv, IInv, TypeOK
  <1>3. tasks[t] # Board!Absent /\ tasks[t] \in Row /\ Exists(t)
    BY <1>1 DEF BoardInv, SavesMatch, SaveTask, Exists, SerialInv, IInv, TypeOK,
                Absent, Board!Absent
  <1>4. overlapped' \in {overlapped, TRUE} /\ overlapped \in BOOLEAN
    BY DEF SaveTask, Step, BoardInv, SerialInv, IInv, TypeOK
  <1>5. Board!Put(t, row)
    BY <1>2, <1>4 DEF Board!Put
  <1>6. CASE overlapped
    <2>1. row \in Board!Row
      BY <1>1 DEF Row, Board!Row, Results, Board!Results
    <2>2. Board!Served(row) => row.retry <= MaxRetries
      BY DEF SaveTask, BoardInv, SerialInv, IInv, ServedWithinBudget, Served, Board!Served
    <2> HIDE DEF row, t
    <2>3. Board!Put(t, tasks'[t])
      BY <1>2, <1>5
    <2>4. Board!Undo(t)
      BY <1>2, <1>3, <1>6, <2>1, <2>2, <2>3 DEF Board!Undo
    <2> QED BY <1>1, <2>4 DEF Board!Next
  <1>7. CASE ~overlapped
    <2>1. FreshSave(h)
      BY <1>7 DEF SaveTask, BoardInv, SavesMatch
    <2>2. ASSUME NEW n \in Nodes \cup {NoNode}, Servable(t), row = AssignedRow(tasks[t], n)
          PROVE  Board!Next
      <3>1. t \in Board!InLine /\ \A u \in Board!InLine : t <= u
        BY <2>2 DEF Servable, First, Candidates, Board!InLine
      <3>2. ~Board!Spent(tasks[t])
        BY <2>2 DEF Servable, Exhausted, Board!Spent
      <3>3. Board!HandOut(t, n)
        BY <1>5, <2>2, <3>1, <3>2 DEF AssignedRow, Board!HandOut
      <3> QED BY <1>1, <3>3 DEF Board!Next
    <2>3. ASSUME NEW r \in Results, row = ResultRow(tasks[t], r) PROVE Board!Next
      <3>1. Board!Finish(t, r)
        BY <1>3, <1>5, <2>3 DEF ResultRow, Board!Finish
      <3> QED BY <1>1, <3>1 DEF Results, Board!Results, Board!Next
    <2>4. ASSUME row = RetriedRow(tasks[t]) PROVE Board!Next
      <3>1. tasks[t].retry + 1 <= MaxRetries <=> tasks[t].retry < MaxRetries
        BY <1>3, ConstantsAssumption DEF Row, ConstantsAssumption
      <3>2. row = [tasks[t] EXCEPT !.status = IF tasks[t].retry < MaxRetries
                                              THEN "queued" ELSE "failed",
                                   !.retry = @ + 1]
        BY <2>4, <3>1 DEF RetriedRow
      <3> HIDE DEF row, t
      <3>3. Board!Retry(t)
        BY <1>3, <1>5, <3>2 DEF Board!Retry
      <3> QED BY <1>1, <3>3 DEF Board!Next
    <2> QED BY <2>1, <2>2, <2>3, <2>4 DEF FreshSave
  <1> QED BY <1>6, <1>7

\* A step of h to a frame about a row that exists, with the table as it is.
LEMMA ReadingKeepsBoard ==
    ASSUME BoardInv, NEW h \in Threads, NEW next, Step(h, next), UNCHANGED tasks,
           next.at = "save" => Exists(next.id),
           next.at = "save" /\ ~overlapped' => FreshSave(h)'
    PROVE  SavesMatch' /\ (Board!Contend \/ UNCHANGED Board!vars)
  <1>1. /\ frame'[h] = next /\ \A g \in Threads : g # h => frame'[g] = frame[g]
        /\ ~overlapped' => ~overlapped /\ Alone(h)
    BY OneStep DEF BoardInv, SerialInv, IInv
  <1>2. SavesMatch'
    <2>1. ASSUME NEW g \in Threads, frame'[g].at = "save"
          PROVE  tasks[frame'[g].id] # Absent
      BY <1>1, <2>1 DEF BoardInv, SavesMatch, Exists
    <2>2. ASSUME ~overlapped', NEW g \in Threads, frame'[g].at = "save"
          PROVE  FreshSave(g)'
      <3>1. g = h
        BY <1>1, <2>2, IdleShape DEF Alone
      <3> QED BY <1>1, <2>2, <3>1
    <2> QED BY <2>1, <2>2 DEF SavesMatch, Exists
  <1>3. overlapped' \in {overlapped, TRUE}
    BY DEF Step, BoardInv, SerialInv, IInv, TypeOK
  <1> QED BY <1>2, <1>3 DEF Board!Contend, Board!vars

\* Every step keeps the invariant and is an operation of the board, or none.
LEMMA StepBoard ==
    ASSUME BoardInv, [Next]_vars
    PROVE  SavesMatch' /\ [Board!Next]_(Board!vars)
  <1> DEFINE Kept == SavesMatch' /\ [Board!Next]_(Board!vars)
  <1>1. ASSUME NEW h \in Threads, NEW next, Step(h, next), UNCHANGED tasks,
               next.at = "save" => Exists(next.id),
               next.at = "save" /\ ~overlapped' => FreshSave(h)'
        PROVE  Kept
    BY <1>1, ReadingKeepsBoard DEF Board!Next
  <1> HIDE DEF Kept
  <1>2. ASSUME NEW h \in Threads, NEW t \in Tasks, CreateTask(h, t) PROVE Kept
    <2> DEFINE f == [at |-> "audit", id |-> t, row |-> NewRow, kind |-> "created", asked |-> NoNode]
    <2>1. /\ frame'[h] = f /\ \A g \in Threads : g # h => frame'[g] = frame[g]
          /\ ~overlapped' => ~overlapped /\ Alone(h)
          /\ tasks'[t] = NewRow /\ \A u \in Tasks : u # t => tasks'[u] = tasks[u]
      BY <1>2, OneStep DEF CreateTask, BoardInv, SerialInv, IInv, TypeOK
    <2>2. f.at # "save" /\ NewRow # Absent
      BY DEF NewRow, Absent
    <2>3. ASSUME NEW g \in Threads, frame'[g].at = "save"
          PROVE  tasks'[frame'[g].id] # Absent /\ overlapped'
      <3>1. g # h /\ frame'[g] = frame[g]
        BY <2>1, <2>2, <2>3
      <3>2. frame[g].id \in Tasks /\ tasks[frame[g].id] # Absent
        BY <2>3, <3>1, FrameShape DEF Saving, BoardInv, SavesMatch, Exists, SerialInv, IInv
      <3>3. overlapped'
        BY <2>1, <2>3, <3>1, IdleShape DEF Alone, BoardInv, SerialInv, IInv, TypeOK
      <3> QED BY <2>1, <2>2, <3>1, <3>2, <3>3
    <2>4. SavesMatch'
      BY <2>3 DEF SavesMatch, Exists
    <2>5. Board!Submit(t)
      <3>1. tasks[t] = Board!Absent /\ tasks' = [tasks EXCEPT ![t] = NewRow]
        BY <1>2 DEF CreateTask, Exists, Absent, Board!Absent
      <3>2. overlapped' \in {overlapped, TRUE}
        BY <1>2 DEF CreateTask, Step, BoardInv, SerialInv, IInv, TypeOK
      <3> QED BY <3>1, <3>2 DEF NewRow, Board!Put, Board!Submit
    <2> QED BY <2>4, <2>5 DEF Kept, Board!Next
  <1>3. ASSUME NEW h \in Threads, NEW n \in Nodes \cup {NoNode}, SelectNext(h, n) PROVE Kept
    <2>1. PICK t \in Tasks :
             /\ Servable(t)
             /\ Step(h, [at |-> "save", id |-> t, row |-> AssignedRow(tasks[t], n),
                         kind |-> "assigned", asked |-> n])
      BY <1>3 DEF SelectNext
    <2> DEFINE f == [at |-> "save", id |-> t, row |-> AssignedRow(tasks[t], n),
                     kind |-> "assigned", asked |-> n]
    <2>2. UNCHANGED tasks
      BY <1>3 DEF SelectNext
    <2>3. Exists(t)
      BY <2>1 DEF Servable, First, Candidates, Exists, Absent
    <2>4. frame'[h] = f
      BY <2>1, OneStep DEF BoardInv, SerialInv, IInv
    <2>5. Servable(t)'
      BY <2>1, <2>2 DEF Servable, First, Candidates
    <2>6. FreshSave(h)'
      BY <2>2, <2>4, <2>5 DEF FreshSave
    <2> QED BY <1>1, <2>1, <2>2, <2>3, <2>6
  <1>4. ASSUME NEW h \in Threads, NEW t \in Tasks, NEW r \in Results, ReceiveResult(h, t, r)
        PROVE  Kept
    <2> DEFINE f == [at |-> "save", id |-> t, row |-> ResultRow(tasks[t], r),
                     kind |-> "result", asked |-> NoNode]
    <2>1. Step(h, f) /\ UNCHANGED tasks /\ Exists(t)
      BY <1>4 DEF ReceiveResult
    <2>2. frame'[h] = f
      BY <2>1, OneStep DEF BoardInv, SerialInv, IInv
    <2>3. FreshSave(h)'
      BY <2>1, <2>2 DEF FreshSave
    <2> QED BY <1>1, <2>1, <2>3
  <1>5. ASSUME NEW h \in Threads, NEW t \in Tasks, ReceiveRetry(h, t) PROVE Kept
    <2>1. Step(h, [at |-> "reread", id |-> t]) /\ UNCHANGED tasks
      BY <1>5 DEF ReceiveRetry
    <2> QED BY <1>1, <2>1
  <1>6. ASSUME NEW h \in Threads, RereadForRetry(h) PROVE Kept
    <2> DEFINE t == frame[h].id
               f == [at |-> "save", id |-> t, row |-> RetriedRow(tasks[t]),
                     kind |-> "retry_scheduled", asked |-> NoNode]
    <2>1. Step(h, f) /\ UNCHANGED tasks /\ Exists(t)
      BY <1>6 DEF RereadForRetry, BoardInv, SerialInv, IInv, RereadExists
    <2>2. frame'[h] = f
      BY <2>1, OneStep DEF BoardInv, SerialInv, IInv
    <2>3. FreshSave(h)'
      BY <2>1, <2>2 DEF FreshSave
    <2> HIDE DEF t
    <2> QED BY <1>1, <2>1, <2>3
  <1>7. ASSUME NEW h \in Threads, SaveTask(h) PROVE Kept
    <2> DEFINE f == [frame[h] EXCEPT !.at = "audit"]
    <2>1. frame[h] \in Saving /\ frame[h].id \in Tasks /\ frame[h].row \in Row
      BY <1>7, FrameShape DEF SaveTask, Saving, BoardInv, SerialInv, IInv
    <2>2. f.at # "save" /\ frame[h].row # Absent
      BY <2>1 DEF Saving, Row, Absent
    <2>3. /\ frame'[h] = f /\ \A g \in Threads : g # h => frame'[g] = frame[g]
          /\ ~overlapped' => ~overlapped /\ Alone(h)
          /\ \A u \in Tasks : tasks'[u] \in {tasks[u], frame[h].row}
      BY <1>7, <2>1, OneStep DEF SaveTask, BoardInv, SerialInv, IInv, TypeOK
    <2> HIDE DEF f
    <2>4. ASSUME NEW g \in Threads, frame'[g].at = "save"
          PROVE  tasks'[frame'[g].id] # Absent /\ overlapped'
      <3>1. g # h /\ frame'[g] = frame[g]
        BY <2>2, <2>3, <2>4
      <3>2. frame[g].id \in Tasks /\ tasks[frame[g].id] # Absent
        BY <2>4, <3>1, FrameShape DEF Saving, BoardInv, SavesMatch, Exists, SerialInv, IInv
      <3>3. overlapped'
        BY <2>3, <2>4, <3>1, IdleShape DEF Alone
      <3> QED BY <2>2, <2>3, <3>1, <3>2, <3>3
    <2>5. SavesMatch'
      BY <2>4 DEF SavesMatch, Exists
    <2> QED BY <1>7, <2>5, SaveIsOperation DEF Kept
  <1>8. ASSUME NEW h \in Threads, AppendAudit(h) PROVE Kept
    BY <1>1, <1>8, IdleShape DEF AppendAudit
  <1>9. ASSUME NEW h \in Threads, FailRequest(h) PROVE Kept
    BY <1>1, <1>9, IdleShape DEF FailRequest
  <1>10. CASE Restart
    <2>1. SavesMatch'
      BY <1>10, IdleShape DEF Restart, SavesMatch
    <2> QED BY <1>10, <2>1 DEF Restart, Kept, Board!vars
  <1>11. CASE UNCHANGED vars
    <2>1. SavesMatch'
      BY <1>11 DEF vars, BoardInv, SavesMatch, FreshSave, Servable, First, Candidates, Exists
    <2> QED BY <1>11, <2>1 DEF vars, Kept, Board!vars
  <1> QED
    BY <1>2, <1>3, <1>4, <1>5, <1>6, <1>7, <1>8, <1>9, <1>10, <1>11 DEF Next, Kept

\* The table implements the board: a request takes effect when it saves its
\* row, everything else it does is a stutter or a contention.
THEOREM QueueImplementsBoard == Spec => ImplementsBoard
  <1>1. ASSUME Init PROVE BoardInv /\ Board!Init
    <2>1. \A h \in Threads : frame[h].at = "idle"
      BY <1>1, IdleShape DEF Init
    <2>2. SavesMatch
      BY <2>1 DEF SavesMatch
    <2> QED BY <1>1, <2>2, InitSerial DEF BoardInv, Init, Board!Init, Absent, Board!Absent
  <1>2. ASSUME BoardInv, [Next]_vars PROVE BoardInv' /\ [Board!Next]_(Board!vars)
    BY <1>2, StepIInv, StepSerial, StepBoard DEF BoardInv, SerialInv
  <1> QED BY <1>1, <1>2, PTL DEF Spec, ImplementsBoard, Board!Spec
-----------------------------------------------------------------------------
(* The agents on the queue, whatever dies and restarts.                    *)

AgentsTyped == agent \in [Nodes -> {Ready, Down} \cup Waiting \cup Working]

\* What an agent that executes a task holds.
LEMMA WorkingShape ==
    ASSUME AgentsTyped, NEW n \in Nodes, agent[n].at = "working"
    PROVE  agent[n].id \in Tasks /\ Holds(n, agent[n].id)
  <1>1. agent[n] \in Working
    BY DEF AgentsTyped, Ready, Down, Waiting, Working
  <1> QED BY <1>1 DEF Working, Holds

\* A step of the fleet is a step of the queue or none.
LEMMA FleetStepIsQueueStep ==
    ASSUME IInv, AgentsTyped, [FleetNext]_fleetVars PROVE [Next]_vars
  <1>1. ASSUME NEW n \in Nodes, Ask(n) PROVE Next
    BY <1>1 DEF Ask, Next
  <1>2. ASSUME NEW n \in Nodes, Post(n) PROVE Next
    BY <1>2, WorkingShape DEF Post, Outcomes, Results, Next
  <1>3. ASSUME NEW n \in Nodes, Die(n) \/ Start(n) PROVE UNCHANGED vars
    BY <1>3 DEF Die, Start
  <1>4. ASSUME NEW h \in Threads, Respond(h) \/ Save(h) \/ Reread(h) PROVE Next
    BY <1>4 DEF Respond, Save, Reread, Next
  <1>5. ASSUME NEW h \in Threads, FailResponse(h) PROVE Next
    BY <1>5 DEF FailResponse, Next
  <1>6. CASE Submit \/ Requeue \/ TakeUnnamed \/ ServerRestart
    BY <1>6 DEF Submit, Requeue, TakeUnnamed, ServerRestart, Next
  <1> QED BY <1>1, <1>2, <1>3, <1>4, <1>5, <1>6 DEF FleetNext, fleetVars

\* The agents keep their types.
LEMMA StepAgents == ASSUME IInv, AgentsTyped, [FleetNext]_fleetVars PROVE AgentsTyped'
  <1> USE DEF AgentsTyped
  <1>1. ASSUME NEW n \in Nodes, Ask(n) \/ Post(n) PROVE AgentsTyped'
    <2>1. \A h \in Threads : /\ [at |-> "asking", via |-> h] \in Waiting
                             /\ [at |-> "posting", via |-> h] \in Waiting
      BY DEF Waiting
    <2> QED BY <1>1, <2>1 DEF Ask, Post, Become
  <1>2. ASSUME NEW n \in Nodes, Die(n) \/ Start(n) PROVE AgentsTyped'
    BY <1>2 DEF Die, Start, Become
  <1>3. ASSUME NEW h \in Threads, Respond(h) PROVE AgentsTyped'
    <2>1. frame[h].id \in Tasks
      BY <1>3, FrameShape DEF Respond, AppendAudit, Auditing, IInv
    <2>2. [at |-> "working", id |-> frame[h].id] \in Working
      BY <2>1 DEF Working
    <2>3. \A n \in Nodes : agent'[n] \in {agent[n], Ready, [at |-> "working", id |-> frame[h].id]}
      BY <1>3 DEF Respond, AwaitsThread
    <2> QED BY <1>3, <2>2, <2>3 DEF Respond
  <1>4. ASSUME NEW h \in Threads, Save(h) \/ Reread(h) PROVE AgentsTyped'
    BY <1>4 DEF Save, Reread
  <1>5. CASE Submit \/ Requeue \/ TakeUnnamed \/ UNCHANGED fleetVars
    BY <1>5 DEF Submit, Requeue, TakeUnnamed, fleetVars
  <1>6. CASE ServerRestart \/ \E h \in Threads : FailResponse(h)
    BY <1>6 DEF ServerRestart, FailResponse
  <1> QED BY <1>1, <1>2, <1>3, <1>4, <1>5, <1>6 DEF FleetNext

LEMMA FleetAgents == FleetSpec => [](IInv /\ AgentsTyped)
  <1>1. FleetInit => IInv /\ AgentsTyped
    BY InitIInv DEF FleetInit, AgentsTyped
  <1>2. IInv /\ AgentsTyped /\ [FleetNext]_fleetVars => (IInv /\ AgentsTyped)'
    BY FleetStepIsQueueStep, StepIInv, StepAgents
  <1> QED BY <1>1, <1>2, PTL DEF FleetSpec

\* What is proved of the queue for any requests holds of the requests that
\* agents make, however they end and start.
THEOREM FleetKeepsQueue == FleetSpec => Spec
  <1>1. FleetInit => Init
    BY DEF FleetInit
  <1>2. IInv /\ AgentsTyped /\ [FleetNext]_fleetVars => [Next]_vars
    BY FleetStepIsQueueStep
  <1> QED BY <1>1, <1>2, FleetAgents, PTL DEF FleetSpec, Spec

\* A row of a task that can be executed only says "failed", in the table or in
\* the hands of a thread about to save it, when its retries are used up.
FailuresAreFinal ==
    \A t \in Tasks \ Poison :
        /\ tasks[t].status = "failed" => tasks[t].retry > MaxRetries
        /\ \A h \in Threads :
              frame[h].at = "save" /\ frame[h].id = t /\ frame[h].row.status = "failed"
                  => frame[h].row.retry > MaxRetries

\* A row a thread computes keeps it so.
LEMMA QuietFailures ==
    ASSUME TypeOK, FailuresAreFinal, NEW h \in Threads, NEW next, Step(h, next),
           UNCHANGED tasks,
           next.at = "save" /\ next.id \notin Poison /\ next.row.status = "failed"
               => next.row.retry > MaxRetries
    PROVE  FailuresAreFinal'
  BY OneStep DEF FailuresAreFinal

LEMMA StepFailures ==
    ASSUME IInv, AgentsTyped, FailuresAreFinal, [FleetNext]_fleetVars
    PROVE  FailuresAreFinal'
  <1> USE DEF IInv
  <1>1. ASSUME NEW h \in Threads, NEW n \in Nodes \cup {NoNode}, SelectNext(h, n)
        PROVE  FailuresAreFinal'
    <2>2. PICK t \in Tasks :
             /\ Servable(t)
             /\ Step(h, [at |-> "save", id |-> t, row |-> AssignedRow(tasks[t], n),
                         kind |-> "assigned", asked |-> n])
      BY <1>1 DEF SelectNext
    <2>3. tasks[t] \in Row
      BY <2>2 DEF Servable, First, Candidates, TypeOK, Absent
    <2>4. AssignedRow(tasks[t], n).status # "failed"
      BY <2>3 DEF AssignedRow, Row
    <2> QED BY <1>1, <2>2, <2>4, QuietFailures DEF SelectNext
  <1>2. ASSUME NEW n \in Nodes, Post(n) PROVE FailuresAreFinal'
    <2> DEFINE t == agent[n].id
    <2>1. PICK h \in Threads, r \in Outcomes(t) : ReceiveResult(h, t, r)
      BY <1>2 DEF Post
    <2>2. t \in Tasks /\ tasks[t] \in Row
      BY <1>2, <2>1, WorkingShape DEF Post, ReceiveResult, Exists, TypeOK
    <2>3. t \notin Poison => ResultRow(tasks[t], r).status # "failed"
      BY <2>1, <2>2 DEF Outcomes, ResultRow, Row
    <2>4. Step(h, [at |-> "save", id |-> t, row |-> ResultRow(tasks[t], r), kind |-> "result", asked |-> NoNode])
      BY <2>1 DEF ReceiveResult
    <2> QED BY <2>1, <2>3, <2>4, QuietFailures DEF ReceiveResult
  <1>3. ASSUME NEW h \in Threads, Respond(h) PROVE FailuresAreFinal'
    <2>1. Step(h, Idle) /\ UNCHANGED tasks
      BY <1>3 DEF Respond, AppendAudit
    <2> QED BY <2>1, IdleShape, QuietFailures
  <1>4. ASSUME NEW h \in Threads, Save(h) PROVE FailuresAreFinal'
    <2> DEFINE f == [frame[h] EXCEPT !.at = "audit"]
    <2>1. SaveTask(h) /\ frame[h] \in Saving
      BY <1>4, FrameShape DEF Save, SaveTask
    <2>2. f.at = "audit"
      BY <2>1 DEF Saving
    <2>3. /\ frame'[h] = f /\ \A g \in Threads : g # h => frame'[g] = frame[g]
          /\ tasks' = [tasks EXCEPT ![frame[h].id] = frame[h].row]
      BY <2>1, OneStep DEF SaveTask
    <2>4. /\ tasks'[frame[h].id] = frame[h].row
          /\ \A t \in Tasks : t # frame[h].id => tasks'[t] = tasks[t]
      BY <2>1, <2>3 DEF Saving, TypeOK
    <2>5. \A t \in Tasks \ Poison : tasks'[t].status = "failed" => tasks'[t].retry > MaxRetries
      BY <2>1, <2>4 DEF FailuresAreFinal, SaveTask
    <2>6. \A g \in Threads : frame'[g].at = "save" => frame'[g] = frame[g]
      BY <2>2, <2>3
    <2> QED BY <2>5, <2>6 DEF FailuresAreFinal
  <1>5. ASSUME NEW h \in Threads, Reread(h) PROVE FailuresAreFinal'
    <2> DEFINE t == frame[h].id
    <2>1. RereadForRetry(h) /\ t \in Tasks /\ tasks[t] \in Row
      BY <1>5, FrameShape DEF Reread, RereadForRetry, Rereading, RereadExists, Exists, TypeOK
    <2>2. RetriedRow(tasks[t]).status = "failed" => RetriedRow(tasks[t]).retry > MaxRetries
      BY <2>1, ConstantsAssumption DEF RetriedRow, Row, ConstantsAssumption
    <2>3. Step(h, [at |-> "save", id |-> t, row |-> RetriedRow(tasks[t]),
                   kind |-> "retry_scheduled", asked |-> NoNode])
      BY <2>1 DEF RereadForRetry
    <2> QED BY <2>1, <2>2, <2>3, QuietFailures DEF RereadForRetry
  <1>6. ASSUME NEW h \in Threads, NEW t \in Tasks, CreateTask(h, t) PROVE FailuresAreFinal'
    <2> DEFINE f == [at |-> "audit", id |-> t, row |-> NewRow, kind |-> "created", asked |-> NoNode]
    <2>1. /\ frame'[h] = f /\ \A g \in Threads : g # h => frame'[g] = frame[g]
          /\ tasks' = [tasks EXCEPT ![t] = NewRow]
      BY <1>6, OneStep DEF CreateTask
    <2> QED BY <2>1 DEF FailuresAreFinal, TypeOK, NewRow
  <1>7. ASSUME NEW h \in Threads, NEW t \in Tasks, ReceiveRetry(h, t) PROVE FailuresAreFinal'
    <2>1. Step(h, [at |-> "reread", id |-> t]) /\ UNCHANGED tasks
      BY <1>7 DEF ReceiveRetry
    <2> QED BY <2>1, QuietFailures
  <1>8. ASSUME NEW h \in Threads, FailResponse(h) PROVE FailuresAreFinal'
    <2>1. Step(h, Idle) /\ UNCHANGED tasks
      BY <1>8 DEF FailResponse, FailRequest
    <2> QED BY <2>1, IdleShape, QuietFailures
  <1>9. CASE ServerRestart
    BY <1>9, IdleShape DEF ServerRestart, Restart, FailuresAreFinal
  <1>10. CASE UNCHANGED vars
    BY <1>10 DEF vars, FailuresAreFinal
  <1> QED BY <1>1, <1>2, <1>3, <1>4, <1>5, <1>6, <1>7, <1>8, <1>9, <1>10
          DEF FleetNext, Ask, Submit, Requeue, TakeUnnamed, Die, Start, fleetVars

\* However requests overlap, time out and repeat, and whatever restarts: a task
\* that can be executed ends as failed only when operators have retried it
\* beyond its budget.
THEOREM FailuresHaveReasons == FleetSpec => []FailedForAReason
  <1>1. FleetInit => FailuresAreFinal
    <2> SUFFICES ASSUME FleetInit PROVE FailuresAreFinal
      OBVIOUS
    <2>1. \A t \in Tasks : tasks[t].status = "absent"
      BY DEF FleetInit, Init, Absent
    <2>2. \A h \in Threads : frame[h].at = "idle"
      BY IdleShape DEF FleetInit, Init
    <2> QED BY <2>1, <2>2 DEF FailuresAreFinal
  <1>2. FailuresAreFinal => FailedForAReason
    BY DEF FailuresAreFinal, FailedForAReason
  <1> QED BY <1>1, <1>2, StepFailures, FleetAgents, PTL DEF FleetSpec
-----------------------------------------------------------------------------
(* Agents that do not fail, on requests that overlap.                      *)

Asks(n, h) == agent[n].at = "asking" /\ agent[n].via = h
Posts(n, h) == agent[n].at = "posting" /\ agent[n].via = h

\* Agent n executes t, will execute it once it hears of it, or has executed it
\* and its result is about to be saved.
Minds(n, t) ==
    \/ Holds(n, t)
    \/ \E h \in Threads : /\ frame[h].id = t
                          /\ \/ Asks(n, h) /\ frame[h].at = "audit"
                             \/ Posts(n, h) /\ frame[h].at = "save"

\* Every assigned row has somebody who minds it, and every request that
\* assigns one an agent that waits for the answer.
Minded ==
    /\ \A t \in Tasks : tasks[t].status = "assigned" => \E n \in Nodes : Minds(n, t)
    /\ \A h \in Threads : frame[h].at = "save" =>
          IF frame[h].kind = "assigned" THEN \E n \in Nodes : Asks(n, h)
          ELSE frame[h].row.status # "assigned"

\* What agents and threads do in different states of theirs excludes.
LEMMA AgentShapes ==
    ASSUME NEW n \in Nodes
    PROVE  /\ agent[n] = Ready => agent[n].at = "ready"
           /\ agent[n] = Down => agent[n].at = "down"
           /\ \A t \in Tasks : Holds(n, t) => agent[n].at = "working" /\ agent[n].id = t
  BY DEF Ready, Down, Holds

\* A step of thread h that touches no row: who minded a task still does, if
\* h was neither about to save nor about to answer.
LEMMA QuietMinded ==
    ASSUME TypeOK, Minded, NEW h \in Threads, NEW next, Step(h, next),
           UNCHANGED <<tasks, agent>>,
           frame[h].at \notin {"save", "audit"},
           next.at = "save" => next.kind # "assigned" /\ next.row.status # "assigned"
    PROVE  Minded'
  <1>1. frame'[h] = next /\ \A g \in Threads : g # h => frame'[g] = frame[g]
    BY OneStep
  <1>2. \A n \in Nodes, g \in Threads : /\ Asks(n, g)' <=> Asks(n, g)
                                        /\ Posts(n, g)' <=> Posts(n, g)
    BY DEF Asks, Posts
  <1>3. \A n \in Nodes, t \in Tasks : Minds(n, t) => Minds(n, t)'
    BY <1>1, <1>2 DEF Minds, Holds
  <1>4. \A t \in Tasks : tasks'[t].status = "assigned" => \E n \in Nodes : Minds(n, t)'
    BY <1>3 DEF Minded
  <1>5. \A g \in Threads : frame'[g].at = "save" =>
           IF frame'[g].kind = "assigned" THEN \E n \in Nodes : Asks(n, g)'
           ELSE frame'[g].row.status # "assigned"
    BY <1>1, <1>2 DEF Minded
  <1> QED BY <1>4, <1>5 DEF Minded

\* What the response of a thread makes of the agents.
LEMMA RespondAgents ==
    ASSUME NEW h \in Threads, Respond(h), NEW n \in Nodes
    PROVE  /\ Asks(n, h) => agent'[n] = [at |-> "working", id |-> frame[h].id]
           /\ Posts(n, h) => agent'[n] = Ready
           /\ ~AwaitsThread(n, h) => agent'[n] = agent[n]
  BY DEF Respond, Asks, Posts, AwaitsThread

LEMMA StepMinded ==
    ASSUME ~AgentsMayDie, ~ServerMayFail, IInv, AgentsTyped, Minded, [FleetNext]_fleetVars
    PROVE  Minded'
  <1> USE DEF IInv
  <1>1. ASSUME NEW n \in Nodes, Ask(n) PROVE Minded'
    <2>1. PICK h \in Threads : SelectNext(h, n) /\ Become(n, [at |-> "asking", via |-> h])
      BY <1>1 DEF Ask
    <2>2. PICK f : Step(h, f) /\ f.at = "save" /\ f.kind = "assigned"
      BY <2>1 DEF SelectNext
    <2>3. /\ frame'[h] = f /\ \A g \in Threads : g # h => frame'[g] = frame[g]
          /\ tasks' = tasks /\ frame[h].at = "idle"
      BY <2>1, <2>2, OneStep, IdleShape DEF SelectNext
    <2>4. /\ agent'[n] = [at |-> "asking", via |-> h] /\ agent[n].at = "ready"
          /\ \A m \in Nodes : m # n => agent'[m] = agent[m]
      BY <1>1, <2>1, AgentShapes DEF Ask, Become, AgentsTyped
    <2>5. \A m \in Nodes, t \in Tasks : Minds(m, t) => Minds(m, t)'
      <3> SUFFICES ASSUME NEW m \in Nodes, NEW t \in Tasks, Minds(m, t) PROVE Minds(m, t)'
        OBVIOUS
      <3>1. m # n
        BY <2>4, AgentShapes DEF Minds, Asks, Posts
      <3> QED BY <2>3, <2>4, <3>1 DEF Minds, Asks, Posts, Holds
    <2>6. \A g \in Threads : (\E m \in Nodes : Asks(m, g)) => \E m \in Nodes : Asks(m, g)'
      BY <2>4 DEF Asks
    <2>7. Asks(n, h)'
      BY <2>4 DEF Asks
    <2> QED BY <2>2, <2>3, <2>5, <2>6, <2>7 DEF Minded
  <1>2. ASSUME NEW n \in Nodes, Post(n) PROVE Minded'
    <2> DEFINE t == agent[n].id
    <2>1. PICK h \in Threads, r \in Outcomes(t) :
             ReceiveResult(h, t, r) /\ Become(n, [at |-> "posting", via |-> h])
      BY <1>2 DEF Post
    <2> DEFINE f == [at |-> "save", id |-> t, row |-> ResultRow(tasks[t], r), kind |-> "result", asked |-> NoNode]
    <2>2. /\ frame'[h] = f /\ \A g \in Threads : g # h => frame'[g] = frame[g]
          /\ tasks' = tasks /\ frame[h].at = "idle"
      BY <2>1, OneStep, IdleShape DEF ReceiveResult
    <2>3. /\ agent'[n] = [at |-> "posting", via |-> h] /\ agent[n].at = "working"
          /\ \A m \in Nodes : m # n => agent'[m] = agent[m]
      BY <1>2, <2>1 DEF Post, Become, AgentsTyped
    <2>4. f.row.status # "assigned"
      <3>1. tasks[t] \in Row
        BY <1>2, <2>1, WorkingShape DEF Post, ReceiveResult, Exists, TypeOK
      <3> QED BY <3>1 DEF Outcomes, ResultRow, Row
    <2>5. \A m \in Nodes, u \in Tasks : Minds(m, u) => Minds(m, u)'
      <3> SUFFICES ASSUME NEW m \in Nodes, NEW u \in Tasks, Minds(m, u) PROVE Minds(m, u)'
        OBVIOUS
      <3>1. CASE m = n
        <4>1. u = t
          BY <2>3, <3>1, AgentShapes DEF Minds, Asks, Posts
        <4>2. frame'[h].id = u /\ frame'[h].at = "save" /\ Posts(m, h)'
          BY <2>2, <2>3, <3>1, <4>1 DEF Posts
        <4> QED BY <4>2 DEF Minds
      <3>2. CASE m # n
        BY <2>2, <2>3, <3>2 DEF Minds, Asks, Posts, Holds
      <3> QED BY <3>1, <3>2
    <2>6. \A g \in Threads : (\E m \in Nodes : Asks(m, g)) => \E m \in Nodes : Asks(m, g)'
      BY <2>3 DEF Asks
    <2> QED BY <2>2, <2>4, <2>5, <2>6 DEF Minded
  <1>3. ASSUME NEW h \in Threads, Respond(h) PROVE Minded'
    <2>1. /\ frame'[h] = Idle /\ \A g \in Threads : g # h => frame'[g] = frame[g]
          /\ tasks' = tasks /\ frame[h].at = "audit"
      BY <1>3, OneStep DEF Respond, AppendAudit
    <2>2. \A n \in Nodes : /\ Asks(n, h) => agent'[n] = [at |-> "working", id |-> frame[h].id]
                           /\ ~AwaitsThread(n, h) => agent'[n] = agent[n]
      BY <1>3, RespondAgents
    <2>3. \A m \in Nodes, t \in Tasks : Minds(m, t) => Minds(m, t)'
      <3> SUFFICES ASSUME NEW m \in Nodes, NEW t \in Tasks, Minds(m, t) PROVE Minds(m, t)'
        OBVIOUS
      <3>1. CASE Holds(m, t)
        <4>1. agent'[m] = agent[m]
          BY <2>2, <3>1, AgentShapes DEF AwaitsThread
        <4> QED BY <3>1, <4>1 DEF Minds, Holds
      <3>2. CASE Asks(m, h)
        <4>1. frame[h].id = t
          BY <3>2, AgentShapes DEF Minds, Asks, Posts
        <4> QED BY <2>2, <3>2, <4>1 DEF Minds, Holds
      <3>3. ASSUME NEW g \in Threads, g # h, frame[g].id = t,
                   \/ Asks(m, g) /\ frame[g].at = "audit"
                   \/ Posts(m, g) /\ frame[g].at = "save"
            PROVE  Minds(m, t)'
        <4>1. agent'[m] = agent[m]
          BY <2>2, <3>3 DEF AwaitsThread, Asks, Posts
        <4> QED BY <2>1, <3>3, <4>1 DEF Minds, Asks, Posts
      <3> QED BY <2>1, <3>1, <3>2, <3>3 DEF Minds
    <2>4. \A g \in Threads, m \in Nodes : g # h /\ Asks(m, g) => Asks(m, g)'
      BY <2>2 DEF Asks, AwaitsThread
    <2> QED BY <2>1, <2>3, <2>4, IdleShape DEF Minded
  <1>4. ASSUME NEW h \in Threads, Save(h) PROVE Minded'
    <2> DEFINE f == [frame[h] EXCEPT !.at = "audit"]
               t == frame[h].id
    <2>1. SaveTask(h) /\ frame[h] \in Saving /\ t \in Tasks /\ agent' = agent
      BY <1>4, FrameShape DEF Save, SaveTask, Saving
    <2>2. f.at = "audit" /\ f.id = t
      BY <2>1 DEF Saving
    <2>3. /\ frame'[h] = f /\ \A g \in Threads : g # h => frame'[g] = frame[g]
          /\ tasks'[t] = frame[h].row /\ \A u \in Tasks : u # t => tasks'[u] = tasks[u]
      BY <2>1, OneStep DEF SaveTask, TypeOK
    <2>4. \A n \in Nodes, g \in Threads : /\ Asks(n, g)' <=> Asks(n, g)
                                          /\ Posts(n, g)' <=> Posts(n, g)
      BY <2>1 DEF Asks, Posts
    <2>5. \A n \in Nodes, u \in Tasks : u # t /\ Minds(n, u) => Minds(n, u)'
      BY <2>1, <2>3, <2>4 DEF Minds, Holds
    <2>6. tasks'[t].status = "assigned" => \E n \in Nodes : Minds(n, t)'
      <3> SUFFICES ASSUME frame[h].row.status = "assigned" PROVE \E n \in Nodes : Minds(n, t)'
        BY <2>3
      <3>1. PICK n \in Nodes : Asks(n, h)
        BY <2>1 DEF Minded, SaveTask
      <3>2. Asks(n, h)' /\ frame'[h].at = "audit" /\ frame'[h].id = t
        BY <2>2, <2>3, <2>4, <3>1
      <3>3. Minds(n, t)'
        BY <3>2 DEF Minds
      <3> QED BY <3>3
    <2>7. \A u \in Tasks : tasks'[u].status = "assigned" => \E n \in Nodes : Minds(n, u)'
      BY <2>3, <2>5, <2>6 DEF Minded
    <2>8. \A g \in Threads : frame'[g].at = "save" => frame'[g] = frame[g] /\ frame[g].at = "save"
      BY <2>2, <2>3
    <2> QED BY <2>4, <2>7, <2>8 DEF Minded
  <1>5. ASSUME NEW h \in Threads, Reread(h) PROVE Minded'
    <2> DEFINE t == frame[h].id
    <2>1. RereadForRetry(h) /\ t \in Tasks /\ tasks[t] \in Row
      BY <1>5, FrameShape DEF Reread, RereadForRetry, Rereading, RereadExists, Exists, TypeOK
    <2>2. RetriedRow(tasks[t]).status # "assigned"
      BY <2>1 DEF RetriedRow, Row
    <2>3. Step(h, [at |-> "save", id |-> t, row |-> RetriedRow(tasks[t]),
                   kind |-> "retry_scheduled", asked |-> NoNode])
      BY <2>1 DEF RereadForRetry
    <2> QED BY <1>5, <2>1, <2>2, <2>3, QuietMinded DEF Reread, RereadForRetry
  <1>6. ASSUME NEW h \in Threads, NEW t \in Tasks, CreateTask(h, t), UNCHANGED agent
        PROVE  Minded'
    <2> DEFINE f == [at |-> "audit", id |-> t, row |-> NewRow, kind |-> "created", asked |-> NoNode]
    <2>1. /\ frame'[h] = f /\ \A g \in Threads : g # h => frame'[g] = frame[g]
          /\ tasks'[t] = NewRow /\ \A u \in Tasks : u # t => tasks'[u] = tasks[u]
          /\ frame[h].at = "idle"
      BY <1>6, OneStep, IdleShape DEF CreateTask, TypeOK
    <2>2. \A n \in Nodes, g \in Threads : /\ Asks(n, g)' <=> Asks(n, g)
                                          /\ Posts(n, g)' <=> Posts(n, g)
      BY <1>6 DEF Asks, Posts
    <2>3. \A n \in Nodes, u \in Tasks : Minds(n, u) => Minds(n, u)'
      BY <1>6, <2>1, <2>2 DEF Minds, Holds
    <2>4. \A u \in Tasks : tasks'[u].status = "assigned" => \E n \in Nodes : Minds(n, u)'
      BY <2>1, <2>3 DEF Minded, NewRow
    <2> QED BY <2>1, <2>2, <2>4 DEF Minded
  <1>7. ASSUME NEW h \in Threads, NEW t \in Tasks, ReceiveRetry(h, t), UNCHANGED agent
        PROVE  Minded'
    <2>1. Step(h, [at |-> "reread", id |-> t]) /\ UNCHANGED tasks /\ frame[h].at = "idle"
      BY <1>7, IdleShape DEF ReceiveRetry
    <2> QED BY <1>7, <2>1, QuietMinded
  <1>8. ASSUME NEW n \in Nodes, Start(n) PROVE Minded'
    <2>1. /\ agent'[n].at = "ready" /\ agent[n].at = "down" /\ UNCHANGED vars
          /\ \A m \in Nodes : m # n => agent'[m] = agent[m]
      BY <1>8, AgentShapes DEF Start, Become, AgentsTyped, Ready
    <2>2. \A m \in Nodes, t \in Tasks : Minds(m, t) => Minds(m, t)'
      <3> SUFFICES ASSUME NEW m \in Nodes, NEW t \in Tasks, Minds(m, t) PROVE Minds(m, t)'
        OBVIOUS
      <3>1. m # n
        BY <2>1, AgentShapes DEF Minds, Asks, Posts
      <3> QED BY <2>1, <3>1 DEF Minds, Asks, Posts, Holds, vars
    <2>3. \A g \in Threads, m \in Nodes : Asks(m, g) => Asks(m, g)'
      BY <2>1 DEF Asks
    <2> QED BY <2>1, <2>2, <2>3 DEF Minded, vars
  <1>9. CASE UNCHANGED fleetVars
    BY <1>9 DEF fleetVars, vars, Minded, Minds, Asks, Posts, Holds
  <1> QED BY <1>1, <1>2, <1>3, <1>4, <1>5, <1>6, <1>7, <1>8, <1>9
          DEF FleetNext, Submit, Requeue, TakeUnnamed, FailResponse, FailRequest, Die,
              ServerRestart, Restart

\* As long as agents and server do not fail, however requests overlap: no task
\* is assigned that no agent executes, learns of, or posts the result of.
THEOREM NoTaskIsLost ==
    ASSUME ~AgentsMayDie, ~ServerMayFail
    PROVE  FleetSpec => []AssignedHasHolder
  <1>1. FleetInit => Minded
    <2> SUFFICES ASSUME FleetInit PROVE Minded
      OBVIOUS
    <2>1. \A t \in Tasks : tasks[t].status = "absent"
      BY DEF FleetInit, Init, Absent
    <2>2. \A h \in Threads : frame[h].at = "idle"
      BY IdleShape DEF FleetInit, Init
    <2> QED BY <2>1, <2>2 DEF Minded
  <1>2. IInv /\ AgentsTyped /\ Minded /\ [FleetNext]_fleetVars => Minded'
    BY StepMinded
  <1>3. Minded => AssignedHasHolder
    BY IdleShape DEF Minded, Minds, AssignedHasHolder, ServedVia, AwaitsThread, Asks, Posts
  <1> QED BY <1>1, <1>2, <1>3, FleetAgents, PTL DEF FleetSpec
-----------------------------------------------------------------------------
(* Agents that do not fail, on requests that do not overlap.               *)

\* A thread that an agent waits for with GET /tasks/next has that agent's row.
AsksMatch ==
    \A n \in Nodes, h \in Threads : Asks(n, h) =>
        /\ frame[h].at \in {"save", "audit"} /\ frame[h].kind = "assigned"
        /\ frame[h].row.status = "assigned" /\ frame[h].row.node = n

\* Nobody requeues a task; a task is executed by the node of its row, and by
\* nobody once its result is about to be saved.
Matched ==
    /\ AsksMatch
    /\ \A h \in Threads : frame[h].at # "reread"
    /\ ~overlapped =>
          /\ \A n \in Nodes, t \in Tasks :
                Holds(n, t) => tasks[t].status = "assigned" /\ tasks[t].node = n
          /\ \A h \in Threads : frame[h].at = "save" /\ frame[h].kind # "assigned" =>
                /\ tasks[frame[h].id].status = "assigned"
                /\ \A n \in Nodes : ~Holds(n, frame[h].id)

LEMMA StepMatched ==
    ASSUME ~AgentsMayDie, ~ServerMayFail, ~OperatorRetries,
           SerialInv, AgentsTyped, Matched, [FleetNext]_fleetVars
    PROVE  Matched'
  <1> USE DEF SerialInv, IInv
  <1>1. ASSUME NEW n \in Nodes, Ask(n) PROVE Matched'
    <2>1. PICK h \in Threads : SelectNext(h, n) /\ Become(n, [at |-> "asking", via |-> h])
      BY <1>1 DEF Ask
    <2>2. PICK t \in Tasks :
             /\ Servable(t)
             /\ Step(h, [at |-> "save", id |-> t, row |-> AssignedRow(tasks[t], n),
                         kind |-> "assigned", asked |-> n])
      BY <2>1 DEF SelectNext
    <2> DEFINE f == [at |-> "save", id |-> t, row |-> AssignedRow(tasks[t], n),
                     kind |-> "assigned", asked |-> n]
    <2>3. /\ frame'[h] = f /\ \A g \in Threads : g # h => frame'[g] = frame[g]
          /\ ~overlapped' => ~overlapped /\ Alone(h)
          /\ tasks' = tasks /\ frame[h].at = "idle"
      BY <2>1, <2>2, OneStep, IdleShape DEF SelectNext
    <2>4. /\ agent'[n] = [at |-> "asking", via |-> h]
          /\ \A m \in Nodes : m # n => agent'[m] = agent[m]
      BY <2>1 DEF Become, AgentsTyped
    <2>5. f.row.status = "assigned" /\ f.row.node = n
      <3>1. tasks[t] \in Row /\ n # NoNode
        BY <2>2, ConstantsAssumption
           DEF Servable, First, Candidates, TypeOK, Absent, ConstantsAssumption
      <3> QED BY <3>1 DEF AssignedRow, Row
    <2>6. AsksMatch'
      <3> SUFFICES ASSUME NEW m \in Nodes, NEW g \in Threads, Asks(m, g)'
                   PROVE  /\ frame'[g].at \in {"save", "audit"} /\ frame'[g].kind = "assigned"
                          /\ frame'[g].row.status = "assigned" /\ frame'[g].row.node = m
        BY DEF AsksMatch
      <3>1. CASE m = n
        BY <2>3, <2>4, <2>5, <3>1 DEF Asks
      <3>2. CASE m # n
        <4>1. Asks(m, g)
          BY <2>4, <3>2 DEF Asks
        <4> QED BY <2>3, <4>1 DEF Matched, AsksMatch
      <3> QED BY <3>1, <3>2
    <2>7. \A m \in Nodes, u \in Tasks : Holds(m, u)' => Holds(m, u)
      BY <2>4 DEF Holds
    <2>8. ~overlapped' => \A m \in Nodes, u \in Tasks :
             Holds(m, u)' => tasks'[u].status = "assigned" /\ tasks'[u].node = m
      BY <2>3, <2>7 DEF Matched
    <2>9. ~overlapped' => \A g \in Threads : frame'[g].at = "save" => frame'[g].kind = "assigned"
      BY <2>3, IdleShape DEF Alone
    <2>10. \A g \in Threads : frame'[g].at # "reread"
      BY <2>3 DEF Matched
    <2> QED BY <2>6, <2>8, <2>9, <2>10 DEF Matched
  <1>2. ASSUME NEW n \in Nodes, Post(n) PROVE Matched'
    <2> DEFINE t == agent[n].id
    <2>1. PICK h \in Threads, r \in Outcomes(t) :
             ReceiveResult(h, t, r) /\ Become(n, [at |-> "posting", via |-> h])
      BY <1>2 DEF Post
    <2> DEFINE f == [at |-> "save", id |-> t, row |-> ResultRow(tasks[t], r), kind |-> "result", asked |-> NoNode]
    <2>2. /\ frame'[h] = f /\ \A g \in Threads : g # h => frame'[g] = frame[g]
          /\ ~overlapped' => ~overlapped /\ Alone(h)
          /\ tasks' = tasks /\ frame[h].at = "idle"
      BY <2>1, OneStep, IdleShape DEF ReceiveResult
    <2>3. /\ agent'[n] = [at |-> "posting", via |-> h]
          /\ \A m \in Nodes : m # n => agent'[m] = agent[m]
          /\ t \in Tasks /\ Holds(n, t)
      BY <1>2, <2>1, WorkingShape DEF Post, Become, AgentsTyped
    <2>4. AsksMatch'
      <3> SUFFICES ASSUME NEW m \in Nodes, NEW g \in Threads, Asks(m, g)'
                   PROVE  /\ Asks(m, g) /\ g # h
        BY <2>2 DEF AsksMatch, Matched
      <3>1. m # n /\ Asks(m, g)
        BY <2>3 DEF Asks
      <3> QED BY <2>2, <3>1 DEF Matched, AsksMatch
    <2>5. \A m \in Nodes, u \in Tasks : Holds(m, u)' => Holds(m, u) /\ m # n
      BY <2>3 DEF Holds
    <2>6. ~overlapped => tasks[t].status = "assigned" /\ \A m \in Nodes : Holds(m, t) => m = n
      BY <2>3 DEF Matched
    <2>7. ~overlapped' => \A g \in Threads : frame'[g].at = "save" => g = h
      BY <2>2, IdleShape DEF Alone
    <2>8. ~overlapped' => \A m \in Nodes, u \in Tasks :
             Holds(m, u)' => u # t /\ tasks'[u].status = "assigned" /\ tasks'[u].node = m
      <3> SUFFICES ASSUME ~overlapped', NEW m \in Nodes, NEW u \in Tasks, Holds(m, u)'
                   PROVE  u # t /\ tasks'[u].status = "assigned" /\ tasks'[u].node = m
        OBVIOUS
      <3>1. Holds(m, u) /\ m # n
        BY <2>5
      <3>2. u # t
        BY <2>2, <2>6, <3>1
      <3> QED BY <2>2, <3>1, <3>2 DEF Matched
    <2>9. ~overlapped' => tasks'[t].status = "assigned"
      BY <2>2, <2>6
    <2>10. \A g \in Threads : frame'[g].at # "reread"
      BY <2>2 DEF Matched
    <2>11. frame'[h].id = t
      BY <2>2
    <2>12. \A m \in Nodes : Holds(m, frame[h].id)' => \E u \in Tasks : u = t /\ Holds(m, u)'
      BY <2>3, <2>11 DEF Holds
    <2> QED BY <2>4, <2>7, <2>8, <2>9, <2>10, <2>11, <2>12 DEF Matched
  <1>3. ASSUME NEW h \in Threads, Respond(h) PROVE Matched'
    <2> DEFINE t == frame[h].id
    <2>1. /\ frame'[h] = Idle /\ \A g \in Threads : g # h => frame'[g] = frame[g]
          /\ ~overlapped' => ~overlapped /\ Alone(h)
          /\ tasks' = tasks /\ frame[h].at = "audit" /\ t \in Tasks
      BY <1>3, OneStep, FrameShape DEF Respond, AppendAudit, Auditing
    <2>2. \A n \in Nodes : /\ Asks(n, h) => agent'[n] = [at |-> "working", id |-> t]
                           /\ Posts(n, h) => agent'[n] = Ready
                           /\ ~AwaitsThread(n, h) => agent'[n] = agent[n]
      BY <1>3, RespondAgents
    <2>3. \A n \in Nodes : Asks(n, h) \/ Posts(n, h) \/ ~AwaitsThread(n, h)
      BY DEF Asks, Posts, AwaitsThread
    <2>4. AsksMatch'
      <3> SUFFICES ASSUME NEW m \in Nodes, NEW g \in Threads, Asks(m, g)'
                   PROVE  Asks(m, g) /\ g # h
        BY <2>1 DEF AsksMatch, Matched
      <3>1. ~AwaitsThread(m, h) /\ agent'[m] = agent[m]
        BY <2>2, <2>3 DEF Asks, Ready
      <3> QED BY <3>1 DEF Asks, AwaitsThread
    <2>5. ASSUME ~overlapped', NEW m \in Nodes, NEW u \in Tasks, Holds(m, u)'
          PROVE  tasks'[u].status = "assigned" /\ tasks'[u].node = m
      <3>1. CASE Asks(m, h)
        <4>1. u = t
          BY <2>2, <2>5, <3>1 DEF Holds
        <4>2. tasks[t] = frame[h].row
          BY <2>1, <2>5 DEF SerialFrames
        <4> QED BY <2>1, <3>1, <4>1, <4>2 DEF Matched, AsksMatch
      <3>2. CASE Posts(m, h)
        BY <2>2, <2>5, <3>2 DEF Holds, Ready
      <3>3. CASE ~AwaitsThread(m, h)
        <4>1. Holds(m, u)
          BY <2>2, <2>5, <3>3 DEF Holds
        <4> QED BY <2>1, <2>5, <4>1 DEF Matched
      <3> QED BY <2>3, <3>1, <3>2, <3>3
    <2>6. ~overlapped' => \A g \in Threads : frame'[g].at # "save"
      BY <2>1, IdleShape DEF Alone
    <2>7. \A g \in Threads : frame'[g].at # "reread"
      BY <2>1, IdleShape DEF Matched
    <2> QED BY <2>4, <2>5, <2>6, <2>7 DEF Matched
  <1>4. ASSUME NEW h \in Threads, Save(h) PROVE Matched'
    <2> DEFINE f == [frame[h] EXCEPT !.at = "audit"]
               t == frame[h].id
    <2>1. SaveTask(h) /\ frame[h] \in Saving /\ t \in Tasks /\ agent' = agent
      BY <1>4, FrameShape DEF Save, SaveTask, Saving
    <2>2. f.at = "audit" /\ f.kind = frame[h].kind /\ f.row = frame[h].row
      BY <2>1 DEF Saving
    <2>3. /\ frame'[h] = f /\ \A g \in Threads : g # h => frame'[g] = frame[g]
          /\ ~overlapped' => ~overlapped /\ Alone(h)
          /\ \A u \in Tasks : u # t => tasks'[u] = tasks[u]
      BY <2>1, OneStep DEF SaveTask, TypeOK
    <2>4. \A m \in Nodes, g \in Threads : Asks(m, g)' => Asks(m, g)
      BY <2>1 DEF Asks
    <2>5. AsksMatch'
      <3> SUFFICES ASSUME NEW m \in Nodes, NEW g \in Threads, Asks(m, g)
                   PROVE  /\ frame'[g].at \in {"save", "audit"} /\ frame'[g].kind = "assigned"
                          /\ frame'[g].row.status = "assigned" /\ frame'[g].row.node = m
        BY <2>4 DEF AsksMatch
      <3>1. /\ frame[g].at \in {"save", "audit"} /\ frame[g].kind = "assigned"
            /\ frame[g].row.status = "assigned" /\ frame[g].row.node = m
        BY DEF Matched, AsksMatch
      <3> QED BY <2>2, <2>3, <3>1
    <2>6. ~overlapped' => \A m \in Nodes : ~Holds(m, t)
      <3>1. CASE frame[h].kind = "assigned"
        <4>1. ~overlapped' => tasks[t].status \in {"queued", "failed"}
          BY <2>1, <2>3, <3>1 DEF SerialFrames, SaveTask
        <4> QED BY <2>1, <2>3, <4>1 DEF Matched
      <3>2. CASE frame[h].kind # "assigned"
        BY <2>1, <2>3, <3>2 DEF Matched, SaveTask
      <3> QED BY <3>1, <3>2
    <2>7. \A m \in Nodes, u \in Tasks : Holds(m, u)' <=> Holds(m, u)
      BY <2>1 DEF Holds
    <2>8. ~overlapped' => \A m \in Nodes, u \in Tasks :
             Holds(m, u)' => tasks'[u].status = "assigned" /\ tasks'[u].node = m
      <3> SUFFICES ASSUME ~overlapped', NEW m \in Nodes, NEW u \in Tasks, Holds(m, u)
                   PROVE  tasks'[u].status = "assigned" /\ tasks'[u].node = m
        BY <2>7
      <3>1. u # t
        BY <2>6
      <3> QED BY <2>3, <3>1 DEF Matched
    <2>9. ~overlapped' => \A g \in Threads : frame'[g].at # "save"
      BY <2>2, <2>3, IdleShape DEF Alone
    <2>10. \A g \in Threads : frame'[g].at # "reread"
      BY <2>2, <2>3 DEF Matched
    <2> QED BY <2>5, <2>8, <2>9, <2>10 DEF Matched
  <1>5. ASSUME NEW h \in Threads, Reread(h) PROVE Matched'
    BY <1>5 DEF Reread, RereadForRetry, Matched
  <1>6. ASSUME NEW h \in Threads, NEW t \in Tasks, CreateTask(h, t), UNCHANGED agent
        PROVE  Matched'
    <2> DEFINE f == [at |-> "audit", id |-> t, row |-> NewRow, kind |-> "created", asked |-> NoNode]
    <2>1. /\ frame'[h] = f /\ \A g \in Threads : g # h => frame'[g] = frame[g]
          /\ ~overlapped' => ~overlapped /\ Alone(h)
          /\ tasks[t].status # "assigned" /\ \A u \in Tasks : u # t => tasks'[u] = tasks[u]
          /\ frame[h].at = "idle"
      BY <1>6, OneStep, IdleShape DEF CreateTask, TypeOK, Exists, Absent
    <2>2. \A m \in Nodes, g \in Threads : Asks(m, g)' => Asks(m, g) /\ g # h
      BY <1>6, <2>1 DEF Asks, Matched, AsksMatch
    <2>3. AsksMatch'
      BY <2>1, <2>2 DEF Matched, AsksMatch
    <2>4. \A m \in Nodes, u \in Tasks : Holds(m, u)' <=> Holds(m, u)
      BY <1>6 DEF Holds
    <2>5. ~overlapped' => \A m \in Nodes, u \in Tasks :
             Holds(m, u)' => tasks'[u].status = "assigned" /\ tasks'[u].node = m
      <3> SUFFICES ASSUME ~overlapped', NEW m \in Nodes, NEW u \in Tasks, Holds(m, u)
                   PROVE  tasks'[u].status = "assigned" /\ tasks'[u].node = m
        BY <2>4
      <3>1. u # t
        BY <2>1 DEF Matched
      <3> QED BY <2>1, <3>1 DEF Matched
    <2>6. ~overlapped' => \A g \in Threads : frame'[g].at # "save"
      BY <2>1, IdleShape DEF Alone
    <2>7. \A g \in Threads : frame'[g].at # "reread"
      BY <2>1 DEF Matched
    <2> QED BY <2>3, <2>5, <2>6, <2>7 DEF Matched
  <1>7. ASSUME NEW n \in Nodes, Start(n) PROVE Matched'
    <2>1. /\ agent'[n].at = "ready" /\ UNCHANGED vars
          /\ \A m \in Nodes : m # n => agent'[m] = agent[m]
      BY <1>7 DEF Start, Become, AgentsTyped, Ready
    <2>2. \A m \in Nodes, g \in Threads : Asks(m, g)' => Asks(m, g)
      BY <2>1 DEF Asks
    <2>3. \A m \in Nodes, u \in Tasks : Holds(m, u)' => Holds(m, u)
      BY <2>1 DEF Holds
    <2>4. AsksMatch'
      BY <2>1, <2>2 DEF Matched, AsksMatch, vars
    <2>5. UNCHANGED <<tasks, frame, overlapped>>
      BY <2>1 DEF vars
    <2>6. \A m \in Nodes, g \in Threads : Holds(m, frame[g].id)' => Holds(m, frame[g].id)
      BY <2>1, <2>5 DEF Holds
    <2> QED BY <2>3, <2>4, <2>5, <2>6 DEF Matched
  <1>8. CASE UNCHANGED fleetVars
    BY <1>8 DEF fleetVars, vars, Matched, AsksMatch, Asks, Holds
  <1> QED BY <1>1, <1>2, <1>3, <1>4, <1>5, <1>6, <1>7, <1>8
          DEF FleetNext, Submit, Requeue, TakeUnnamed, FailResponse, FailRequest, Die,
              ServerRestart, Restart

FleetInv == SerialInv /\ AgentsTyped /\ Matched

LEMMA FleetMatched ==
    ASSUME ~AgentsMayDie, ~ServerMayFail, ~OperatorRetries
    PROVE  FleetSpec => []FleetInv
  <1>1. FleetInit => Matched
    <2> SUFFICES ASSUME FleetInit PROVE Matched
      OBVIOUS
    <2>1. \A h \in Threads : frame[h].at = "idle"
      BY IdleShape DEF FleetInit, Init
    <2>2. \A n \in Nodes : agent[n].at = "ready"
      BY DEF FleetInit, Ready
    <2> QED BY <2>1, <2>2 DEF Matched, AsksMatch, Asks, Holds
  <1>2. SerialInv /\ AgentsTyped /\ Matched /\ [FleetNext]_fleetVars => Matched'
    BY StepMatched
  <1> QED BY <1>1, <1>2, FleetAgents, FleetKeepsQueue, SpecSerial, PTL DEF FleetSpec, FleetInv

\* As long as requests do not overlap and nothing fails or is requeued, the
\* row of a task names the agent that executes it: no two execute one task.
THEOREM HolderIsNamed ==
    ASSUME ~AgentsMayDie, ~ServerMayFail, ~OperatorRetries
    PROVE  FleetSpec => []HolderMatchesRow
  <1>1. FleetInv => HolderMatchesRow
    BY DEF FleetInv, Matched, HolderMatchesRow
  <1> QED BY <1>1, FleetMatched, PTL

\* In the same circumstances the result a task ends with is its last.
THEOREM ResultIsLast ==
    ASSUME ~AgentsMayDie, ~ServerMayFail, ~OperatorRetries
    PROVE  FleetSpec => FinishedStays
  <1> DEFINE Stays == ~overlapped' => \A t \in Tasks :
                         tasks[t].status \in {"succeeded", "blocked"} => tasks'[t] = tasks[t]
  <1>1. FleetInv /\ [Next]_vars => Stays
    <2> SUFFICES ASSUME FleetInv, [Next]_vars, ~overlapped', NEW t \in Tasks,
                        tasks[t].status \in {"succeeded", "blocked"}
                 PROVE  tasks'[t] = tasks[t]
      OBVIOUS
    <2> USE DEF FleetInv, SerialInv, IInv
    <2>1. ASSUME NEW h \in Threads, NEW u \in Tasks, CreateTask(h, u)
          PROVE  tasks'[t] = tasks[t]
      <3>1. u # t
        BY <2>1 DEF CreateTask, Exists, Absent
      <3> QED BY <2>1, <3>1 DEF CreateTask, TypeOK
    <2>2. ASSUME NEW h \in Threads, SaveTask(h) PROVE tasks'[t] = tasks[t]
      <3>1. tasks' = [tasks EXCEPT ![frame[h].id] = frame[h].row] /\ ~overlapped
        BY <2>2 DEF SaveTask, Step
      <3>2. frame[h].id # t
        BY <2>2, <3>1 DEF SaveTask, SerialFrames, Matched
      <3> QED BY <3>1, <3>2 DEF TypeOK
    <2>3. CASE UNCHANGED tasks
      BY <2>3
    <2> QED BY <2>1, <2>2, <2>3 DEF Next, SelectNext, ReceiveResult, ReceiveRetry,
               RereadForRetry, AppendAudit, FailRequest, Restart, vars
  <1>2. FleetInv /\ [FleetNext]_fleetVars => [Stays]_fleetVars
    BY <1>1, FleetStepIsQueueStep DEF FleetInv, SerialInv
  <1>3. FleetSpec => [][Stays]_fleetVars
    BY <1>2, FleetMatched, PTL DEF FleetSpec
  <1> QED BY <1>3, PTL DEF FinishedStays
=============================================================================
