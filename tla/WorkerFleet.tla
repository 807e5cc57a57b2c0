----------------------------- MODULE WorkerFleet -----------------------------
(***************************************************************************)
(* The agents of apps/node_agent/cli.py at work on the queue of the        *)
(* control plane.  run_worker_loop() asks for a task, executes it, posts   *)
(* the result (never with retry set) and starts over.  It catches no       *)
(* exception: a request that times out or fails ends the agent, while the  *)
(* server thread goes on with the request; somebody starts the agent again *)
(* and it has forgotten the task.                                          *)
(***************************************************************************)
EXTENDS TaskQueue

CONSTANTS
    Poison,           \* tasks whose execution raises, on whatever node
    AgentsMayDie,     \* whether requests time out and agents end
    OperatorRetries   \* whether operators post retries of their own

ASSUME FleetAssumption ==
    /\ Poison \subseteq Tasks
    /\ AgentsMayDie \in BOOLEAN
    /\ OperatorRetries \in BOOLEAN

VARIABLE agent    \* what each node's agent is doing

fleetVars == <<vars, agent>>

Ready == [at |-> "ready"]
Down == [at |-> "down"]

\* Waiting for the response of a thread, or executing a task.
Waiting == [at : {"asking", "posting"}, via : Threads]
Working == [at : {"working"}, id : Tasks]

FleetTypeOK ==
    /\ TypeOK
    /\ agent \in [Nodes -> {Ready, Down} \cup Waiting \cup Working]

FleetInit ==
    /\ Init
    /\ agent = [n \in Nodes |-> Ready]

Become(n, state) == agent' = [agent EXCEPT ![n] = state]

AwaitsThread(n, h) == agent[n].at \in {"asking", "posting"} /\ agent[n].via = h

-----------------------------------------------------------------------------
\* run_worker_once: GET /tasks/next.  When the answer is None the agent
\* sleeps and asks again, and nothing has changed.
Ask(n) ==
    /\ agent[n] = Ready
    /\ \E h \in Threads :
          /\ SelectNext(h, n)
          /\ Become(n, [at |-> "asking", via |-> h])

\* _execute_task: an exception is a "failed" result, a refused scan a
\* "blocked" one, everything else has succeeded.
Outcomes(t) == IF t \in Poison THEN {"failed"} ELSE {"succeeded", "blocked"}

\* mutant: the agent drops a task whose execution is refused
PostUnlessBlocked(n) ==
    /\ agent[n].at = "working"
    /\ \E h \in Threads, r \in Outcomes(agent[n].id) :
          IF r = "blocked"
          THEN Become(n, Ready) /\ UNCHANGED vars
          ELSE /\ ReceiveResult(h, agent[n].id, r)
               /\ Become(n, [at |-> "posting", via |-> h])

Post(n) ==
    /\ agent[n].at = "working"
    /\ \E h \in Threads, r \in Outcomes(agent[n].id) :
          /\ ReceiveResult(h, agent[n].id, r)
          /\ Become(n, [at |-> "posting", via |-> h])

\* The response of a thread reaches the agent that still waits for it.
Respond(h) ==
    /\ AppendAudit(h)
    /\ agent' = [n \in Nodes |->
          IF ~AwaitsThread(n, h) THEN agent[n]
          ELSE IF agent[n].at = "asking" THEN [at |-> "working", id |-> frame[h].id]
          ELSE Ready]

Save(h) == SaveTask(h) /\ UNCHANGED agent
Reread(h) == RereadForRetry(h) /\ UNCHANGED agent

\* An operator creates a task, or requeues one.
Submit == /\ \E h \in Threads, t \in Tasks : CreateTask(h, t)
          /\ UNCHANGED agent

Requeue == /\ OperatorRetries
           /\ \E h \in Threads, t \in Tasks : ReceiveRetry(h, t)
           /\ UNCHANGED agent

\* The request that h serves raises: whoever waits for it gets an error and
\* ends.
FailResponse(h) ==
    /\ FailRequest(h)
    /\ agent' = [n \in Nodes |-> IF AwaitsThread(n, h) THEN Down ELSE agent[n]]

\* A client that names no node takes a task and is not heard of again.
TakeUnnamed == /\ AgentsMayDie
               /\ \E h \in Threads : SelectNext(h, NoNode)
               /\ UNCHANGED agent

\* A timeout, a lost connection or a crash: the agent ends.
Die(n) ==
    /\ AgentsMayDie
    /\ agent[n] # Down
    /\ Become(n, Down)
    /\ UNCHANGED vars

Start(n) ==
    /\ agent[n] = Down
    /\ Become(n, Ready)
    /\ UNCHANGED vars

\* The server goes down: whoever waits for it gets an error and ends.
ServerRestart ==
    /\ Restart
    /\ agent' = [n \in Nodes |-> IF agent[n].at \in {"asking", "posting"}
                                 THEN Down ELSE agent[n]]

FleetNext ==
    \/ \E n \in Nodes : Ask(n) \/ Post(n) \/ Die(n) \/ Start(n)
    \/ \E h \in Threads : Respond(h) \/ Save(h) \/ Reread(h) \/ FailResponse(h)
    \/ TakeUnnamed
    \/ Submit
    \/ Requeue
    \/ ServerRestart

\* Threads and agents that can go on do; operators need not act, nothing has to
\* fail, and nobody has to start an agent that ended.
Fairness ==
    /\ \A n \in Nodes : WF_fleetVars(Ask(n)) /\ WF_fleetVars(Post(n))
    /\ \A h \in Threads : WF_fleetVars(Respond(h)) /\ WF_fleetVars(Save(h))
                          /\ WF_fleetVars(Reread(h))

FleetSpec == FleetInit /\ [][FleetNext]_fleetVars /\ Fairness

-----------------------------------------------------------------------------
(* Properties.                                                             *)

Holds(n, t) == agent[n] = [at |-> "working", id |-> t]

\* The thread h is at work on n's request and it concerns t.
ServedVia(n, h, t) == AwaitsThread(n, h) /\ frame[h] # Idle /\ frame[h].id = t

\* Agents do not fail and requests have not overlapped: the row of a task
\* says who is executing it, so no two agents ever execute the same task.
HolderMatchesRow ==
    ~overlapped => \A n \in Nodes, t \in Tasks :
        Holds(n, t) => tasks[t].status = "assigned" /\ tasks[t].node = n

\* Agents do not fail and requests have not overlapped: the result a task
\* ends with is its last.
FinishedStays ==
    [][~overlapped' => \A t \in Tasks : tasks[t].status \in {"succeeded", "blocked"}
            => tasks'[t] = tasks[t]]_fleetVars

\* Agents do not fail: however requests overlap, an assigned task has an
\* agent that executes it, that is being told so, or that is posting its
\* result.  Overlapping requests duplicate work but lose none.
AssignedHasHolder ==
    \A t \in Tasks : tasks[t].status = "assigned" =>
        \E n \in Nodes : Holds(n, t) \/ \E h \in Threads : ServedVia(n, h, t)

\* Whatever is lost, repeated or restarted: a task that can be executed only
\* ends as failed when the retries operators asked for have used it up.
FailedForAReason ==
    \A t \in Tasks \ Poison :
        tasks[t].status = "failed" => tasks[t].retry > MaxRetries

\* A task that can be executed is executed in the end: the queue retries and
\* bypasses what fails (USER_REQUIREMENTS).
HealthyTasksFinish ==
    \A t \in Tasks \ Poison :
        Exists(t) ~> tasks[t].status \in {"succeeded", "blocked"}
=============================================================================
