\* Two agents, two request threads; the task of the last rank always fails.
SPECIFICATION FleetSpec
CONSTANTS
    h1 = h1
    h2 = h2
    n1 = n1
    n2 = n2
    Tasks = {1, 2}
    Threads <- TwoThreads
    Nodes <- TwoNodes
    NoNode = NoNode
    MaxRetries = 1
    RetryBound = 0
    ServerMayFail = FALSE
    Poison = {2}
    AgentsMayDie = FALSE
    OperatorRetries = FALSE
\* once every task has ended nothing has to happen
CHECK_DEADLOCK FALSE
INVARIANTS
    AssignedHasHolder
    HolderMatchesRow
PROPERTIES
    FinishedStays
    HealthyTasksFinish
