\* One agent, a task that always fails in front of another one.
SPECIFICATION FleetSpec
CONSTANTS
    h1 = h1
    h2 = h2
    n1 = n1
    n2 = n2
    Tasks = {1, 2}
    Threads <- OneThread
    Nodes <- OneNode
    NoNode = NoNode
    MaxRetries = 1
    RetryBound = 0
    ServerMayFail = FALSE
    Poison = {1}
    AgentsMayDie = FALSE
    OperatorRetries = FALSE
\* once every task has ended nothing has to happen
CHECK_DEADLOCK FALSE
PROPERTY HealthyTasksFinish
