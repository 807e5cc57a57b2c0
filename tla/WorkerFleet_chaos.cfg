\* Agents and the server fail, operators retry.
SPECIFICATION FleetSpec
CONSTANTS
    h1 = h1
    h2 = h2
    n1 = n1
    n2 = n2
    Tasks = {1}
    Threads <- TwoThreads
    Nodes <- TwoNodes
    NoNode = NoNode
    MaxRetries = 1
    RetryBound = 2
    ServerMayFail = TRUE
    Poison = {}
    AgentsMayDie = TRUE
    OperatorRetries = TRUE
SYMMETRY MCSymmetry
INVARIANTS
    ServedWithinBudget
    AuditReflectsTask
    FailedForAReason
PROPERTY ImplementsBoard
