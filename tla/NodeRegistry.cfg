SPECIFICATION Spec
CONSTANTS
    h1 = h1
    h2 = h2
    v1 = v1
    v2 = v2
    t1 = t1
    t2 = t2
    none = none
    k1 = k1
    k2 = k2
    nokey = nokey
    Tokens = {t1, t2}
    NoToken = none
    Prints <- MCPrints
    NoPrint <- MCNoPrint
    Normal <- MCNormal
    Secrets = {k1, k2}
    NoSecret = nokey
    NoClaim = none
    MaxSkew = 0
    Environments <- MCEnvironments
    Requests <- MCRequests
    Nodes = {1, 2}
    Beating = {1}
    Threads <- TwoThreads
    Values <- TwoValues
    NotGiven = none
    Reported = {"online", "disabled"}
    PageLimit = 1
    Filters = {"any", "registered"}
    Deployments <- MCDeployments
    Callers <- MCCallers
    MaxTime = 1
SYMMETRY MCSymmetry
INVARIANTS
    AuditReflectsNode
    PagesMissNobody
    AdmittedIsEntitled
    NamedTokensAdmit
PROPERTY HeartbeatsAreKept
