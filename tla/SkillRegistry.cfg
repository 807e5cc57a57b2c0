\* Two request threads, two skills, audit appends that fail, restarts.
SPECIFICATION Spec
CONSTANTS
    s1 = s1
    s2 = s2
    h1 = h1
    h2 = h2
    Skills <- TwoSkills
    Threads <- TwoThreads
    MaxDecisions = 2
SYMMETRY MCSymmetry
INVARIANTS
    AuditedDecisionIsRecorded
    ExecutableWasOnceApproved
    ExecutableIsApproved
