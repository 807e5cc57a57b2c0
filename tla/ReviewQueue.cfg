\* Two request threads, failed and torn writes, restarts.
SPECIFICATION Spec
CONSTANTS
    r1 = r1
    r2 = r2
    h1 = h1
    h2 = h2
    Reviews <- TwoReviews
    Threads <- TwoThreads
    MayTear = TRUE
SYMMETRY MCSymmetry
INVARIANTS
    OneDecisionPerThread
    AnsweredIsStored
PROPERTIES
    ImplementsRegister
