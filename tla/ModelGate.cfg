\* Two programs on the registry, one runtime, a model file that is replaced.
SPECIFICATION GateSpec
CONSTANTS
    m1 = m1
    m2 = m2
    c1 = c1
    c2 = c2
    p1 = p1
    b1 = b1
    b2 = b2
    r1 = r1
    Models <- TwoModels
    Callers <- TwoCallers
    Paths <- OnePath
    Bytes <- TwoBytes
    Runtimes <- OneRuntime
    Missing = Missing
    NoDigest = NoDigest
SYMMETRY MCSymmetry
INVARIANTS
    AnsweredIsStored
    RecordIsOfRegistration
    StartedAsRegistered
    LoadedIsApproved
