\* Two request threads and no I/O failure: does verify() hold?
SPECIFICATION Spec
CONSTANTS
    w1 = w1
    w2 = w2
    k1 = k1
    none = none
    e1 = e1
    e2 = e2
    Writers <- TwoWriters
    Keys <- OneKey
    NoKey = none
    EventId <- TwoEvents
    MaxLines = 3
    MayTear = FALSE
INVARIANT AlwaysVerifies
