\* Two request threads and two exporting programs, failed and torn writes,
\* restarts, changing keys.
SPECIFICATION StoreSpec
CONSTANTS
    w1 = w1
    w2 = w2
    x1 = x1
    x2 = x2
    k1 = k1
    none = none
    e1 = e1
    e2 = e2
    Writers <- TwoWriters
    Exporters <- TwoExporters
    Keys <- ManyKeys
    NoKey = none
    EventId <- TwoEvents
    MaxLines = 2
    MaxExports = 2
    MayTear = TRUE
SYMMETRY MCSymmetry
INVARIANTS
    OwnLinesNeverFork
    AckedReadable
    CheckpointsOnChain
    ChainVerifies
    StoreAdvances
PROPERTIES
    ImplementsLog
    StoreImplementsLog
