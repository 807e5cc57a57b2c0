\* Both stores; documents with up to two findings, indexed twice.
SPECIFICATION Spec
CONSTANTS
    MinMask = 2
    MaxChars = 4
    OverlapChars = 2
    Documents <- AllDocuments
    TopK = 1
    Slack = 1
    MaxJobs = 2
INVARIANTS
    TypeOK
    FoundIsMasked
    NothingElseIsLost
    LatestIsStored
    ShortFindingsAreFound
    ContextsAreClean
    AnswerIsFull
