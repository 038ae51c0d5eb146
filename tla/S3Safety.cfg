\* Delete requests may fail, stamps may fall on an exact second, and an
\* earlier run may have left diffdata behind; reads fail only with 404.
CONSTANTS
    N = 3
    NObjects = 4
    Sleep = 2
    TickUs = 500000
    Jitter = {0, 1}
    MaxTime = 3
    DeleteFaults = TRUE
    ReadFaults = FALSE
    PairCount = 4
    DataSize = 8192
    PrevSample = 999
SPECIFICATION FairSpec
INVARIANT PipelineTypeOK
PROPERTY DeletionsDetected
PROPERTY OneLedgerRow
\* Every script ends; a deleter that crashed leaves the reader polling.
CHECK_DEADLOCK FALSE
