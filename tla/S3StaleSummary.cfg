\* A stamp on an exact second makes getstimediff.py die before it opens
\* diffdata, which an earlier run left behind.
CONSTANTS
    N = 2
    NObjects = 3
    Sleep = 2
    TickUs = 500000
    Jitter = {0, 1}
    MaxTime = 3
    DeleteFaults = FALSE
    ReadFaults = FALSE
    PairCount = 3
    DataSize = 8192
    PrevSample = 999
SPECIFICATION Spec
INVARIANT LedgerFromThisRun
CHECK_DEADLOCK FALSE
