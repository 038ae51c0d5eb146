\* getstimediff.py keeps only the microseconds field of the difference.
CONSTANTS
    N = 2
    NObjects = 3
    Sleep = 2
    TickUs = 500000
    Jitter = {1}
    MaxTime = 3
    DeleteFaults = FALSE
    ReadFaults = FALSE
    PairCount = 3
    DataSize = 8192
    PrevSample = 999
SPECIFICATION Spec
INVARIANT DiffIsElapsed
CHECK_DEADLOCK FALSE
