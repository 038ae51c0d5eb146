\* The WAN benchmark with failing subprocesses: 3 files of 3 chunks, 1 tick (time matters only for the printed stamps).
CONSTANTS
    N = 3
    NChunks = 3
    MaxTime = 1
    Faults = TRUE
    FixedChunks = 3
    Leftover = FALSE
    EmptyModes = {FALSE, TRUE}
SPECIFICATION FairSpec
INVARIANT TypeOK
PROPERTY ImplementsVisibility
PROPERTY FilesDetected
\* Both scripts end: once they are done or crashed and the clock has run out
\* nothing is left to do.
CHECK_DEADLOCK FALSE
