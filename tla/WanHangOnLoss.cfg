\* A producer that dies before it creates a file leaves the detector's poll
\* loop, which has no timeout, waiting for that file.
CONSTANTS
    N = 2
    NChunks = 2
    MaxTime = 1
    Faults = TRUE
    FixedChunks = 2
    Leftover = FALSE
    EmptyModes = {FALSE, TRUE}
SPECIFICATION FairSpec
PROPERTY DetectorTerminates
CHECK_DEADLOCK FALSE
