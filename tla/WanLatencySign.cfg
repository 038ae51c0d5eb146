\* The printed producer time is taken after md5sum, not when dd returned.
CONSTANTS
    N = 2
    NChunks = 2
    MaxTime = 2
    Faults = FALSE
    FixedChunks = 2
    Leftover = FALSE
    EmptyModes = {FALSE}
SPECIFICATION Spec
INVARIANT SampleNonNegative
CHECK_DEADLOCK FALSE
