\* The md5sum the detector prints may be of a file with a hole.
CONSTANTS
    N = 2
    NChunks = 2
    MaxTime = 1
    Faults = FALSE
    FixedChunks = 2
    Leftover = FALSE
    EmptyModes = {FALSE, TRUE}
SPECIFICATION Spec
INVARIANT DetectedContentComplete
CHECK_DEADLOCK FALSE
