\* Every shell command, assertion, mount and umount may fail.
CONSTANT Faults = TRUE
SPECIFICATION Spec
INVARIANT TestsIndependent
\* The suite ends, or initialize() dies.
CHECK_DEADLOCK FALSE
