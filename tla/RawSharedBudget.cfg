\* readTest.py started together with makeobj.py, with reliable requests: a
\* budget of 3 GETs for 2 keys.
CONSTANTS
    NKeys = 2
    NRead = 2
    Budget = 3
    Rounds = 1
    Faults = FALSE
SPECIFICATION Spec
INVARIANT ReaderPollsEveryKey
CHECK_DEADLOCK FALSE
