\* makeobj.py, readTest.py and readTest_ws.py with failing requests.
CONSTANTS
    NKeys = 3
    NRead = 2
    Budget = 4
    Rounds = 2
    Faults = TRUE
SPECIFICATION Spec
INVARIANT TypeOK
\* All three scripts end.
CHECK_DEADLOCK FALSE
