\* Any use of the object: its types, and one thread at a time on its loop.
CONSTANTS
    Workers = {w1}
    Joiners = {j1, j2}
    WaitStart = {TRUE, FALSE}
    PreResults = {"kOK", "failed"}
    MaxStarts = 2
SPECIFICATION Spec
INVARIANTS TypeOK OneThreadPerLoop
CHECK_DEADLOCK FALSE
