\* Any use of the object: no waiting, a failing pre(), a second start.
CONSTANTS
    Workers = {w1}
    Joiners = {j1, j2}
    WaitStart = {TRUE, FALSE}
    PreResults = {"kOK", "failed"}
    MaxStarts = 2
SPECIFICATION FairSpec
INVARIANTS CarefulAsserts NoUseAfterDestroy
PROPERTY DestroyReturns
CHECK_DEADLOCK FALSE
