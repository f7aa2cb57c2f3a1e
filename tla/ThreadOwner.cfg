\* An owner that waits for the start, a pre() that succeeds, two joiners.
CONSTANTS
    Workers = {w1}
    Joiners = {j1, j2}
    WaitStart = {TRUE}
    PreResults = {"kOK"}
    MaxStarts = 1
SPECIFICATION FairSpec
INVARIANT CarefulAsserts
PROPERTIES StoppedIsFinal StartedMeansPreRan DestroyReturns
CHECK_DEADLOCK FALSE
