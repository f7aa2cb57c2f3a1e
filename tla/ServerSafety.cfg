\* A pool of two loops or none, stopped by the listening loop or another thread, with connections
\* that fail while they are announced or close under StopInLoop's test.
CONSTANTS
    Conns = {c1, c2}
    PoolChoices = {{}, {l1, l2}}
    Base = base
    ListenResults = {TRUE, FALSE}
    StopOutside = TRUE
    CheckThenClose = TRUE
    InlineClose = TRUE
SPECIFICATION FairSpec
INVARIANTS AssertsHold OpenAreRegistered
PROPERTIES StopCompletes
CHECK_DEADLOCK FALSE
