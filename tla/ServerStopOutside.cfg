\* Another thread stops the server.
CONSTANTS
    Conns = {c1, c2}
    PoolChoices = {{l1, l2}}
    Base = base
    ListenResults = {TRUE}
    StopOutside = TRUE
    CheckThenClose = FALSE
    InlineClose = FALSE
SPECIFICATION Spec
INVARIANTS CallbackAlwaysCalled
CHECK_DEADLOCK FALSE
