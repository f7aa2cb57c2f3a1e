\* Three connections and two loops, stopped by the listening loop, without the two ways to close early.
CONSTANTS
    Conns = {c1, c2, c3}
    PoolChoices = {{}, {l1, l2}}
    Base = base
    ListenResults = {TRUE, FALSE}
    StopOutside = FALSE
    CheckThenClose = FALSE
    InlineClose = FALSE
SPECIFICATION FairSpec
INVARIANTS TypeOK AssertsHold CallbackWhenStopped ConnectionsAccounted
PROPERTIES StopCompletes
CHECK_DEADLOCK FALSE
