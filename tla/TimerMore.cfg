\* The same timers: what self_, periodic_ and timer_ have to do with each other.
CONSTANTS
    Timers = {t1, t2}
    Outside = {o1}
    LoopThread = loop
    EarlyCancel = FALSE
    MaxFires = 2
SPECIFICATION Spec
INVARIANTS TypeOK PeriodicHasTimer SelfWhileUseful
CHECK_DEADLOCK FALSE
