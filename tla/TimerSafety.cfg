\* Two timers, made and cancelled by the loop thread and by another, in a loop that runs.
CONSTANTS
    Timers = {t1, t2}
    Outside = {o1}
    LoopThread = loop
    EarlyCancel = FALSE
    MaxFires = 2
SPECIFICATION FairSpec
PROPERTIES NoFireAfterCancel FiresOrCanceled
CHECK_DEADLOCK FALSE
