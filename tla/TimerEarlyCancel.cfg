\* The loop thread cancels a timer whose start is still queued.
CONSTANTS
    Timers = {t1}
    Outside = {o1}
    LoopThread = loop
    EarlyCancel = TRUE
    MaxFires = 2
SPECIFICATION Spec
PROPERTY NoFireAfterCancel
CHECK_DEADLOCK FALSE
