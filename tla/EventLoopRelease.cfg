\* A thread is in QueueInLoop while the loop stops.
CONSTANTS
    Callers = {c1, c2}
    LoopThread = loop
    Tasks = {f1, f2}
    StopTask = stop
    PipeCapacity = 2
    RecvSize = 1
    WeakCas = FALSE
    Forks = FALSE
SPECIFICATION Spec
INVARIANT WatcherAliveAtNotify
CHECK_DEADLOCK FALSE
