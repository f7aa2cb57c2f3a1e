\* Two outside threads and the loop thread hand over functors, under the scheduler's fairness;
\* the compare-exchange may fail spuriously and the owner may fork before Run.
CONSTANTS
    Callers = {c1, c2}
    LoopThread = loop
    Tasks = {f1, f2, f3}
    StopTask = stop
    PipeCapacity = 2
    RecvSize = 1
    WeakCas = TRUE
    Forks = TRUE
SPECIFICATION FairSpec
INVARIANTS TypeOK NoLostWakeup CountAccounts
PROPERTIES ImplementsTaskQueue QueuedFunctorRuns StopCompletes
CHECK_DEADLOCK FALSE
