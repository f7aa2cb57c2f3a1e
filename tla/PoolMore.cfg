\* Up to two threads with a user between start and stop: what the status of the pool tells.
CONSTANTS
    Workers = {1, 2}
    Joiners = {}
    WaitStart = {TRUE, FALSE}
    PreResults = {"kOK"}
    MaxStarts = 1
    Users = {u1}
    Hashes = {5}
    StopWaits = {TRUE, FALSE}
    UsersRace = FALSE
    MaxNext = 3
SPECIFICATION PoolFairSpec
INVARIANTS PoolTypeOK RunningMeansStarted
PROPERTIES CallbackCalled
CHECK_DEADLOCK FALSE
