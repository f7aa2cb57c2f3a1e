\* Up to two threads with a user between start and stop, under the scheduler's fairness.
CONSTANTS
    Workers = {1, 2}
    Joiners = {}
    WaitStart = {TRUE, FALSE}
    PreResults = {"kOK"}
    MaxStarts = 1
    Users = {u1}
    Hashes = {5}
    StopWaits = {TRUE, FALSE}
    UsersRace = FALSE
    MaxNext = 3
SPECIFICATION PoolFairSpec
INVARIANTS CallbackAfterLastLoop AssertsHold
PROPERTIES StopEndsJoined
CHECK_DEADLOCK FALSE
