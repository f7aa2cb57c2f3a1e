\* A user calls GetNextLoop while the owner stops and joins.
CONSTANTS
    Workers = {1, 2}
    Joiners = {}
    WaitStart = {TRUE, FALSE}
    PreResults = {"kOK"}
    MaxStarts = 1
    Users = {u1}
    Hashes = {5}
    StopWaits = {TRUE}
    UsersRace = TRUE
    MaxNext = 3
SPECIFICATION PoolSpec
INVARIANT IndexInRange
CHECK_DEADLOCK FALSE
