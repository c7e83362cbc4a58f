\* Two requests on two keys, Redis read row by row.  Fair scheduling; store errors
\* and cancellations may hit the holder of the pool's lock.
SPECIFICATION FairSpec
CONSTANTS
    None = None
    r1 = r1
    r2 = r2
    r3 = r3
    k1 = k1
    k2 = k2
    Requests = {r1, r2}
    Keys = {k1, k2}
    InitialKeys <- TwoKeys
    Backend = "redis"
    Strategy = "quota_failover"
    RetryAttempts = 2
    Cooldown = 1
    Answers <- SuccessQuota
    Failures = {"caught"}
    StoreFails = TRUE
    Cancels = TRUE
    MaxClock = 2
    MaxEdits = 0
    MaxRestarts = 0
INVARIANTS
    TypeOK
    RowsConsistent
    LockAccounted
PROPERTIES
    EveryRequestEnds
CHECK_DEADLOCK FALSE
