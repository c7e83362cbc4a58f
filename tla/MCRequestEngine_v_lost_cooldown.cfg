\* A lost update ends a cooldown.
SPECIFICATION FairSpec
CONSTANTS
    None = None
    r1 = r1
    r2 = r2
    r3 = r3
    k1 = k1
    k2 = k2
    Requests = {r1, r2}
    Keys = {k1, k2}
    InitialKeys <- TwoKeys
    Backend = "sqlite"
    Strategy = "quota_failover"
    RetryAttempts = 2
    Cooldown = 2
    Answers <- Mixed
    Failures = {}
    StoreFails = FALSE
    Cancels = FALSE
    MaxClock = 3
    MaxEdits = 0
    MaxRestarts = 0
PROPERTIES
    OnlySuccessEndsCooldown
CHECK_DEADLOCK FALSE
