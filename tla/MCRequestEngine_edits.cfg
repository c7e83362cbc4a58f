\* Keys added and removed while requests are in flight, in-memory store, a crash.
SPECIFICATION Spec
CONSTANTS
    None = None
    r1 = r1
    r2 = r2
    r3 = r3
    k1 = k1
    k2 = k2
    Requests = {r1, r2}
    Keys = {k1, k2}
    InitialKeys <- OneKey
    Backend = "memory"
    Strategy = "random"
    RetryAttempts = 2
    Cooldown = 1
    Answers <- Counted
    Failures = {"caught"}
    StoreFails = FALSE
    Cancels = FALSE
    MaxClock = 2
    MaxEdits = 3
    MaxRestarts = 1
SYMMETRY Symmetry2
INVARIANTS
    RowsMatchDefinitions
CHECK_DEADLOCK FALSE
