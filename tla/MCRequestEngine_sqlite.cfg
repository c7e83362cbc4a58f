\* Two requests on two keys, SQLite: reads and writes of rows interleave, before
\* and after a crash and an edit of the pool.
SPECIFICATION Spec
CONSTANTS
    None = None
    r1 = r1
    r2 = r2
    r3 = r3
    k1 = k1
    k2 = k2
    Requests = {r1, r2}
    Keys = {k1, k2}
    InitialKeys <- TwoKeys
    Backend = "sqlite"
    Strategy = "least_used"
    RetryAttempts = 2
    Cooldown = 1
    Answers <- Varied
    Failures = {}
    StoreFails = FALSE
    Cancels = FALSE
    MaxClock = 2
    MaxEdits = 1
    MaxRestarts = 1
SYMMETRY Symmetry2
INVARIANTS
    RowsConsistent
    NeverOvercounts
CHECK_DEADLOCK FALSE
