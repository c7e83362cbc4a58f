\* Three requests on two keys, in-memory store, cancellations.
SPECIFICATION Spec
CONSTANTS
    None = None
    r1 = r1
    r2 = r2
    r3 = r3
    k1 = k1
    k2 = k2
    Requests = {r1, r2, r3}
    Keys = {k1, k2}
    InitialKeys <- TwoKeys
    Backend = "memory"
    Strategy = "round_robin"
    RetryAttempts = 2
    Cooldown = 1
    Answers <- ArraysToo
    Failures = {"caught", "uncaught"}
    StoreFails = FALSE
    Cancels = TRUE
    MaxClock = 2
    MaxEdits = 0
    MaxRestarts = 0
SYMMETRY Symmetry3
INVARIANTS
    AttemptsAccounted
    RetryBudget
    ErrorsMatchFailovers
    
    EvenRotation
PROPERTIES
    OnlySuccessEndsCooldown
    ChoiceIsCurrent
    ImplementsContract
CHECK_DEADLOCK FALSE
