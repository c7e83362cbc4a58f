\* Three requests and two calls of aclose, with every failure there is.
SPECIFICATION FairSpec
CONSTANTS
    None = None
    r1 = r1
    r2 = r2
    r3 = r3
    c1 = c1
    c2 = c2
    Callers = {r1, r2, r3}
    Closers = {c1, c2}
    OwnsClient = TRUE
    SetupFails = TRUE
    CloseFails = TRUE
    Cancels = TRUE
INVARIANTS
    TypeOK
    ServedWhenReady
    OnlyOvertakenLeak
PROPERTIES
    OneSetUp
    EveryCallEnds
CHECK_DEADLOCK FALSE
