\* Two requests on three keys, one call per second of two ticks, aborts.
SPECIFICATION Spec
CONSTANTS
    None = None
    r1 = r1
    r2 = r2
    k1 = k1
    k2 = k2
    k3 = k3
    Requests = {r1, r2}
    Keys = {k1, k2, k3}
    RetryAttempts = 2
    Window = 2
    MaxRequests = 1
INVARIANTS
    TypeOK
PROPERTIES
    ImplementsWindow
    ImplementsContract
CHECK_DEADLOCK FALSE
