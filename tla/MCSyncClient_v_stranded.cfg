\* A caller's request is left behind when the loop stops.
SPECIFICATION FairSpec
CONSTANTS
    None = None
    maker = maker
    t1 = t1
    t2 = t2
    t3 = t3
    c1 = c1
    c2 = c2
    Callers = {t1}
    Closers = {c1}
    Maker = maker
    AcloseFails = FALSE
PROPERTIES
    EveryCallAnswered
CHECK_DEADLOCK FALSE
