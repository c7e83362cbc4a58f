\* A thread calls while two others close the client.
SPECIFICATION FairSpec
CONSTANTS
    None = None
    maker = maker
    t1 = t1
    t2 = t2
    t3 = t3
    c1 = c1
    c2 = c2
    Callers = {t1, t2}
    Closers = {c1, c2}
    Maker = maker
    AcloseFails = TRUE
INVARIANTS
    TypeOK
    DiesOnlyOfTwoCloses
PROPERTIES
    NothingStartsAfterClose
    UnfinishedCallsAnswered
    CloseEnds
CHECK_DEADLOCK FALSE
