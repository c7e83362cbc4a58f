\* Three tasks, one and a half calls per second of four ticks, sleeps end after their deadline.
SPECIFICATION FairSpec
CONSTANTS
    t1 = t1 t2 = t2 t3 = t3
    Tasks <- ThreeTasks
    Window = 4
    TenthsPerSecond = 15
    MinSleep = 1
    Late = 1
INVARIANTS
    TypeOK
    DequeBounded
PROPERTIES
    ImplementsWindow
    EveryCallReturns
