CONSTANTS
    t1 = t1
    t2 = t2
    t3 = t3
    NULL = NULL
    lbolt = lbolt
    Thread = {t1, t2, t3}
    Boot = t1
    Addr = {lbolt}
    HZ = 2
    MaxSecs = 2
    ArraySize = {0, 2, 6, 14, 30, 62}
    QueueSize = {4, 8, 16, 32}
    InitialQueue = 4
    KeepLimit = 5
    MaxThreads = 9
    a = a
    b = b
    Item = {a, b}
    Garbage = Garbage
    MaxSize = 7
SPECIFICATION AllSpec
INVARIANTS
    ListsSound
    NoFreedStack
    NumthreadsExact
    SleepersFit
PROPERTIES
    ImplementsFifo
    ReadyThreadRuns
    ClockSleepEnds
    ZombiesAreDestroyed
