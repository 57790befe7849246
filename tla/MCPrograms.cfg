CONSTANTS
    t1 = t1
    t2 = t2
    t3 = t3
    sem1 = sem1
    lock1 = lock1
    cv1 = cv1
    NULL = NULL
    Thread = {t1, t2, t3}
    Sem = {sem1}
    Lock = {lock1}
    CV = {cv1}
    Addr = {sem1, lock1, cv1}
    InitialCount = 0
    MaxCount = 2
    NTHREADS = 3
    NLOOPS = 1
    NWAITADDRS = 2
    MaxTests = 2
    Cats = {c1, c2}
    Mice = {m1}
    NumBowls = 2
    NumLoops = 2
    Producers = {p1, p2}
    Consumers = {q1, q2}
    N_ITEMS = 3
    QUEUE_SIZE = 2
    NOITEM = NOITEM
    NOONE = NOONE
    MaxSpurious = 2
    N_PACKETS = 2
    N_PRODUCERS = 4
    KThreads = {k1, k2}
    MaxStirs = 1
    FThreads = 2
    NCHUNKS = 2
    NCREATES = 2
    FTests = {"fstest", "readstress", "writestress", "writestress2", "createstress", "printfile"}
    MaxRuns = 2
    MaxFails = 2
    PThreads = {m, t}
    MainThread = m
    NOBODY = NOBODY
    DELAYBUFSIZE = 2
    MaxSaid = 3
    MaxVfs = 1
    MaxPanics = 2
SPECIFICATION AllSpec
INVARIANTS
    NoLostWakeup
    WaiterSleepsFirst
    TestsPass
    BowlsRule
    RingExact
    ServedInOrder
    VerdictSound
    PanicOrderly
PROPERTIES
    ImplementsMonitor
    NothingHangs
\* the programs have ended, the machine is off
CHECK_DEADLOCK FALSE
