CONSTANTS
    w1 = w1
    w2 = w2
    k1 = k1
    r1 = r1
    r2 = r2
    g1 = g1
    NULL = NULL
    UserWriter = {w1, w2}
    KernelWriter = {k1}
    UserReader = {r1, r2}
    KernelReader = {g1}
    Callers <- MCCallers
    Text <- MCText
    Want = 2
    LineEnds = {2}
    MaxTyped = 4
    MaxPolled = 1
    Paced = TRUE
    dr = dr
    dw = dw
    dd = dd
    Blank = Blank
    Thread = {dr, dw, dd}
    Raw = {dd}
    Ops <- MCOps
    First <- MCFirst
    Count <- MCCount
    NSectors = 2
    MaxTries = 1
    MaxErrors = 2
    e1 = e1
    e2 = e2
    EThread = {e1, e2}
    NONE = NONE
    Handles = {1, 2}
    MaxFile = 1
    MaxEmuErrors = 2
    MaxRetries = 1
    i1 = i1
    i2 = i2
    IThread = {i1, i2}
    BootThread = i1
    NOTHREAD = NOTHREAD
    NSlots = 5
    Card <- MCCard
    AutoConf <- MCAutoConf
    MaxDuds = 0
    MaxStrays = 1
SPECIFICATION AllSpec
INVARIANTS
    ConsoleSound
    DiskSound
    EmuSound
    BusSound
PROPERTIES
    RequestsFinish
\* everything is printed, returned or panicked
CHECK_DEADLOCK FALSE
