CONSTANTS
    i1 = i1
    i2 = i2
    IThread = {i1, i2}
    BootThread = i1
    NOTHREAD = NOTHREAD
    NSlots = 5
    Card <- MCCard
    AutoConf <- MCAutoConf
    MaxDuds = 1
    MaxStrays = 2
INIT InterruptsInit
NEXT InterruptsNext
INVARIANT DudsArePanic
CHECK_DEADLOCK FALSE
