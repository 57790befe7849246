CONSTANTS
    ArraySize = {0, 2, 6, 14, 30, 62}
    QueueSize = {32, 64}
    InitialQueue = 32
    KeepLimit = 16
    MaxThreads = 33
SPECIFICATION TablesSpec
INVARIANT PreallocationCovers
CHECK_DEADLOCK FALSE
