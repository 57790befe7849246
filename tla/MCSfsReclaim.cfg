CONSTANTS
    NULL = NULL
    Thread = {t1, t2}
    Name = {n1, n2}
    Vnode = {v1, v2, v3}
    MaxIno = 2
    MaxSlots = 3
    MaxFails = 0
    Serialised = FALSE
SPECIFICATION Spec
CHECK_DEADLOCK FALSE
INVARIANT HeldIsLoaded
