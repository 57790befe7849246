CONSTANTS
    NULL = NULL
    Thread = {t1, t2}
    Name = {n1, n2}
    Vnode = {v1, v2, v3}
    MaxIno = 2
    MaxSlots = 3
    MaxFails = 1
    Serialised = TRUE
    BlockSize = 2
    NDirect = 1
    BitsPerBlock = 6
    NBlocks = 9
    Files = {21, 22}
    Offsets = {0, 3}
    Amounts = {1, 3}
    Lengths = {0, 2, 3}
    WriteFuel = {1, 3, 9}
    TruncFuel = {0, 1, 9}
    Enough = 9
    MaxOps = 5
SPECIFICATION AllSpec
SYMMETRY SfsSymmetry
INVARIANTS
    TableSound
    LinkCountsExact
    RefsExact
    NoInodeLeak
    SpaceExact
    ReadsBack
