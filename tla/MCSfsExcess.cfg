CONSTANTS
    BlockSize = 2
    NDirect = 1
    BitsPerBlock = 6
    NBlocks = 9
    Files = {21, 22}
    Offsets = {0, 3}
    Amounts = {1, 3}
    Lengths = {0, 2, 3}
    WriteFuel = {9}
    TruncFuel = {9}
    Enough = 9
    MaxOps = 7
SPECIFICATION BlocksSpec
INVARIANT NoExcessBlocks
CHECK_DEADLOCK FALSE
