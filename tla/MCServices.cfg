CONSTANTS
    PageSize = 10
    Sizes <- MCSizes
    NPageRefs = 3
    FirstPage = 1
    LastPage = 3
    Requests = {2, 4, 11}
    Tester = {u1, u2}
    Stress = {1, 2}
    NTries = 7
    ItemSize = 2
    NULL = NULL
    p1 = p1
    p2 = p2
    Proc = {p1, p2}
    UNULL = UNULL
    Programs <- MCPrograms
    PageLen = 2
    UserTop = 8
    AddrMod = 32
    StackPages = 1
    NumTlb = 2
    FirstFrame = 1
    LastFrame = 8
    UserAddrs = {2, 5, 7}
    MaxWrites = 1
    LineSize = 6
    MAXMENUARGS = 2
    Letters = {"p", "x", " ", ";"}
    MaxKeys = 6
    BootLines <- MCBootLines
    LongBits = 8
    Chars = {"%", "d", "o", "p", "s", "l", "#", "-", "0", "1", "4", "c"}
    Numbers = {0, 8, 127, 128, 255}
    Strings <- MCStrings
    BufLens = {0, 1, 4}
    MaxFormat = 5
    MaxPrinted = 3
    MaxWidth = 11
    Arrays = {a1, a2}
    FirstArray = a1
    FirstType = 2
    degrees <- MCDegrees
    seps <- MCSeps
    WordMod = 8
    LcMul = 5
    LcAdd = 1
    RandomSeeds = {1, 2}
    Warmup = 1
    MaxRandomCalls = 5
    Guys = {1, 2}
    JUNK = JUNK
    KeepArray = 2
    MaxNum = 3
    WordBits = 3
    BitCounts = {3, 4, 5}
    TestSizes = {6, 7}
    Width = 2
    Height = 2
    Text = {"a", "b", "\n"}
    MaxText = 6
    TicksPerSec = 9
    SmallTicks = 3
    MaxTime = 13
    Seeds = {305824, 1, 127773, 2147483646, 2147480811, 2836}
    LRand = {0, 4080}
    LRandMax = 1048560
    MaxReads = 4
    vt1 = vt1
    vt2 = vt2
    vd1 = "d1"
    vd2 = "d2"
    emu0 = "emu0"
    VThread = {vt1, vt2}
    VNULL = VNULL
    Disks = {"d1"}
    Plain = {}
    Emus = {"emu0"}
    RawName <- MCRawName
    Volume <- MCVolume
    DevOrder <- OneDisk
    MaxCalls = 2
    OffW = 4
    SectSize = 2
    DiskSizes = {3, 6}
    NameBuf = 3
    VPaths <- MCPaths
    MaxTransfer = 4
    MaxLength = 2
SPECIFICATION AllSpec
INVARIANTS
    HeapSound
    PrivateMemory
    TlbSound
    LoadedWhole
    MenuSound
    PrintfExact
    ContainersSound
    DevicesSound
    VnodesHeld
    PwdLeadsBack
    ShutdownUnmounts
\* the tests have ended, the bounds are reached
CHECK_DEADLOCK FALSE
