CONSTANTS
    vt1 = vt1
    vt2 = vt2
    vd1 = "d1"
    vd2 = "d2"
    emu0 = "emu0"
    VThread = {vt1, vt2}
    VNULL = VNULL
    Disks = {"d1", "d2"}
    Plain = {}
    Emus = {"emu0"}
    RawName <- MCRawName
    Volume <- MCVolume
    DevOrder <- TwoDisks
    MaxCalls = 2
SPECIFICATION VfsSpec
INVARIANT VolumeNamesUnique
CHECK_DEADLOCK FALSE
