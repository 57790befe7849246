CONSTANTS
    dr = dr
    dw = dw
    dd = dd
    Blank = Blank
    Thread = {dr, dw, dd}
    Raw = {dd}
    Ops <- MCOps
    First <- MCFirst
    Count <- MCCount
    NSectors = 2
    MaxTries = 2
    MaxErrors = 3
SPECIFICATION DiskSpec
INVARIANT WriteLands
CHECK_DEADLOCK FALSE
