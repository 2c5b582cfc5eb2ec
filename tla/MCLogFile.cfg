CONSTANTS
    p1 = p1  p2 = p2
    i1 = i1  i2 = i2  i3 = i3
    None = None
    Proc <- MCProc
    Inode <- MCInode
    Limit = 2
    LineUnits = 2
    MaxFaults = 1
SPECIFICATION LiveSpec
INVARIANTS
    LogTypeOK
    LinesStayWhole
    GrowthBounded
PROPERTIES
    LogReturns
