CONSTANTS
    p1 = p1  p2 = p2  p3 = p3
    i1 = i1  i2 = i2  i3 = i3
    None = None
    Proc <- MCProc
    Inode <- MCInode
SPECIFICATION LiveSpec
INVARIANTS
    LockTypeOK
    MutualExclusion
    HolderOwnsTheName
    PidNamesHolder
    NoStaleLock
PROPERTIES
    AcquireReturns
    ImplementsMutex
