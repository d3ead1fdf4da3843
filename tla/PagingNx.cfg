SPECIFICATION Spec
CONSTANTS
    PdptSize = 2
    PdSize = 2
    PtSize = 4
    IdentityPages = 8
    HeapPages <- MCHeapPages
    PoolStart = 1
    InitialPool = 6
    PoolLimit = 9
    MapPages <- MCMapPages
    PhysFrames <- DeviceFrames
    FlagSets <- MCFlags
INVARIANT
    NxKept
CHECK_DEADLOCK FALSE
