\* Six pages, the first four of them also the initial pool of the free list.
SPECIFICATION Spec
CONSTANTS
    TotalPages = 6
    Word <- MCWord
    Counts <- MCCounts
    Addrs <- None
    RegionStarts <- None
    RegionSizes <- None
    MaxFrames = 6
    InitialPool = 4
    WalkLimit = 7
    ClientWords <- None
INVARIANT BitmapStaysReserved
CHECK_DEADLOCK FALSE
