\* Four frames, two of them in the initial pool; counters wrap at 6.
SPECIFICATION Spec
CONSTANTS
    MaxFrames = 4
    InitialPool = 2
    Word = 6
    WalkLimit = 3
    ClientWords <- MCClientWords
INVARIANTS
    TypeOK
    ListIsFreePages
    InUseExact
    StatsHonest
PROPERTY FrameSpec
