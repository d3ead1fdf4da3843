\* Callers that keep to the interface, eight pages.
SPECIFICATION Spec
CONSTANTS
    TotalPages = 8
    Word <- MCWord
    Counts <- MCCounts
    Addrs <- MCAddrs
    RegionStarts <- MCRegionStarts
    RegionSizes <- MCRegionSizes
INVARIANTS
    TypeOK
    CountExact
    BitmapAccounts
    BlockNeverWraps
    SinglePageAlwaysFound
    MissesOnlyAcrossStart
    LoopFindsRun
PROPERTY FrameSpec
