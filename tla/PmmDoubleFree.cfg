\* Callers that may free a page twice.
SPECIFICATION AnySpec
CONSTANTS
    TotalPages = 4
    Word <- MCWord
    Counts <- SmallCounts
    Addrs <- PageAddrs
    RegionStarts <- None
    RegionSizes <- None
INVARIANT FreeMemoryIsReported
