SPECIFICATION Spec
CONSTANTS
    Word = 16
    PageSize = 2
    Strategy = "CHECK_ALL_SIZE"
    Sizes = {1, 2, 3, 15}
    Alignments = {0, 1, 4}
    Addr <- MCWindow
    Regions = {}
    HasAlloc = TRUE
    HasFree = TRUE
    SplitMayFail = TRUE
    MergeMayFail = TRUE
    HostMayFail = FALSE
INVARIANTS
    NoOverlap
    Conservation
    UpstreamAgrees
    LiveDisjoint
PROPERTIES
    AllocAligned
    ImplementsRangeAllocator
