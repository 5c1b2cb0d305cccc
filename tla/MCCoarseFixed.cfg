SPECIFICATION Spec
CONSTANTS
    Word = 16
    PageSize = 2
    Strategy = "FASTEST_BUT_ONE"
    Sizes = {1, 2, 3, 13}
    Alignments = {0, 1, 3, 4}
    Addr = {}
    Regions <- MCRegions
    HasAlloc = FALSE
    HasFree = FALSE
    SplitMayFail = FALSE
    MergeMayFail = FALSE
    HostMayFail = FALSE
INVARIANTS
    
    Coalesced
