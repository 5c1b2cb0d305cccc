SPECIFICATION Spec
CONSTANTS
    Word = 16
    PageSize = 2
    Strategy = "FASTEST"
    Sizes = {1, 2, 3}
    Alignments = {0, 1, 4}
    Addr <- MCSmallWindow
    Regions = {}
    HasAlloc = TRUE
    HasFree = FALSE
    SplitMayFail = TRUE
    MergeMayFail = TRUE
    HostMayFail = TRUE
INVARIANTS
    HoldersAreRight
