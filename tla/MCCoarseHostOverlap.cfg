SPECIFICATION Spec
CONSTANTS
    Word = 16
    PageSize = 2
    Strategy = "FASTEST_BUT_ONE"
    Sizes = {2, 4}
    Alignments = {0}
    Addr = {}
    Regions <- MCTwoSmall
    HasAlloc = FALSE
    HasFree = FALSE
    SplitMayFail = FALSE
    MergeMayFail = FALSE
    HostMayFail = TRUE
INVARIANT LiveDisjoint
