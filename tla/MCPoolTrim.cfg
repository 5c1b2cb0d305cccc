SPECIFICATION FairSpec
CONSTANTS
    Threads = {t1, t2}
    t1 = t1
    t2 = t2
    Pools = {"p"}
    BucketSizes = {2, 4}
    SlabMinSize = 4
    MaxPoolableSize = 4
    Capacity = 1
    MaxSize = 4
    PageSize = 4
    Addr <- MCAddr8
    Requests <- MCTwoSizes
    SlabObjects = {1, 2}
    TrimKeeps = {0, 4}
    MayFinalize = FALSE
INVARIANTS
    TrimSafe
    StatsRight
    NoDoubleFree
PROPERTIES
    LocksReleased
