SPECIFICATION Spec
CONSTANTS
    Threads = {t1}
    t1 = t1
    t2 = t2
    Pools = {"p"}
    BucketSizes = {4, 12}
    SlabMinSize = 8
    MaxPoolableSize = 12
    Capacity = 1
    MaxSize = 30
    PageSize = 2
    Addr <- MCAddr22
    Requests <- MCAligned
    SlabObjects = {1, 2}
    TrimKeeps = {0}
    MayFinalize = TRUE
INVARIANTS
    AlignedSafe
