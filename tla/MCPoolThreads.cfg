SPECIFICATION Spec
CONSTANTS
    Threads = {t1, t2}
    t1 = t1
    t2 = t2
    Pools = {"p", "q"}
    BucketSizes = {2, 4}
    SlabMinSize = 4
    MaxPoolableSize = 4
    Capacity = 1
    MaxSize = 8
    PageSize = 4
    Addr <- MCAddr12
    Requests <- MCTwoSizes
    SlabObjects = {1, 2, 3}
    TrimKeeps = {}
    MayFinalize = FALSE
SYMMETRY Symmetry
INVARIANTS
    ChunksOwned
    EmptySlabsCounted
    PooledRight
    FreeFindsOrigin
