SPECIFICATION Spec
CONSTANTS
    Threads = {t1, t2}
    t1 = t1
    t2 = t2
    Pools = {"p"}
    BucketSizes = {2}
    SlabMinSize = 4
    MaxPoolableSize = 2
    Capacity = 1
    MaxSize = 4
    PageSize = 4
    Addr <- MCAddr12
    Requests <- MCDirect
    SlabObjects = {1, 2, 3}
    TrimKeeps = {}
    MayFinalize = FALSE
SYMMETRY Symmetry
INVARIANT NoDoubleFree
