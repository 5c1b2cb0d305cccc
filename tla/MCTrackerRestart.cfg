SPECIFICATION Spec
CONSTANTS
    A = A
    B = B
    t1 = t1
    t2 = t2
    Threads = {t1, t2}
    Pools = {A, B}
    Nesting <- MCNesting
    Addr <- MCAddr
    Sizes <- MCSizes
    Uses <- MCTogether
    Asked = {A, B}
    Splits = {}
    Merges = {}
    MayFail = {}
    MaxLevels = 2
    Leaves = {1, 2, 3, 4, 5, 6, 7, 8}
    MaxLeaks = 1
INVARIANT LookupRight
