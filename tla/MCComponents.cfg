INIT ComponentsInit
NEXT ComponentsNext
CONSTANTS
    Parts = {"buckets", "library", "critnib", "base", "linear", "file", "os", "numa", "stats",
             "gpu", "params", "life", "jemalloc", "scalable", "ctl", "proxy", "memspace", "ravl"}
    \* Buckets
    Word = 256
    CutOff = 64
    MinDefault = 4
    MinBucketSizes = {1, 4, 16, 128}
    MaxPoolableSizes = {0, 40, 64}
    PageSize = 8
    Alignments = {0, 2, 8, 16, 32}
    \* Library
    LibThreads = {t1, t2}
    PoolIds = {a, b}
    Names = {"n"}
    NameOf <- mcNameOf
    Upstreams = {u}
    Settings = {"on"}
    MaxBlocks = 1
    MaxInits = 1
    KeepsTracker = FALSE
    LibFails = {"tracker", "ipc", "tracking", "init", "register"}
    \* Critnib
    Slice = 1
    Life = 1
    Shifts = {0, 1}
    Pairs <- mcPairs
    Questions = {3}
    Lookups = {"get", "le"}
    MaxNodes = 2
    MaxLeaves = 3
    MaxRemoves = 2
    \* SystemMemory, BaseAlloc, LinearAlloc
    Page = 48
    OsPages = 5
    Header = 16
    NextHeader = 8
    MinChunks = 1
    BaseWord = 8
    Classes <- mcClasses
    Requests = {4, 20}
    BaseAlignments = {8, 16}
    MaxUsed = 2
    MaxGiven = 3
    LinearRequests = {12, 60}
    LinearSize = 60
    LinearHeader = 8
    LinearNext = 4
    LinearWord = 4
    \* FileProvider
    FilePage = 2
    FileSizes = {2, 4}
    FileAligns = {0, 1, 2}
    FileAddrs = {10, 30}
    FileLimit = 64
    FileMax = 20
    MaxFileBlocks = 3
    MaxPeers = 1
    Fsdax = TRUE
    FileFails = {"mmap", "offset"}
    \* OsProvider
    OsThreads = {t1, t2}
    ShmNamed = TRUE
    OsPage = 2
    OsSizes = {2, 3}
    OsAligns = {1, 4}
    SharedAligns = {1}
    MergesApart = FALSE
    OsAddrs = {10, 22}
    MaxFile = 8
    MaxOsBlocks = 3
    MaxOsPeers = 1
    OsFails = {"mmap", "bind", "offset", "unmap"}
    \* NumaBind
    NumaNodes = {1, 2, 3}
    NodeLists <- mcNodeLists
    PartLists <- mcPartLists
    PartPages = {0, 2}
    MaxPages = 7
    MaxBinds = 1
    \* ProviderStats
    StatThreads = {t1, t2, t3}
    StatSizes = {1, 2}
    MaxAllocated = 4
    ResetRaces = FALSE
    \* GpuProvider
    GpuThreads = {t1, t2}
    Contexts = {k1, k2}
    OwnContext = k1
    GpuPtrs = {1, 2}
    Residents = 1
    HasPut = TRUE
    MaxIpc = 1
    GpuFails = {"get", "set", "call"}
    \* ProviderParams
    Copies = {11, 12, 13, 14}
    MaxValue = 1
    CudaLoads = TRUE
    \* ProviderLife
    Instances = {1, 2}
    LifeKinds <- mcLifeKinds
    LifeFails = {"provider", "topo_init", "topo_load", "fd_offset_map", "translate",
                 "nodeset_str_buf", "fd", "size", "coarse", "lock", "mmaps", "map", "is_dax",
                 "memory", "library", "granularity", "properties", "residents", "page_size",
                 "pool_data", "tbb_pool"}
    Symbols = {"cuda", "ze"}
    MaxRestarts = 0
    \* JemallocPool
    JeThreads = {0, 1}
    JePools = {"p", "q"}
    Arenas = {1, 2, 3, 4}
    ArenaMax = 4
    DefaultArenas = 2
    MinArenas = 1
    ParamArenas = {1}
    Extents = {1, 2}
    JeFails = {"create", "hooks", "again"}
    \* ScalablePool
    TbbThreads = {1, 2}
    TbbBlocks = {1}
    RawBlocks = {1}
    \* Ctl
    GlobalTree <- mcGlobalTree
    ModuleTree <- mcModuleTree
    NumberOf <- mcNumbers
    UllMax = 9
    Programs <- mcPrograms
    Configs <- mcConfigs
    CtlContexts = {TRUE, FALSE}
    CtlFails = {"string", "arg", "entry", "value"}
    \* ProxyLib
    ProxyThreads = {t1, t2}
    Main = t1
    ProxyBlocks = {1, 2}
    MaxNesting = 2
    Threshold = 2
    ProxySizes = {1, 3}
    Preloaded = TRUE
    \* Memspace
    Nodes = {1, 2, 3}
    Capacity <- mcCapacity
    Bandwidth <- mcBandwidth
    Latency <- mcLatency
    UserSpaces = {"u"}
    Arrays <- mcArrays
    Keeps <- mcKeeps
    Policies = {"none", "interleave"}
    MaxTargets = 3
    MemFails = {"clone", "callback", "host_all", "latency"}
    RemoveFailsAt = {1}
    \* Ravl
    RavlKeys = {1, 2, 3, 4, 5}
    RavlNodes = {1, 2, 3, 4, 5}
INVARIANTS
    BucketRight
    
    CritnibRight
    
    
    
    PeakExact
    
    
    ArenasRight
    FailureExplained
    
    ProxyRight
    
    RavlRight
CHECK_DEADLOCK FALSE
