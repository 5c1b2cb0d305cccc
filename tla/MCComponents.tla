---------------------------- MODULE MCComponents ----------------------------
(***************************************************************************)
(* The components that are checked each on its own, in one model: a        *)
(* behaviour runs the component `part`, and the others stay as they are.   *)
(***************************************************************************)
EXTENDS Buckets, Library, Critnib, BaseAlloc, LinearAlloc, FileProvider, OsProvider,
        NumaBind, ProviderStats, GpuProvider, ProviderParams, ProviderLife, JemallocPool,
        ScalablePool, Ctl, ProxyLib, MCMemspace, Ravl

CONSTANTS Parts

VARIABLES part

\* Constants.
mcNameOf == [p \in PoolIds |-> "n"]
mcPairs == {<<0, 1>>, <<1, 1>>, <<3, 2>>}
mcClasses == <<16, 32>>
mcNodeLists == {<<>>, <<1>>, <<1, 2>>, <<3, 1, 2>>}
mcPartLists == {<<>>} \cup {[i \in 1..k |-> [node |-> (i % 3) + 1, weight |-> w[i]]] :
                              k \in 1..3, w \in [1..3 -> {0, 1, 2, 5}]}
mcLifeKinds == <<{"os", "os_split", "file", "devdax", "fixed", "cuda", "ze", "tbb"},
                 {"cuda", "ze", "tbb"}>>
mcNumbers == [x \in {"1", "9"} |-> IF x = "1" THEN 1 ELSE 9]

\* Trees like the ones the library and a pool register.
TreeNode(name, type, parameters, does, children) ==
    [name |-> name, type |-> type, params |-> parameters, does |-> does, children |-> children]
NodeParam(parser) == [wild |-> TRUE, parser |-> parser]
SubtreeOf(name) == TreeNode(name, "subtree", <<>>, {"subtree"}, <<>>)
mcGlobalTree ==
    <<TreeNode("umf", "named", <<>>, {},
        <<TreeNode("provider", "named", <<>>, {},
            <<TreeNode("by_handle", "named", <<NodeParam("none")>>, {}, <<SubtreeOf(Nameless)>>)>>),
          TreeNode("pool", "named", <<>>, {},
            <<TreeNode("by_name", "named", <<NodeParam("string"), NodeParam("index")>>, {},
                <<SubtreeOf(Nameless)>>),
              SubtreeOf("default")>>),
          TreeNode("logger", "named", <<>>, {},
            <<TreeNode("level", "leaf", <<>>, {"read", "write"}, <<>>)>>)>>)>>
mcModuleTree ==
    <<TreeNode("stats", "named", <<>>, {}, <<TreeNode("alloc_count", "leaf", <<>>, {"read"}, <<>>)>>),
      TreeNode("buckets", "named", <<NodeParam("index")>>, {},
        <<TreeNode(Nameless, "leaf", <<>>, {"read", "run"}, <<>>),
          TreeNode("used", "leaf", <<>>, {"read"}, <<>>)>>)>>
mcNames ==
    {<<"umf", "pool", "by_name", "{}", "stats", "alloc_count">>,
     <<"umf", "pool", "by_name", "p", "1", "{}">>, <<"umf", "pool", "by_name", "{}", "{}", "x", "{}">>,
     <<"umf", "pool", "by_name", "p">>, <<"umf", "provider", "by_handle", "{}", "{}">>,
     <<"umf", "provider", "by_handle", "p", "x">>, <<"umf", "pool", "default", "p", "{}">>,
     <<"umf", "{}", "level">>, <<"umf", "pool", "default">>, <<"{}", "1", "used">>, <<"{}", "{}">>,
     <<"buckets", "9">>, <<"buckets", "{}">>, <<"buckets", "{}", "{}">>,
     <<"stats", "alloc_count", "1">>, <<>>}
mcArgs == {<<"logger", "level", "1", "x", "x">>, <<"stats", "alloc_count", "p", "x", "x">>,
           <<"buckets", "1", "used", "x", "x">>}
mcPrograms == {[name |-> n, args |-> a, source |-> "program", type |-> y, value |-> "1",
                formed |-> TRUE] : n \in mcNames, a \in mcArgs, y \in {"read", "write", "run"}}
Setting(n, v, formed) ==
    [name |-> n, args |-> <<>>, source |-> "config", type |-> "write", value |-> v, formed |-> formed]
mcSettings == {Setting(<<"umf", "logger", "level">>, "1", TRUE),
               Setting(<<"umf", "logger", "level">>, "x", TRUE),
               Setting(<<"umf", "pool", "default", "p">>, "x", TRUE),
               Setting(<<"umf", "pool", "by_name", "{}", "x">>, "x", TRUE),
               Setting(<<"umf", "{}", "x">>, "x", TRUE),
               Setting(<<"stats", "alloc_count">>, "1", TRUE), Setting(<<>>, "1", FALSE)}
mcConfigs == {<<a, b>> : a \in mcSettings, b \in mcSettings}

-----------------------------------------------------------------------------
\* Components with several initial states stand still in one of them.
BucketsOff == min_bucket_size = 4 /\ max_poolable_size = 40 /\ size = 1 /\ alignment = 0
NumaOff ==
    /\ params = [mode |-> "default", list |-> <<>>, parts |-> <<>>, partSize |-> 0]
    /\ numa = [ready |-> FALSE] /\ membind = NoBind
    /\ allocSum = 0 /\ boundTo = <<>> /\ binds = 0
CtlOff ==
    /\ todo = <<>> /\ ctlContext = FALSE /\ walk = [at |-> "returned"]
    /\ held = 0 /\ oom = FALSE /\ done = <<>>

ComponentsInit ==
    /\ part \in Parts
    /\ IF part = "buckets" THEN Init ELSE BucketsOff
    /\ IF part = "numa" THEN NumaInit ELSE NumaOff
    /\ IF part = "ctl" THEN CtlInit ELSE CtlOff
    /\ LibInit /\ critnib_new /\ os = <<>> /\ BaInit /\ LinearInit /\ FileInit
    /\ OsInit /\ (part # "os" => ~shared)
    /\ StatInit /\ GpuInit /\ ParamInit /\ LifeInit /\ JeInit /\ TbbInit /\ ProxyInit
    /\ SpaceInit /\ RavlInit

StillBut(p) ==
    /\ UNCHANGED part
    /\ p # "buckets" => UNCHANGED vars
    /\ p # "library" => UNCHANGED libVars
    /\ p # "critnib" => UNCHANGED critnibVars
    /\ p \notin {"base", "linear"} => UNCHANGED os
    /\ p # "base" => UNCHANGED <<class, created, baDestroyed, used>>
    /\ p # "linear" => UNCHANGED <<linear, blocksOut>>
    /\ p # "file" => UNCHANGED fileVars
    /\ p # "os" => UNCHANGED osVars
    /\ p # "numa" => UNCHANGED numaVars
    /\ p # "stats" => UNCHANGED statVars
    /\ p # "gpu" => UNCHANGED gpuVars
    /\ p # "params" => UNCHANGED paramVars
    /\ p # "life" => UNCHANGED lifeVars
    /\ p # "jemalloc" => UNCHANGED jeVars
    /\ p # "scalable" => UNCHANGED tbbVars
    /\ p # "ctl" => UNCHANGED ctlVars
    /\ p # "proxy" => UNCHANGED proxyVars
    /\ p # "memspace" => UNCHANGED spaceVars
    /\ p # "ravl" => UNCHANGED ravlVars

ComponentsNext ==
    \/ part = "buckets" /\ Next /\ StillBut("buckets")
    \/ part = "library" /\ LibNext /\ StillBut("library")
    \/ part = "critnib" /\ CritnibNext /\ StillBut("critnib")
    \/ part = "base" /\ BaNext /\ StillBut("base")
    \/ part = "linear" /\ LinearNextStep /\ StillBut("linear")
    \/ part = "file" /\ FileNext /\ StillBut("file")
    \/ part = "os" /\ OsNext /\ StillBut("os")
    \/ part = "numa" /\ NumaNext /\ StillBut("numa")
    \/ part = "stats" /\ StatNext /\ StillBut("stats")
    \/ part = "gpu" /\ GpuNext /\ StillBut("gpu")
    \/ part = "params" /\ ParamNext /\ StillBut("params")
    \/ part = "life" /\ LifeNext /\ StillBut("life")
    \/ part = "jemalloc" /\ JeNext /\ StillBut("jemalloc")
    \/ part = "scalable" /\ TbbNext /\ StillBut("scalable")
    \/ part = "ctl" /\ CtlNext /\ StillBut("ctl")
    \/ part = "proxy" /\ ProxyNext /\ StillBut("proxy")
    \/ part = "memspace" /\ SpaceNext /\ StillBut("memspace")
    \/ part = "ravl" /\ RavlNext /\ StillBut("ravl")
-----------------------------------------------------------------------------
\* A request for memory of a disjoint pool goes to the smallest bucket that holds
\* it, with room for its alignment (size_to_idx, disjoint_pool_aligned_malloc).
BucketRight == part = "buckets" => SmallestBucket /\ RoomForAlignment

\* While a thread uses the library its globals exist; the registry leads a query
\* only to pools that exist; a failing create or a destroy leaves nothing behind;
\* alloc_count is what is allocated (libumf.c, memory_pool.c).
LibraryRight == part = "library" => UpWhileUsed /\ RegistryLive /\ NothingOrphaned /\ CountRight

\* A lookup that takes no lock finds only what was in the tree while it ran, and
\* insertions and removals keep the tree one that finds everything (critnib.c).
CritnibRight == part = "critnib" => FoundWasThere /\ TreeRight

\* Blocks of the base allocators lie in memory of the system, apart from one
\* another and from the headers, and pools are given back only when nothing in
\* them is used (base_alloc.c, base_alloc_global.c, base_alloc_linear.c).
HostMemoryRight == part \in {"base", "linear"} => BlocksFit /\ ChunksCounted /\ LinearBlocksKept

\* The OS provider hands out exactly what it mapped, other processes that open a
\* handle see the same bytes, and the pages are bound to the nodes that the mode
\* and the partitions ask for (provider_os_memory.c).
OsMemoryRight == part \in {"os", "numa"} => OsExact /\ OsShared /\ BoundRight

\* Calls leave the context of the thread as it was, on every error too, and what
\* the GPU providers have given is what the driver holds and the statistics count
\* (provider_cuda.c, provider_level_zero.c).
GpuRight == part = "gpu" => ContextKept /\ GpuHeld

\* Parameter objects own their copies and free them once; an initialize that
\* fails in any of its steps leaves nothing behind, nor does a finalize; a library
\* that is loaded at run time is open while an instance uses it.
SetUpUndone == part \in {"params", "life"} => CopiesOwned /\ NothingLeftBehind /\ LibraryOpen

\* Memory of a jemalloc pool comes from the provider of that pool, and an arena
\* belongs to at most one pool (pool_jemalloc.c).
ArenasRight == part = "jemalloc" => ProvidersIsolated /\ ArenasOwned

\* A query reaches what its name denotes, with the arguments it was given, and
\* frees all it allocates (ctl.c).
CtlRight == part = "ctl" => QueriesRight /\ CtlFreed

\* Memory goes back to the allocator it came from, through every stage of the
\* process, and a pool's own allocations do not enter the pool (proxy_lib.c).
ProxyRight == part = "proxy" => FreedHome /\ PoolNotReentered

\* Targets belong to one memspace each, the predefined memspaces hold what their
\* names say, a provider is bound to the nodes of its memspace, and a filter that
\* fails leaves its memspace as it was (memspace.c, memspaces/, memtarget_numa.c).
MemspacesRight == part = "memspace" => TargetsOwned /\ PredefinedRight /\ ProviderBound /\ FilterKeeps

\* Searches find what a search of the set would, and every rank difference is
\* positive (ravl.c).
RavlRight == part = "ravl" => RavlFinds /\ RanksPositive
=============================================================================
