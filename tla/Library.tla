-------------------------------- MODULE Library --------------------------------
(***************************************************************************)
(* The library around the pools: its start and its end (src/libumf.c), the *)
(* pool handles and their registry by name (src/memory_pool.c), the        *)
(* provider handles (src/memory_provider.c) and the creation of a tracking *)
(* provider (src/provider/provider_tracking.c).                            *)
(*                                                                         *)
(* The operations of the pool and of its provider are external here: what  *)
(* they do to memory is the subject of the other modules.  A thread that   *)
(* uses the library has initialised it, and does not destroy a pool that   *)
(* another thread has a call in; a query by name finds the pool by itself. *)
(***************************************************************************)
EXTENDS Integers, FiniteSets, SequencesExt

CONSTANTS
    LibThreads,
    PoolIds,
    Names,
    NameOf,         \* pool -> its name
    Upstreams,      \* provider handles of the users
    Settings,       \* values of a default setting
    MaxBlocks,      \* bound on the blocks that a pool has handed out
    MaxInits,       \* bound on the initialisations of a thread
    KeepsTracker,   \* in the proxy library with a size threshold
    LibFails        \* what may fail: "tracker", "ipc", "tracking", "init", "register"

ASSUME LibraryAssumption ==
    /\ NameOf \in [PoolIds -> Names]
    /\ MaxBlocks \in Nat /\ MaxInits \in Nat /\ KeepsTracker \in BOOLEAN
    /\ LibFails \subseteq {"tracker", "ipc", "tracking", "init", "register"}

VARIABLES
    umfRefCount,
    inits,          \* thread -> its initialisations that were not torn down
    tracker,        \* TRACKER: "null", "up", "freed"
    ipcGlobal,      \* the cache of opened handles exists
    baseDestroyed,  \* ba_is_destroyed
    defaults,       \* ctl_default_list: pool name -> the setting of its pools
    pool,           \* pool -> its handle, see NoPool
    byName,         \* pools_by_name: name -> its pools, oldest first
    upstream,       \* providers of the users that exist
    blocks,         \* pool -> blocks that its users hold
    lib             \* thread -> where it is: [at, pool, left]

libVars == <<umfRefCount, inits, tracker, ipcGlobal, baseDestroyed, defaults, pool, byName, upstream, blocks, lib>>

globals == <<umfRefCount, inits, tracker, ipcGlobal, baseDestroyed>>

-----------------------------------------------------------------------------

NoSetting == "none"

\* handle: the handle is allocated; tracking: its tracking provider exists; priv:
\* what the pool's initialize has made exists.
NoPool == [handle |-> FALSE, tracking |-> FALSE, priv |-> FALSE, up |-> "none", own |-> FALSE, track |-> FALSE,
           alloc_count |-> 0, set |-> NoSetting]

Away == [at |-> "away", pool |-> "none", left |-> <<>>]

LibInit ==
    /\ umfRefCount = 0
    /\ inits = [t \in LibThreads |-> 0]
    /\ tracker = "null"
    /\ ipcGlobal = FALSE
    /\ baseDestroyed = FALSE
    /\ defaults = [n \in Names |-> NoSetting]
    /\ pool = [p \in PoolIds |-> NoPool]
    /\ byName = [n \in {} |-> <<>>]
    /\ upstream = Upstreams
    /\ blocks = [p \in PoolIds |-> 0]
    /\ lib = [t \in LibThreads |-> Away]

LibGo(t, at) == lib' = [lib EXCEPT ![t].at = at]

LibReturn(t) == lib' = [lib EXCEPT ![t] = Away]

Ready(t) == inits[t] > 0 /\ lib[t].at = "away"

-----------------------------------------------------------------------------
(* umfInit and umfTearDown, under initMutex *)

\* Fault: a failing start counts.
InitCounted(t) ==
    /\ tracker' = "null" /\ ipcGlobal' = FALSE
    /\ umfRefCount' = umfRefCount + 1
    /\ UNCHANGED <<inits, baseDestroyed>>

\* A failing start: without the tracker TRACKER stays as it is; the tracker is
\* destroyed when the cache of opened handles fails, and TRACKER is left behind.
InitFailed(t) ==
    /\ \/ "tracker" \in LibFails /\ tracker' = tracker
       \/ "ipc" \in LibFails /\ tracker' = "freed"
    /\ baseDestroyed' = FALSE
    /\ UNCHANGED <<umfRefCount, inits, ipcGlobal>>

umfInit(t) ==
    /\ lib[t].at = "away" /\ inits[t] < MaxInits
    /\ IF umfRefCount > 0
       THEN /\ umfRefCount' = umfRefCount + 1
            /\ inits' = [inits EXCEPT ![t] = @ + 1]
            /\ UNCHANGED <<tracker, ipcGlobal, baseDestroyed>>
       ELSE \/ /\ tracker' = "up" /\ ipcGlobal' = TRUE /\ baseDestroyed' = FALSE
               /\ umfRefCount' = 1
               /\ inits' = [inits EXCEPT ![t] = @ + 1]
            \/ InitFailed(t)
    /\ UNCHANGED <<defaults, pool, byName, upstream, blocks, lib>>

\* The last user destroys the cache of opened handles, the tracker, the default
\* settings and the base allocator; the proxy library with a size threshold keeps
\* the last three.  The user's pools are destroyed before.
umfTearDown(t) ==
    /\ Ready(t)
    /\ inits' = [inits EXCEPT ![t] = @ - 1]
    /\ umfRefCount' = umfRefCount - 1
    /\ IF umfRefCount = 1
       THEN /\ \A p \in PoolIds : ~pool[p].handle
            /\ ipcGlobal' = FALSE
            /\ IF KeepsTracker THEN UNCHANGED <<tracker, baseDestroyed, defaults>>
               ELSE /\ tracker' = "null" /\ baseDestroyed' = TRUE
                    /\ defaults' = [n \in Names |-> NoSetting]
       ELSE UNCHANGED <<ipcGlobal, tracker, baseDestroyed, defaults>>
    /\ UNCHANGED <<pool, byName, upstream, blocks, lib>>

-----------------------------------------------------------------------------
(* umfPoolCreate *)

\* The handle is allocated, and the provider wrapped in a tracking provider unless
\* the user has disabled tracking.  Pools may share a provider that none of them
\* owns.
CreatePool(t, p, up, own, track) ==
    /\ Ready(t) /\ ~pool[p].handle
    /\ \A u \in LibThreads : lib[u].at = "away" \/ lib[u].pool # p
    /\ up \in upstream
    /\ \A q \in PoolIds : pool[q].handle /\ pool[q].up = up => ~own /\ ~pool[q].own
    /\ \/ /\ track => tracker # "null"
          /\ pool' = [pool EXCEPT ![p] = [NoPool EXCEPT !.handle = TRUE, !.tracking = track, !.up = up,
                                                        !.own = own, !.track = track]]
          /\ lib' = [lib EXCEPT ![t] = [at |-> "initialize", pool |-> p, left |-> <<>>]]
       \/ /\ track /\ "tracking" \in LibFails
          /\ UNCHANGED <<pool, lib>>
    /\ UNCHANGED <<globals, defaults, byName, upstream, blocks>>

\* Fault: a failing initialize leaves the tracking provider.
UndoLeaves(p) == [NoPool EXCEPT !.tracking = pool[p].tracking]

\* What a failing initialize leaves: nothing.
Undo(p) == NoPool

Initialize(t) ==
    LET p == lib[t].pool IN
    /\ lib[t].at = "initialize"
    /\ \/ pool' = [pool EXCEPT ![p].priv = TRUE] /\ LibGo(t, "settings")
       \/ "init" \in LibFails /\ pool' = [pool EXCEPT ![p] = Undo(p)] /\ LibReturn(t)
    /\ UNCHANGED <<globals, defaults, byName, upstream, blocks>>

\* The default settings for pools of this name are applied to the new pool.
ApplyDefaults(t) ==
    LET p == lib[t].pool IN
    /\ lib[t].at = "settings"
    /\ pool' = [pool EXCEPT ![p].set = defaults[NameOf[p]]]
    /\ LibGo(t, "register")
    /\ UNCHANGED <<globals, defaults, byName, upstream, blocks>>

\* The threads that hold the read lock of the registry.
Readers == {t \in LibThreads : lib[t].at = "query"}

\* pools_by_name_add, under the write lock.  Without memory for its node a pool
\* is not registered, and a new entry for its name stays with no pools.
Register(t) ==
    LET p == lib[t].pool
        n == NameOf[p]
        old == IF n \in DOMAIN byName THEN byName[n] ELSE <<>> IN
    /\ lib[t].at = "register" /\ Readers = {}
    /\ \/ byName' = [m \in DOMAIN byName \cup {n} |-> IF m = n THEN Append(old, p) ELSE byName[m]]
       \/ /\ "register" \in LibFails
          /\ byName' \in {byName, [m \in DOMAIN byName \cup {n} |-> IF m = n THEN old ELSE byName[m]]}
    /\ LibReturn(t)
    /\ UNCHANGED <<globals, defaults, pool, upstream, blocks>>

-----------------------------------------------------------------------------
(* umfPoolDestroy *)

\* Fault: the pool is finalized before it leaves the registry.
UnregisterLate(t, p) ==
    /\ pool' = [pool EXCEPT ![p].priv = FALSE]
    /\ UNCHANGED byName

\* pools_by_name_remove, under the write lock.
Unregister(t, p) ==
    LET n == NameOf[p]
        rest == SelectSeq(byName[n], LAMBDA q : q # p) IN
    /\ byName' = IF n \notin DOMAIN byName THEN byName
                 ELSE IF rest = <<>> THEN [m \in DOMAIN byName \ {n} |-> byName[m]]
                 ELSE [byName EXCEPT ![n] = rest]
    /\ UNCHANGED pool

DestroyPool(t, p) ==
    /\ Ready(t) /\ pool[p].handle /\ blocks[p] = 0 /\ Readers = {}
    /\ \A u \in LibThreads : lib[u].at \in {"away", "query"} \/ lib[u].pool # p
    /\ Unregister(t, p)
    /\ lib' = [lib EXCEPT ![t] = [at |-> "finalize", pool |-> p, left |-> <<>>]]
    /\ UNCHANGED <<globals, defaults, upstream, blocks>>

\* finalize, the tracking provider, the provider below if the pool owns it, the
\* handle.
Finalize(t) ==
    LET p == lib[t].pool IN
    /\ lib[t].at = "finalize"
    /\ pool' = [pool EXCEPT ![p] = NoPool]
    /\ upstream' = IF pool[p].own THEN upstream \ {pool[p].up} ELSE upstream
    /\ LibReturn(t)
    /\ UNCHANGED <<globals, defaults, byName, blocks>>

\* umfMemoryProviderCreate of a user's provider.
CreateProvider(t, up) ==
    /\ Ready(t) /\ up \in Upstreams \ upstream
    /\ upstream' = upstream \cup {up}
    /\ UNCHANGED <<globals, defaults, pool, byName, blocks, lib>>

-----------------------------------------------------------------------------
(* Allocations: the operation of the pool, then its counter *)

Malloc(t, p) ==
    /\ Ready(t) /\ pool[p].priv /\ blocks[p] < MaxBlocks
    /\ \A u \in LibThreads : lib[u].at \in {"initialize", "settings", "register", "finalize"} => lib[u].pool # p
    /\ lib' = [lib EXCEPT ![t] = [at |-> "counted", pool |-> p, left |-> <<>>]]
    /\ UNCHANGED <<globals, defaults, pool, byName, upstream, blocks>>

Increment(t) ==
    LET p == lib[t].pool IN
    /\ lib[t].at = "counted"
    /\ pool' = [pool EXCEPT ![p].alloc_count = @ + 1]
    /\ blocks' = [blocks EXCEPT ![p] = @ + 1]
    /\ LibReturn(t)
    /\ UNCHANGED <<globals, defaults, byName, upstream>>

\* The operation has freed the block, or refuses.
Free(t, p) ==
    /\ Ready(t) /\ blocks[p] > 0
    /\ blocks' = [blocks EXCEPT ![p] = @ - 1]
    /\ lib' = [lib EXCEPT ![t] = [at |-> "uncounted", pool |-> p, left |-> <<>>]]
    /\ UNCHANGED <<globals, defaults, pool, byName, upstream>>

\* Fault: the counter is not counted down.
Uncounted(n) == n

CountedDown(n) == n - 1

Decrement(t) ==
    /\ lib[t].at = "uncounted"
    /\ pool' = [pool EXCEPT ![lib[t].pool].alloc_count = CountedDown(@)]
    /\ LibReturn(t)
    /\ UNCHANGED <<globals, defaults, byName, upstream, blocks>>

-----------------------------------------------------------------------------
(* Settings *)

\* The default of a pool name is written, under ctl_mtx.
SetDefault(t, n, v) ==
    /\ Ready(t)
    /\ defaults' = [defaults EXCEPT ![n] = v]
    /\ UNCHANGED <<globals, pool, byName, upstream, blocks, lib>>

\* A query by name takes the read lock, and visits the pools of the name.
QueryByName(t, n) ==
    /\ Ready(t) /\ n \in DOMAIN byName
    /\ lib' = [lib EXCEPT ![t] = [at |-> "query", pool |-> "none", left |-> byName[n]]]
    /\ UNCHANGED <<globals, defaults, pool, byName, upstream, blocks>>

Visit(t, v) ==
    /\ lib[t].at = "query"
    /\ IF lib[t].left = <<>> THEN LibReturn(t) /\ UNCHANGED pool
       ELSE /\ pool' = [pool EXCEPT ![Head(lib[t].left)].set = v]
            /\ lib' = [lib EXCEPT ![t].left = Tail(@)]
    /\ UNCHANGED <<globals, defaults, byName, upstream, blocks>>

LibNext ==
    \E t \in LibThreads :
        \/ umfInit(t) \/ umfTearDown(t)
        \/ \E p \in PoolIds, up \in Upstreams, own, track \in BOOLEAN : CreatePool(t, p, up, own, track)
        \/ Initialize(t) \/ ApplyDefaults(t) \/ Register(t)
        \/ \E p \in PoolIds : DestroyPool(t, p) \/ Malloc(t, p) \/ Free(t, p)
        \/ Finalize(t) \/ Increment(t) \/ Decrement(t)
        \/ \E up \in Upstreams : CreateProvider(t, up)
        \/ \E n \in Names : QueryByName(t, n) \/ \E v \in Settings : SetDefault(t, n, v)
        \/ \E v \in Settings : Visit(t, v)

LibSpec == LibInit /\ [][LibNext]_libVars

-----------------------------------------------------------------------------
(* Properties *)

\* While a thread has the library initialised, its tracker, its cache of opened
\* handles and its base allocator exist, whatever other threads start and end, and
\* whatever starts have failed before (umfInit, umfTearDown).
UpWhileUsed ==
    (\E t \in LibThreads : inits[t] > 0) => tracker = "up" /\ ipcGlobal /\ ~baseDestroyed

\* The registry leads only to pools that exist, each at most once and under its
\* name, and a query by name that is under way visits no pool that is being
\* destroyed (pools_by_name_add, pools_by_name_remove).
RegistryLive ==
    /\ \A n \in DOMAIN byName :
        /\ IsInjective(byName[n])
        /\ \A p \in ToSet(byName[n]) : NameOf[p] = n /\ pool[p].priv
    /\ \A t \in LibThreads : \A p \in ToSet(lib[t].left) : pool[p].priv

\* The owner of a provider, a tracking provider or a pool's data is a pool that
\* exists: a failing create leaves nothing behind, and the provider of a pool
\* exists as long as the pool (umfPoolCreateInternal, umfPoolDestroy).
NothingOrphaned ==
    \A p \in PoolIds :
        /\ pool[p].tracking \/ pool[p].priv => pool[p].handle
        /\ pool[p].handle => pool[p].up \in upstream

\* alloc_count is what the users hold and what is being freed: it does not run
\* below zero when a block is freed and allocated again at once, and it is exact
\* when no call is under way (umfPoolMalloc, umfPoolFree).
CountRight ==
    \A p \in PoolIds :
        pool[p].alloc_count =
            blocks[p] + Cardinality({t \in LibThreads : lib[t].at = "uncounted" /\ lib[t].pool = p})
=============================================================================
