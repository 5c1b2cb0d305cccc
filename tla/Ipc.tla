---------------------------------- MODULE Ipc ----------------------------------
(***************************************************************************)
(* Sharing memory between processes: the IPC calls (src/ipc.c), the part   *)
(* of the tracking provider behind them (src/provider/provider_tracking.c) *)
(* and the cache of opened handles (src/ipc_cache.c).                      *)
(*                                                                         *)
(* The producer gets a handle for a region it has allocated.  The tracking *)
(* provider keeps the handle of the provider below in ipcCache until the   *)
(* region is freed.  The consumer opens a handle through an IPC handler, a *)
(* tracking provider of its own: all the handlers share one list of opened *)
(* handles in order of their last use, and an entry that nobody uses makes *)
(* room for a new one when the list has reached max_size.                  *)
(*                                                                         *)
(* What happens under the cache lock is one step, but for the destruction  *)
(* of a cache, which calls its callback with the lock held.  The callback  *)
(* of an eviction runs after the lock is released.                         *)
(***************************************************************************)
EXTENDS Integers, FiniteSetsExt, SequencesExt

CONSTANTS
    IpcThreads,
    Handlers,       \* tracking providers that open handles
    UpstreamOf,     \* handler -> the provider below it
    Regions,        \* base addresses of the producer, each with its process
    MaxOpened,      \* UMF_MAX_OPENED_IPC_HANDLES, 0: no limit
    Entries,        \* cache entry objects: host memory is bounded
    Windows,        \* addresses at which the consumer can map memory
    MaxHandles,     \* bound on IPC_HANDLE_ID
    MaxFailedOpens, \* bound on the failing opens
    IpcFails,       \* what may fail: "get", "insert", "entry", "open", "segment"
    FreesShared     \* the producer frees a region while somebody has it open

ASSUME IpcAssumption ==
    /\ UpstreamOf \in [Handlers -> STRING]
    /\ MaxOpened \in Nat /\ MaxHandles \in Nat /\ MaxFailedOpens \in Nat
    /\ Windows \subseteq Nat \ {0} /\ Entries \subseteq Nat \ {0}
    /\ IpcFails \subseteq {"get", "insert", "entry", "open", "segment"}
    /\ FreesShared \in BOOLEAN

VARIABLES
    ipcCache,       \* region -> id of its cached handle, 0: none
    handleId,       \* IPC_HANDLE_ID
    issued,         \* handles of the producer's provider that were not put back
    handles,        \* handles the users have: [region, id]
    cacheLock,      \* cache_lock while a cache is destroyed
    entry,          \* entry -> [by, region, id, ref, map, lock]
    lru,            \* the entries, the last used first
    curSize,
    segments,       \* ipc_segments_map: address -> entry
    window,         \* what the consumer's providers have mapped: address -> [up, id]
    opens,          \* thread -> what it has open: [by, region, id, ptr]
    failedOpens,    \* failing opens so far
    alive,          \* handlers that exist
    ipc             \* thread -> where it is: [at, by, h, e, map]

ipcVars == <<ipcCache, handleId, issued, handles, cacheLock, entry, lru, curSize,
             segments, window, opens, failedOpens, alive, ipc>>

exportVars == <<ipcCache, handleId, issued, handles>>

-----------------------------------------------------------------------------

NoOne == "no one"

AtRest == [at |-> "idle", by |-> NoOne, h |-> [region |-> NoOne, id |-> 0], e |-> 0, map |-> 0]

Unused == [by |-> NoOne, region |-> NoOne, id |-> 0, ref |-> 0, map |-> 0, lock |-> NoOne]

Empty == [x \in {} |-> x]

With(f, x, v) == [y \in DOMAIN f \cup {x} |-> IF y = x THEN v ELSE f[y]]

Without(f, x) == [y \in DOMAIN f \ {x} |-> f[y]]

Go(t, at) == ipc' = [ipc EXCEPT ![t].at = at]

Return(t) == ipc' = [ipc EXCEPT ![t] = AtRest]

\* The threads between the start and the end of a call for this region.
Working(region) == {t \in IpcThreads : ipc[t].at # "idle" /\ ipc[t].h.region = region}

IpcInit ==
    /\ ipcCache = [r \in Regions |-> 0]
    /\ handleId = 0
    /\ issued = {}
    /\ handles = {}
    /\ cacheLock = NoOne
    /\ entry = [e \in Entries |-> Unused]
    /\ lru = <<>>
    /\ curSize = 0
    /\ segments = Empty
    /\ window = Empty
    /\ opens = [t \in IpcThreads |-> {}]
    /\ failedOpens = 0
    /\ alive = Handlers
    /\ ipc = [t \in IpcThreads |-> AtRest]

-----------------------------------------------------------------------------
(* The producer *)

\* Fault: a handle is cached over the one another thread has just cached.
InsertOver(t, r, id) ==
    /\ ipcCache' = [ipcCache EXCEPT ![r] = id]
    /\ handles' = handles \cup {[region |-> r, id |-> id]}
    /\ UNCHANGED issued
    /\ Return(t)

\* umfGetIPCHandle: the region of the pointer is found, and its tracking
\* provider asked for a handle.
umfGetIPCHandle(t, r) ==
    /\ ipc[t].at = "idle" /\ handleId < MaxHandles
    /\ ipc' = [ipc EXCEPT ![t].at = "lookup", ![t].h.region = r]
    /\ UNCHANGED <<exportVars, cacheLock, entry, lru, curSize, segments, window, opens, failedOpens, alive>>

\* A handle in the cache is copied to the user.
CachedHandle(t) ==
    LET r == ipc[t].h.region IN
    /\ ipc[t].at = "lookup" /\ ipcCache[r] # 0
    /\ handles' = handles \cup {[region |-> r, id |-> ipcCache[r]]}
    /\ Return(t)
    /\ UNCHANGED <<ipcCache, handleId, issued, cacheLock, entry, lru, curSize, segments, window, opens,
                   failedOpens, alive>>

\* Otherwise the provider below makes one.
CreateHandle(t) ==
    /\ ipc[t].at = "lookup" /\ ipcCache[ipc[t].h.region] = 0
    /\ \/ /\ handleId < MaxHandles
          /\ handleId' = handleId + 1
          /\ issued' = issued \cup {handleId'}
          /\ ipc' = [ipc EXCEPT ![t].at = "insert", ![t].h.id = handleId']
       \/ /\ "get" \in IpcFails \/ handleId = MaxHandles
          /\ Return(t)
          /\ UNCHANGED <<handleId, issued>>
    /\ UNCHANGED <<ipcCache, handles, cacheLock, entry, lru, curSize, segments, window, opens, failedOpens, alive>>

\* critnib_insert into ipcCache.  The handle is put back when another thread was
\* faster, whose handle is then read, or when the host has no memory.
InsertHandle(t, r, id) ==
    \/ /\ ipcCache[r] = 0
       /\ ipcCache' = [ipcCache EXCEPT ![r] = id]
       /\ handles' = handles \cup {[region |-> r, id |-> id]}
       /\ UNCHANGED issued
       /\ Return(t)
    \/ /\ ipcCache[r] # 0
       /\ issued' = issued \ {id}
       /\ Go(t, "lookup")
       /\ UNCHANGED <<ipcCache, handles>>
    \/ /\ "insert" \in IpcFails
       /\ issued' = issued \ {id}
       /\ Return(t)
       /\ UNCHANGED <<ipcCache, handles>>

Insert(t) ==
    /\ ipc[t].at = "insert"
    /\ InsertHandle(t, ipc[t].h.region, ipc[t].h.id)
    /\ UNCHANGED <<handleId, cacheLock, entry, lru, curSize, segments, window, opens, failedOpens, alive>>

\* umfPutIPCHandle frees the user's copy, the cached handle stays.
umfPutIPCHandle(h) ==
    /\ h \in handles /\ \A t \in IpcThreads : ipc[t].h # h
    /\ handles' = handles \ {h}
    /\ UNCHANGED <<ipcCache, handleId, issued, cacheLock, entry, lru, curSize, segments, window, opens,
                   failedOpens, alive, ipc>>

\* trackingFree: the cached handle goes back to the provider, and the region is
\* freed.  Its handles are no longer used, and the next allocation at this base
\* is another region.
FreeRegion(r) ==
    /\ Working(r) = {}
    /\ ipcCache[r] # 0
    /\ FreesShared \/ \A t \in IpcThreads : \A o \in opens[t] : o.region # r
    /\ issued' = issued \ {ipcCache[r]}
    /\ ipcCache' = [ipcCache EXCEPT ![r] = 0]
    /\ handles' = {h \in handles : h.region # r}
    /\ UNCHANGED <<handleId, cacheLock, entry, lru, curSize, segments, window, opens, failedOpens, alive, ipc>>

-----------------------------------------------------------------------------
(* The cache of opened handles *)

Listed == ToSet(lru)

\* HASH_FIND: the entry of this handler for this region.
Found(by, r) == {e \in Listed : entry[e].by = by /\ entry[e].region = r}

ToFront(e) == <<e>> \o SelectSeq(lru, LAMBDA f : f # e)

\* Fault: the least recently used entry is evicted, used or not.
Oldest == IF lru = <<>> THEN {} ELSE {Last(lru)}

\* The least recently used of the entries that nobody uses.
Candidate ==
    LET unused == SelectSeq(lru, LAMBDA f : entry[f].ref = 0) IN
    IF unused = <<>> THEN {} ELSE {Last(unused)}

\* The entry that makes room: the entry of an earlier region at this base, or,
\* when the cache is full, the candidate.
Victim(by, r) ==
    IF Found(by, r) # {} THEN Found(by, r)
    ELSE IF MaxOpened # 0 /\ curSize >= MaxOpened THEN Candidate ELSE {}

\* umfOpenIPCHandle
umfOpenIPCHandle(t, by, h) ==
    /\ ipc[t].at = "idle" /\ by \in alive /\ h \in handles
    /\ \A o \in opens[t] : o.by # by \/ o.region # h.region \/ o.id # h.id
    /\ ipc' = [ipc EXCEPT ![t] = [at |-> "get", by |-> by, h |-> h, e |-> 0, map |-> 0]]
    /\ UNCHANGED <<exportVars, cacheLock, entry, lru, curSize, segments, window, opens, failedOpens, alive>>

\* umfIpcOpenedCacheGet, an entry with this handle.
GetHit(t) ==
    LET e == CHOOSE f \in Found(ipc[t].by, ipc[t].h.region) : TRUE IN
    /\ ipc[t].at = "get" /\ cacheLock = NoOne
    /\ Found(ipc[t].by, ipc[t].h.region) # {}
    /\ entry[e].id = ipc[t].h.id
    /\ lru' = ToFront(e)
    /\ entry' = [entry EXCEPT ![e].ref = @ + 1]
    /\ ipc' = [ipc EXCEPT ![t].at = "load", ![t].e = e]
    /\ UNCHANGED <<exportVars, cacheLock, curSize, segments, window, opens, failedOpens, alive>>

NewEntry(t) ==
    [by |-> ipc[t].by, region |-> ipc[t].h.region, id |-> ipc[t].h.id, ref |-> 1, map |-> 0, lock |-> NoOne]

\* The entry that makes room is used for the new handle, what it had mapped is
\* left to the eviction callback; or there is a new entry.
GetMiss(t) ==
    LET victim == Victim(ipc[t].by, ipc[t].h.region) IN
    /\ ipc[t].at = "get" /\ cacheLock = NoOne
    /\ \A f \in Found(ipc[t].by, ipc[t].h.region) : entry[f].id # ipc[t].h.id
    /\ \/ \E e \in victim :
            /\ entry' = [entry EXCEPT ![e] = [NewEntry(t) EXCEPT !.lock = entry[e].lock]]
            /\ lru' = ToFront(e)
            /\ ipc' = [ipc EXCEPT ![t].at = "forget", ![t].e = e, ![t].map = entry[e].map]
            /\ UNCHANGED curSize
       \/ /\ victim = {} /\ Entries \ Listed # {}
          /\ LET e == Min(Entries \ Listed) IN
             /\ entry' = [entry EXCEPT ![e] = NewEntry(t)]
             /\ lru' = <<e>> \o lru
             /\ ipc' = [ipc EXCEPT ![t].at = "load", ![t].e = e]
          /\ curSize' = curSize + 1
       \/ /\ victim = {} /\ ("entry" \in IpcFails \/ Entries \ Listed = {})
          /\ Return(t)
          /\ UNCHANGED <<entry, lru, curSize>>
    /\ UNCHANGED <<exportVars, cacheLock, segments, window, opens, failedOpens, alive>>

-----------------------------------------------------------------------------
(* ipcOpenedCacheEvictionCallback, from Get and from the destruction of a cache *)

\* Fault: the memory is unmapped while the tracker still knows it.
CloseFirst(t) ==
    /\ window' = Without(window, ipc[t].map)
    /\ UNCHANGED segments

\* umfMemoryTrackerRemoveIpcSegment
RemoveSegment(t) ==
    /\ segments' = Without(segments, ipc[t].map)
    /\ UNCHANGED window

EvictForget(t) ==
    /\ ipc[t].at = "forget"
    /\ RemoveSegment(t)
    /\ Go(t, "unmap")
    /\ UNCHANGED <<exportVars, cacheLock, entry, lru, curSize, opens, failedOpens, alive>>

\* Fault: what was evicted stays mapped.
KeepMapped(t) == UNCHANGED window

\* The handler that closes is the one that asks for the new handle, not the one
\* that opened the evicted one: their providers may differ.
CloseEvicted(t) ==
    window' = IF ipc[t].map \in DOMAIN window /\ window[ipc[t].map].up = UpstreamOf[ipc[t].by]
              THEN Without(window, ipc[t].map) ELSE window

EvictUnmap(t) ==
    /\ ipc[t].at = "unmap"
    /\ CloseEvicted(t)
    /\ IF cacheLock = t THEN Go(t, "destroy") ELSE Go(t, "load")
    /\ UNCHANGED <<exportVars, cacheLock, entry, lru, curSize, segments, opens, failedOpens, alive>>

-----------------------------------------------------------------------------
(* trackingOpenIpcHandle *)

\* The handle is open: the user has the mapped address.
Opened(t, ptr) ==
    /\ opens' = [opens EXCEPT ![t] = @ \cup {[by |-> ipc[t].by, region |-> ipc[t].h.region,
                                             id |-> ipc[t].h.id, ptr |-> ptr]}]
    /\ Return(t)

\* mapped_base_ptr is read, and taken when it is there.
Load(t) ==
    /\ ipc[t].at = "load"
    /\ IF entry[ipc[t].e].map # 0 THEN Opened(t, entry[ipc[t].e].map)
       ELSE Go(t, "lock") /\ UNCHANGED opens
    /\ UNCHANGED <<exportVars, cacheLock, entry, lru, curSize, segments, window, failedOpens, alive>>

\* Fault: mapped_base_ptr is not read again under the lock.
LockOnly(t) ==
    /\ entry' = [entry EXCEPT ![ipc[t].e].lock = t]
    /\ Go(t, "open")
    /\ UNCHANGED opens

\* Under mmap_lock mapped_base_ptr is read again: another thread may have mapped
\* the memory.
LockAndLook(t) ==
    IF entry[ipc[t].e].map # 0 THEN Opened(t, entry[ipc[t].e].map) /\ UNCHANGED entry
    ELSE /\ entry' = [entry EXCEPT ![ipc[t].e].lock = t]
         /\ Go(t, "open")
         /\ UNCHANGED opens

Lock(t) ==
    /\ ipc[t].at = "lock" /\ entry[ipc[t].e].lock = NoOne
    /\ LockAndLook(t)
    /\ UNCHANGED <<exportVars, cacheLock, lru, curSize, segments, window, failedOpens, alive>>

\* Fault: an open that fails leaves the entry locked.
OpenFailedLocked(t) ==
    /\ failedOpens < MaxFailedOpens
    /\ failedOpens' = failedOpens + 1
    /\ Return(t)
    /\ UNCHANGED entry

\* An open that fails unlocks the entry, and leaves its reference.
OpenFailed(t) ==
    /\ failedOpens < MaxFailedOpens
    /\ failedOpens' = failedOpens + 1
    /\ entry' = [entry EXCEPT ![ipc[t].e].lock = NoOne]
    /\ Return(t)

\* upstreamOpenIPCHandle: the provider maps the memory, at an address of its choice.
UpstreamOpen(t) ==
    /\ ipc[t].at = "open"
    /\ \/ \E w \in Windows \ DOMAIN window :
            /\ window' = With(window, w, [up |-> UpstreamOf[ipc[t].by], id |-> ipc[t].h.id])
            /\ ipc' = [ipc EXCEPT ![t].at = "track", ![t].map = w]
            /\ UNCHANGED <<entry, failedOpens>>
       \/ /\ "open" \in IpcFails
          /\ OpenFailed(t)
          /\ UNCHANGED window
    /\ UNCHANGED <<exportVars, cacheLock, lru, curSize, segments, opens, alive>>

\* umfMemoryTrackerAddIpcSegment, which fails when the address is still known;
\* what was mapped is then unmapped.
AddSegment(t) ==
    /\ ipc[t].at = "track"
    /\ \/ /\ ipc[t].map \notin DOMAIN segments
          /\ segments' = With(segments, ipc[t].map, ipc[t].e)
          /\ Go(t, "store")
          /\ UNCHANGED <<entry, window, failedOpens>>
       \/ /\ "segment" \in IpcFails \/ ipc[t].map \in DOMAIN segments
          /\ window' = Without(window, ipc[t].map)
          /\ OpenFailed(t)
          /\ UNCHANGED segments
    /\ UNCHANGED <<exportVars, cacheLock, lru, curSize, opens, alive>>

\* mapped_base_ptr is set, and the entry unlocked.
Store(t) ==
    /\ ipc[t].at = "store"
    /\ entry' = [entry EXCEPT ![ipc[t].e].map = ipc[t].map, ![ipc[t].e].lock = NoOne]
    /\ Opened(t, ipc[t].map)
    /\ UNCHANGED <<exportVars, cacheLock, lru, curSize, segments, window, failedOpens, alive>>

-----------------------------------------------------------------------------
(* Closing a handle, and destroying a handler *)

\* umfCloseIPCHandle: the entry of the address is found in the tracker.
umfCloseIPCHandle(t, o) ==
    /\ ipc[t].at = "idle" /\ o \in opens[t]
    /\ opens' = [opens EXCEPT ![t] = @ \ {o}]
    /\ IF o.ptr \in DOMAIN segments
       THEN ipc' = [ipc EXCEPT ![t] = [at |-> "release", by |-> o.by, e |-> segments[o.ptr], map |-> o.ptr,
                                       h |-> [region |-> o.region, id |-> o.id]]]
       ELSE UNCHANGED ipc
    /\ UNCHANGED <<exportVars, cacheLock, entry, lru, curSize, segments, window, failedOpens, alive>>

\* umfIpcHandleMappedCacheRelease, without the lock.
ReleaseMapped(t) ==
    /\ ipc[t].at = "release"
    /\ entry' = [entry EXCEPT ![ipc[t].e].ref = @ - 1]
    /\ Return(t)
    /\ UNCHANGED <<exportVars, cacheLock, lru, curSize, segments, window, opens, failedOpens, alive>>

\* trackingFinalize of a handler that nobody uses, then umfIpcOpenedCacheDestroy.
DestroyHandler(t, by) ==
    /\ ipc[t].at = "idle" /\ by \in alive /\ cacheLock = NoOne
    /\ \A u \in IpcThreads : ipc[u].by # by /\ \A o \in opens[u] : o.by # by
    /\ cacheLock' = t
    /\ alive' = alive \ {by}
    /\ ipc' = [ipc EXCEPT ![t].at = "destroy", ![t].by = by]
    /\ UNCHANGED <<exportVars, entry, lru, curSize, segments, window, opens, failedOpens>>

\* Fault: the entries of every cache are deleted.
OwnEntriesAll(by) == Listed

\* HASH_ITER over the entries of the cache.
OwnEntries(by) == {e \in Listed : entry[e].by = by}

DestroyEntry(t) ==
    /\ ipc[t].at = "destroy"
    /\ \/ \E e \in OwnEntries(ipc[t].by) :
            /\ lru' = SelectSeq(lru, LAMBDA f : f # e)
            /\ curSize' = curSize - 1
            /\ entry' = [entry EXCEPT ![e] = Unused]
            /\ ipc' = [ipc EXCEPT ![t].at = "forget", ![t].map = entry[e].map]
            /\ UNCHANGED cacheLock
       \/ /\ OwnEntries(ipc[t].by) = {}
          /\ cacheLock' = NoOne
          /\ Return(t)
          /\ UNCHANGED <<lru, curSize, entry>>
    /\ UNCHANGED <<exportVars, segments, window, opens, failedOpens, alive>>

\* The handler is created again.
CreateHandler(by) ==
    /\ by \in Handlers \ alive /\ \A u \in IpcThreads : ipc[u].by # by
    /\ alive' = alive \cup {by}
    /\ UNCHANGED <<exportVars, cacheLock, entry, lru, curSize, segments, window, opens, failedOpens, ipc>>

IpcStep(t) ==
    \/ CachedHandle(t) \/ CreateHandle(t) \/ Insert(t)
    \/ GetHit(t) \/ GetMiss(t) \/ EvictForget(t) \/ EvictUnmap(t)
    \/ Load(t) \/ Lock(t) \/ UpstreamOpen(t) \/ AddSegment(t) \/ Store(t)
    \/ ReleaseMapped(t) \/ DestroyEntry(t)

IpcNext ==
    \/ \E t \in IpcThreads :
        \/ \E r \in Regions : umfGetIPCHandle(t, r)
        \/ \E by \in Handlers, h \in handles : umfOpenIPCHandle(t, by, h)
        \/ \E o \in opens[t] : umfCloseIPCHandle(t, o)
        \/ \E by \in Handlers : DestroyHandler(t, by)
        \/ IpcStep(t)
    \/ \E h \in handles : umfPutIPCHandle(h)
    \/ \E r \in Regions : FreeRegion(r)
    \/ \E by \in Handlers : CreateHandler(by)

\* A thread inside a call goes on: a lock that is released again and again is not
\* kept from it for ever.
IpcFairness == \A t \in IpcThreads : SF_ipcVars(IpcStep(t))

IpcSpec == IpcInit /\ [][IpcNext]_ipcVars /\ IpcFairness

-----------------------------------------------------------------------------
(* Properties *)

\* The threads that count on an entry: between Get and the end of the open, or
\* closing it.
Using(e) ==
    {t \in IpcThreads : /\ ipc[t].e = e
                        /\ ipc[t].at \in {"forget", "unmap", "load", "lock", "open", "track", "store", "release"}}

\* What is open and mapped by this entry.
OpensOf(e) == {<<t, o>> \in UNION {{t} \X opens[t] : t \in IpcThreads} : o.ptr = entry[e].map}

\* An address that a user has from umfOpenIPCHandle stays mapped to the memory of
\* that handle, and known to the tracker, until the user closes it: the entry is
\* listed, and its reference count covers everyone who counts on it, so no
\* eviction for another handle unmaps it (umfIpcOpenedCacheGet,
\* umfIpcHandleMappedCacheRelease).
OpenStaysMapped ==
    /\ \A t \in IpcThreads : \A o \in opens[t] :
        /\ o.ptr \in DOMAIN window /\ window[o.ptr] = [up |-> UpstreamOf[o.by], id |-> o.id]
        /\ o.ptr \in DOMAIN segments
        /\ entry[segments[o.ptr]].map = o.ptr
    /\ \A e \in Listed : entry[e].ref >= Cardinality(Using(e)) + Cardinality(OpensOf(e))

\* All the handles the users have of one region are the same handle: threads that
\* ask at the same time end up with the one in ipcCache, and a handle that is still
\* issued (trackingGetIpcHandle).
OneHandlePerRegion == \A h \in handles : h.id = ipcCache[h.region] /\ h.id \in issued

\* Nothing of a provider is lost: a mapping is in an entry or in the hands of a
\* thread that stores it or unmaps it, and each entry has its own; a handle of the
\* producer is in ipcCache or in the hands of the thread that made it; the size of
\* the cache is that of its list, and a destroyed handler leaves no entry, as the
\* tear down of the library asserts.  And there is one handle per region.
NothingLost ==
    /\ \A w \in DOMAIN window :
        Cardinality({e \in Listed : entry[e].map = w}) +
        Cardinality({t \in IpcThreads : ipc[t].at \in {"forget", "unmap", "track", "store"} /\ ipc[t].map = w}) = 1
    /\ \A id \in issued :
        \/ \E r \in Regions : ipcCache[r] = id
        \/ \E t \in IpcThreads : ipc[t].at = "insert" /\ ipc[t].h.id = id
    /\ curSize = Len(lru)
    /\ \A e \in Listed : entry[e].by \in alive \/ cacheLock # NoOne
    /\ OneHandlePerRegion

\* Every call returns: an entry that is locked and a cache that is destroyed are
\* unlocked.
IpcCallsReturn == \A t \in IpcThreads : ipc[t].at # "idle" ~> ipc[t].at = "idle"
=============================================================================
