----------------------------- MODULE DisjointPool -----------------------------
(***************************************************************************)
(* The disjoint pool (src/pool/pool_disjoint.c): pools of buckets, each    *)
(* with slabs of equal chunks, used by several threads.                    *)
(*                                                                         *)
(* A bucket is protected by its bucket_lock.  What threads share beyond it *)
(* are the map known_slabs of the pool (a critnib, atomic per operation),  *)
(* the counter total_size of the shared limits (atomic) and the memory     *)
(* provider.  A critical section that touches one of these once is one     *)
(* action; one that touches several is an action for each, so that other   *)
(* threads run in between.  A call that fails without an effect is a       *)
(* stuttering step.  A bucket is named by its pool and size; which bucket  *)
(* serves a size is the subject of module Buckets.                         *)
(***************************************************************************)
EXTENDS Integers, Sequences, FiniteSetsExt

CONSTANTS
    Threads,
    Pools,              \* pools that use the same shared limits
    BucketSizes,        \* the sizes of the buckets of a pool
    SlabMinSize,        \* params.slab_min_size
    MaxPoolableSize,    \* params.max_poolable_size
    Capacity,           \* params.capacity
    MaxSize,            \* shared_limits->max_size
    PageSize,           \* provider_min_page_size
    Addr,               \* the addresses of the memory provider
    Requests,           \* [size, alignment] of the calls to malloc and aligned_malloc
    SlabObjects,        \* slab_t objects: host memory is bounded
    TrimKeeps,          \* minBytesToKeep of the calls to trim_memory
    MayFinalize         \* are pools destroyed and created again?

ASSUME PoolAssumption ==
    /\ BucketSizes \subseteq Nat \ {0}
    /\ {SlabMinSize, MaxPoolableSize, Capacity, MaxSize, PageSize} \subseteq Nat
    /\ PageSize > 0 /\ SlabMinSize > 0
    /\ Addr \subseteq Nat \ {0}
    /\ SlabObjects \subseteq Nat \ {0}
    /\ TrimKeeps \subseteq Nat
    /\ MayFinalize \in BOOLEAN
    \* every pooled request has a bucket
    /\ Requests \subseteq [size : Nat \ {0}, alignment : Nat]
    /\ \A n \in 1 .. MaxPoolableSize : \E s \in BucketSizes : s >= n

VARIABLES
    slabs,                  \* slab object -> [mem_ptr, bucket, busy: the chunks in use]
    available,              \* bucket -> available_slabs, first to last
    unavailable,            \* bucket -> unavailable_slabs
    chunked_slabs_in_pool,  \* bucket -> counter
    stats,                  \* bucket -> [in_use, in_pool]: curr_slabs_* (pool_trace > 0)
    lock,                   \* bucket -> holder of bucket_lock
    known_slabs,            \* pool -> (address -> slab object)
    total_size,             \* shared_limits->total_size
    mapped,                 \* what the provider has handed out: address -> size
    held,                   \* what the users hold: address -> [pool, size, from]
    alive,                  \* pools between initialize and finalize
    thread                  \* where each thread is inside the pool

vars == <<slabs, available, unavailable, chunked_slabs_in_pool, stats, lock, known_slabs,
          total_size, mapped, held, alive, thread>>

-----------------------------------------------------------------------------

Nobody == "nobody"

\* Where an allocation comes from when no slab is involved.
Provider == 0

Idle == [at |-> "idle"]

NoEntries == [x \in {} |-> x]

Put(f, x, v) == [y \in DOMAIN f \cup {x} |-> IF y = x THEN v ELSE f[y]]

Drop(f, S) == [y \in DOMAIN f \ S |-> f[y]]

Bytes(a, size) == a .. (a + size - 1)

Without(l, s) == SelectSeq(l, LAMBDA x : x # s)

Elements(l) == {l[i] : i \in DOMAIN l}

AlignUp(n, a) == ((n + a - 1) \div a) * a

Buckets == Pools \X BucketSizes

\* Fault: every slab has the minimal size.
SlabSize_minimal(b) == SlabMinSize

SlabSize(b) == Max({b[2], SlabMinSize})

Chunks(b) == 0 .. (Max({SlabMinSize \div b[2], 1}) - 1)

\* The end of a slab, as disjoint_pool_free and malloc_usable_size compute it.
slab_get_end(s) == slabs[s].mem_ptr + SlabMinSize

\* Fault: the chunk is counted in slabs.
get_chunk_idx_by_slab(ptr, s) == (ptr - slabs[s].mem_ptr) \div SlabMinSize

get_chunk_idx(ptr, s) == (ptr - slabs[s].mem_ptr) \div slabs[s].bucket[2]

disjoint_pool_find_bucket(p, n) == <<p, Min({s \in BucketSizes : s >= n})>>

aligned_size(n, a) ==
    IF a <= 1 THEN n
    ELSE IF a <= PageSize THEN IF n > 1 THEN AlignUp(n, a) ELSE a
    ELSE n + a - 1

\* Addresses at which the provider may place an allocation.
umfMemoryProviderAlloc(n, a) ==
    {x \in Addr : /\ x % PageSize = 0
                  /\ a > 1 => x % a = 0
                  /\ Bytes(x, n) \subseteq Addr
                  /\ \A m \in DOMAIN mapped : Bytes(x, n) \cap Bytes(m, mapped[m]) = {}}

\* The slab registered at the largest address that is not above ptr.
critnib_find_le(known, ptr) ==
    LET below == {a \in DOMAIN known : a <= ptr}
    IN  IF below = {} THEN Provider ELSE known[Max(below)]

\* Fault: the end of the slab is not looked at.
SlabOf_endless(p, ptr) == critnib_find_le(known_slabs[p], ptr)

\* The slab that disjoint_pool_free takes a pointer to belong to.
SlabOf(p, ptr) ==
    LET s == critnib_find_le(known_slabs[p], ptr)
    IN  IF s = Provider \/ ptr >= slab_get_end(s) THEN Provider ELSE s

bucket_max_pooled_slabs(b) == IF b[2] <= SlabMinSize \div 2 THEN 1 ELSE Capacity

\* bucket_update_stats
Count(b, use, pool) ==
    stats' = [stats EXCEPT ![b].in_use = @ + use, ![b].in_pool = @ + pool]

\* The threads that hold a reference to a slab object (critnib_find_le took it).
Referrers(s) == {t \in Threads : thread[t].at \in {"lock", "sub", "destroy", "unregister"}
                                 /\ thread[t].slab = s}

-----------------------------------------------------------------------------
(* Allocation.                                                             *)

\* Fault: the chunk is not marked as used.
slab_get_chunk_unmarked(t, all, s, l, size, a) ==
    LET b    == all[s].bucket
        ptr  == all[s].mem_ptr + Min(Chunks(b) \ all[s].busy) * b[2]
    IN  /\ slabs' = all
        /\ available' = [available EXCEPT ![b] = l]
        /\ held' = Put(held, IF a > 1 THEN AlignUp(ptr, a) ELSE ptr,
                       [pool |-> b[1], size |-> size, from |-> s])
        /\ lock' = [lock EXCEPT ![b] = Nobody]
        /\ thread' = [thread EXCEPT ![t] = Idle]
        /\ UNCHANGED unavailable

\* Take the first free chunk of slab s, the head of list l, and unlock.
slab_get_chunk(t, all, s, l, size, a) ==
    LET b    == all[s].bucket
        idx  == Min(Chunks(b) \ all[s].busy)
        ptr  == all[s].mem_ptr + idx * b[2]
        full == all[s].busy \cup {idx} = Chunks(b)
    IN  /\ slabs' = [all EXCEPT ![s].busy = @ \cup {idx}]
        /\ available' = [available EXCEPT ![b] = IF full THEN Tail(l) ELSE l]
        /\ unavailable' = [unavailable EXCEPT ![b] = IF full THEN <<s>> \o @ ELSE @]
        /\ held' = Put(held, IF a > 1 THEN AlignUp(ptr, a) ELSE ptr,
                       [pool |-> b[1], size |-> size, from |-> s])
        /\ lock' = [lock EXCEPT ![b] = Nobody]
        /\ thread' = [thread EXCEPT ![t] = Idle]

\* A request above the pooling limit goes to the provider.
AllocateDirectly(t, p, r) ==
    /\ thread[t] = Idle /\ p \in alive
    /\ aligned_size(r.size, r.alignment) > MaxPoolableSize
    /\ \E x \in umfMemoryProviderAlloc(r.size, r.alignment) :
        /\ mapped' = Put(mapped, x, r.size)
        /\ held' = Put(held, x, [pool |-> p, size |-> r.size, from |-> Provider])
    /\ UNCHANGED <<slabs, available, unavailable, chunked_slabs_in_pool, stats, lock,
                   known_slabs, total_size, alive, thread>>

\* The bucket of a pooled request.
BucketFor(p, r) == disjoint_pool_find_bucket(p, aligned_size(r.size, r.alignment))

CanEnter(t, p, r) ==
    /\ thread[t] = Idle /\ p \in alive
    /\ aligned_size(r.size, r.alignment) <= MaxPoolableSize
    /\ lock[BucketFor(p, r)] = Nobody

\* Fault: a slab that leaves the pool stays in the shared limits.
AllocateFromSlab_keeps_limit(t, p, r) ==
    LET b == BucketFor(p, r)
        s == Head(available[b])
    IN  /\ CanEnter(t, p, r)
        /\ available[b] # <<>>
        /\ \/ /\ slabs[s].busy = {}
              /\ chunked_slabs_in_pool' = [chunked_slabs_in_pool EXCEPT ![b] = @ - 1]
              /\ Count(b, 1, -1)
           \/ slabs[s].busy # {} /\ UNCHANGED <<chunked_slabs_in_pool, stats>>
        /\ UNCHANGED total_size
        /\ slab_get_chunk(t, slabs, s, available[b], r.size, r.alignment)
        /\ UNCHANGED <<known_slabs, mapped, alive>>

\* Fault: every slab is taken for a pooled one.
AllocateFromSlab_always_counts(t, p, r) ==
    LET b == BucketFor(p, r)
        s == Head(available[b])
    IN  /\ CanEnter(t, p, r)
        /\ available[b] # <<>>
        /\ chunked_slabs_in_pool' = [chunked_slabs_in_pool EXCEPT ![b] = @ - 1]
        /\ total_size' = total_size - SlabSize(b)
        /\ Count(b, 1, -1)
        /\ slab_get_chunk(t, slabs, s, available[b], r.size, r.alignment)
        /\ UNCHANGED <<known_slabs, mapped, alive>>

\* Fault: the counter of empty slabs is not updated.
AllocateFromSlab_keeps_count(t, p, r) ==
    LET b == BucketFor(p, r)
        s == Head(available[b])
    IN  /\ CanEnter(t, p, r)
        /\ available[b] # <<>>
        /\ \/ slabs[s].busy = {} /\ total_size' = total_size - SlabSize(b) /\ Count(b, 1, -1)
           \/ slabs[s].busy # {} /\ UNCHANGED <<total_size, stats>>
        /\ UNCHANGED chunked_slabs_in_pool
        /\ slab_get_chunk(t, slabs, s, available[b], r.size, r.alignment)
        /\ UNCHANGED <<known_slabs, mapped, alive>>

\* A chunk of the first available slab; an empty slab leaves the pool.
AllocateFromSlab(t, p, r) ==
    LET b == BucketFor(p, r)
        s == Head(available[b])
    IN  /\ CanEnter(t, p, r)
        /\ available[b] # <<>>
        /\ \/ /\ slabs[s].busy = {}
              /\ chunked_slabs_in_pool' = [chunked_slabs_in_pool EXCEPT ![b] = @ - 1]
              /\ total_size' = total_size - SlabSize(b)
              /\ Count(b, 1, -1)
           \/ slabs[s].busy # {} /\ UNCHANGED <<chunked_slabs_in_pool, total_size, stats>>
        /\ slab_get_chunk(t, slabs, s, available[b], r.size, r.alignment)
        /\ UNCHANGED <<known_slabs, mapped, alive>>

\* No slab is available: create_slab asks the provider, under the lock.
create_slab(t, p, r) ==
    LET b == BucketFor(p, r)
    IN  /\ CanEnter(t, p, r)
        /\ available[b] = <<>>
        /\ SlabObjects \ DOMAIN slabs # {}
        /\ LET s == Min(SlabObjects \ DOMAIN slabs)
           IN  \E x \in umfMemoryProviderAlloc(SlabSize(b), 0) :
                /\ mapped' = Put(mapped, x, SlabSize(b))
                /\ slabs' = Put(slabs, s, [mem_ptr |-> x, bucket |-> b, busy |-> {}])
                /\ thread' = [thread EXCEPT ![t] = [at |-> "register", slab |-> s,
                                                    size |-> r.size, alignment |-> r.alignment]]
        /\ lock' = [lock EXCEPT ![b] = t]
        /\ UNCHANGED <<available, unavailable, chunked_slabs_in_pool, stats, known_slabs,
                       total_size, held, alive>>

\* The host or the provider has no memory for a slab: the call returns NULL.
AllocationFails(t, p, r) ==
    /\ CanEnter(t, p, r)
    /\ available[BucketFor(p, r)] = <<>>
    /\ UNCHANGED vars

\* Fault: a slab is registered over the one that is still there.
pool_register_slab_overwrites(t) ==
    LET s == thread[t].slab
        b == slabs[s].bucket
    IN  /\ thread[t].at = "register"
        /\ known_slabs' = [known_slabs EXCEPT ![b[1]] = Put(@, slabs[s].mem_ptr, s)]
        /\ Count(b, 1, 0)
        /\ slab_get_chunk(t, slabs, s, <<s>> \o available[b], thread[t].size, thread[t].alignment)
        /\ UNCHANGED <<chunked_slabs_in_pool, total_size, mapped, alive>>

\* pool_register_slab: an address that is still registered is refused, and
\* the map may have no host memory for a new entry.
pool_register_slab(t) ==
    LET s == thread[t].slab
        b == slabs[s].bucket
    IN  /\ thread[t].at = "register"
        /\ \/ /\ slabs[s].mem_ptr \notin DOMAIN known_slabs[b[1]]
              /\ known_slabs' = [known_slabs EXCEPT ![b[1]] = Put(@, slabs[s].mem_ptr, s)]
              /\ Count(b, 1, 0)
              /\ slab_get_chunk(t, slabs, s, <<s>> \o available[b],
                                thread[t].size, thread[t].alignment)
           \/ /\ thread' = [thread EXCEPT ![t].at = "undo"]
              /\ UNCHANGED <<slabs, available, unavailable, stats, lock, known_slabs, held>>
        /\ UNCHANGED <<chunked_slabs_in_pool, total_size, mapped, alive>>

\* The registration failed: the memory goes back, the slab object is leaked.
UndoSlab(t) ==
    LET s == thread[t].slab
    IN  /\ thread[t].at = "undo"
        /\ mapped' = Drop(mapped, {slabs[s].mem_ptr})
        /\ lock' = [lock EXCEPT ![slabs[s].bucket] = Nobody]
        /\ thread' = [thread EXCEPT ![t] = Idle]
        /\ UNCHANGED <<slabs, available, unavailable, chunked_slabs_in_pool, stats, known_slabs,
                       total_size, held, alive>>

-----------------------------------------------------------------------------
(* Free.  The user gives the pointer up when the call starts.              *)

\* The pointer is in no slab: the tracker knows its size, and the provider
\* takes it back if it is the start of an allocation.
FreeDirectly(t, ptr) ==
    /\ thread[t] = Idle
    /\ SlabOf(held[ptr].pool, ptr) = Provider
    /\ mapped' = Drop(mapped, {ptr})
    /\ held' = Drop(held, {ptr})
    /\ UNCHANGED <<slabs, available, unavailable, chunked_slabs_in_pool, stats, lock,
                   known_slabs, total_size, alive, thread>>

\* The pointer is in a slab: a reference keeps the slab object.
disjoint_pool_free(t, ptr) ==
    LET s == SlabOf(held[ptr].pool, ptr)
    IN  /\ thread[t] = Idle
        /\ s # Provider
        /\ thread' = [thread EXCEPT ![t] = [at |-> "lock", slab |-> s, ptr |-> ptr]]
        /\ held' = Drop(held, {ptr})
        /\ UNCHANGED <<slabs, available, unavailable, chunked_slabs_in_pool, stats, lock,
                       known_slabs, total_size, mapped, alive>>

\* Fault: one empty slab too many.
bucket_can_pool_one_more(t, b) ==
    \/ /\ bucket_max_pooled_slabs(b) >= chunked_slabs_in_pool[b]
       /\ total_size' = total_size + SlabSize(b)
       /\ \/ /\ total_size' <= MaxSize
             /\ chunked_slabs_in_pool' = [chunked_slabs_in_pool EXCEPT ![b] = @ + 1]
             /\ Count(b, -1, 1)
             /\ thread' = [thread EXCEPT ![t] = Idle]
             /\ UNCHANGED lock
          \/ /\ total_size' > MaxSize
             /\ thread' = [thread EXCEPT ![t].at = "sub"]
             /\ lock' = [lock EXCEPT ![b] = t]
             /\ UNCHANGED <<chunked_slabs_in_pool, stats>>
    \/ /\ bucket_max_pooled_slabs(b) < chunked_slabs_in_pool[b]
       /\ Count(b, -1, 0)
       /\ thread' = [thread EXCEPT ![t].at = "destroy"]
       /\ lock' = [lock EXCEPT ![b] = t]
       /\ UNCHANGED <<chunked_slabs_in_pool, total_size>>

\* bucket_can_pool, up to the atomic addition, for the slab that thread t empties.
bucket_can_pool(t, b) ==
    \/ /\ bucket_max_pooled_slabs(b) >= chunked_slabs_in_pool[b] + 1
       /\ total_size' = total_size + SlabSize(b)
       /\ \/ /\ total_size' <= MaxSize
             /\ chunked_slabs_in_pool' = [chunked_slabs_in_pool EXCEPT ![b] = @ + 1]
             /\ Count(b, -1, 1)
             /\ thread' = [thread EXCEPT ![t] = Idle]
             /\ UNCHANGED lock
          \/ /\ total_size' > MaxSize
             /\ thread' = [thread EXCEPT ![t].at = "sub"]
             /\ lock' = [lock EXCEPT ![b] = t]
             /\ UNCHANGED <<chunked_slabs_in_pool, stats>>
    \/ /\ bucket_max_pooled_slabs(b) < chunked_slabs_in_pool[b] + 1
       /\ Count(b, -1, 0)
       /\ thread' = [thread EXCEPT ![t].at = "destroy"]
       /\ lock' = [lock EXCEPT ![b] = t]
       /\ UNCHANGED <<chunked_slabs_in_pool, total_size>>

\* Fault: a slab that was full stays in the unavailable list.
bucket_free_chunk_not_moved(t) ==
    LET s   == thread[t].slab
        b   == slabs[s].bucket
        idx == get_chunk_idx(thread[t].ptr, s)
    IN  /\ thread[t].at = "lock"
        /\ lock[b] = Nobody
        /\ idx \in slabs[s].busy
        /\ slabs' = [slabs EXCEPT ![s].busy = @ \ {idx}]
        /\ \/ slabs'[s].busy = {} /\ bucket_can_pool(t, b)
           \/ /\ slabs'[s].busy # {}
              /\ thread' = [thread EXCEPT ![t] = Idle]
              /\ UNCHANGED <<lock, chunked_slabs_in_pool, total_size, stats>>
        /\ UNCHANGED <<available, unavailable, known_slabs, mapped, held, alive>>

\* The chunk is free again (an assertion stops a double free); a slab that was
\* full becomes available, and an empty one is pooled or goes back to the provider.
bucket_free_chunk(t) ==
    LET s   == thread[t].slab
        b   == slabs[s].bucket
        idx == get_chunk_idx(thread[t].ptr, s)
    IN  /\ thread[t].at = "lock"
        /\ lock[b] = Nobody
        /\ idx \in slabs[s].busy
        /\ slabs' = [slabs EXCEPT ![s].busy = @ \ {idx}]
        /\ IF Cardinality(Chunks(b) \ slabs'[s].busy) = 1
           THEN /\ unavailable' = [unavailable EXCEPT ![b] = Without(@, s)]
                /\ available' = [available EXCEPT ![b] = <<s>> \o @]
           ELSE UNCHANGED <<available, unavailable>>
        /\ \/ slabs'[s].busy = {} /\ bucket_can_pool(t, b)
           \/ /\ slabs'[s].busy # {}
              /\ thread' = [thread EXCEPT ![t] = Idle]
              /\ UNCHANGED <<lock, chunked_slabs_in_pool, total_size, stats>>
        /\ UNCHANGED <<known_slabs, mapped, held, alive>>

\* bucket_can_pool takes its addition back.
RefusePooling(t) ==
    LET b == slabs[thread[t].slab].bucket
    IN  /\ thread[t].at = "sub"
        /\ total_size' = total_size - SlabSize(b)
        /\ Count(b, -1, 0)
        /\ thread' = [thread EXCEPT ![t].at = "destroy"]
        /\ UNCHANGED <<slabs, available, unavailable, chunked_slabs_in_pool, lock, known_slabs,
                       mapped, held, alive>>

\* The memory of the slab goes back to the provider.
destroy_slab(t) ==
    /\ thread[t].at = "destroy"
    /\ mapped' = Drop(mapped, {slabs[thread[t].slab].mem_ptr})
    /\ thread' = [thread EXCEPT ![t].at = "unregister"]
    /\ UNCHANGED <<slabs, available, unavailable, chunked_slabs_in_pool, stats, lock, known_slabs,
                   total_size, held, alive>>

\* The slab leaves the list and the map; its object is freed with the last reference.
pool_unregister_slab(t) ==
    LET s == thread[t].slab
        b == slabs[s].bucket
    IN  /\ thread[t].at = "unregister"
        /\ available' = [available EXCEPT ![b] = Without(@, s)]
        /\ known_slabs' = [known_slabs EXCEPT ![b[1]] = Drop(@, {slabs[s].mem_ptr})]
        /\ slabs' = IF Referrers(s) = {t} THEN Drop(slabs, {s}) ELSE slabs
        /\ lock' = [lock EXCEPT ![b] = Nobody]
        /\ thread' = [thread EXCEPT ![t] = Idle]
        /\ UNCHANGED <<unavailable, chunked_slabs_in_pool, stats, total_size, mapped, held, alive>>

-----------------------------------------------------------------------------
(* Trimming, destruction and creation of a pool.                           *)

\* The walk over the buckets starts: `left` are those it has not locked yet.
disjoint_pool_trim_memory(t, p, keep) ==
    /\ thread[t] = Idle /\ p \in alive
    /\ thread' = [thread EXCEPT ![t] = [at |-> "trim", pool |-> p, left |-> BucketSizes,
                                        keep |-> keep]]
    /\ UNCHANGED <<slabs, available, unavailable, chunked_slabs_in_pool, stats, lock, known_slabs,
                   total_size, mapped, held, alive>>

TrimNextBucket(t) ==
    LET b == <<thread[t].pool, Min(thread[t].left)>>
    IN  /\ thread[t].at = "trim"
        /\ thread[t].left # {}
        /\ lock[b] = Nobody
        /\ lock' = [lock EXCEPT ![b] = t]
        /\ thread' = [thread EXCEPT ![t] = [at |-> "walk", pool |-> thread[t].pool,
                                            left |-> thread[t].left \ {b[2]}, keep |-> thread[t].keep,
                                            bucket |-> b, rest |-> available[b]]]
        /\ UNCHANGED <<slabs, available, unavailable, chunked_slabs_in_pool, stats, known_slabs,
                       total_size, mapped, held, alive>>

\* Fault: the walk stays at a slab that it leaves alone.
TrimSkip_stays(t) ==
    LET s == Head(thread[t].rest)
    IN  /\ thread[t].at = "walk"
        /\ thread[t].rest # <<>>
        /\ slabs[s].busy # {} \/ thread[t].keep > 0
        /\ thread' = [thread EXCEPT ![t].keep = IF slabs[s].busy # {} THEN @
                                               ELSE Max({@ - SlabSize(slabs[s].bucket), 0})]
        /\ UNCHANGED <<slabs, available, unavailable, chunked_slabs_in_pool, stats, lock,
                       known_slabs, total_size, mapped, held, alive>>

\* A slab is left alone: it is in use, or within the bytes to keep.
TrimSkip(t) ==
    LET s    == Head(thread[t].rest)
        size == SlabSize(slabs[s].bucket)
    IN  /\ thread[t].at = "walk"
        /\ thread[t].rest # <<>>
        /\ slabs[s].busy # {} \/ thread[t].keep > 0
        /\ thread' = [thread EXCEPT ![t].rest = Tail(@),
                                    ![t].keep = IF slabs[s].busy # {} THEN @ ELSE Max({@ - size, 0})]
        /\ UNCHANGED <<slabs, available, unavailable, chunked_slabs_in_pool, stats, lock,
                       known_slabs, total_size, mapped, held, alive>>

\* Fault: a slab in use is trimmed.
TrimDestroy_in_use(t) ==
    LET s == Head(thread[t].rest)
    IN  /\ thread[t].at = "walk"
        /\ thread[t].rest # <<>>
        /\ thread[t].keep = 0
        /\ mapped' = Drop(mapped, {slabs[s].mem_ptr})
        /\ thread' = [thread EXCEPT ![t].at = "walk_unregister"]
        /\ UNCHANGED <<slabs, available, unavailable, chunked_slabs_in_pool, stats, lock,
                       known_slabs, total_size, held, alive>>

TrimDestroy(t) ==
    LET s == Head(thread[t].rest)
    IN  /\ thread[t].at = "walk"
        /\ thread[t].rest # <<>>
        /\ slabs[s].busy = {} /\ thread[t].keep = 0
        /\ mapped' = Drop(mapped, {slabs[s].mem_ptr})
        /\ thread' = [thread EXCEPT ![t].at = "walk_unregister"]
        /\ UNCHANGED <<slabs, available, unavailable, chunked_slabs_in_pool, stats, lock,
                       known_slabs, total_size, held, alive>>

\* Fault: the statistics are not updated.
TrimUnregister_uncounted(t) ==
    LET s == Head(thread[t].rest)
        b == thread[t].bucket
    IN  /\ thread[t].at = "walk_unregister"
        /\ available' = [available EXCEPT ![b] = Without(@, s)]
        /\ known_slabs' = [known_slabs EXCEPT ![b[1]] = Drop(@, {slabs[s].mem_ptr})]
        /\ slabs' = Drop(slabs, {s})
        /\ thread' = [thread EXCEPT ![t].at = "walk", ![t].rest = Tail(@)]
        /\ UNCHANGED <<unavailable, chunked_slabs_in_pool, stats, lock, total_size, mapped, held,
                       alive>>

\* The counters of the pool and of the shared limits are left as they are.
TrimUnregister(t) ==
    LET s == Head(thread[t].rest)
        b == thread[t].bucket
    IN  /\ thread[t].at = "walk_unregister"
        /\ available' = [available EXCEPT ![b] = Without(@, s)]
        /\ known_slabs' = [known_slabs EXCEPT ![b[1]] = Drop(@, {slabs[s].mem_ptr})]
        /\ slabs' = IF Referrers(s) = {} THEN Drop(slabs, {s}) ELSE slabs
        /\ Count(b, 0, -1)
        /\ thread' = [thread EXCEPT ![t].at = "walk", ![t].rest = Tail(@)]
        /\ UNCHANGED <<unavailable, chunked_slabs_in_pool, lock, total_size, mapped, held, alive>>

TrimBucketDone(t) ==
    LET left == thread[t].left
    IN  /\ thread[t].at = "walk"
        /\ thread[t].rest = <<>>
        /\ lock' = [lock EXCEPT ![thread[t].bucket] = Nobody]
        /\ thread' = [thread EXCEPT ![t] =
                        IF left = {} THEN Idle
                        ELSE [at |-> "trim", pool |-> thread[t].pool, left |-> left,
                              keep |-> thread[t].keep]]
        /\ UNCHANGED <<slabs, available, unavailable, chunked_slabs_in_pool, stats, known_slabs,
                       total_size, mapped, held, alive>>

\* Nobody is inside pool p.
Quiet(p) ==
    \A t \in Threads :
        \/ thread[t] = Idle
        \/ thread[t].at \in {"trim", "walk", "walk_unregister"} /\ thread[t].pool # p
        \/ /\ thread[t].at \notin {"idle", "trim", "walk", "walk_unregister"}
           /\ slabs[thread[t].slab].bucket[1] # p

\* All slabs go back to the provider; the shared limits are not told.
disjoint_pool_finalize(p) ==
    LET ours == {known_slabs[p][a] : a \in DOMAIN known_slabs[p]}
    IN  /\ MayFinalize
        /\ p \in alive /\ Quiet(p)
        /\ alive' = alive \ {p}
        /\ mapped' = Drop(mapped, DOMAIN known_slabs[p])
        /\ slabs' = Drop(slabs, ours)
        /\ known_slabs' = [known_slabs EXCEPT ![p] = NoEntries]
        /\ available' = [b \in Buckets |-> IF b[1] = p THEN <<>> ELSE available[b]]
        /\ unavailable' = [b \in Buckets |-> IF b[1] = p THEN <<>> ELSE unavailable[b]]
        /\ held' = Drop(held, {ptr \in DOMAIN held : held[ptr].pool = p})
        /\ UNCHANGED <<chunked_slabs_in_pool, stats, lock, total_size, thread>>

\* A new pool under the old name, with the same shared limits.
disjoint_pool_initialize(p) ==
    /\ p \notin alive
    /\ alive' = alive \cup {p}
    /\ chunked_slabs_in_pool' = [b \in Buckets |-> IF b[1] = p THEN 0 ELSE chunked_slabs_in_pool[b]]
    /\ stats' = [b \in Buckets |-> IF b[1] = p THEN [in_use |-> 0, in_pool |-> 0] ELSE stats[b]]
    /\ UNCHANGED <<slabs, available, unavailable, lock, known_slabs, total_size, mapped, held, thread>>

-----------------------------------------------------------------------------

Init ==
    /\ slabs = NoEntries
    /\ available = [b \in Buckets |-> <<>>]
    /\ unavailable = [b \in Buckets |-> <<>>]
    /\ chunked_slabs_in_pool = [b \in Buckets |-> 0]
    /\ stats = [b \in Buckets |-> [in_use |-> 0, in_pool |-> 0]]
    /\ lock = [b \in Buckets |-> Nobody]
    /\ known_slabs = [p \in Pools |-> NoEntries]
    /\ total_size = 0
    /\ mapped = NoEntries
    /\ held = NoEntries
    /\ alive = Pools
    /\ thread = [t \in Threads |-> Idle]

\* The steps of a thread that is past the lock, or needs none.
Step(t) ==
    \/ pool_register_slab(t)
    \/ UndoSlab(t)
    \/ RefusePooling(t)
    \/ destroy_slab(t)
    \/ pool_unregister_slab(t)
    \/ TrimSkip(t)
    \/ TrimDestroy(t)
    \/ TrimUnregister(t)
    \/ TrimBucketDone(t)

Next ==
    \/ \E t \in Threads :
        \/ Step(t)
        \/ bucket_free_chunk(t)
        \/ TrimNextBucket(t)
        \/ \E p \in Pools, r \in Requests : \/ AllocateDirectly(t, p, r)
                                         \/ AllocateFromSlab(t, p, r)
                                         \/ create_slab(t, p, r)
                                         \/ AllocationFails(t, p, r)
        \/ \E ptr \in DOMAIN held : FreeDirectly(t, ptr) \/ disjoint_pool_free(t, ptr)
        \/ \E p \in Pools, keep \in TrimKeeps : disjoint_pool_trim_memory(t, p, keep)
    \/ \E p \in Pools : disjoint_pool_finalize(p) \/ disjoint_pool_initialize(p)

Spec == Init /\ [][Next]_vars

\* A thread inside a critical section runs on: it waits for nobody there.
FairSpec == Spec /\ \A t \in Threads : WF_vars(Step(t))

-----------------------------------------------------------------------------
(* What must hold.                                                         *)

SumOver(S, Op(_)) == MapThenSumSet(Op, S)

Empties(b) == {s \in Elements(available[b]) : slabs[s].busy = {}}

InUse(b) == {s \in Elements(available[b]) \cup Elements(unavailable[b]) : slabs[s].busy # {}}

\* Every variable has its shape, and no counter is negative: the atomic
\* subtractions never take more than was added (the assertions of
\* pool_disjoint.c:680 and 737).
TypeOK ==
    /\ DOMAIN slabs \subseteq SlabObjects
    /\ \A s \in DOMAIN slabs : /\ slabs[s].mem_ptr \in Addr
                               /\ slabs[s].bucket \in Buckets
                               /\ slabs[s].busy \subseteq Chunks(slabs[s].bucket)
    /\ \A b \in Buckets : /\ Elements(available[b]) \cup Elements(unavailable[b]) \subseteq DOMAIN slabs
                          /\ chunked_slabs_in_pool[b] \in Nat
                          /\ stats[b] \in [in_use : Nat, in_pool : Nat]
                          /\ lock[b] \in Threads \cup {Nobody}
    /\ \A p \in Pools : \A a \in DOMAIN known_slabs[p] : known_slabs[p][a] \in DOMAIN slabs
    /\ total_size \in Nat
    /\ DOMAIN mapped \subseteq Addr
    /\ alive \subseteq Pools

\* Two users never share a byte, whichever pool, bucket or path served them.
LiveDisjoint ==
    \A x, y \in DOMAIN held :
        x # y => Bytes(x, held[x].size) \cap Bytes(y, held[y].size) = {}

\* No chunk is lost and none is handed out twice: the chunks in use are those
\* that users hold or that a thread is on its way to free.
ChunksOwned ==
    LET owners == {x \in DOMAIN held : held[x].from # Provider}
    IN  /\ \A x \in owners : get_chunk_idx(x, held[x].from) \in slabs[held[x].from].busy
        /\ SumOver(DOMAIN slabs, LAMBDA s : Cardinality(slabs[s].busy)) =
              Cardinality(owners) + Cardinality({t \in Threads : thread[t].at = "lock"})

\* What a user holds stays inside memory the provider has handed out and not
\* taken back: an allocation outlives the trimming and the slab traffic of others.
HeldIsMapped ==
    \A x \in DOMAIN held : \E m \in DOMAIN mapped :
        Bytes(x, held[x].size) \subseteq Bytes(m, mapped[m])

\* A bucket that is not locked has each of its slabs in one list: the
\* available one when a chunk is free, else the unavailable one.
SlabsListed ==
    \A b \in Buckets : lock[b] = Nobody =>
        LET listed == available[b] \o unavailable[b]
        IN  /\ \A i, j \in DOMAIN listed : listed[i] = listed[j] => i = j
            /\ \A s \in Elements(available[b]) : slabs[s].busy # Chunks(b)
            /\ \A s \in Elements(unavailable[b]) : slabs[s].busy = Chunks(b)
            /\ {known_slabs[b[1]][a] : a \in DOMAIN known_slabs[b[1]]} \cap
                    {s \in DOMAIN slabs : slabs[s].bucket = b} = Elements(listed)

\* Trimming takes nothing that is in use, and leaves each slab in its list.
TrimSafe == HeldIsMapped /\ SlabsListed

\* The counter that bucket_can_pool relies on: "a counter of entirely empty
\* slabs within the available list" (pool_disjoint_internal.h:57-58).
EmptySlabsCounted ==
    \A b \in Buckets : lock[b] = Nobody => chunked_slabs_in_pool[b] = Cardinality(Empties(b))

\* The pool keeps no more empty slabs than it may: the capacity of each bucket
\* and the limit that the pools share, however their frees interleave.
PoolingBounded ==
    /\ \A b \in Buckets : lock[b] = Nobody => Cardinality(Empties(b)) <= bucket_max_pooled_slabs(b)
    /\ SumOver(Buckets, LAMBDA b : SlabSize(b) * chunked_slabs_in_pool[b]) <= MaxSize

\* The shared counter is the size of the slabs that living pools keep, plus
\* what threads have added and are about to take back: the limit is about "the
\* sum of those pools' sizes" (include/umf/pools/pool_disjoint.h:23).
LimitExact ==
    total_size = SumOver(alive \X BucketSizes, LAMBDA b : SlabSize(b) * chunked_slabs_in_pool[b])
                 + SumOver({t \in Threads : thread[t].at = "sub"},
                           LAMBDA t : SlabSize(slabs[thread[t].slab].bucket))

\* The counters of pooled slabs stay exact, in their range and within both limits
\* while threads of two pools allocate and free.
PooledRight == TypeOK /\ PoolingBounded /\ LimitExact

\* What CTL reports: the slabs in use and in the pool, through every path.
StatsRight ==
    \A b \in Buckets : lock[b] = Nobody /\ b[1] \in alive =>
        stats[b] = [in_use |-> Cardinality(InUse(b)), in_pool |-> Cardinality(Empties(b))]

\* A chunk that is about to be freed is in use: "double free detected"
\* (pool_disjoint.c:493) is never asserted when users free what they hold.
NoDoubleFree ==
    \A t \in Threads : thread[t].at = "lock" =>
        get_chunk_idx(thread[t].ptr, thread[t].slab) \in slabs[thread[t].slab].busy

\* A pointer is taken back where it came from: the lookup finds the slab of a
\* chunk, and none for "memory [that] comes directly from the provider"
\* (pool_disjoint.c:1137).
FreeFindsOrigin == \A x \in DOMAIN held : SlabOf(held[x].pool, x) = held[x].from

\* Fault: the bytes skipped for the alignment are counted as usable.
usable_size_whole_chunk(x) ==
    LET s == SlabOf(held[x].pool, x)
        m == CHOOSE m \in DOMAIN mapped : x \in Bytes(m, mapped[m])
    IN  IF s = Provider THEN mapped[m] ELSE slabs[s].bucket[2]

\* disjoint_pool_malloc_usable_size
usable_size(x) ==
    LET s == SlabOf(held[x].pool, x)
        b == slabs[s].bucket
        m == CHOOSE m \in DOMAIN mapped : x \in Bytes(m, mapped[m])
    IN  IF s = Provider THEN mapped[m]
        ELSE b[2] - (x - (slabs[s].mem_ptr + get_chunk_idx(x, s) * b[2]))

\* The usable size covers the request and nothing that another user holds.
UsableSizeSafe ==
    \A x \in DOMAIN held :
        /\ usable_size(x) >= held[x].size
        /\ \A y \in DOMAIN held \ {x} :
              Bytes(x, usable_size(x)) \cap Bytes(y, held[y].size) = {}

\* An aligned allocation is as good as any other: it shares no byte with another
\* one, nor does what its user is told is usable, and it is freed where it came from.
AlignedSafe == LiveDisjoint /\ UsableSizeSafe /\ FreeFindsOrigin

\* A bucket lock is given back: no critical section waits for another thread.
LocksReleased ==
    \A b \in Buckets, t \in Threads : lock[b] = t ~> lock[b] # t

=============================================================================
