------------------------------- MODULE BaseAlloc -------------------------------
(***************************************************************************)
(* The allocator the library uses for itself, under src/base_alloc: pools  *)
(* of chunks of one size (base_alloc.c), and the global allocator with a   *)
(* pool for each class of sizes (base_alloc_global.c).  Each call runs     *)
(* under the lock of its pool and is one step.                             *)
(***************************************************************************)
EXTENDS SystemMemory, SequencesExt

CONSTANTS
    Header,         \* bytes before the data of the first memory of a pool
    NextHeader,     \* bytes before the data of its further memory
    MinChunks,      \* MINIMUM_CHUNK_COUNT
    BaseWord,           \* MEMORY_ALIGNMENT and ALLOC_METADATA_SIZE
    Classes,        \* sizes of the allocation classes, powers of 2
    Requests,       \* sizes that are asked for
    BaseAlignments,
    MaxUsed         \* bound on the blocks of the global allocator

ASSUME BaseAllocAssumption ==
    /\ {Header, NextHeader, MinChunks, BaseWord, MaxUsed} \subseteq Nat \ {0}
    /\ Requests \cup BaseAlignments \subseteq Nat \ {0}
    /\ Header <= Page /\ NextHeader < Page

VARIABLES
    class,          \* class -> its pool, see NoClass
    created,        \* classes that umf_ba_create_global has gone through
    baDestroyed,    \* ba_is_destroyed
    used            \* blocks of the global allocator: [user, ptr, total, offset, req, align]

baVars == <<os, class, created, baDestroyed, used>>

-----------------------------------------------------------------------------

NoClass == [made |-> FALSE, free |-> <<>>, pools |-> {}, chunks |-> {}, n_allocs |-> 0]

BaInit ==
    /\ class = [c \in DOMAIN Classes |-> NoClass]
    /\ created = 0
    /\ baDestroyed = FALSE
    /\ used = {}

-----------------------------------------------------------------------------
(* Pools of chunks *)

\* umf_ba_create: the memory that is asked for, once and again.
PoolSize(c) == AlignUp(Header + MinChunks * AlignUp(Classes[c], BaseWord), Page)

\* ba_divide_memory_into_chunks
Divide(from, size, chunk) == [i \in 1 .. (size \div chunk) |-> from + (i - 1) * chunk]

\* umf_ba_create_global, class after class, at the first allocation.  A class that
\* gets no memory does without a pool.
CreateClass ==
    LET c == created + 1 IN
    /\ created < Len(Classes) /\ used = {}
    /\ created' = c
    /\ baDestroyed' = FALSE
    /\ \/ \E a \in OsRoom(PoolSize(c)) :
            LET chunks == Divide(a + Header, PoolSize(c) - Header, Classes[c]) IN
            /\ OsAlloc(a, PoolSize(c))
            /\ class' = [class EXCEPT ![c] =
                [made |-> TRUE, free |-> chunks, pools |-> {a}, chunks |-> ToSet(chunks), n_allocs |-> 0]]
       \/ /\ c = Len(Classes)
          /\ UNCHANGED <<class, os>>
    /\ UNCHANGED used

\* Fault: a free chunk stays in the list.
TakeChunkStays(p) == [p EXCEPT !.n_allocs = @ + 1]

TakeChunk(p) == [p EXCEPT !.free = Tail(@), !.n_allocs = @ + 1]

\* umf_ba_alloc: without a free chunk the pool takes more memory of the system.
Grown(c, a) ==
    LET chunks == Divide(a + NextHeader, PoolSize(c) - NextHeader, Classes[c]) IN
    [class[c] EXCEPT !.free = chunks, !.pools = @ \cup {a}, !.chunks = @ \cup ToSet(chunks)]

\* umf_ba_free
GiveBack(p, chunk) == [p EXCEPT !.free = <<chunk>> \o @, !.n_allocs = @ - 1]

-----------------------------------------------------------------------------
(* The global allocator *)

\* Fault: the size is rounded down to a class.
ClassBelow(size) ==
    Cardinality({c \in DOMAIN Classes : Classes[c] <= size}) + (IF size < Classes[1] THEN 1 ELSE 0)

\* size_to_idx: the class of a size, the smallest that has room; one past the last
\* when none has.
ClassOf(size) == Cardinality({c \in DOMAIN Classes : Classes[c] < size}) + 1

\* The size with the metadata, and with room to align.
Total(size, align) == size + BaseWord + (IF align > BaseWord THEN align ELSE 0)

\* Fault: the alignment leaves no room for the metadata.
UserPointerTight(ptr, align) == AlignUp(ptr, align)

\* add_metadata_and_align: where the user's part starts.
UserPointer(ptr, align) == IF align <= BaseWord THEN ptr + BaseWord ELSE AlignUp(ptr + BaseWord, align)

Block(ptr, size, align) ==
    [user |-> UserPointer(ptr, align), ptr |-> ptr, total |-> Total(size, align), offset |-> UserPointer(ptr, align) - ptr,
     req |-> size, align |-> align]

\* umf_ba_global_aligned_alloc: a chunk of the class of the size; memory of the
\* system for a size without a class, or whose class has no pool.
GlobalAlloc(size, align) ==
    LET c == ClassOf(Total(size, align)) IN
    /\ created = Len(Classes) /\ Cardinality(used) < MaxUsed
    /\ \/ /\ c \in DOMAIN Classes /\ class[c].made
          /\ \/ /\ class[c].free # <<>>
                /\ class' = [class EXCEPT ![c] = TakeChunk(@)]
                /\ used' = used \cup {Block(Head(class[c].free), size, align)}
                /\ UNCHANGED os
             \/ /\ class[c].free = <<>>
                /\ \E a \in OsRoom(PoolSize(c)) :
                    /\ OsAlloc(a, PoolSize(c))
                    /\ class' = [class EXCEPT ![c] = TakeChunk(Grown(c, a))]
                    /\ used' = used \cup {Block(Head(Grown(c, a).free), size, align)}
       \/ /\ c \in DOMAIN Classes => ~class[c].made
          /\ \E a \in OsRoom(Total(size, align)) :
                /\ OsAlloc(a, Total(size, align))
                /\ used' = used \cup {Block(a, size, align)}
          /\ UNCHANGED class
    /\ UNCHANGED <<created, baDestroyed>>

\* umf_ba_global_free: get_original_alloc finds the start and the size of the block
\* in its metadata, and the size leads to the class.  Once the allocator is
\* destroyed nothing is freed.
GlobalFree(b) ==
    LET ptr == b.user - b.offset
        c == ClassOf(b.total) IN
    /\ b \in used
    /\ used' = used \ {b}
    /\ IF baDestroyed THEN UNCHANGED <<os, class>>
       ELSE IF c \in DOMAIN Classes /\ class[c].made
       THEN class' = [class EXCEPT ![c] = GiveBack(@, ptr)] /\ UNCHANGED os
       ELSE OsFree({ptr}) /\ UNCHANGED class
    /\ UNCHANGED <<created, baDestroyed>>

\* umf_ba_destroy_global, and umf_ba_destroy of each class: all its memory goes,
\* whether its chunks are free or not.
DestroyGlobal ==
    /\ created = Len(Classes)
    /\ baDestroyed' = TRUE
    /\ created' = 0
    /\ OsFree(UNION {class[c].pools : c \in DOMAIN Classes})
    /\ class' = [c \in DOMAIN Classes |-> NoClass]
    /\ UNCHANGED used

BaNext ==
    \/ CreateClass
    \/ \E size \in Requests, align \in BaseAlignments : GlobalAlloc(size, align)
    \/ \E b \in used : GlobalFree(b)
    \/ DestroyGlobal

-----------------------------------------------------------------------------
(* Properties *)

\* A block of the global allocator is aligned, has the bytes that were asked for
\* after its metadata, and lies in memory of the system that no other block lies
\* in, for every size, alignment and class (umf_ba_global_aligned_alloc).
BlocksFit ==
    ~baDestroyed => \A b \in used :
        /\ b.align > BaseWord => b.user % b.align = 0
        /\ b.user - BaseWord >= b.ptr /\ b.user + b.req <= b.ptr + b.total
        /\ InMemory(b.ptr, b.total)
        /\ \A d \in used \ {b} : Apart(b.ptr, b.total, d.ptr, d.total)

\* A chunk is free or part of one block, whatever class was made, grown or destroyed
\* in between, and n_allocs counts the blocks of a class: what ba_debug_checks
\* asserts in a debug build.
ChunksCounted ==
    ~baDestroyed => \A c \in DOMAIN Classes :
        LET taken == {b.ptr : b \in {d \in used : ClassOf(d.total) = c}} IN
        class[c].made =>
            /\ IsInjective(class[c].free)
            /\ ToSet(class[c].free) \cap taken = {}
            /\ ToSet(class[c].free) \cup taken = class[c].chunks
            /\ class[c].n_allocs = Cardinality(taken)
=============================================================================
