------------------------------ MODULE JemallocPool ------------------------------
(***************************************************************************)
(* The jemalloc pool (pool_jemalloc.c).  Every pool has arenas of its own;  *)
(* a thread always uses the same one.  An arena gets its memory (extents)   *)
(* from the provider of the pool that pool_by_arena_index names, through    *)
(* hooks.  jemalloc itself is external: it hands out arena numbers, keeps   *)
(* freed memory in the arena, and reuses the numbers of destroyed arenas.   *)
(* Arena 0 is jemalloc's own and has no hooks.                              *)
(***************************************************************************)
EXTENDS Integers, FiniteSets, Sequences

CONSTANTS
    JeThreads,      \* hash64(tid) of the threads: natural numbers
    JePools,        \* pools; each stands for its provider too
    Arenas,         \* arena numbers that jemalloc can give, 0 excluded
    ArenaMax,       \* MALLOCX_ARENA_MAX
    DefaultArenas,  \* four times the number of cores
    MinArenas,      \* twice the number of cores
    ParamArenas,    \* numbers of arenas that parameters may ask for
    Extents,        \* identities of extents
    JeFails         \* what may fail: "create", "hooks"; "again" and "late" are EAGAIN
                    \* from "create", before and after there are enough arenas

ASSUME JeAssumption ==
    /\ JeThreads \subseteq Nat /\ Arenas \subseteq Nat \ {0}
    /\ ArenaMax \in Nat \ {0} /\ DefaultArenas \in Nat \ {0} /\ ParamArenas \subseteq Nat \ {0}

VARIABLES
    jePool,         \* pool -> its state, number of arenas and their numbers
    arenaUsed,      \* the arenas that exist
    hooked,         \* the arenas with the hooks of UMF
    poolByArena,    \* pool_by_arena_index: a pool, or "null"
    extent          \* extent -> its arena, the provider it is from and the pool that uses it

jeVars == <<jePool, arenaUsed, hooked, poolByArena, extent>>

NoJePool == [at |-> "none", n |-> 0, index |-> <<>>, created |-> 0, fixed |-> FALSE]

JeInit ==
    /\ jePool = [p \in JePools |-> NoJePool]
    /\ arenaUsed = {} /\ hooked = {}
    /\ poolByArena = [a \in Arenas |-> "null"]
    /\ extent = <<>>

\* What remains when the arenas of a set are destroyed; their extents go back to
\* the providers.  jemalloc refuses to destroy arena 0.
DestroyArenas(as) ==
    /\ arenaUsed' = arenaUsed \ as /\ hooked' = hooked \ as
    /\ extent' = [x \in {y \in DOMAIN extent : extent[y].arena \notin as \ {0}} |-> extent[x]]

-----------------------------------------------------------------------------
(* op_initialize.                                                          *)

\* want is 0 when the parameters leave the number open or there are none.
op_initialize(p, given, want) ==
    LET n == IF want = 0 THEN IF DefaultArenas > ArenaMax THEN ArenaMax ELSE DefaultArenas ELSE want
    IN  /\ jePool[p].at = "none" /\ n <= ArenaMax /\ (want # 0 => given)
        /\ jePool' = [jePool EXCEPT ![p] = [at |-> "starting", n |-> n, index |-> [i \in 1 .. n |-> 0],
                                            created |-> 0, fixed |-> given]]
        /\ UNCHANGED <<arenaUsed, hooked, poolByArena, extent>>

Starting(p) == jePool[p].at = "starting" /\ jePool[p].created < jePool[p].n

\* err_cleanup: the arenas made so far are destroyed.
CleanUp(p, as) ==
    /\ DestroyArenas(as)
    /\ jePool' = [jePool EXCEPT ![p] = NoJePool]

Made(p) == {jePool[p].index[i] : i \in 1 .. jePool[p].created}

\* Fault: the table of pools is filled only where it has no entry.
NotePoolOnce(p, a) ==
    poolByArena' = IF poolByArena[a] = "null" THEN [poolByArena EXCEPT ![a] = p] ELSE poolByArena

NotePool(p, a) == poolByArena' = [poolByArena EXCEPT ![a] = p]

CreateArena(p, a) ==
    /\ Starting(p) /\ a \notin arenaUsed /\ a < ArenaMax
    /\ NotePool(p, a)
    /\ arenaUsed' = arenaUsed \cup {a} /\ hooked' = hooked \cup {a}
    /\ jePool' = [jePool EXCEPT ![p].index[jePool[p].created + 1] = a, ![p].created = @ + 1]
    /\ UNCHANGED extent

\* The number is beyond the table, or the hooks cannot be set.
CreateUnusable(p, a) ==
    /\ Starting(p) /\ a \notin arenaUsed
    /\ a < ArenaMax => "hooks" \in JeFails
    /\ IF a < ArenaMax THEN NotePool(p, a) ELSE UNCHANGED poolByArena
    /\ CleanUp(p, Made(p) \cup {a})

CreateFails(p) ==
    /\ Starting(p) /\ "create" \in JeFails
    /\ CleanUp(p, Made(p))
    /\ UNCHANGED poolByArena

\* A number that was asked for has to be reached.
Enough(p) == ~jePool[p].fixed /\ jePool[p].created >= MinArenas

\* EAGAIN: a pool with enough arenas does with what it has.  Its n_arenas stays.
CreateAgain(p) ==
    /\ Starting(p) /\ (IF Enough(p) THEN "late" ELSE "again") \in JeFails
    /\ IF ~Enough(p) THEN CleanUp(p, Made(p))
       ELSE jePool' = [jePool EXCEPT ![p].at = "ready"] /\ UNCHANGED <<arenaUsed, hooked, extent>>
    /\ UNCHANGED poolByArena

AllCreated(p) ==
    /\ jePool[p].at = "starting" /\ ~Starting(p)
    /\ jePool' = [jePool EXCEPT ![p].at = "ready"]
    /\ UNCHANGED <<arenaUsed, hooked, poolByArena, extent>>

\* All blocks are freed before a pool is destroyed.
op_finalize(p) ==
    /\ jePool[p].at = "ready" /\ ~\E x \in DOMAIN extent : extent[x].user = p
    /\ DestroyArenas({jePool[p].index[i] : i \in 1 .. jePool[p].n})
    /\ jePool' = [jePool EXCEPT ![p] = NoJePool]
    /\ UNCHANGED poolByArena

-----------------------------------------------------------------------------
(* Allocation.  A block is an extent of its own.                           *)

get_arena_index(p, t) == jePool[p].index[(t % jePool[p].n) + 1]

\* A new extent comes from the provider of the arena's pool.
arena_extent_alloc(a) == IF a \in hooked THEN poolByArena[a] ELSE "jemalloc"

\* Fault: any free memory of jemalloc serves, as with a thread cache.
ServesAny(x, a) == extent[x].user = "none"

\* Memory that jemalloc has kept serves a request for the same arena.
Serves(x, a) == extent[x].user = "none" /\ extent[x].arena = a

op_malloc(p, t, x) ==
    /\ jePool[p].at = "ready"
    /\ LET a == get_arena_index(p, t)
       IN  \/ /\ x \in DOMAIN extent /\ Serves(x, a)
              /\ extent' = [extent EXCEPT ![x].user = p]
           \/ /\ x \notin DOMAIN extent
              /\ extent' = [y \in DOMAIN extent \cup {x} |->
                               IF y = x THEN [arena |-> a, from |-> arena_extent_alloc(a), user |-> p]
                               ELSE extent[y]]
    /\ UNCHANGED <<jePool, arenaUsed, hooked, poolByArena>>

op_free(x) ==
    /\ x \in DOMAIN extent /\ extent[x].user # "none"
    /\ extent' = [extent EXCEPT ![x].user = "none"]
    /\ UNCHANGED <<jePool, arenaUsed, hooked, poolByArena>>

\* The block may move to the arena of the calling thread.
op_realloc(p, t, x, y) ==
    /\ jePool[p].at = "ready" /\ x \in DOMAIN extent /\ extent[x].user = p
    /\ y \in DOMAIN extent /\ Serves(y, get_arena_index(p, t))
    /\ extent' = [extent EXCEPT ![x].user = "none", ![y].user = p]
    /\ UNCHANGED <<jePool, arenaUsed, hooked, poolByArena>>

\* Kept memory is given back, on a trim or when jemalloc likes.
arena_extent_dalloc(x) ==
    /\ x \in DOMAIN extent /\ extent[x].user = "none"
    /\ extent' = [y \in DOMAIN extent \ {x} |-> extent[y]]
    /\ UNCHANGED <<jePool, arenaUsed, hooked, poolByArena>>

\* Both parts belong to the same arena and the provider is told.
arena_extent_split(x, y) ==
    /\ x \in DOMAIN extent /\ y \notin DOMAIN extent /\ extent[x].user = "none"
    /\ extent' = [z \in DOMAIN extent \cup {y} |-> IF z = y THEN extent[x] ELSE extent[z]]
    /\ UNCHANGED <<jePool, arenaUsed, hooked, poolByArena>>

arena_extent_merge(x, y) ==
    /\ x # y /\ {x, y} \subseteq DOMAIN extent /\ extent[x] = extent[y] /\ extent[x].user = "none"
    /\ extent' = [z \in DOMAIN extent \ {y} |-> extent[z]]
    /\ UNCHANGED <<jePool, arenaUsed, hooked, poolByArena>>

JeNext ==
    \/ \E p \in JePools :
           \/ \E given \in BOOLEAN, want \in ParamArenas \cup {0} : op_initialize(p, given, want)
           \/ \E a \in Arenas : CreateArena(p, a) \/ CreateUnusable(p, a)
           \/ CreateFails(p) \/ CreateAgain(p) \/ AllCreated(p) \/ op_finalize(p)
           \/ \E t \in JeThreads, x \in Extents :
                  op_malloc(p, t, x) \/ \E y \in Extents : op_realloc(p, t, x, y)
    \/ \E x \in Extents : op_free(x) \/ arena_extent_dalloc(x)
    \/ \E x, y \in Extents : arena_extent_split(x, y) \/ arena_extent_merge(x, y)

JeSpec == JeInit /\ [][JeNext]_jeVars

-----------------------------------------------------------------------------
(* What holds.                                                             *)

\* The memory that a pool hands out is from its own provider, and goes back there:
\* the table names the pool that an arena's extents are from, also after arenas were
\* destroyed and their numbers used again.
ProvidersIsolated ==
    \A x \in DOMAIN extent :
        /\ extent[x].user \in {"none", extent[x].from}
        /\ extent[x].arena \in hooked => poolByArena[extent[x].arena] = extent[x].from

\* No arena outlives its pool and no two pools share one.
ArenasOwned ==
    /\ arenaUsed = UNION {Made(p) : p \in JePools}
    /\ \A p, q \in JePools : p # q => Made(p) \cap Made(q) = {}

=============================================================================
