-------------------------------- MODULE Tracker --------------------------------
(***************************************************************************)
(* The memory tracker and the tracking provider                            *)
(* (src/provider/provider_tracking.c).  Every pool allocates through a     *)
(* tracking provider, which records each allocation of the provider below  *)
(* in a map, so that a pointer leads to its pool.  Memory of one pool may  *)
(* serve as the memory of another: there is a map for each level of such   *)
(* nesting, and an entry counts the entries inside it at the next level.   *)
(*                                                                         *)
(* The maps are read without a lock, one critnib_find per level.  A find   *)
(* is two steps, reaching a leaf and taking a reference to it, because a   *)
(* leaf may be removed in between.  A leaf stands for the leaf of the      *)
(* critnib and for the tracker_alloc_info_t it leads to, which are freed   *)
(* together with the last reference.                                       *)
(***************************************************************************)
EXTENDS Integers, FiniteSetsExt

CONSTANTS
    Threads,
    Pools,
    Nesting,        \* pool -> on how many other pools it is stacked
    Addr,           \* the addresses of the provider at the bottom
    Sizes,          \* pool -> sizes it asks its provider for
    Uses,           \* thread -> the pools it works for
    Asked,          \* pools whose pointers users look up
    Splits,         \* pools that split what they hold
    Merges,         \* pools that merge what they hold
    MayFail,        \* "insert" (but for memory that could not be freed), "free", "split", "merge"
    MaxLevels,      \* MAX_LEVELS_OF_ALLOC_SEGMENT_MAP
    Leaves,         \* leaf objects: host memory is bounded
    MaxLeaks        \* bound on the references that are left behind when providers refuse

ASSUME TrackerAssumption ==
    /\ Nesting \in [Pools -> Nat]
    /\ Addr \subseteq Nat \ {0}
    /\ \A p \in Pools : Sizes[p] \subseteq Nat \ {0}
    /\ \A t \in Threads : Uses[t] \subseteq Pools
    /\ Asked \subseteq Pools /\ Splits \subseteq Pools /\ Merges \subseteq Pools
    /\ MayFail \subseteq {"insert", "free", "split", "merge"}
    /\ MaxLevels \in Nat \ {0} /\ MaxLeaks \in Nat
    /\ Leaves \subseteq Nat \ {0}

VARIABLES
    leaf,               \* leaf -> [key, level, pool, size, n_children, refs, linked]
    splitMergeMutex,
    given,              \* pool -> what its upstream provider has handed out: address -> size
    held,               \* pool -> what it holds itself: address -> size
    thread              \* where each thread is inside the tracking provider

vars == <<leaf, splitMergeMutex, given, held, thread>>

-----------------------------------------------------------------------------

Nobody == "nobody"

\* No leaf: a NULL reference.
None == 0

Idle == [at |-> "idle"]

NoEntries == [x \in {} |-> x]

Put(f, x, v) == [y \in DOMAIN f \cup {x} |-> IF y = x THEN v ELSE f[y]]

Drop(f, x) == [y \in DOMAIN f \ {x} |-> f[y]]

Bytes(a, size) == a .. (a + size - 1)

Covered(f) == UNION {Bytes(a, f[a]) : a \in DOMAIN f}

\* The threads that change what pool p has at address a.
Busy(p, a) ==
    {t \in Threads : /\ thread[t].at # "idle" /\ thread[t].op # "query"
                     /\ thread[t].pool = p /\ a \in {thread[t].lo, thread[t].hi}}

\* Somebody looks up a pointer to one of these bytes, which they hold.
Watched(bytes) ==
    \E t \in Threads : thread[t].at # "idle" /\ thread[t].op = "query" /\ thread[t].ptr \in bytes

\* The provider of pool p may hand out this range: it is free, and part of one
\* allocation of a pool below.
CanGive(p, a, size) ==
    /\ Bytes(a, size) \cap Covered(given[p]) = {}
    /\ ~Watched(Bytes(a, size))
    /\ IF Nesting[p] = 0 THEN Bytes(a, size) \subseteq Addr
       ELSE \E q \in Pools :
                /\ Nesting[q] = Nesting[p] - 1
                /\ \E r \in DOMAIN held[q] : /\ Bytes(a, size) \subseteq Bytes(r, held[q][r])
                                             /\ Busy(q, r) = {}

\* The bytes of pool p that pools above it use.
Above(p) == UNION {Covered(given[q]) : q \in {q \in Pools : Nesting[q] = Nesting[p] + 1}}

\* Pool p may change what it holds at address a.
Changeable(p, a) ==
    a \in DOMAIN held[p] /\ Busy(p, a) = {} /\ Bytes(a, held[p][a]) \cap Above(p) = {}

Inside(t) == thread[t].at # "idle"

\* The leaves that a thread will look at: it holds a reference to each.
Referred(t) ==
    IF ~Inside(t) THEN {}
    ELSE ({thread[t].parent, thread[t].low, IF thread[t].at = "ref" THEN None ELSE thread[t].cur}
          \ {None})

\* References that nobody will release.
Leaks ==
    MapThenSumSet(LAMBDA k : leaf[k].refs - (IF leaf[k].linked THEN 1 ELSE 0)
                             - Cardinality({t \in Threads : k \in Referred(t)}), DOMAIN leaf)

\* A call begins.
Begin(t, op, p, lo, hi, size) ==
    thread' = [thread EXCEPT ![t] =
                 [at |-> "find", op |-> op, pool |-> p, lo |-> lo, hi |-> hi, size |-> size,
                  ptr |-> lo, level |-> 0, cur |-> None, parent |-> None, low |-> None]]

-----------------------------------------------------------------------------
(* The map of a level, a critnib.                                          *)

Take(lf, k) == [lf EXCEPT ![k].refs = @ + 1]

\* Fault: a leaf is freed one reference too late.
Release_late(lf, k) ==
    IF k = None THEN lf
    ELSE IF lf[k].refs = 0 THEN Drop(lf, k)
    ELSE [lf EXCEPT ![k].refs = @ - 1]

\* critnib_release: the last reference frees the leaf.
Release(lf, k) ==
    IF k = None THEN lf
    ELSE IF lf[k].refs = 1 THEN Drop(lf, k)
    ELSE [lf EXCEPT ![k].refs = @ - 1]

\* critnib_remove: readers that have reached the leaf still see it.
Unlink(lf, k) == [lf EXCEPT ![k].linked = FALSE]

Linked(level) == {k \in DOMAIN leaf : leaf[k].linked /\ leaf[k].level = level}

\* The leaf with the largest key that is not above ptr.
FindLE(level, ptr) ==
    LET S == {k \in Linked(level) : leaf[k].key <= ptr}
    IN  IF S = {} THEN None ELSE CHOOSE k \in S : \A j \in S : leaf[j].key <= leaf[k].key

\* Leaves are not used again while a reader may have reached them (DELETED_LIFE).
FreshLeaves == Leaves \ (DOMAIN leaf \cup {thread[t].cur : t \in {u \in Threads : thread[u].at = "ref"}})

\* Does the range of leaf k contain the pointer?
Contains(k, ptr) == ptr < leaf[k].key + leaf[k].size

-----------------------------------------------------------------------------
(* The loop over the levels, which umfMemoryTrackerAdd,                    *)
(* get_most_nested_alloc_segment and umfMemoryTrackerGetAllocInfo share.   *)

Adds == {"alloc", "restore"}

\* Where a call goes on when the loop is left without an entry.
AfterLoop(op) ==
    IF op \in Adds THEN "insert" ELSE IF op = "query" THEN "answer" ELSE "missing"

\* critnib_find reaches a leaf.
Find(t) ==
    LET k == FindLE(thread[t].level, thread[t].ptr)
    IN  /\ thread[t].at = "find"
        /\ thread' = [thread EXCEPT ![t].at = IF k = None THEN AfterLoop(thread[t].op) ELSE "ref",
                                    ![t].cur = k]
        /\ UNCHANGED <<leaf, splitMergeMutex, given, held>>

\* Fault: a leaf that was removed is not told from one that is there.
FindRef_unchecked(t) ==
    /\ thread[t].at = "ref"
    /\ leaf' = IF thread[t].cur \in DOMAIN leaf THEN Take(leaf, thread[t].cur) ELSE leaf
    /\ thread' = [thread EXCEPT ![t].at = "read"]
    /\ UNCHANGED <<splitMergeMutex, given, held>>

\* critnib_find takes a reference.  A leaf that was removed meanwhile is not
\* found, or found with a value of NULL.  In the second case the loop is left,
\* too (`continue` goes to its condition and `found` is 0), and what was known
\* of lower levels is forgotten.
FindRef(t) ==
    LET k == thread[t].cur
    IN  /\ thread[t].at = "ref"
        /\ \/ /\ k \in DOMAIN leaf
              /\ leaf' = Take(leaf, k)
              /\ thread' = [thread EXCEPT ![t].at = "read"]
           \/ /\ k \in DOMAIN leaf /\ ~leaf[k].linked
              /\ thread' = [thread EXCEPT ![t].at = AfterLoop(thread[t].op), ![t].level = 0,
                                          ![t].cur = None, ![t].parent = None]
              /\ UNCHANGED leaf
           \/ /\ k \notin DOMAIN leaf
              /\ thread' = [thread EXCEPT ![t].at = AfterLoop(thread[t].op), ![t].cur = None]
              /\ UNCHANGED leaf
        /\ UNCHANGED <<splitMergeMutex, given, held>>

\* umfMemoryTrackerAdd: the parent is the most nested entry around the pointer.
\* The error returns keep their references.
AddRead(t) ==
    LET k    == thread[t].cur
        deep == thread[t].level = MaxLevels - 1
        ends == leaf[k].key + leaf[k].size
    IN  /\ thread[t].at = "read" /\ thread[t].op \in Adds
        /\ \/ /\ Contains(k, thread[t].ptr)
              /\ deep \/ thread[t].ptr + thread[t].size > ends
              /\ thread' = [thread EXCEPT ![t].at = "failed"]
              /\ UNCHANGED leaf
           \/ /\ Contains(k, thread[t].ptr)
              /\ ~deep /\ thread[t].ptr + thread[t].size <= ends
              /\ leaf' = Release(leaf, thread[t].parent)
              /\ thread' = [thread EXCEPT ![t].parent = k, ![t].level = @ + 1, ![t].cur = None,
                                          ![t].at = IF leaf[k].n_children > 0 THEN "find" ELSE "insert"]
           \/ /\ ~Contains(k, thread[t].ptr)
              /\ leaf' = Release(leaf, k)
              /\ thread' = [thread EXCEPT ![t].cur = None, ![t].at = "insert"]
        /\ UNCHANGED <<splitMergeMutex, given, held>>

\* Fault: the search for an entry stays on its level.
NestRead_same_level(t) ==
    LET k == thread[t].cur
        descend == Contains(k, thread[t].ptr) /\ leaf[k].n_children > 0
    IN  /\ thread[t].at = "read" /\ thread[t].op \in {"free", "split", "low", "high"}
        /\ leaf' = IF descend THEN Release(leaf, k) ELSE leaf
        /\ thread' = [thread EXCEPT ![t].at = IF descend THEN "find"
                                              ELSE IF leaf[k].key = thread[t].ptr THEN "found"
                                              ELSE "missing"]
        /\ UNCHANGED <<splitMergeMutex, given, held>>

\* get_most_nested_alloc_segment: an entry that starts at the pointer and has
\* no children.  A merge asks for no parent.
NestRead(t) ==
    LET k       == thread[t].cur
        descend == Contains(k, thread[t].ptr) /\ leaf[k].n_children > 0
        last    == thread[t].level = MaxLevels - 1
        asks    == thread[t].op \in {"free", "split"}
    IN  /\ thread[t].at = "read" /\ thread[t].op \in {"free", "split", "low", "high"}
        /\ \/ /\ descend /\ ~last
              /\ leaf' = Release(leaf, IF asks THEN thread[t].parent ELSE k)
              /\ thread' = [thread EXCEPT ![t].parent = IF asks THEN k ELSE None,
                                          ![t].level = @ + 1, ![t].cur = None, ![t].at = "find"]
           \/ /\ ~descend \/ last
              /\ thread' = [thread EXCEPT ![t].at =
                              IF leaf[k].key = thread[t].ptr /\ leaf[k].n_children = 0
                              THEN "found" ELSE "missing"]
              /\ UNCHANGED leaf
        /\ UNCHANGED <<splitMergeMutex, given, held>>

\* Fault: the outermost entry answers.
QueryRead_outermost(t) ==
    LET k == thread[t].cur
    IN  /\ thread[t].at = "read" /\ thread[t].op = "query"
        /\ thread' = [thread EXCEPT ![t].parent = k, ![t].at = "answer"]
        /\ UNCHANGED <<leaf, splitMergeMutex, given, held>>

\* umfMemoryTrackerGetAllocInfo: the most nested entry around the pointer.  A
\* reference to an entry that does not contain it is only released when no
\* entry of a lower level does.
QueryRead(t) ==
    LET k == thread[t].cur
    IN  /\ thread[t].at = "read" /\ thread[t].op = "query"
        /\ \/ /\ Contains(k, thread[t].ptr)
              /\ leaf' = Release(leaf, thread[t].parent)
              /\ \/ /\ leaf[k].n_children = 0 \/ thread[t].level = MaxLevels - 1
                    /\ thread' = [thread EXCEPT ![t].parent = k, ![t].at = "answer"]
                 \/ /\ leaf[k].n_children > 0 /\ thread[t].level < MaxLevels - 1
                    /\ thread' = [thread EXCEPT ![t].parent = k, ![t].level = @ + 1, ![t].at = "find"]
           \/ /\ ~Contains(k, thread[t].ptr)
              /\ leaf' = IF thread[t].parent = None THEN Release(leaf, k) ELSE leaf
              /\ thread' = [thread EXCEPT ![t].at = "answer"]
        /\ UNCHANGED <<splitMergeMutex, given, held>>

-----------------------------------------------------------------------------
(* trackingAlloc and trackingFree.                                         *)

trackingAlloc(t, p, a, size) ==
    /\ thread[t] = Idle
    /\ CanGive(p, a, size)
    /\ given' = [given EXCEPT ![p] = Put(@, a, size)]
    /\ Begin(t, "alloc", p, a, a, size)
    /\ UNCHANGED <<leaf, splitMergeMutex, held>>

\* The caller has its memory, or has it back after a failed free.
Hold(t) ==
    /\ held' = [held EXCEPT ![thread[t].pool] = Put(@, thread[t].lo, thread[t].size)]
    /\ thread' = [thread EXCEPT ![t] = Idle]

\* The entry is in the map and counted.
Added(t) ==
    \/ thread[t].op \in Adds /\ Hold(t)
    \/ /\ thread[t].op = "split"
       /\ thread' = [thread EXCEPT ![t].at = "shrink", ![t].parent = None]
       /\ UNCHANGED held

\* What AddAtLevel adds: the allocation, or the second part of a split one.
NewLeaf(t) ==
    LET split == thread[t].op = "split"
    IN  [key  |-> IF split THEN thread[t].hi ELSE thread[t].lo,
         size |-> IF split THEN thread[t].size - (thread[t].hi - thread[t].lo) ELSE thread[t].size,
         level |-> thread[t].level, pool |-> thread[t].pool, n_children |-> 0,
         refs |-> 1, linked |-> TRUE]

\* umfMemoryTrackerAddAtLevel, up to the insertion, which refuses a key that is
\* there and may have no host memory.
AddAtLevel(t) ==
    LET new == NewLeaf(t)
    IN  /\ thread[t].at = "insert"
        /\ \/ /\ \A k \in Linked(new.level) : leaf[k].key # new.key
              /\ FreshLeaves # {}
              /\ leaf' = Put(leaf, CHOOSE k \in FreshLeaves : \A j \in FreshLeaves : k <= j, new)
              /\ IF thread[t].parent = None THEN Added(t)
                 ELSE /\ thread' = [thread EXCEPT ![t].at = "count"]
                      /\ UNCHANGED held
           \/ /\ \/ "insert" \in MayFail /\ thread[t].op # "restore" /\ Leaks < MaxLeaks
                 \/ FreshLeaves = {}
                 \/ \E k \in Linked(new.level) : leaf[k].key = new.key
              /\ thread' = [thread EXCEPT ![t].at = "failed"]
              /\ UNCHANGED <<leaf, held>>
        /\ UNCHANGED <<splitMergeMutex, given>>

\* The rest of umfMemoryTrackerAddAtLevel: the parent has one more child.
AddCount(t) ==
    LET k == thread[t].parent
    IN  /\ thread[t].at = "count"
        /\ leaf' = Release([leaf EXCEPT ![k].n_children = @ + 1], k)
        /\ Added(t)
        /\ UNCHANGED <<splitMergeMutex, given>>

\* The tracker refused: a new allocation goes back, a split is reverted, and
\* memory that could not be freed stays without an entry.
AddFailed(t) ==
    LET p == thread[t].pool
        a == thread[t].lo
    IN  /\ thread[t].at = "failed"
        /\ \/ /\ thread[t].op = "alloc"
              /\ \/ given' = [given EXCEPT ![p] = Drop(@, a)]
                 \/ "free" \in MayFail /\ UNCHANGED given
              /\ thread' = [thread EXCEPT ![t] = Idle]
              /\ UNCHANGED <<splitMergeMutex, held>>
           \/ /\ thread[t].op = "restore"
              /\ Hold(t)
              /\ UNCHANGED <<splitMergeMutex, given>>
           \/ /\ thread[t].op = "split"
              /\ given' = [given EXCEPT ![p] = Put(Drop(@, thread[t].hi), a, thread[t].size)]
              /\ splitMergeMutex' = Nobody
              /\ thread' = [thread EXCEPT ![t] = Idle]
              /\ UNCHANGED held
        /\ UNCHANGED leaf

\* Fault: the upstream provider gets the memory before the entry is removed.
trackingFree_upstream_first(t, p, a) ==
    /\ thread[t] = Idle
    /\ Changeable(p, a) /\ ~Watched(Bytes(a, held[p][a]))
    /\ held' = [held EXCEPT ![p] = Drop(@, a)]
    /\ given' = [given EXCEPT ![p] = Drop(@, a)]
    /\ Begin(t, "free", p, a, a, held[p][a])
    /\ UNCHANGED <<leaf, splitMergeMutex>>

trackingFree(t, p, a) ==
    /\ thread[t] = Idle
    /\ Changeable(p, a) /\ ~Watched(Bytes(a, held[p][a]))
    /\ held' = [held EXCEPT ![p] = Drop(@, a)]
    /\ Begin(t, "free", p, a, a, held[p][a])
    /\ UNCHANGED <<leaf, splitMergeMutex, given>>

\* umfMemoryTrackerRemove: the entry leaves the map.
RemoveUnlink(t) ==
    /\ thread[t].at = "found" /\ thread[t].op = "free"
    /\ leaf' = Unlink(Release(leaf, thread[t].cur), thread[t].cur)
    /\ thread' = [thread EXCEPT ![t].at = "uncount"]
    /\ UNCHANGED <<splitMergeMutex, given, held>>

\* Fault: the parent keeps its number of children.
RemoveCount_uncounted(t) ==
    /\ thread[t].at = "uncount"
    /\ leaf' = Release(Release(leaf, thread[t].cur), thread[t].parent)
    /\ thread' = [thread EXCEPT ![t].at = "upstream", ![t].cur = None, ![t].parent = None]
    /\ UNCHANGED <<splitMergeMutex, given, held>>

\* Its last reference goes, and the parent has one child less.
RemoveCount(t) ==
    LET k  == thread[t].parent
        lf == Release(leaf, thread[t].cur)
    IN  /\ thread[t].at = "uncount"
        /\ leaf' = IF k = None THEN lf ELSE Release([lf EXCEPT ![k].n_children = @ - 1], k)
        /\ thread' = [thread EXCEPT ![t].at = "upstream", ![t].cur = None, ![t].parent = None]
        /\ UNCHANGED <<splitMergeMutex, given, held>>

\* The upstream provider frees, with or without an entry removed, or refuses;
\* an entry that was removed is then added again.
FreeUpstream(t) ==
    /\ thread[t].at = "upstream" \/ (thread[t].at = "missing" /\ thread[t].op = "free")
    /\ \/ /\ given' = [given EXCEPT ![thread[t].pool] = Drop(@, thread[t].lo)]
          /\ thread' = [thread EXCEPT ![t] = Idle]
          /\ UNCHANGED held
       \/ /\ "free" \in MayFail
          /\ \/ /\ thread[t].at = "upstream"
                /\ thread' = [thread EXCEPT ![t].at = "find", ![t].op = "restore", ![t].level = 0]
                /\ UNCHANGED held
             \/ thread[t].at = "missing" /\ Hold(t)
          /\ UNCHANGED given
    /\ UNCHANGED <<leaf, splitMergeMutex>>

-----------------------------------------------------------------------------
(* Splitting and merging, under splitMergeMutex.                           *)

\* The call returns, with or without success.
Unlock(t) ==
    /\ splitMergeMutex' = Nobody
    /\ thread' = [thread EXCEPT ![t] = Idle]

trackingAllocationSplit(t, p, a, first) ==
    /\ thread[t] = Idle /\ splitMergeMutex = Nobody
    /\ Changeable(p, a) /\ ~Watched(Bytes(a, held[p][a]) \ {a})
    /\ first \in 1 .. (held[p][a] - 1)
    /\ splitMergeMutex' = t
    /\ Begin(t, "split", p, a, a + first, held[p][a])
    /\ UNCHANGED <<leaf, given, held>>

\* The upstream provider splits.  When it refuses, or the tracker has no such
\* entry, the call fails and keeps its references.
SplitUpstream(t) ==
    LET first == thread[t].hi - thread[t].lo
        known == thread[t].at = "found" /\ leaf[thread[t].cur].size = thread[t].size
    IN  /\ thread[t].at \in {"found", "missing"} /\ thread[t].op = "split"
        /\ \/ /\ known
              /\ given' = [given EXCEPT ![thread[t].pool] =
                             Put(Put(@, thread[t].lo, first), thread[t].hi, thread[t].size - first)]
              /\ thread' = [thread EXCEPT ![t].at = "insert"]
              /\ UNCHANGED splitMergeMutex
           \/ /\ ~known \/ ("split" \in MayFail /\ Leaks < MaxLeaks)
              /\ Unlock(t)
              /\ UNCHANGED given
        /\ UNCHANGED <<leaf, held>>

\* Both parts have an entry: the first one gets its size.
SplitShrink(t) ==
    LET k     == thread[t].cur
        first == thread[t].hi - thread[t].lo
    IN  /\ thread[t].at = "shrink"
        /\ leaf' = Release([leaf EXCEPT ![k].size = first], k)
        /\ held' = [held EXCEPT ![thread[t].pool] =
                       Put(Put(@, thread[t].lo, first), thread[t].hi, thread[t].size - first)]
        /\ Unlock(t)
        /\ UNCHANGED given

trackingAllocationMerge(t, p, lo, hi) ==
    /\ thread[t] = Idle /\ splitMergeMutex = Nobody
    /\ Changeable(p, lo) /\ Changeable(p, hi)
    /\ lo + held[p][lo] = hi
    /\ ~Watched(Bytes(lo, held[p][lo] + held[p][hi]) \ {lo})
    /\ splitMergeMutex' = t
    /\ Begin(t, "low", p, lo, hi, held[p][lo] + held[p][hi])
    /\ UNCHANGED <<leaf, given, held>>

\* The entry of the first part is found; the second one is searched for.
MergeLow(t) ==
    /\ thread[t].at \in {"found", "missing"} /\ thread[t].op = "low"
    /\ \/ /\ thread[t].at = "found"
          /\ thread' = [thread EXCEPT ![t].op = "high", ![t].low = thread[t].cur,
                                      ![t].ptr = thread[t].hi, ![t].cur = None, ![t].level = 0,
                                      ![t].at = "find"]
          /\ UNCHANGED splitMergeMutex
       \/ thread[t].at = "missing" /\ Unlock(t)
    /\ UNCHANGED <<leaf, given, held>>

\* The two entries can be joined: the upstream provider merges, or refuses.
MergeUpstream(t) ==
    LET low   == leaf[thread[t].low]
        high  == leaf[thread[t].cur]
        known == /\ thread[t].at = "found"
                 /\ low.level = high.level /\ low.pool = high.pool
                 /\ low.size + high.size = thread[t].size
    IN  /\ thread[t].at \in {"found", "missing"} /\ thread[t].op = "high"
        /\ \/ /\ known
              /\ given' = [given EXCEPT ![thread[t].pool] =
                             Put(Drop(@, thread[t].hi), thread[t].lo, thread[t].size)]
              /\ thread' = [thread EXCEPT ![t].at = "grow"]
              /\ UNCHANGED splitMergeMutex
           \/ /\ ~known \/ ("merge" \in MayFail /\ Leaks < MaxLeaks)
              /\ Unlock(t)
              /\ UNCHANGED given
        /\ UNCHANGED <<leaf, held>>

\* The first entry gets the size of both, and the references are released.
MergeGrow(t) ==
    LET low == thread[t].low
    IN  /\ thread[t].at = "grow"
        /\ leaf' = Release(Release([leaf EXCEPT ![low].size = thread[t].size], low), thread[t].cur)
        /\ thread' = [thread EXCEPT ![t].at = "remove", ![t].low = None]
        /\ UNCHANGED <<splitMergeMutex, given, held>>

\* critnib_remove_release of the second entry; the children of the parent are
\* not counted again.
MergeUnlink(t) ==
    /\ thread[t].at = "remove"
    /\ leaf' = Unlink(leaf, thread[t].cur)
    /\ thread' = [thread EXCEPT ![t].at = "merged"]
    /\ UNCHANGED <<splitMergeMutex, given, held>>

MergeDone(t) ==
    /\ thread[t].at = "merged"
    /\ leaf' = Release(leaf, thread[t].cur)
    /\ held' = [held EXCEPT ![thread[t].pool] = Put(Drop(@, thread[t].hi), thread[t].lo, thread[t].size)]
    /\ Unlock(t)
    /\ UNCHANGED given

-----------------------------------------------------------------------------
(* Looking a pointer up.                                                   *)

\* A user asks for the pool of a pointer that they got from pool p.
umfMemoryTrackerGetAllocInfo(t, p, a, ptr) ==
    /\ thread[t] = Idle
    /\ p \in Asked
    /\ ptr \in Bytes(a, held[p][a]) \ Above(p)
    /\ \A u \in Busy(p, a) : thread[u].lo = ptr
    /\ thread' = [thread EXCEPT ![t] =
                    [at |-> "find", op |-> "query", pool |-> p, lo |-> a, hi |-> a, size |-> 0,
                     ptr |-> ptr, level |-> 0, cur |-> None, parent |-> None, low |-> None]]
    /\ UNCHANGED <<leaf, splitMergeMutex, given, held>>

\* The pool of the entry, or NULL.
Answer(t) == IF thread[t].parent = None THEN "NULL" ELSE leaf[thread[t].parent].pool

QueryDone(t) ==
    /\ thread[t].at = "answer"
    /\ leaf' = Release(leaf, thread[t].parent)
    /\ thread' = [thread EXCEPT ![t] = Idle]
    /\ UNCHANGED <<splitMergeMutex, given, held>>

-----------------------------------------------------------------------------

Init ==
    /\ leaf = NoEntries
    /\ splitMergeMutex = Nobody
    /\ given = [p \in Pools |-> NoEntries]
    /\ held = [p \in Pools |-> NoEntries]
    /\ thread = [t \in Threads |-> Idle]

\* The steps of a thread inside a call: none of them waits for anybody.
Step(t) ==
    \/ Find(t) \/ FindRef(t) \/ AddRead(t) \/ NestRead(t) \/ QueryRead(t)
    \/ AddAtLevel(t) \/ AddCount(t) \/ AddFailed(t)
    \/ RemoveUnlink(t) \/ RemoveCount(t) \/ FreeUpstream(t)
    \/ SplitUpstream(t) \/ SplitShrink(t)
    \/ MergeLow(t) \/ MergeUpstream(t) \/ MergeGrow(t) \/ MergeUnlink(t) \/ MergeDone(t)
    \/ QueryDone(t)

Call(t) ==
    \E p \in Uses[t] :
        \/ \E a \in Addr, size \in Sizes[p] : trackingAlloc(t, p, a, size)
        \/ \E a \in DOMAIN held[p] :
            \/ trackingFree(t, p, a)
            \/ \E ptr \in Bytes(a, held[p][a]) : umfMemoryTrackerGetAllocInfo(t, p, a, ptr)
            \/ p \in Splits /\ \E first \in Sizes[p] : trackingAllocationSplit(t, p, a, first)
            \/ p \in Merges /\ \E hi \in DOMAIN held[p] : trackingAllocationMerge(t, p, a, hi)

Next == \E t \in Threads : Step(t) \/ Call(t)

Spec == Init /\ [][Next]_vars

\* A thread inside a call runs on.
FairSpec == Spec /\ \A t \in Threads : WF_vars(Step(t))

-----------------------------------------------------------------------------
(* What must hold.                                                         *)

\* Every variable has its shape and no counter is negative.
TypeOK ==
    /\ DOMAIN leaf \subseteq Leaves
    /\ \A k \in DOMAIN leaf :
        leaf[k] \in [key : Addr, level : 0 .. (MaxLevels - 1), pool : Pools, size : Nat \ {0},
                    n_children : Nat, refs : Nat \ {0}, linked : BOOLEAN]
    /\ splitMergeMutex \in Threads \cup {Nobody}
    /\ \A p \in Pools : DOMAIN given[p] \cup DOMAIN held[p] \subseteq Addr

\* A user who asks for the pool of a pointer they hold gets the pool they have
\* it from, whatever other threads add, remove, split and merge meanwhile.
LookupRight == \A t \in Threads : thread[t].at = "answer" => Answer(t) = thread[t].pool

\* The entry for what pool p holds at address a.
IsTracked(p, a) ==
    \E k \in Linked(Nesting[p]) :
        leaf[k].key = a /\ leaf[k].pool = p /\ leaf[k].size = held[p][a]

\* The tracker and the pools agree: what a pool holds has an entry on the level
\* of its nesting, and an entry is for memory that the upstream provider of its
\* pool has handed out.  So memory that is handed out again finds no stale entry
\* ("to avoid a race condition", provider_tracking.c:871-874).
Tracked ==
    /\ \A p \in Pools : \A a \in DOMAIN held[p] : Busy(p, a) = {} => IsTracked(p, a)
    /\ \A k \in DOMAIN leaf : leaf[k].linked =>
          Bytes(leaf[k].key, leaf[k].size) \subseteq Covered(given[leaf[k].pool])

\* The entries of the next level inside the range of leaf k.
Children(k) ==
    {c \in Linked(leaf[k].level + 1) : leaf[c].key \in Bytes(leaf[k].key, leaf[k].size)}

Between(k, at) == Cardinality({t \in Threads : thread[t].at = at /\ thread[t].parent = k})

\* n_children is the "number of overlapping memory regions in the next level of
\* map falling within the current range" (provider_tracking.c:49-51), but for
\* those that a thread is about to count: an entry can be removed exactly when
\* it is empty.
ChildrenCounted ==
    \A k \in DOMAIN leaf : leaf[k].linked =>
        leaf[k].n_children + Between(k, "count") = Cardinality(Children(k)) + Between(k, "uncount")

\* The entries are those of the allocations, each with its number of children.
EntriesRight == TypeOK /\ Tracked /\ ChildrenCounted

\* A reader without a lock never looks at an entry that has been freed.
NoUseAfterFree == \A t \in Threads : Referred(t) \subseteq DOMAIN leaf

\* Every call returns and gives splitMergeMutex back, on its error paths too: the
\* search through the levels ends, whatever other threads do to the maps.
CallsReturn ==
    \A t \in Threads :
        (Inside(t) \/ splitMergeMutex = t) ~> (~Inside(t) /\ splitMergeMutex # t)

=============================================================================
