-------------------------------- MODULE Coarse --------------------------------
(***************************************************************************)
(* The coarse library (src/coarse/coarse.c): the block bookkeeping that    *)
(* the fixed, file and DAX providers share.  It owns ranges of memory,     *)
(* cuts them into blocks, hands blocks out and coalesces the ones that     *)
(* come back.                                                              *)
(*                                                                         *)
(* Every public function runs under coarse->lock, so it is one action; the *)
(* two coarse_add_memory_* functions are two critical sections each and    *)
(* are two actions.  A block is named by its data address: the all_blocks  *)
(* tree is keyed by it.  A return with an error and no effect is a         *)
(* stuttering step and has no action of its own.                           *)
(***************************************************************************)
EXTENDS Integers, Sequences, FiniteSetsExt

CONSTANTS
    Word,           \* SIZE_MAX + 1: size_t arithmetic is modulo Word
    PageSize,       \* coarse->page_size
    Strategy,       \* coarse->allocation_strategy
    Sizes,          \* size arguments of coarse_alloc
    Alignments,     \* alignment arguments of coarse_alloc
    Addr,           \* addresses cb.alloc may return
    Regions,        \* [addr, size] arguments of coarse_add_memory_fixed
    HasAlloc,       \* is cb.alloc set (file provider)?
    HasFree,        \* is cb.free set?
    SplitMayFail,   \* may cb.split refuse?
    MergeMayFail,   \* may cb.merge refuse?
    HostMayFail     \* may umf_ba_global_alloc return NULL?

Positive == Nat \ {0}

ASSUME CoarseAssumption ==
    /\ Word \in Positive
    /\ PageSize \in Positive /\ 2 * PageSize <= Word
    /\ Strategy \in {"FASTEST", "FASTEST_BUT_ONE", "CHECK_ALL_SIZE"}
    /\ Sizes \subseteq 0 .. (Word - 1)
    /\ Alignments \subseteq 0 .. (Word - 1)
    /\ Addr \subseteq Positive
    /\ Regions \subseteq [addr : Positive, size : Positive]
    /\ {HasAlloc, HasFree, SplitMayFail, MergeMayFail, HostMayFail} \subseteq BOOLEAN
    \* coarse_add_memory_fixed refuses an instance with callbacks (1020-1023)
    /\ HasAlloc \/ HasFree => Regions = {}

VARIABLES
    all_blocks,     \* data address -> [size, used]
    free_blocks,    \* size -> list of unused blocks, most recent first
    used_size,
    alloc_size,
    cuts,           \* where the upstream provider believes blocks start
    mapped,         \* [addr, size] ranges the upstream provider handed over
    adding,         \* blocks between the two halves of coarse_add_memory_*: address -> size
    live,           \* what the users of the library hold: address -> size
    alive           \* between coarse_new and coarse_delete

vars == <<all_blocks, free_blocks, used_size, alloc_size, cuts, mapped, adding, live, alive>>

-----------------------------------------------------------------------------
(* Functions with a changing domain, and address arithmetic.               *)

NULL == 0

NoBlocks == [x \in {} |-> x]

Put(f, x, v) == [y \in DOMAIN f \cup {x} |-> IF y = x THEN v ELSE f[y]]

Drop(f, x) == [y \in DOMAIN f \ {x} |-> f[y]]

\* The addresses of a range.
Bytes(a, size) == a .. (a + size - 1)

\* ALIGN_UP, for a power of two
AlignUp(v, a) == IF v % a = 0 THEN v ELSE v + (a - (v % a))

\* ALIGN_UP_SAFE: zero when the sum leaves size_t
AlignUpSafe(v, a) == IF v + a - 1 >= Word THEN 0 ELSE AlignUp(v, a)

\* size_t addition
SizeAdd(a, b) == (a + b) % Word

IsPowerOf2(n) == \E i \in 0 .. n : 2 ^ i = n

\* The outcome x, when the failure is one this instance may meet.
Failing(may, x) == IF may THEN {x} ELSE {}

-----------------------------------------------------------------------------
(* The helpers work on a store st = [bl, fr, cuts], the part of the state  *)
(* they share, and return the SET of outcomes they may have: a callback of *)
(* the upstream provider may refuse and the host may run out of memory.    *)

Store == [bl |-> all_blocks, fr |-> free_blocks, cuts |-> cuts]

\* The neighbours of a block in the all_blocks tree.
get_node_prev(bl, a) ==
    LET Prev(p) == p < a /\ \A c \in DOMAIN bl : c < a => c <= p
    IN  IF \E p \in DOMAIN bl : Prev(p) THEN CHOOSE p \in DOMAIN bl : Prev(p) ELSE NULL

get_node_next(bl, a) ==
    LET Next_(n) == n > a /\ \A c \in DOMAIN bl : c > a => c >= n
    IN  IF \E n \in DOMAIN bl : Next_(n) THEN CHOOSE n \in DOMAIN bl : Next_(n) ELSE NULL

IsAligned(a, alignment) == alignment = 0 \/ a % alignment = 0

\* The block goes to the front of the list.
node_list_add(l, b) == <<b>> \o l

\* A list without its entry i.
Unlink(l, i) == SubSeq(l, 1, i - 1) \o SubSeq(l, i + 1, Len(l))

\* Take entry i out of the list of blocks of this size; an emptied list leaves the tree.
node_list_rm(fr, size, i) ==
    LET l == Unlink(fr[size], i)
    IN  IF l = <<>> THEN Drop(fr, size) ELSE Put(fr, size, l)

\* The block joins the list of its size.  Without host memory
\* the tree is unchanged, or keeps a new head with an empty list.
free_blocks_add(fr, b, size) ==
    LET l == IF size \in DOMAIN fr THEN fr[size] ELSE <<>>
    IN  {[ok |-> TRUE, fr |-> Put(fr, size, node_list_add(l, b))]}
        \cup Failing(HostMayFail, [ok |-> FALSE, fr |-> fr])
        \cup Failing(HostMayFail, [ok |-> FALSE, fr |-> Put(fr, size, l)])

\* The head of the smallest size that is at least n.
ravl_find_ge(fr, n) ==
    LET Least(k) == k >= n /\ \A j \in DOMAIN fr : j >= n => j >= k
    IN  IF \E k \in DOMAIN fr : Least(k) THEN CHOOSE k \in DOMAIN fr : Least(k) ELSE NULL

\* The entry that is taken: the first one, when aligned, or the first aligned one.
Candidates(l, alignment, check) ==
    {i \in DOMAIN l : /\ IsAligned(l[i], alignment)
                      /\ check = "ONLY_THE_FIRST" => i = 1
                      /\ \A j \in 1 .. (i - 1) : ~IsAligned(l[j], alignment)}

free_blocks_rm_ge(fr, n, alignment, check) ==
    LET k == ravl_find_ge(fr, n)
        C == Candidates(fr[k], alignment, check)
        i == CHOOSE i \in C : TRUE
    IN  IF k = NULL THEN [fr |-> fr, cur |-> NULL]
        ELSE IF C = {} THEN [fr |-> fr, cur |-> NULL]
        ELSE [fr |-> node_list_rm(fr, k, i), cur |-> fr[k][i]]

\* Fault: a merged block stays in its free list.
free_blocks_rm_node_skipped(fr, b, size) == fr

\* Does nothing to a block that is in no list (free_list_ptr is NULL).
free_blocks_rm_node(fr, b, size) ==
    IF size \in DOMAIN fr /\ \E i \in DOMAIN fr[size] : fr[size][i] = b
    THEN node_list_rm(fr, size, CHOOSE i \in DOMAIN fr[size] : fr[size][i] = b)
    ELSE fr

\* Fault: the low block does not grow by the size of the high one.
JoinBlocks_no_growth(st, lo, hi) ==
    [bl   |-> Drop(st.bl, hi),
     fr   |-> free_blocks_rm_node(free_blocks_rm_node(st.fr, lo, st.bl[lo].size),
                                  hi, st.bl[hi].size),
     cuts |-> st.cuts \ {hi}]

\* cb.merge has agreed: both blocks leave their lists, the low one grows and
\* the high one is gone.
JoinBlocks(st, lo, hi) ==
    LET grown == [st.bl[lo] EXCEPT !.size = @ + st.bl[hi].size]
        fr1   == free_blocks_rm_node(st.fr, lo, st.bl[lo].size)
    IN  [bl   |-> Put(Drop(st.bl, hi), lo, grown),
         fr   |-> free_blocks_rm_node(fr1, hi, st.bl[hi].size),
         cuts |-> st.cuts \ {hi}]

\* Fault: the blocks are joined without looking at `used`.
user_block_merge_any_use(st, lo, hi, used) ==
    IF lo + st.bl[lo].size = hi THEN {[ok |-> TRUE, st |-> JoinBlocks(st, lo, hi)]}
    ELSE {[ok |-> FALSE, st |-> st]}

\* Join two neighbours that touch and are both used, or both unused.
user_block_merge(st, lo, hi, used) ==
    IF st.bl[lo].used = used /\ st.bl[hi].used = used /\ lo + st.bl[lo].size = hi
    THEN {[ok |-> TRUE, st |-> JoinBlocks(st, lo, hi)]}
         \cup Failing(MergeMayFail, [ok |-> FALSE, st |-> st])
    ELSE {[ok |-> FALSE, st |-> st]}

free_block_merge_with_prev(st, b) ==
    LET p == get_node_prev(st.bl, b)
    IN  IF p = NULL THEN {[st |-> st, cur |-> b]}
        ELSE {[st |-> o.st, cur |-> IF o.ok THEN p ELSE b] : o \in user_block_merge(st, p, b, FALSE)}

\* Fault: a block is not merged with its successor.
free_block_merge_with_next_skipped(st, b) == {[st |-> st, cur |-> b]}

free_block_merge_with_next(st, b) ==
    LET n == get_node_next(st.bl, b)
    IN  IF n = NULL THEN {[st |-> st, cur |-> b]}
        ELSE {[st |-> o.st, cur |-> b] : o \in user_block_merge(st, b, n, FALSE)}

\* Coalesce an unused block with its neighbours and list the result: the tail
\* of coarse_free and, on the error paths of coarse_alloc, a block taken back.
free_blocks_re_add(st, b) ==
    UNION {UNION {{[ok |-> a.ok, st |-> [n.st EXCEPT !.fr = a.fr]] :
                       a \in free_blocks_add(n.st.fr, n.cur, n.st.bl[n.cur].size)} :
                  n \in free_block_merge_with_next(p.st, p.cur)} :
           p \in free_block_merge_with_prev(st, b)}

\* Fault: the upstream provider is not asked.
can_provider_split_unasked(st, b, first) == {[ok |-> TRUE, st |-> st]}

\* cb.split: the upstream provider agrees to a block starting at b + first.
can_provider_split(st, b, first) ==
    {[ok |-> TRUE, st |-> [st EXCEPT !.cuts = @ \cup {b + first}]]}
    \cup Failing(SplitMayFail, [ok |-> FALSE, st |-> st])

\* A new block, unless the address is taken or the host is out of memory.  The
\* function leaves `used` uninitialised (any Boolean); `uses` is what the
\* caller makes of it.
coarse_ravl_add_new(st, a, size, uses) ==
    IF a \in DOMAIN st.bl THEN {[ok |-> FALSE, st |-> st]}
    ELSE {[ok |-> TRUE, st |-> [st EXCEPT !.bl = Put(@, a, block)]] :
            block \in [size : {size}, used : uses]}
         \cup Failing(HostMayFail, [ok |-> FALSE, st |-> st])

\* Cut the unaligned front off block b and list it.  The rest becomes the
\* current block; its `used` field stays uninitialised.
create_aligned_block(st, b, alignment) ==
    LET padding == AlignUp(b, alignment) - b
        Padded(n) ==
            LET bl == Put(n.st.bl, b, [size |-> padding, used |-> FALSE])
            IN  {[ok  |-> a.ok,
                  st  |-> [bl |-> bl, fr |-> a.fr, cuts |-> n.st.cuts],
                  cur |-> IF a.ok THEN b + padding ELSE b] :
                 a \in free_blocks_add(n.st.fr, b, padding)}
        Rest(s) ==
            UNION {IF n.ok THEN Padded(n) ELSE {[ok |-> FALSE, st |-> n.st, cur |-> b]} :
                   n \in coarse_ravl_add_new(s.st, b + padding, st.bl[b].size - padding, BOOLEAN)}
    IN  IF padding = 0 THEN {[ok |-> TRUE, st |-> st, cur |-> b]}
        ELSE UNION {IF s.ok THEN Rest(s) ELSE {[ok |-> FALSE, st |-> st, cur |-> b]} :
                    s \in can_provider_split(st, b, padding)}

\* List the part of block b after its first `size` bytes as a block of its
\* own.  The caller shortens b, once this has succeeded.
split_current_block(st, b, size) ==
    LET Listed(n) == {[ok |-> a.ok, st |-> [n.st EXCEPT !.fr = a.fr]] :
                      a \in free_blocks_add(n.st.fr, b + size, st.bl[b].size - size)}
        Rest(s)   == UNION {IF n.ok THEN Listed(n) ELSE {n} :
                            n \in coarse_ravl_add_new(s.st, b + size, st.bl[b].size - size, {FALSE})}
    IN  UNION {IF s.ok THEN Rest(s) ELSE {s} : s \in can_provider_split(st, b, size)}

\* The block that coarse_alloc starts from, taken out of its list.
find_free_block(fr, size, alignment) ==
    LET new_size == SizeAdd(size, alignment)
        Fastest  == IF new_size < size THEN [fr |-> fr, cur |-> NULL]
                    ELSE free_blocks_rm_ge(fr, new_size, 0, "ONLY_THE_FIRST")
        check    == IF Strategy = "CHECK_ALL_SIZE" THEN "ALL_BLOCKS" ELSE "ONLY_THE_FIRST"
        Exact    == free_blocks_rm_ge(fr, size, alignment, check)
    IN  IF Strategy = "FASTEST" THEN Fastest
        ELSE IF Exact.cur # NULL THEN Exact ELSE Fastest

-----------------------------------------------------------------------------
(* The public functions.                                                   *)

Commit(st) ==
    /\ all_blocks' = st.bl
    /\ free_blocks' = st.fr
    /\ cuts' = st.cuts

Init ==
    /\ all_blocks = NoBlocks
    /\ free_blocks = NoBlocks
    /\ used_size = 0
    /\ alloc_size = 0
    /\ cuts = {}
    /\ mapped = {}
    /\ adding = NoBlocks
    /\ live = NoBlocks
    /\ alive = TRUE

coarse_new ==
    /\ ~alive
    /\ alive' = TRUE
    /\ all_blocks' = NoBlocks
    /\ free_blocks' = NoBlocks
    /\ used_size' = 0
    /\ alloc_size' = 0
    /\ cuts' = {}
    /\ mapped' = {}
    /\ UNCHANGED <<adding, live>>

SizeOf(S) == MapThenSumSet(LAMBDA b : all_blocks[b].size, S)

UsedBlocks == {b \in DOMAIN all_blocks : all_blocks[b].used}

\* Every block leaves its list, the sums and, through cb.free, the upstream
\* provider.  Nobody may be inside another function of the library.
coarse_delete ==
    /\ alive
    /\ adding = NoBlocks
    /\ alive' = FALSE
    /\ used_size' = (used_size - SizeOf(UsedBlocks)) % Word
    /\ alloc_size' = (alloc_size - SizeOf(DOMAIN all_blocks)) % Word
    /\ all_blocks' = NoBlocks
    /\ free_blocks' = NoBlocks
    /\ cuts' = IF HasFree THEN cuts \ DOMAIN all_blocks ELSE {}
    /\ mapped' = {}
    /\ live' = NoBlocks
    /\ UNCHANGED adding

\* Memory the upstream provider has not handed over yet.
Fresh(a, size) == \A m \in mapped : Bytes(a, size) \cap Bytes(m.addr, m.size) = {}

\* The end of coarse_alloc when something failed: the current block is taken back.
TakeBack(st, b) ==
    /\ \E r \in free_blocks_re_add(st, b) : Commit(r.st)
    /\ UNCHANGED <<used_size, adding, live>>

\* Carve an aligned block of this size out of b (coarse_alloc from line 1136 on).
UseBlock(st, b, size, alignment, caller) ==
    \/ /\ st.bl[b].size < size
       /\ Commit(st)
       /\ UNCHANGED <<used_size, adding, live>>
    \/ /\ st.bl[b].size >= size
       /\ \E a \in create_aligned_block(st, b, alignment) :
            \/ ~a.ok /\ TakeBack(a.st, a.cur)
            \/ /\ a.ok
               /\ \E s \in IF st.bl[b].size > size THEN split_current_block(a.st, a.cur, size)
                           ELSE {[ok |-> TRUE, st |-> a.st]} :
                    \/ ~s.ok /\ TakeBack(s.st, a.cur)
                    \/ /\ s.ok
                       /\ Commit([s.st EXCEPT !.bl = Put(@, a.cur, [size |-> size, used |-> TRUE])])
                       /\ used_size' = used_size + size
                       /\ \/ /\ caller = "user"
                             /\ live' = Put(live, a.cur, size)
                             /\ UNCHANGED adding
                          \/ /\ caller = "add_memory"
                             /\ adding' = Put(adding, a.cur, size)
                             /\ UNCHANGED live

\* The upstream provider hands over a new range (coarse_alloc, 1090-1134).  A
\* block that cannot be recorded goes back through cb.free or is leaked.
GrowAndUse(size, alignment, caller) ==
    LET n == AlignUpSafe(size, alignment)
    IN  /\ HasAlloc
        /\ n > 0
        /\ \E a \in {x \in Addr : x % alignment = 0 /\ Bytes(x, n) \subseteq Addr /\ Fresh(x, n)} :
            LET grown == [Store EXCEPT !.cuts = @ \cup {a}]
                more  == mapped \cup {[addr |-> a, size |-> n]}
            IN  \E o \in coarse_ravl_add_new(grown, a, n, {FALSE}) :
                \/ /\ o.ok
                   /\ mapped' = more
                   /\ alloc_size' = alloc_size + n
                   /\ UseBlock(o.st, a, size, alignment, caller)
                \/ /\ ~o.ok
                   /\ ~HasFree
                   /\ mapped' = more
                   /\ Commit(grown)
                   /\ UNCHANGED <<used_size, alloc_size, adding, live>>

ValidAlignment(al) ==
    \/ al = 0
    \/ IsPowerOf2(al) /\ (al % PageSize = 0 \/ PageSize % al = 0)

\* Fault: an alignment below the page size is used as it is.
EffectiveAlignment_unrounded(al) == IF al = 0 THEN PageSize ELSE al

EffectiveAlignment(al) ==
    IF al = 0 THEN PageSize
    ELSE IF al % PageSize # 0 THEN AlignUpSafe(al, PageSize) ELSE al

\* coarse_alloc, called by a user or by coarse_add_memory_from_provider.  A
\* lookup that meets a head without blocks ends the program (275, 300).
coarse_alloc(size, al, caller) ==
    LET alignment == EffectiveAlignment(al)
        f         == find_free_block(free_blocks, size, alignment)
    IN  /\ alive
        /\ ValidAlignment(al)
        /\ \A k \in DOMAIN free_blocks : free_blocks[k] # <<>>
        /\ \/ /\ f.cur # NULL
              /\ UseBlock([Store EXCEPT !.fr = f.fr], f.cur, size, alignment, caller)
              /\ UNCHANGED <<alloc_size, mapped>>
           \/ f.cur = NULL /\ GrowAndUse(size, alignment, caller)
        /\ UNCHANGED alive

\* Fault: used_size is updated after the merge, by the size of the merged block.
coarse_free_merged_size(b, bytes) ==
    /\ alive
    /\ b \in UsedBlocks
    /\ bytes > 0 => bytes = all_blocks[b].size
    /\ \E r \in free_blocks_re_add([Store EXCEPT !.bl[b].used = FALSE], b) :
        /\ Commit(r.st)
        /\ \E c \in DOMAIN r.st.bl :
            /\ b \in Bytes(c, r.st.bl[c].size)
            /\ used_size' = used_size - r.st.bl[c].size
    /\ UNCHANGED <<alloc_size, mapped, alive>>

\* coarse_free.  An address that is not one of a used block, or a wrong size,
\* is refused; `bytes` may be left out (zero).
coarse_free(b, bytes) ==
    /\ alive
    /\ b \in UsedBlocks
    /\ bytes > 0 => bytes = all_blocks[b].size
    /\ used_size' = used_size - all_blocks[b].size
    /\ \E r \in free_blocks_re_add([Store EXCEPT !.bl[b].used = FALSE], b) : Commit(r.st)
    /\ UNCHANGED <<alloc_size, mapped, alive>>

\* A user gives back an allocation.
free(b) ==
    /\ coarse_free(b, live[b])
    /\ live' = Drop(live, b)
    /\ UNCHANGED adding

coarse_add_memory_from_provider(size) ==
    /\ size > 0
    /\ HasAlloc
    /\ coarse_alloc(size, PageSize, "add_memory")

\* The first critical section of coarse_add_memory_fixed.
coarse_add_memory_fixed(r) ==
    /\ alive
    /\ ~HasAlloc /\ ~HasFree
    /\ Fresh(r.addr, r.size)
    /\ \E o \in coarse_ravl_add_new(Store, r.addr, r.size, {TRUE}) :
        /\ o.ok
        /\ Commit([o.st EXCEPT !.cuts = @ \cup {r.addr}])
    /\ mapped' = mapped \cup {r}
    /\ alloc_size' = alloc_size + r.size
    /\ used_size' = used_size + r.size
    /\ adding' = Put(adding, r.addr, r.size)
    /\ UNCHANGED <<live, alive>>

\* The second critical section of both coarse_add_memory_* functions.
coarse_add_memory_finish(b) ==
    /\ coarse_free(b, adding[b])
    /\ adding' = Drop(adding, b)
    /\ UNCHANGED live

coarse_merge(lo, hi, totalSize) ==
    /\ alive
    /\ lo < hi /\ hi - lo < totalSize
    /\ lo \in UsedBlocks /\ hi \in UsedBlocks
    /\ get_node_next(all_blocks, lo) = hi
    /\ hi = lo + all_blocks[lo].size
    /\ all_blocks[lo].size + all_blocks[hi].size = totalSize
    /\ \E o \in user_block_merge(Store, lo, hi, TRUE) : o.ok /\ Commit(o.st)
    /\ live' = Put(Drop(live, hi), lo, totalSize)
    /\ UNCHANGED <<used_size, alloc_size, mapped, adding, alive>>

\* Fault: the split block keeps its size.
coarse_split_unshortened(b, totalSize, first) ==
    /\ alive
    /\ 0 < first /\ first < totalSize
    /\ b \in UsedBlocks
    /\ all_blocks[b].size = totalSize
    /\ \E s \in can_provider_split(Store, b, first) :
        \E n \in coarse_ravl_add_new(s.st, b + first, totalSize - first, {TRUE}) : Commit(n.st)
    /\ live' = Put(Put(live, b, first), b + first, totalSize - first)
    /\ UNCHANGED <<used_size, alloc_size, mapped, adding, alive>>

\* Fault: the first part may be the whole block.
coarse_split_unchecked(b, totalSize, first) ==
    /\ alive
    /\ 0 < first /\ first <= totalSize
    /\ b \in UsedBlocks
    /\ all_blocks[b].size = totalSize
    /\ \E s \in can_provider_split(Store, b, first) :
        /\ s.ok
        /\ \E n \in coarse_ravl_add_new(s.st, b + first, totalSize - first, {TRUE}) :
            /\ n.ok
            /\ Commit([n.st EXCEPT !.bl[b].size = first])
            /\ live' = Put(Put(live, b, first), b + first, totalSize - first)
    /\ UNCHANGED <<used_size, alloc_size, mapped, adding, alive>>

\* When the new block cannot be recorded, the upstream provider has already split.
coarse_split(b, totalSize, first) ==
    /\ alive
    /\ 0 < first /\ first < totalSize
    /\ b \in UsedBlocks
    /\ all_blocks[b].size = totalSize
    /\ \E s \in can_provider_split(Store, b, first) :
        /\ s.ok
        /\ \E n \in coarse_ravl_add_new(s.st, b + first, totalSize - first, {TRUE}) :
            \/ ~n.ok /\ Commit(n.st) /\ UNCHANGED live
            \/ /\ n.ok
               /\ Commit([n.st EXCEPT !.bl[b].size = first])
               /\ live' = Put(Put(live, b, first), b + first, totalSize - first)
    /\ UNCHANGED <<used_size, alloc_size, mapped, adding, alive>>

Next ==
    \/ coarse_new
    \/ coarse_delete
    \/ \E size \in Sizes, al \in Alignments : coarse_alloc(size, al, "user")
    \/ \E b \in DOMAIN live : free(b)
    \/ \E lo, hi \in DOMAIN live : coarse_merge(lo, hi, live[lo] + live[hi])
    \/ \E b \in DOMAIN live, first \in Sizes : coarse_split(b, live[b], first)
    \/ \E size \in Sizes : coarse_add_memory_from_provider(size)
    \/ \E r \in Regions : coarse_add_memory_fixed(r)
    \/ \E b \in DOMAIN adding : coarse_add_memory_finish(b)

Spec == Init /\ [][Next]_vars

-----------------------------------------------------------------------------
(* What must hold.                                                         *)

\* Addresses are not NULL and no block, list or holding is empty: splitting,
\* padding and merging never leave a block of size zero behind.
TypeOK ==
    /\ DOMAIN all_blocks \subseteq Positive
    /\ \A b \in DOMAIN all_blocks : all_blocks[b] \in [size : Positive, used : BOOLEAN]
    /\ DOMAIN free_blocks \subseteq Positive
    /\ \A k \in DOMAIN free_blocks : free_blocks[k] \in Seq(Positive)
    /\ alive => used_size \in Int /\ alloc_size \in Int
    /\ cuts \subseteq Positive
    /\ mapped \subseteq [addr : Positive, size : Positive]
    /\ DOMAIN adding \subseteq Positive
    /\ \A b \in DOMAIN adding : adding[b] \in Positive
    /\ DOMAIN live \subseteq Positive
    /\ \A b \in DOMAIN live : live[b] \in Positive
    /\ alive \in BOOLEAN

Extent(b) == Bytes(b, all_blocks[b].size)

\* No byte belongs to two blocks: what debug_check asserts of neighbours
\* ("two block's data should not overlap", coarse.c:576) for all pairs, and so
\* no two allocations ever share memory.
NoOverlap ==
    \A b, c \in DOMAIN all_blocks : b # c => Extent(b) \cap Extent(c) = {}

\* Splitting, padding, merging and giving back lose no memory and invent none:
\* the blocks are exactly the bytes the upstream provider handed over.
Conservation ==
    UNION {Extent(b) : b \in DOMAIN all_blocks} = UNION {Bytes(m.addr, m.size) : m \in mapped}

Entries == UNION {{<<k, i>> : i \in DOMAIN free_blocks[k]} : k \in DOMAIN free_blocks}

EntryBlock(e) == free_blocks[e[1]][e[2]]

\* A head in the tree of free blocks has a list (asserted by node_list_rm_first
\* and node_list_rm_with_alignment, coarse.c:275 and 300).
NoEmptyHead == \A k \in DOMAIN free_blocks : free_blocks[k] # <<>>

\* The free lists hold exactly the unused blocks, each once and under its
\* current size, and no list in the tree is empty: the second structure that
\* free_list_ptr ties to all_blocks never goes stale.
FreeListsExact ==
    /\ NoEmptyHead
    /\ \A e, g \in Entries : EntryBlock(e) = EntryBlock(g) => e = g
    /\ {EntryBlock(e) : e \in Entries} = DOMAIN all_blocks \ UsedBlocks
    /\ \A e \in Entries : all_blocks[EntryBlock(e)].size = e[1]

\* What coarse_get_stats returns.
coarse_get_stats ==
    [alloc_size |-> alloc_size, used_size |-> used_size,
     num_all_blocks |-> Cardinality(DOMAIN all_blocks), num_free_blocks |-> Cardinality(Entries)]

\* The running sums and counts are the ones of the blocks, through every split,
\* merge and error path: coarse_get_stats reports what is there, and after
\* coarse_delete nothing is left over (the assertions of coarse.c:980-981).
StatsMatch ==
    LET stats == coarse_get_stats
    IN  /\ stats.used_size = SizeOf(UsedBlocks)
        /\ stats.alloc_size = SizeOf(DOMAIN all_blocks)
        /\ stats.num_all_blocks = Cardinality(UsedBlocks) + stats.num_free_blocks

\* The two trees and the sums agree, and no block is empty, in every state between
\* two critical sections: the checks of debug_check (coarse.c:590) and of
\* coarse_delete hold at any point of any history.
BooksRight == TypeOK /\ FreeListsExact /\ StatsMatch

\* The upstream provider, told through cb.split and cb.merge only, has the
\* same idea of where blocks start: a later cb.split, cb.merge or cb.free
\* names a block it knows.
UpstreamAgrees == cuts = DOMAIN all_blocks

\* Two unused blocks that touch are merged at once, so a request fails for
\* fragmentation only where used blocks are in the way.
Coalesced ==
    \A b, c \in DOMAIN all_blocks \ UsedBlocks : b + all_blocks[b].size # c

\* Whoever holds an address, a user or a coarse_add_memory_* call between its
\* two critical sections, can rely on it: it is a used block of the size they
\* know, whatever the others have done since.
HoldersAreRight ==
    /\ DOMAIN live \cap DOMAIN adding = {}
    /\ \A b \in DOMAIN live : b \in UsedBlocks /\ all_blocks[b].size = live[b]
    /\ \A b \in DOMAIN adding : b \in UsedBlocks /\ all_blocks[b].size = adding[b]

\* Two allocations never share a byte.
LiveDisjoint ==
    \A b, c \in DOMAIN live : b # c => Bytes(b, live[b]) \cap Bytes(c, live[c]) = {}

\* coarse_alloc returns a block of the size it was asked for at an address of
\* the alignment it was asked for, whichever strategy found the block.
AllocAligned ==
    [][\A size \in Sizes, al \in Alignments :
         used_size' > used_size /\ coarse_alloc(size, al, "user") =>
             \E b \in DOMAIN live' \ DOMAIN live :
                /\ live'[b] = size
                /\ IsAligned(b, al)
                /\ IsAligned(b, PageSize)]_vars

\* What the users of the library see is a RangeAllocator over the memory that
\* was handed over: every step of every function is one of its operations or
\* changes nothing they can see.
Provider == INSTANCE RangeAllocator
                WITH mem <- UNION {Bytes(m.addr, m.size) : m \in mapped}, live <- live

ImplementsRangeAllocator == Provider!Spec

=============================================================================
