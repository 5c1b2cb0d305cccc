------------------------------ MODULE LinearAlloc ------------------------------
(***************************************************************************)
(* The linear allocator (src/base_alloc/base_alloc_linear.c): blocks are   *)
(* cut one after the other from the active memory, and memory goes back to *)
(* the system as a whole.  Each call is one step, under the lock.          *)
(***************************************************************************)
EXTENDS SystemMemory, SequencesExt

CONSTANTS
    LinearSize,     \* pool_size of the caller
    LinearHeader,   \* bytes before the data of the first memory
    LinearNext,     \* bytes before the data of the further memory
    LinearWord,     \* MEMORY_ALIGNMENT
    LinearRequests, \* sizes that are asked for
    MaxGiven        \* bound on the blocks

ASSUME LinearAllocAssumption ==
    /\ {LinearSize, LinearHeader, LinearNext, LinearWord, MaxGiven} \subseteq Nat \ {0}
    /\ LinearRequests \subseteq Nat \ {0} /\ LinearNext < Page

VARIABLES
    linear,         \* see NoLinear
    blocksOut       \* the blocks of the users: [ptr, size]

linearVars == <<os, linear, blocksOut>>

\* first: the first memory, more: the further memory, the active one first, n:
\* pool_n_allocs of each, data and left: what is left of the active one
NoLinear == [made |-> FALSE, first |-> 0, more |-> <<>>, n |-> <<>>, data |-> 0, left |-> 0]

LinearInit ==
    /\ linear = NoLinear
    /\ blocksOut = {}

\* umf_ba_linear_create
LinearCreate ==
    LET size == AlignUp(LinearSize + LinearHeader, Page) IN
    /\ ~linear.made
    /\ \E a \in OsRoom(size) :
        LET data == AlignUp(a + LinearHeader, LinearWord) IN
        /\ OsAlloc(a, size)
        /\ linear' = [made |-> TRUE, first |-> a, more |-> <<>>, n |-> [x \in {a} |-> 0], data |-> data,
                      left |-> a + size - data]
    /\ UNCHANGED blocksOut

Active(l) == IF l.more = <<>> THEN l.first ELSE Head(l.more)

\* A block is cut from the active memory.
Cut(l, size) ==
    [l EXCEPT !.data = @ + size, !.left = @ - size, !.n = [@ EXCEPT ![Active(l)] = @ + 1]]

\* New active memory.
Extend(l, a, size, data) ==
    [l EXCEPT !.more = <<a>> \o @, !.n = [x \in DOMAIN @ \cup {a} |-> IF x = a THEN 0 ELSE @[x]],
              !.data = data, !.left = a + size - data]

\* Fault: a block larger than a page gets a page.
MoreOnePage(size) == Page

\* The memory to take for a block: a page, or the pages that a larger block needs.
More(size) == IF Page - LinearNext < size THEN AlignUp(LinearNext + size, Page) ELSE Page

\* umf_ba_linear_alloc: without room in the active memory, what is left of it is
\* given up for new memory.
LinearTake(request) ==
    LET size == AlignUp(request, LinearWord) IN
    /\ linear.made /\ Cardinality(blocksOut) < MaxGiven
    /\ \/ /\ linear.left >= size
          /\ linear' = Cut(linear, size)
          /\ blocksOut' = blocksOut \cup {[ptr |-> linear.data, size |-> size]}
          /\ UNCHANGED os
       \/ /\ linear.left < size
          /\ \E a \in OsRoom(More(size)) :
                LET data == AlignUp(a + LinearNext, LinearWord) IN
                /\ OsAlloc(a, More(size))
                /\ linear' = Cut(Extend(linear, a, More(size), data), size)
                /\ blocksOut' = blocksOut \cup {[ptr |-> data, size |-> size]}

\* pool_contains_ptr
Holding(ptr) == CHOOSE a \in DOMAIN linear.n : a <= ptr /\ ptr < a + os[a]

\* Fault: the active memory is given back like any other.
IdleAny(a) == a # linear.first

\* The memory that goes once it is empty: not the active one.
Idle(a) == a # linear.first /\ a # Active(linear)

\* umf_ba_linear_free: memory goes with its last block, but for the active memory
\* and the first page, which has the metadata.
LinearFree(b) ==
    LET a == Holding(b.ptr)
        last == linear.n[a] = 1 IN
    /\ b \in blocksOut
    /\ blocksOut' = blocksOut \ {b}
    /\ IF last /\ Idle(a)
       THEN /\ linear' = [linear EXCEPT !.more = SelectSeq(@, LAMBDA x : x # a),
                                        !.n = [x \in DOMAIN @ \ {a} |-> @[x]]]
            /\ OsFree({a})
       ELSE /\ linear' = [linear EXCEPT !.n[a] = @ - 1]
            /\ os' = IF last /\ a = linear.first /\ linear.more # <<>> THEN [os EXCEPT ![a] = Page] ELSE os

\* umf_ba_linear_destroy
LinearDestroy ==
    /\ linear.made
    /\ OsFree(DOMAIN linear.n)
    /\ linear' = NoLinear
    /\ blocksOut' = {}

LinearNextStep ==
    \/ LinearCreate \/ LinearDestroy
    \/ \E size \in LinearRequests : LinearTake(size)
    \/ \E b \in blocksOut : LinearFree(b)

-----------------------------------------------------------------------------

\* A block of the linear allocator stays in memory of the system that no other
\* block lies in, whatever memory the frees before it have given back, and
\* pool_n_allocs counts the blocks of each memory (umf_ba_linear_alloc,
\* umf_ba_linear_free).
LinearBlocksKept ==
    /\ \A b \in blocksOut :
        /\ InMemory(b.ptr, b.size) /\ b.ptr % LinearWord = 0
        /\ \A d \in blocksOut \ {b} : Apart(b.ptr, b.size, d.ptr, d.size)
    /\ \A a \in DOMAIN linear.n :
        linear.n[a] = Cardinality({b \in blocksOut : a <= b.ptr /\ b.ptr < a + os[a]})
=============================================================================
