------------------------------- MODULE OsProvider -------------------------------
(***************************************************************************)
(* The OS memory provider (src/provider/provider_os_memory.c): mappings    *)
(* of private memory, or of one shared file whose parts are never reused.  *)
(* A shared block is opened by other processes at its offset in the file.  *)
(* The part of the file and the mapping are taken in two steps, with other *)
(* threads in between.  Where pages are bound is in module NumaBind.       *)
(***************************************************************************)
EXTENDS Integers, FiniteSetsExt, Functions

CONSTANTS
    OsThreads,
    ShmNamed,          \* a shared file has a name (shm_name)
    OsPage,
    OsSizes, OsAligns,
    SharedAligns,   \* the alignments asked of shared memory
    MergesApart,    \* callers merge shared blocks that are apart in the file
    OsAddrs,        \* where the system may place a mapping
    MaxFile,        \* max_size_fd
    MaxOsBlocks, MaxOsPeers,
    OsFails         \* "mmap", "bind", "offset", "unmap"

ASSUME OsAssumption ==
    /\ {ShmNamed, MergesApart} \subseteq BOOLEAN
    /\ {OsPage, MaxFile} \subseteq Nat \ {0}
    /\ OsSizes \subseteq Nat \ {0} /\ OsAligns \cup SharedAligns \subseteq Nat
    /\ \A a \in OsAddrs : a \in Nat \ {0} /\ a % OsPage = 0
    /\ OsFails \subseteq {"mmap", "bind", "offset", "unmap"}

VARIABLES
    shared,         \* visibility is UMF_MEM_MAP_SHARED
    sizeFd,         \* size_fd: how much of the file is taken
    linked,         \* the shared file still has its name
    page,           \* the mapped pages: address -> offset in the file (0 for private memory)
    offsetMap,      \* fd_offset_map: address -> offset in the file + 1
    osBlock,        \* the blocks given out: address -> size and alignment
    osCall,         \* what each thread is doing
    osPeer          \* what other processes map: the block and the part of the file

osVars == <<shared, sizeFd, linked, page, offsetMap, osBlock, osCall, osPeer>>

NoCall == [at |-> "idle"]

OsInit ==
    /\ shared \in BOOLEAN /\ sizeFd = 0 /\ linked = (shared /\ ShmNamed)
    /\ page = <<>> /\ offsetMap = <<>> /\ osBlock = <<>> /\ osPeer = {}
    /\ osCall = [t \in OsThreads |-> NoCall]

-----------------------------------------------------------------------------

PageUp(n) == OsPage * ((n + OsPage - 1) \div OsPage)

\* The pages that hold these bytes.
PagesOf(a, size) == {x \in (a - OsPage + 1) .. (a + size - 1) : x % OsPage = 0}

Put(f, x, v) == [y \in DOMAIN f \cup {x} |-> IF y = x THEN v ELSE f[y]]

Drop(f, S) == Restrict(f, DOMAIN f \ S)

\* utils_mmap_aligned: room to cut out an aligned part.
Extended(size, al) == IF al > OsPage THEN size + al ELSE size

AlignedAt(a, al) == IF al <= OsPage \/ a % al = 0 THEN a ELSE a + al - (a % al)

\* os_alloc checks the alignment, then utils_mmap_aligned takes the next part of
\* the file under lock_fd, when there is a file.
os_alloc(t, size, al) ==
    /\ shared => al \in SharedAligns
    /\ osCall[t] = NoCall /\ Cardinality(DOMAIN osBlock) < MaxOsBlocks
    /\ al # 0 => (al % OsPage = 0 \/ OsPage % al = 0)
    /\ shared => sizeFd + Extended(size, al) <= MaxFile
    /\ sizeFd' = IF shared THEN sizeFd + Extended(size, al) ELSE sizeFd
    /\ osCall' = [osCall EXCEPT ![t] = [at |-> "map", size |-> size, al |-> al, offset |-> sizeFd]]
    /\ UNCHANGED <<shared, linked, page, offsetMap, osBlock, osPeer>>

\* Fault: the end that is not needed stays mapped.
TrimHead(a, size, al) ==
    PagesOf(a, Extended(size, al)) \ PagesOf(a, AlignedAt(a, al) - a)

\* What utils_mmap_aligned keeps of a mapping at a: the pages from the aligned
\* address to the end of the block.
Trim(a, size, al) ==
    {x \in PagesOf(a, Extended(size, al)) : x >= AlignedAt(a, al) /\ x < AlignedAt(a, al) + PageUp(size)}

\* The call maps memory at a, unless its part of the file does not start at a page.
Mapped(t, a) ==
    LET c == osCall[t]
    IN  /\ c.at = "map"
        /\ shared => c.offset % OsPage = 0
        /\ PagesOf(a, Extended(c.size, c.al)) \cap DOMAIN page = {}

\* utils_mmap_aligned and the rest of os_alloc: the block is given out even when
\* its offset cannot be noted.
GiveOs(t, a, noted) ==
    LET c == osCall[t]
        addr == AlignedAt(a, c.al)
        keep == Trim(a, c.size, c.al)
    IN  /\ Mapped(t, a)
        /\ noted \/ "offset" \in OsFails
        /\ page' = [x \in DOMAIN page \cup keep |->
                       IF x \in keep THEN IF shared THEN c.offset + (x - a) ELSE 0 ELSE page[x]]
        /\ offsetMap' = IF shared /\ noted THEN Put(offsetMap, addr, c.offset + 1) ELSE offsetMap
        /\ osBlock' = Put(osBlock, addr, [size |-> c.size, al |-> c.al])
        /\ osCall' = [osCall EXCEPT ![t] = NoCall]
        /\ UNCHANGED <<shared, sizeFd, linked, osPeer>>

\* The mapping fails, or binding it does and all of it is unmapped.  The part of
\* the file is not given back.
AllocGivesUp(t) ==
    /\ osCall[t].at = "map"
    /\ \/ OsFails \cap {"mmap", "bind"} # {}
       \/ shared /\ osCall[t].offset % OsPage # 0
    /\ osCall' = [osCall EXCEPT ![t] = NoCall]
    /\ UNCHANGED <<shared, sizeFd, linked, page, offsetMap, osBlock, osPeer>>

\* The caller neither frees nor changes what another process maps.
Closed(ptr) == \A p \in osPeer : p.ptr # ptr

\* os_free: the offset is forgotten even when the memory cannot be unmapped.
os_free(ptr, unmapped) ==
    /\ Closed(ptr)
    /\ unmapped \/ "unmap" \in OsFails
    /\ offsetMap' = IF shared THEN Drop(offsetMap, {ptr}) ELSE offsetMap
    /\ page' = IF unmapped THEN Drop(page, PagesOf(ptr, osBlock[ptr].size)) ELSE page
    /\ osBlock' = IF unmapped THEN Drop(osBlock, {ptr}) ELSE osBlock
    /\ UNCHANGED <<shared, sizeFd, linked, osCall, osPeer>>

\* Fault: the second part keeps the offset of the whole block.
OffsetSame(ptr, first) == offsetMap[ptr]

OffsetOf(ptr, first) == offsetMap[ptr] + first

\* os_allocation_split, at a page.
os_allocation_split(ptr, first) ==
    LET b == osBlock[ptr]
    IN  /\ Closed(ptr) /\ first < b.size /\ first % OsPage = 0
        /\ shared => ptr \in DOMAIN offsetMap
        /\ offsetMap' = IF shared THEN Put(offsetMap, ptr + first, OffsetOf(ptr, first)) ELSE offsetMap
        /\ osBlock' = Put([osBlock EXCEPT ![ptr].size = first], ptr + first, [b EXCEPT !.size = @ - first])
        /\ UNCHANGED <<shared, sizeFd, linked, page, osCall, osPeer>>

\* os_allocation_merge, of two blocks that touch.
os_allocation_merge(low, high) ==
    /\ Closed(low) /\ Closed(high) /\ high = low + osBlock[low].size
    /\ shared => (MergesApart \/ page[high] = page[low] + osBlock[low].size)
    /\ shared => high \in DOMAIN offsetMap
    /\ offsetMap' = IF shared THEN Drop(offsetMap, {high}) ELSE offsetMap
    /\ osBlock' = Drop([osBlock EXCEPT ![low].size = @ + osBlock[high].size], {high})
    /\ UNCHANGED <<shared, sizeFd, linked, page, osCall, osPeer>>

\* os_get_ipc_handle.
OsHandle(ptr) == [ptr |-> ptr, size |-> osBlock[ptr].size, offset |-> offsetMap[ptr] - 1]

\* os_open_ipc_handle, in another process: by name, which is taken away, or through
\* the descriptor of the owner.
os_open_ipc_handle(ptr) ==
    /\ shared /\ ptr \in DOMAIN offsetMap /\ Cardinality(osPeer) < MaxOsPeers
    /\ ShmNamed => linked
    /\ linked' = FALSE
    /\ osPeer' = osPeer \cup {OsHandle(ptr)}
    /\ UNCHANGED <<shared, sizeFd, page, offsetMap, osBlock, osCall>>

\* os_close_ipc_handle.
os_close_ipc_handle(p) ==
    /\ osPeer' = osPeer \ {p}
    /\ UNCHANGED <<shared, sizeFd, linked, page, offsetMap, osBlock, osCall>>

OsNext ==
    \/ \E t \in OsThreads :
           \/ \E size \in OsSizes, al \in OsAligns : os_alloc(t, size, al)
           \/ \E a \in OsAddrs, noted \in BOOLEAN : GiveOs(t, a, noted)
           \/ AllocGivesUp(t)
    \/ \E ptr \in DOMAIN osBlock :
           \/ \E unmapped \in BOOLEAN : os_free(ptr, unmapped)
           \/ \E first \in OsSizes : os_allocation_split(ptr, first)
           \/ \E high \in DOMAIN osBlock : os_allocation_merge(ptr, high)
           \/ os_open_ipc_handle(ptr)
    \/ \E p \in osPeer : os_close_ipc_handle(p)

OsSpec == OsInit /\ [][OsNext]_osVars

-----------------------------------------------------------------------------
(* What holds.                                                             *)

\* The mapped pages are those of the blocks given out, whatever was mapped more to
\* align them and whatever was split, merged and freed since; no page is in two blocks.
OsExact ==
    /\ DOMAIN page = UNION {PagesOf(ptr, osBlock[ptr].size) : ptr \in DOMAIN osBlock}
    /\ \A p, q \in DOMAIN osBlock :
           p # q => PagesOf(p, osBlock[p].size) \cap PagesOf(q, osBlock[q].size) = {}

\* No part of the file is behind two pages, and another process that opens a block
\* gets the pages of the block.
OsShared ==
    shared =>
        /\ \A x, y \in DOMAIN page : x # y => page[x] # page[y]
        /\ \A p \in osPeer : \A x \in PagesOf(p.ptr, p.size) : page[x] = p.offset + (x - p.ptr)

=============================================================================
