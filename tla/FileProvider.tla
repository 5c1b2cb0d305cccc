------------------------------ MODULE FileProvider ------------------------------
(***************************************************************************)
(* The file memory provider (src/provider/provider_file_memory.c): memory  *)
(* is cut from mappings of a file that grows.  A coarse allocator          *)
(* (module Coarse) sits on top and calls the callbacks that are modelled   *)
(* here to get, split and merge blocks.  For each block the provider keeps *)
(* the offset in the file, from which another process maps the same bytes. *)
(***************************************************************************)
EXTENDS Integers, FiniteSetsExt, Functions

CONSTANTS
    FilePage,       \* page_size
    FileSizes,      \* sizes the coarse allocator asks for
    FileAligns,     \* alignments it asks for
    FileAddrs,      \* where the system may place a mapping
    FileLimit,      \* size_t wraps here
    FileMax,        \* the file cannot grow beyond this size
    MaxFileBlocks,  \* bound on the blocks given out
    Fsdax,          \* the file is on a file system with direct access
    MaxPeers,       \* bound on the mappings of other processes
    FileFails       \* "mmap", "offset" (host memory for the offset map)

ASSUME FileAssumption ==
    /\ {FilePage, FileLimit, FileMax} \subseteq Nat \ {0}
    /\ FileSizes \subseteq Nat \ {0} /\ FileAligns \subseteq Nat /\ FileAddrs \subseteq Nat \ {0}
    /\ Fsdax \in BOOLEAN /\ FileFails \subseteq {"mmap", "offset"}

VARIABLES
    file,           \* size_fd, offset_fd, base_mmap, size_mmap, offset_mmap
    mapped,         \* the mappings: address -> size and offset in the file (mmaps, with the offset)
    fdOffset,       \* fd_offset_map: address -> offset in the file + 1
    fileBlock,      \* the blocks of the coarse allocator: address -> size
    peers           \* what other processes map: the block and the part of the file

fileVars == <<file, mapped, fdOffset, fileBlock, peers>>

-----------------------------------------------------------------------------

NewFile == [size |-> FilePage, offset |-> 0, base |-> 0, length |-> 0, used |-> 0]

\* file_initialize has sized the file; nothing is mapped.
FileInit ==
    /\ file = NewFile
    /\ mapped = <<>> /\ fdOffset = <<>> /\ fileBlock = <<>> /\ peers = {}

FileBytes(a, size) == a .. (a + size - 1)

UpTo(n, a) == IF a = 0 \/ n % a = 0 THEN n ELSE n + a - (n % a)

SetAt(f, x, v) == [y \in DOMAIN f \cup {x} |-> IF y = x THEN v ELSE f[y]]

\* file_mmap_aligned: the mapping it wants.
WantedSize(size, alignment) ==
    [length |-> UpTo(size + alignment, FilePage), offset |-> UpTo(file.offset, FilePage)]

Wraps(size, alignment) == WantedSize(size, alignment).length >= FileLimit

\* The system has room for the mapping at this address.
RoomAt(a, length) ==
    \A m \in DOMAIN mapped : FileBytes(a, length) \cap FileBytes(m, mapped[m].size) = {}

\* Fault: what was used of the mapping before is not reset.
MmapFileUsed(size, alignment, a) ==
    LET w == WantedSize(size, alignment)
    IN  [size |-> Max({file.size, w.offset + w.length}), offset |-> w.offset,
         base |-> UpTo(a, alignment), length |-> w.length - (UpTo(a, alignment) - a),
         used |-> file.used]

\* file_mmap_aligned, with the mapping at address a: base_mmap is aligned, the
\* offset in the file is the one of the mapping's first byte.
MmapFile(size, alignment, a) ==
    LET w == WantedSize(size, alignment)
    IN  [size |-> Max({file.size, w.offset + w.length}), offset |-> w.offset,
         base |-> UpTo(a, alignment), length |-> w.length - (UpTo(a, alignment) - a), used |-> 0]

\* file_alloc_aligned: where the next block would be in the current mapping.
NextUsed(f, alignment) == UpTo(f.base + f.used, alignment) - f.base

FitsMapping(f, size, alignment) == f.length >= size + NextUsed(f, alignment)

\* The provider after a block was cut, and the offset of the block in the file.
CutBlock(f, size, alignment) ==
    LET off == f.offset + NextUsed(f, alignment) - f.used
    IN  [file |-> [f EXCEPT !.offset = off + size, !.used = NextUsed(f, alignment) + size],
         ptr  |-> f.base + NextUsed(f, alignment), offset |-> off]

\* file_alloc_cb hands out a block, unless there is no memory to note its offset:
\* the block is lost then.
GiveBlock(f, size, alignment, noted) ==
    LET cut == CutBlock(f, size, alignment)
    IN  /\ file' = cut.file
        /\ fdOffset' = IF noted THEN SetAt(fdOffset, cut.ptr, cut.offset + 1) ELSE fdOffset
        /\ fileBlock' = IF noted THEN SetAt(fileBlock, cut.ptr, size) ELSE fileBlock
        /\ UNCHANGED peers

\* The alignment that file_alloc_cb passes on; it refuses others.
FileAlign(alignment) == UpTo(alignment, FilePage)

GoodAlign(alignment) ==
    alignment # 0 => (alignment % FilePage = 0 \/ FilePage % alignment = 0)

\* file_alloc_cb, from the current mapping ...
AllocMapped(size, alignment, noted) ==
    /\ GoodAlign(alignment) /\ Cardinality(DOMAIN fileBlock) < MaxFileBlocks
    /\ noted \/ "offset" \in FileFails
    /\ FitsMapping(file, size, FileAlign(alignment))
    /\ GiveBlock(file, size, FileAlign(alignment), noted)
    /\ UNCHANGED mapped

\* ... or from a new one.
AllocNew(size, alignment, a, noted) ==
    LET al == FileAlign(alignment)
        w  == WantedSize(size, al)
    IN  /\ GoodAlign(alignment) /\ Cardinality(DOMAIN fileBlock) < MaxFileBlocks
        /\ noted \/ "offset" \in FileFails
        /\ ~FitsMapping(file, size, al) /\ ~Wraps(size, al)
        /\ w.offset + w.length <= FileMax /\ RoomAt(a, w.length)
        /\ mapped' = SetAt(mapped, a, [size |-> w.length, offset |-> w.offset])
        /\ GiveBlock(MmapFile(size, al, a), size, al, noted)

\* ... whose mapping fails after the file has grown.
AllocFails(size, alignment) ==
    LET al == FileAlign(alignment)
        w  == WantedSize(size, al)
    IN  /\ "mmap" \in FileFails /\ GoodAlign(alignment)
        /\ ~FitsMapping(file, size, al) /\ ~Wraps(size, al) /\ w.offset + w.length <= FileMax
        /\ file' = [file EXCEPT !.size = Max({@, w.offset + w.length}), !.offset = w.offset]
        /\ UNCHANGED <<mapped, fdOffset, fileBlock, peers>>

\* The blocks that no other process maps, which the coarse allocator may change.
Unshared(ptr) == ptr \in DOMAIN fileBlock /\ \A p \in peers : p.ptr # ptr

\* file_allocation_split_cb.
SplitFile(ptr, first) ==
    /\ Unshared(ptr) /\ ptr \in DOMAIN fdOffset /\ first < fileBlock[ptr]
    /\ fdOffset' = SetAt(fdOffset, ptr + first, fdOffset[ptr] + first)
    /\ fileBlock' = SetAt(SetAt(fileBlock, ptr + first, fileBlock[ptr] - first), ptr, first)
    /\ UNCHANGED <<file, mapped, peers>>

\* file_allocation_merge_cb, of two blocks that touch.
MergeFile(low, high) ==
    /\ Unshared(low) /\ Unshared(high) /\ high = low + fileBlock[low] /\ high \in DOMAIN fdOffset
    /\ fdOffset' = Restrict(fdOffset, DOMAIN fdOffset \ {high})
    /\ fileBlock' = Restrict([fileBlock EXCEPT ![low] = @ + fileBlock[high]], DOMAIN fileBlock \ {high})
    /\ UNCHANGED <<file, mapped, peers>>

\* file_get_ipc_handle: what the handle of a block says.
HandleOf(ptr) == [ptr |-> ptr, size |-> fileBlock[ptr], offset |-> fdOffset[ptr] - 1]

\* file_open_ipc_handle in another process; whole huge pages with direct access.
Widened(h) ==
    LET gap == h.offset % FilePage
    IN  [h EXCEPT !.offset = @ - gap, !.size = UpTo(@ + gap, FilePage)]

OpenFile(ptr) ==
    /\ ptr \in DOMAIN fileBlock /\ ptr \in DOMAIN fdOffset /\ Cardinality(peers) < MaxPeers
    /\ peers' = peers \cup {IF Fsdax THEN Widened(HandleOf(ptr)) ELSE HandleOf(ptr)}
    /\ UNCHANGED <<file, mapped, fdOffset, fileBlock>>

\* file_close_ipc_handle.
CloseFile(p) ==
    /\ peers' = peers \ {p}
    /\ UNCHANGED <<file, mapped, fdOffset, fileBlock>>

\* file_finalize unmaps everything.
file_finalize ==
    /\ peers = {} /\ mapped # <<>>
    /\ file' = NewFile /\ mapped' = <<>> /\ fdOffset' = <<>> /\ fileBlock' = <<>>
    /\ UNCHANGED peers

FileNext ==
    \/ \E size \in FileSizes, al \in FileAligns, noted \in BOOLEAN :
           \/ AllocMapped(size, al, noted)
           \/ \E a \in FileAddrs : AllocNew(size, al, a, noted)
    \/ \E size \in FileSizes, al \in FileAligns : AllocFails(size, al)
    \/ \E ptr \in DOMAIN fileBlock :
           \/ \E first \in FileSizes : SplitFile(ptr, first)
           \/ \E high \in DOMAIN fileBlock : MergeFile(ptr, high)
           \/ OpenFile(ptr)
    \/ \E p \in peers : CloseFile(p)
    \/ file_finalize

FileSpec == FileInit /\ [][FileNext]_fileVars

-----------------------------------------------------------------------------
(* What holds.                                                             *)

\* The byte of the file behind an address.
Behind(x) ==
    LET m == CHOOSE m \in DOMAIN mapped : x \in FileBytes(m, mapped[m].size)
    IN  mapped[m].offset + (x - m)

FilePart(ptr) == {Behind(x) : x \in FileBytes(ptr, fileBlock[ptr])}

\* Every block is mapped, no byte of the file is behind two blocks, and a process
\* that maps a block at its noted offset gets the bytes of the block, in order,
\* however the coarse allocator has split and merged it.
SameBytes ==
    /\ \A ptr \in DOMAIN fileBlock : \A x \in FileBytes(ptr, fileBlock[ptr]) :
           \E m \in DOMAIN mapped : x \in FileBytes(m, mapped[m].size)
    /\ \A p, q \in DOMAIN fileBlock : p # q => FilePart(p) \cap FilePart(q) = {}
    /\ \A p \in peers : \A i \in 0 .. (p.size - 1) : Behind(p.ptr + i) = p.offset + i

=============================================================================
