------------------------------- MODULE GpuProvider -------------------------------
(***************************************************************************)
(* The CUDA and the Level Zero memory providers (provider_cuda.c and       *)
(* provider_level_zero.c in src/provider/).  The driver is external: it    *)
(* allocates, frees and may fail.  A CUDA call runs in the context of the  *)
(* provider and gives the thread its own context back; a Level Zero        *)
(* allocation is made resident on a list of devices.                       *)
(***************************************************************************)
EXTENDS Integers, FiniteSets

CONSTANTS
    GpuThreads,
    Contexts, OwnContext,   \* contexts of the driver; the one of the CUDA provider
    GpuPtrs,                \* addresses the driver hands out
    Residents,              \* resident_device_count
    HasPut,                 \* the driver has zeMemPutIpcHandle
    MaxIpc,                 \* bound on handles and on opened handles
    GpuFails                \* "get", "set", "restore", "call", "misaligned", "resident"

ASSUME GpuAssumption ==
    /\ OwnContext \in Contexts /\ {Residents, MaxIpc} \subseteq Nat /\ HasPut \in BOOLEAN
    /\ GpuFails \subseteq {"get", "set", "restore", "call", "misaligned", "resident"}

VARIABLES
    context,        \* the current context of each thread
    wanted,         \* the context that the thread itself has set
    gpuMemory,      \* what the driver has allocated: address -> provider
    given,          \* what callers hold
    counted,        \* allocations minus frees in the statistics, per provider
    ipcHandles,     \* handles of Level Zero not yet put: addresses
    openedGpu,      \* opened handles, as a number
    gpuCall         \* what each thread is doing

gpuVars == <<context, wanted, gpuMemory, given, counted, ipcHandles, openedGpu, gpuCall>>

GpuIdle == [at |-> "idle"]

GpuInit ==
    /\ context = [t \in GpuThreads |-> CHOOSE c \in Contexts : c # OwnContext]
    /\ wanted = context
    /\ gpuMemory = <<>> /\ given = {} /\ counted = [p \in {"cuda", "ze"} |-> 0]
    /\ ipcHandles = {} /\ openedGpu = 0
    /\ gpuCall = [t \in GpuThreads |-> GpuIdle]

May(kind) == kind \in GpuFails

Becomes(t, c) == gpuCall' = [gpuCall EXCEPT ![t] = c]

\* Between two calls, a thread may set another context itself.
SetOwn(t, c) ==
    /\ gpuCall[t] = GpuIdle
    /\ context' = [context EXCEPT ![t] = c] /\ wanted' = [wanted EXCEPT ![t] = c]
    /\ UNCHANGED <<gpuMemory, given, counted, ipcHandles, openedGpu, gpuCall>>

-----------------------------------------------------------------------------
(* CUDA.                                                                   *)

\* set_context: the contexts of the threads and what is saved.  A context that is
\* current already is not set again.
set_context(t, required) == [context EXCEPT ![t] = required]

\* cu_memory_provider_alloc, _free and _open_ipc_handle begin by saving and setting
\* the context, and give up when that fails.
CuEnter(t, op, ptr) ==
    /\ gpuCall[t] = GpuIdle
    /\ op = "free" => (ptr \in given /\ gpuMemory[ptr] = "cuda")
    /\ op = "open" => openedGpu < MaxIpc
    /\ given' = IF op = "free" THEN given \ {ptr} ELSE given
    /\ context' = set_context(t, OwnContext)
    /\ Becomes(t, [at |-> op, ptr |-> ptr, restore |-> context[t]])
    /\ UNCHANGED <<wanted, gpuMemory, counted, ipcHandles, openedGpu>>

\* Such a call that cannot read or set the context leaves everything as it was.
CuRefused(t) ==
    /\ gpuCall[t] = GpuIdle /\ (May("get") \/ May("set"))
    /\ UNCHANGED gpuVars

\* The driver allocates for cu_memory_provider_alloc, or fails.
CuDriverAlloc(t, ptr, ok) ==
    /\ gpuCall[t].at = "alloc" /\ ptr \notin DOMAIN gpuMemory /\ (ok \/ May("call"))
    /\ gpuMemory' = IF ok THEN [p \in DOMAIN gpuMemory \cup {ptr} |->
                                  IF p = ptr THEN "cuda" ELSE gpuMemory[p]] ELSE gpuMemory
    /\ Becomes(t, [at |-> IF ok THEN "allocated" ELSE "failed", ptr |-> ptr,
                   restore |-> gpuCall[t].restore])
    /\ UNCHANGED <<context, wanted, given, counted, ipcHandles, openedGpu>>

\* The driver frees for cu_memory_provider_free, or fails: the caller keeps the memory.
CuDriverFree(t, ok) ==
    LET ptr == gpuCall[t].ptr
    IN  /\ gpuCall[t].at = "free" /\ (ok \/ May("call"))
        /\ gpuMemory' = IF ok THEN [p \in DOMAIN gpuMemory \ {ptr} |-> gpuMemory[p]] ELSE gpuMemory
        /\ given' = IF ok THEN given ELSE given \cup {ptr}
        /\ Becomes(t, [gpuCall[t] EXCEPT !.at = IF ok THEN "freed" ELSE "failed"])
        /\ UNCHANGED <<context, wanted, counted, ipcHandles, openedGpu>>

\* The driver opens a handle for cu_memory_provider_open_ipc_handle, or fails.
CuDriverOpen(t, ok) ==
    /\ gpuCall[t].at = "open" /\ (ok \/ May("call"))
    /\ openedGpu' = IF ok THEN openedGpu + 1 ELSE openedGpu
    /\ Becomes(t, [gpuCall[t] EXCEPT !.at = IF ok THEN "opened" ELSE "failed"])
    /\ UNCHANGED <<context, wanted, gpuMemory, given, counted, ipcHandles>>

\* Fault: a call that the driver has refused returns at once.
RestoredOnSuccess(t) ==
    IF gpuCall[t].at = "failed" THEN context ELSE set_context(t, gpuCall[t].restore)

\* The saved context is set again, whether or not the driver's call succeeded; a
\* failure to do so is only logged.
Restored(t) == set_context(t, gpuCall[t].restore)

\* The end of the three calls: context, result, alignment, statistics.  A block that
\* is not aligned goes through cu_memory_provider_free: this takes it off the
\* statistics, though it was not counted yet, or fails and nobody has the block.
CuLeave(t, restored, block) ==
    LET c == gpuCall[t]
    IN  /\ c.at \in {"allocated", "freed", "opened", "failed"}
        /\ restored \/ May("restore")
        /\ block # "kept" => c.at = "allocated" /\ May("misaligned")
        /\ block = "lost" => May("get") \/ May("set") \/ May("call")
        /\ context' = IF restored THEN Restored(t) ELSE context
        /\ given' = IF c.at = "allocated" /\ block = "kept" THEN given \cup {c.ptr} ELSE given
        /\ gpuMemory' = IF block # "undone" THEN gpuMemory
                        ELSE [p \in DOMAIN gpuMemory \ {c.ptr} |-> gpuMemory[p]]
        /\ counted' = CASE c.at = "allocated" /\ block = "kept" -> [counted EXCEPT !["cuda"] = @ + 1]
                        [] c.at = "freed" \/ block = "undone" -> [counted EXCEPT !["cuda"] = @ - 1]
                        [] OTHER -> counted
        /\ Becomes(t, GpuIdle)
        /\ UNCHANGED <<wanted, ipcHandles, openedGpu>>

\* cu_memory_provider_close_ipc_handle and its like in Level Zero.
CloseGpu(ok) ==
    /\ openedGpu > 0 /\ (ok \/ May("call"))
    /\ openedGpu' = IF ok THEN openedGpu - 1 ELSE openedGpu
    /\ UNCHANGED <<context, wanted, gpuMemory, given, counted, ipcHandles, gpuCall>>

-----------------------------------------------------------------------------
(* Level Zero.                                                             *)

\* ze_memory_provider_alloc_helper: the driver allocates, ...
ZeAlloc(t, ptr) ==
    /\ gpuCall[t] = GpuIdle /\ ptr \notin DOMAIN gpuMemory
    /\ gpuMemory' = [p \in DOMAIN gpuMemory \cup {ptr} |-> IF p = ptr THEN "ze" ELSE gpuMemory[p]]
    /\ Becomes(t, [at |-> "resident", ptr |-> ptr, left |-> Residents])
    /\ UNCHANGED <<context, wanted, given, counted, ipcHandles, openedGpu>>

\* ... and the memory is made resident on one device after the other, then counted.
\* A device that fails ends the call: the memory is not freed.
ZeResident(t, ok) ==
    LET c == gpuCall[t]
    IN  /\ c.at = "resident" /\ (ok \/ (c.left > 0 /\ May("resident")))
        /\ IF ok /\ c.left > 0
           THEN Becomes(t, [c EXCEPT !.left = @ - 1]) /\ UNCHANGED <<given, counted>>
           ELSE /\ Becomes(t, GpuIdle)
                /\ given' = IF ok THEN given \cup {c.ptr} ELSE given
                /\ counted' = IF ok THEN [counted EXCEPT !["ze"] = @ + 1] ELSE counted
        /\ UNCHANGED <<context, wanted, gpuMemory, ipcHandles, openedGpu>>

\* Fault: the memory is taken off the statistics before the driver has freed it.
ZeCountFirst(ok) == [counted EXCEPT !["ze"] = @ - 1]

\* The statistics after ze_memory_provider_free_helper.
ZeCount(ok) == IF ok THEN [counted EXCEPT !["ze"] = @ - 1] ELSE counted

\* ze_memory_provider_free_helper, with zeMemFree or zeMemFreeExt.
ZeFree(ptr, ok) ==
    /\ ptr \in given /\ gpuMemory[ptr] = "ze" /\ ptr \notin ipcHandles /\ (ok \/ May("call"))
    /\ gpuMemory' = IF ok THEN [p \in DOMAIN gpuMemory \ {ptr} |-> gpuMemory[p]] ELSE gpuMemory
    /\ given' = IF ok THEN given \ {ptr} ELSE given
    /\ counted' = ZeCount(ok)
    /\ UNCHANGED <<context, wanted, ipcHandles, openedGpu, gpuCall>>

\* ze_memory_provider_get_ipc_handle.
ZeGetHandle(ptr) ==
    /\ ptr \in given /\ gpuMemory[ptr] = "ze"
    /\ ipcHandles' = ipcHandles \cup {ptr}
    /\ UNCHANGED <<context, wanted, gpuMemory, given, counted, openedGpu, gpuCall>>

\* ze_memory_provider_put_ipc_handle: the driver's call, where it has one.
ZePutHandle(ptr, ok) ==
    /\ ptr \in ipcHandles /\ (ok \/ (HasPut /\ May("call")))
    /\ ipcHandles' = IF ok THEN ipcHandles \ {ptr} ELSE ipcHandles
    /\ UNCHANGED <<context, wanted, gpuMemory, given, counted, openedGpu, gpuCall>>

\* ze_memory_provider_open_ipc_handle: the descriptor of another process is
\* duplicated for the time of the call.
ZeOpen(ok) ==
    /\ openedGpu < MaxIpc /\ (ok \/ May("call"))
    /\ openedGpu' = IF ok THEN openedGpu + 1 ELSE openedGpu
    /\ UNCHANGED <<context, wanted, gpuMemory, given, counted, ipcHandles, gpuCall>>

GpuNext ==
    \/ \E t \in GpuThreads :
           \/ \E c \in Contexts : SetOwn(t, c)
           \/ \E op \in {"alloc", "open"} : CuEnter(t, op, 0)
           \/ \E ptr \in given : CuEnter(t, "free", ptr)
           \/ CuRefused(t)
           \/ \E ptr \in GpuPtrs, ok \in BOOLEAN : CuDriverAlloc(t, ptr, ok)
           \/ \E ok \in BOOLEAN : CuDriverFree(t, ok) \/ CuDriverOpen(t, ok) \/ ZeResident(t, ok)
           \/ \E restored \in BOOLEAN, block \in {"kept", "undone", "lost"} :
                  CuLeave(t, restored, block)
           \/ \E ptr \in GpuPtrs : ZeAlloc(t, ptr)
    \/ \E ok \in BOOLEAN : CloseGpu(ok) \/ ZeOpen(ok)
    \/ \E ptr \in given : ZeGetHandle(ptr) \/ \E ok \in BOOLEAN : ZeFree(ptr, ok)
    \/ \E ptr \in ipcHandles, ok \in BOOLEAN : ZePutHandle(ptr, ok)

GpuSpec == GpuInit /\ [][GpuNext]_gpuVars

-----------------------------------------------------------------------------
(* What holds.                                                             *)

\* A thread that is in no call has the context it has set itself, whatever the
\* driver refused during its calls.
ContextKept == \A t \in GpuThreads : gpuCall[t] = GpuIdle => context[t] = wanted[t]

\* When no call is under way, the driver's memory is what the callers hold and the
\* statistics count it.
GpuHeld ==
    (\A t \in GpuThreads : gpuCall[t] = GpuIdle) =>
        /\ DOMAIN gpuMemory = given
        /\ \A p \in {"cuda", "ze"} : counted[p] = Cardinality({x \in given : gpuMemory[x] = p})

=============================================================================
