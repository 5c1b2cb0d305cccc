------------------------------ MODULE ScalablePool ------------------------------
(***************************************************************************)
(* The scalable pool (pool_scalable.c): calls of TBB's pool allocator that  *)
(* come back to UMF for raw memory.  Errors travel past TBB in two          *)
(* variables that every thread has of its own.  TBB is external: it may     *)
(* ask for raw memory or give some back during any call, and a refusal      *)
(* need not be fatal to the call.                                           *)
(***************************************************************************)
EXTENDS Integers, FiniteSets

CONSTANTS
    TbbThreads,
    TbbBlocks,      \* what the pool hands out
    RawBlocks       \* what the provider hands out

VARIABLES
    allocError,     \* TLS_last_allocation_error
    freeError,      \* TLS_last_free_error
    tbbCall,        \* the call a thread is in, and whether the provider refused during it
    tbbUsed,        \* the blocks in use
    raw,            \* raw memory that TBB has
    returned        \* what the last call returned to the thread

tbbVars == <<allocError, freeError, tbbCall, tbbUsed, raw, returned>>

TbbIdle == [op |-> "none", block |-> 0, refused |-> FALSE]
Unknown == "UNKNOWN"
NoMemory == "OUT_OF_HOST_MEMORY"
Success == "SUCCESS"
ProviderError == "PROVIDER"

TbbInit ==
    /\ allocError = [t \in TbbThreads |-> Success] /\ freeError = [t \in TbbThreads |-> Success]
    /\ tbbCall = [t \in TbbThreads |-> TbbIdle]
    /\ tbbUsed = {} /\ raw = {}
    /\ returned = [t \in TbbThreads |-> [op |-> "none", ok |-> TRUE, refused |-> FALSE, error |-> Success]]

\* Fault: the error of an earlier call is not forgotten.
ForgetNothing(t) == UNCHANGED allocError

ForgetAllocError(t) == allocError' = [allocError EXCEPT ![t] = Success]

\* The first half of tbb_malloc, tbb_calloc and tbb_aligned_malloc.
tbb_malloc(t) ==
    /\ tbbCall[t] = TbbIdle
    /\ ForgetAllocError(t)
    /\ tbbCall' = [tbbCall EXCEPT ![t].op = "malloc"]
    /\ UNCHANGED <<freeError, tbbUsed, raw, returned>>

tbb_realloc(t, b) ==
    /\ tbbCall[t] = TbbIdle /\ b \in tbbUsed
    /\ ForgetAllocError(t)
    /\ tbbCall' = [tbbCall EXCEPT ![t] = [op |-> "realloc", block |-> b, refused |-> FALSE]]
    /\ tbbUsed' = tbbUsed \ {b}
    /\ UNCHANGED <<freeError, raw, returned>>

tbb_free(t, b) ==
    /\ tbbCall[t] = TbbIdle /\ b \in tbbUsed
    /\ freeError' = [freeError EXCEPT ![t] = Success]
    /\ tbbCall' = [tbbCall EXCEPT ![t] = [op |-> "free", block |-> b, refused |-> FALSE]]
    /\ tbbUsed' = tbbUsed \ {b}
    /\ UNCHANGED <<allocError, raw, returned>>

tbb_raw_alloc_wrapper(t) ==
    /\ tbbCall[t].op \in {"malloc", "realloc"}
    /\ \/ /\ \E r \in RawBlocks \ raw : raw' = raw \cup {r}
          /\ UNCHANGED <<allocError, tbbCall>>
       \/ /\ allocError' = [allocError EXCEPT ![t] = NoMemory]
          /\ tbbCall' = [tbbCall EXCEPT ![t].refused = TRUE]
          /\ UNCHANGED raw
    /\ UNCHANGED <<freeError, tbbUsed, returned>>

tbb_raw_free_wrapper(t) ==
    /\ tbbCall[t].op = "free"
    /\ \/ /\ \E r \in raw : raw' = raw \ {r}
          /\ UNCHANGED <<freeError, tbbCall>>
       \/ /\ raw # {}
          /\ freeError' = [freeError EXCEPT ![t] = ProviderError]
          /\ tbbCall' = [tbbCall EXCEPT ![t].refused = TRUE]
          /\ UNCHANGED raw
    /\ UNCHANGED <<allocError, tbbUsed, returned>>

\* What the thread is told when its call ends.
Told(t, ok, error) ==
    /\ returned' = [returned EXCEPT ![t] = [op |-> tbbCall[t].op, ok |-> ok,
                                            refused |-> tbbCall[t].refused, error |-> error]]
    /\ tbbCall' = [tbbCall EXCEPT ![t] = TbbIdle]

\* TBB has a block; a reallocation gives up the old one.
AllocSucceeds(t, b) ==
    /\ tbbCall[t].op \in {"malloc", "realloc"} /\ raw # {}
    /\ b \notin tbbUsed /\ ~\E u \in TbbThreads \ {t} : tbbCall[u].block = b
    /\ tbbUsed' = tbbUsed \cup {b}
    /\ Told(t, TRUE, allocError[t])
    /\ UNCHANGED <<allocError, freeError, raw>>

\* Without a reason from the provider the error is unknown.  A block that could not
\* be reallocated stays.
AllocReturnsNull(t) ==
    /\ tbbCall[t].op \in {"malloc", "realloc"}
    /\ allocError' = [allocError EXCEPT ![t] = IF @ = Success THEN Unknown ELSE @]
    /\ tbbUsed' = tbbUsed \cup ({tbbCall[t].block} \ {0})
    /\ Told(t, FALSE, allocError'[t])
    /\ UNCHANGED <<freeError, raw>>

FreeReturns(t, ok) ==
    /\ tbbCall[t].op = "free"
    /\ Told(t, ok, IF ok THEN Success ELSE IF freeError[t] # Success THEN freeError[t] ELSE Unknown)
    /\ UNCHANGED <<allocError, freeError, tbbUsed, raw>>

TbbNext ==
    \E t \in TbbThreads :
        \/ tbb_malloc(t) \/ tbb_raw_alloc_wrapper(t) \/ tbb_raw_free_wrapper(t) \/ AllocReturnsNull(t)
        \/ \E b \in TbbBlocks : tbb_realloc(t, b) \/ tbb_free(t, b) \/ AllocSucceeds(t, b)
        \/ \E ok \in BOOLEAN : FreeReturns(t, ok)

TbbSpec == TbbInit /\ [][TbbNext]_tbbVars

-----------------------------------------------------------------------------
(* What holds.                                                             *)

\* A call that fails says why: the provider's refusal when there was one during
\* this very call, and otherwise that the reason is unknown, never success and never
\* the reason of an earlier call or of another thread's.
FailureExplained ==
    \A t \in TbbThreads :
        LET r == returned[t]
        IN  ~r.ok => r.error = IF ~r.refused THEN Unknown ELSE IF r.op = "free" THEN ProviderError ELSE NoMemory

=============================================================================
