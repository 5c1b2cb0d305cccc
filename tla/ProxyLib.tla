------------------------------ MODULE ProxyLib ------------------------------
(***************************************************************************)
(* The proxy library (proxy_lib/proxy_lib.c): malloc() and its family are  *)
(* served by three allocators.  The linear "leak" allocator serves until   *)
(* the constructor has made the pool and whenever a call comes from inside *)
(* an umfPool*() call of the same thread; the pool serves the rest; and    *)
(* requests below the size threshold, if one is set, go to the system.     *)
(* What is freed must find its way back to the allocator it came from.     *)
(*                                                                         *)
(* A block is an identity with the allocator that made it.  A call that    *)
(* enters the pool is a frame of the thread's stack; while a frame is on   *)
(* the stack the code below the pool may itself call malloc(), free() and  *)
(* realloc(), on memory it obtained in that frame.                         *)
(***************************************************************************)
EXTENDS Integers, Sequences, FiniteSets

CONSTANTS ProxyThreads,    \* threads of the process
          Main,            \* the one that runs constructors and destructors
          ProxyBlocks,     \* identities of blocks
          MaxNesting,      \* bound on calls inside calls
          Threshold,       \* the threshold UMF_PROXY asks for; 0 for none
          ProxySizes,      \* sizes asked for
          Preloaded        \* utils_is_running_in_proxy_lib()

ASSUME ProxyAssumption == Threshold \in Nat /\ ProxySizes \subseteq Nat /\ 0 \notin ProxyBlocks

VARIABLES stage,       \* how far the constructor is
          poolUp,      \* Proxy_pool # NULL
          threshold,   \* Size_threshold_value
          inPool,      \* was_called_from_umfPool, of each thread
          frames,      \* the umfPool*() calls each thread is in
          block,       \* what each identity stands for
          freedTo      \* ghost: <<maker, receiver>> of everything freed

proxyVars == <<stage, poolUp, threshold, inPool, frames, block, freedTo>>

Nobody == <<"none", 0>>
App == <<"app", 0>>
NoBlock == [from |-> "none", user |-> Nobody]
Stages == <<"params", "threshold", "symbols", "visibility", "provider", "pool", "ready">>

ProxyInit ==
    /\ stage = "params" /\ poolUp = FALSE /\ threshold = 0
    /\ inPool = [t \in ProxyThreads |-> FALSE]
    /\ frames = [t \in ProxyThreads |-> <<>>]
    /\ block = [b \in ProxyBlocks |-> NoBlock]
    /\ freedTo = {}

Up == stage \in {"ready", "finished"}
Exited == stage = "exited"

\* Before the constructor has run there is only the main thread, and what it
\* asks for is asked for by the loader and by the constructor itself.
MayCall(t) == ~Exited /\ (Up \/ t = Main) /\ Len(frames[t]) < MaxNesting
User(t) == IF frames[t] = <<>> THEN App ELSE <<t, Len(frames[t])>>
Mine(t) == {b \in ProxyBlocks : block[b].from # "none" /\ block[b].user = User(t)}
Gets(t, b, maker) == block' = [block EXCEPT ![b] = [from |-> maker, user |-> User(t)]]
Fresh == {b \in ProxyBlocks : block[b] = NoBlock}

-----------------------------------------------------------------------------
\* The constructor, one fallible call a step; any failure ends the process.
\* Only a threshold needs the system's allocator, and looks for its symbols.
get_size_threshold == Threshold
get_system_allocator_symbols == get_size_threshold > 0

NextStage == Stages[1 + CHOOSE i \in DOMAIN Stages : Stages[i] = stage]
proxy_lib_create_common ==
    /\ \E i \in 1..(Len(Stages) - 1) : stage = Stages[i]
    /\ frames[Main] = <<>> /\ UNCHANGED <<inPool, frames, block, freedTo>>
    /\ \/ /\ stage = "symbols" => get_system_allocator_symbols
          /\ stage' = "exited" /\ UNCHANGED <<poolUp, threshold>>
       \/ /\ stage' = NextStage
          /\ poolUp' = (stage = "pool")
          /\ threshold' = IF stage = "symbols" THEN get_size_threshold ELSE threshold

\* Fault: the destructor takes the pool away from a preloaded library too.
DestroyAlways ==
    /\ stage = "ready" /\ frames[Main] = <<>>
    /\ stage' = "finished" /\ poolUp' = FALSE
    /\ UNCHANGED <<threshold, inPool, frames, block, freedTo>>

\* The destructor.  What others still hold, and free later, decides whether
\* the pool may go.
proxy_lib_destroy_common ==
    /\ stage = "ready" /\ frames[Main] = <<>>
    /\ stage' = "finished"
    /\ poolUp' = IF Preloaded THEN poolUp ELSE FALSE
    /\ UNCHANGED <<threshold, inPool, frames, block, freedTo>>

-----------------------------------------------------------------------------
Enter(t, call, b) ==
    frames' = [frames EXCEPT ![t] = Append(@, [call |-> call, block |-> b])]

\* The linear allocator and the system's: both may be out of memory.
ba_leak_aligned_alloc(t) ==
    \/ UNCHANGED block
    \/ \E b \in Fresh : Gets(t, b, "leak")
SystemAlloc(t) ==
    \/ UNCHANGED block
    \/ \E b \in Fresh : Gets(t, b, "system")

\* Fault: the flag that tells a call from inside the pool is not consulted.
PoolServesAlways(t) == poolUp

PoolServes(t) == ~inPool[t] /\ poolUp

\* malloc(), calloc() and aligned_alloc() choose the allocator alike.
malloc(t, size) ==
    /\ MayCall(t) /\ UNCHANGED <<stage, poolUp, threshold, freedTo>>
    /\ IF size < threshold
       THEN SystemAlloc(t) /\ UNCHANGED <<inPool, frames>>
       ELSE IF PoolServes(t)
       THEN /\ Enter(t, "alloc", 0) /\ inPool' = [inPool EXCEPT ![t] = TRUE]
            /\ UNCHANGED block
       ELSE ba_leak_aligned_alloc(t) /\ UNCHANGED <<inPool, frames>>

calloc(t, size) == malloc(t, size)
aligned_alloc(t, size) == malloc(t, size)

FreedTo(b, receiver) == freedTo' = freedTo \cup {<<block[b].from, receiver>>}
Gone(b) == block' = [block EXCEPT ![b] = NoBlock]

\* While the pool works on a block nobody else may, the caller's other
\* threads included.
Busy(b) == block' = [block EXCEPT ![b].user = <<"busy", 0>>]

\* umfPoolByPtr() names the proxy's pool; the leak allocator knows its own.
InLeak(b) == block[b].from = "leak"
ByPtr(b) == poolUp /\ block[b].from = "pool"

free(t, b) ==
    /\ MayCall(t) /\ b \in Mine(t) /\ UNCHANGED <<stage, poolUp, threshold, inPool>>
    /\ IF InLeak(b)
       THEN Gone(b) /\ FreedTo(b, "leak") /\ UNCHANGED frames
       ELSE IF ByPtr(b)
       THEN Gone(b) /\ Enter(t, "free", 0) /\ FreedTo(b, "pool")
       ELSE /\ Gone(b) /\ UNCHANGED frames
            /\ FreedTo(b, IF threshold # 0 THEN "system" ELSE "nobody")

\* A new block of the leak allocator takes the contents over, or nothing
\* changes; whatever the size, the block does not move to the pool.
ba_generic_realloc(t, b) ==
    \/ UNCHANGED <<block, freedTo>>
    \/ \E n \in Fresh :
          /\ block' = [block EXCEPT ![b] = NoBlock, ![n] = [from |-> "leak", user |-> User(t)]]
          /\ FreedTo(b, "leak")

realloc(t, b) ==
    /\ MayCall(t) /\ b \in Mine(t) /\ UNCHANGED <<stage, poolUp, threshold>>
    /\ IF InLeak(b)
       THEN ba_generic_realloc(t, b) /\ UNCHANGED <<inPool, frames>>
       ELSE IF ByPtr(b)
       THEN /\ Enter(t, "realloc", b) /\ inPool' = [inPool EXCEPT ![t] = TRUE]
            /\ Busy(b) /\ UNCHANGED freedTo
       ELSE /\ FreedTo(b, IF threshold # 0 THEN "system" ELSE "nobody")
            /\ UNCHANGED <<inPool, frames, block>>

malloc_usable_size(t, b) ==
    /\ MayCall(t) /\ b \in Mine(t) /\ ByPtr(b)
    /\ Enter(t, "usable", b) /\ inPool' = [inPool EXCEPT ![t] = TRUE]
    /\ Busy(b) /\ UNCHANGED <<stage, poolUp, threshold, freedTo>>

\* The pool answers: code below it has returned what it took in this frame.
\* Every call but umfPoolFree() clears the flag on its way out.
PoolReturns(t) ==
    /\ frames[t] # <<>> /\ ~Exited /\ Mine(t) = {}
    /\ LET last == frames[t][Len(frames[t])]
           rest == SubSeq(frames[t], 1, Len(frames[t]) - 1)
           user == IF rest = <<>> THEN App ELSE <<t, Len(rest)>>
       IN  /\ frames' = [frames EXCEPT ![t] = rest]
           /\ inPool' = IF last.call = "free" THEN inPool ELSE [inPool EXCEPT ![t] = FALSE]
           /\ \/ last.call \in {"alloc", "free"} /\ UNCHANGED block
              \/ /\ last.call \in {"realloc", "usable"}
                 /\ block' = [block EXCEPT ![last.block].user = user]
              \/ /\ last.call = "alloc"
                 /\ \E b \in Fresh :
                       block' = [block EXCEPT ![b] = [from |-> "pool", user |-> user]]
    /\ UNCHANGED <<stage, poolUp, threshold, freedTo>>

ProxyCall(t) ==
    \/ \E size \in ProxySizes :
          malloc(t, size) \/ calloc(t, size) \/ aligned_alloc(t, size)
    \/ \E b \in ProxyBlocks : free(t, b) \/ realloc(t, b) \/ malloc_usable_size(t, b)
    \/ PoolReturns(t)

ProxyNext ==
    \/ proxy_lib_create_common
    \/ proxy_lib_destroy_common
    \/ \E t \in ProxyThreads : ProxyCall(t)

ProxySpec == ProxyInit /\ [][ProxyNext]_proxyVars

-----------------------------------------------------------------------------
\* Whatever is freed or resized goes back to the allocator that made it:
\* memory of before the constructor, memory taken inside a pool call, memory
\* below the threshold and memory freed after the destructor all included.
FreedHome == \A p \in freedTo : p[1] = p[2]

\* No allocating call of the pool runs inside another one of the same thread,
\* which is what was_called_from_umfPool is for.
PoolNotReentered ==
    \A t \in ProxyThreads :
       Cardinality({i \in DOMAIN frames[t] : frames[t][i].call # "free"}) <= 1
=============================================================================
