---------------------------- MODULE ProxyLibProofs ----------------------------
(***************************************************************************)
(* Memory that goes through the proxy library goes back to the allocator   *)
(* it came from, for any number of threads and blocks, any depth of calls, *)
(* any sizes and any threshold, when the library is preloaded.             *)
(***************************************************************************)
EXTENDS ProxyLib, SequenceTheorems, TLAPS

Makers == {"none", "leak", "pool", "system"}
Users == {Nobody, App, <<"busy", 0>>} \cup (ProxyThreads \X Nat)
ProxyFrames == [call : {"alloc", "free", "realloc", "usable"}, block : ProxyBlocks \cup {0}]
BlockRecs == [from : Makers, user : Users]

ProxyTypes ==
    /\ block \in [ProxyBlocks -> BlockRecs]
    /\ frames \in [ProxyThreads -> Seq(ProxyFrames)]
    /\ threshold \in {0, Threshold} /\ poolUp \in BOOLEAN

\* A maker whose memory the library can tell, in a state with this pool and threshold.
Known(maker) ==
    /\ maker = "pool" => poolUp
    /\ maker = "system" => threshold # 0

\* The inductive invariant: memory of the pool, and calls in it, are there only while
\* the pool is, memory of the system only where there is a threshold.
ProxyInv ==
    /\ ProxyTypes /\ FreedHome
    /\ poolUp => stage \in {"ready", "finished"}
    /\ \A t \in ProxyThreads : frames[t] # <<>> => poolUp
    /\ \A b \in ProxyBlocks : Known(block[b].from)

-----------------------------------------------------------------------------
\* Whoever calls is a user.
LEMMA UserTypes ==
    ASSUME ProxyTypes, NEW t \in ProxyThreads
    PROVE  User(t) \in Users
  <1>1. Len(frames[t]) \in Nat
    BY DEF ProxyTypes
  <1>2. QED
    BY <1>1 DEF User, Users

\* Nothing exists yet.
LEMMA ProxyInitInv == ProxyInit => ProxyInv
  <1> SUFFICES ASSUME ProxyInit PROVE ProxyInv
    OBVIOUS
  <1>1. NoBlock \in BlockRecs /\ NoBlock.from = "none"
    BY DEF NoBlock, BlockRecs, Makers, Users
  <1>2. <<>> \in Seq(ProxyFrames)
    OBVIOUS
  <1>3. block \in [ProxyBlocks -> BlockRecs] /\ \A b \in ProxyBlocks : block[b].from = "none"
    BY <1>1 DEF ProxyInit
  <1>4. frames \in [ProxyThreads -> Seq(ProxyFrames)] /\ \A t \in ProxyThreads : frames[t] = <<>>
    BY <1>2 DEF ProxyInit
  <1>5. QED
    BY <1>3, <1>4 DEF ProxyInit, ProxyInv, ProxyTypes, FreedHome, Known

\* The constructor: its last step but one makes the pool, and one before that the
\* threshold, when there is no memory of either yet.
LEMMA CreateKeeps ==
    ASSUME ProxyInv, proxy_lib_create_common
    PROVE  ProxyInv'
  <1>1. ~poolUp
    BY DEF ProxyInv, proxy_lib_create_common, Stages
  <1>2. stage = "pool" => NextStage = "ready"
    <2>1. DOMAIN Stages = 1 .. 7 /\ Stages[6] = "pool" /\ Stages[7] = "ready"
      BY DEF Stages
    <2>2. \A i \in 1 .. 7 : Stages[i] = "pool" => i = 6
      BY DEF Stages
    <2> HIDE DEF Stages
    <2>3. ASSUME stage = "pool" PROVE (CHOOSE i \in DOMAIN Stages : Stages[i] = stage) = 6
      BY <2>1, <2>2, <2>3
    <2> DEFINE at == CHOOSE i \in DOMAIN Stages : Stages[i] = stage
    <2>4. NextStage = Stages[1 + at]
      BY DEF NextStage
    <2> HIDE DEF at
    <2>5. stage = "pool" => at = 6
      BY <2>3 DEF at
    <2>6. 1 + 6 = 7
      OBVIOUS
    <2>7. QED
      BY <2>1, <2>4, <2>5, <2>6
  <1>3. threshold' \in {0, Threshold} /\ (threshold # 0 => threshold' # 0)
    BY DEF ProxyInv, ProxyTypes, proxy_lib_create_common, get_size_threshold
  <1>4. poolUp' \in BOOLEAN /\ (poolUp' => stage' = "ready")
    <2>1. CASE poolUp' = poolUp
      BY <1>1, <2>1 DEF ProxyInv, ProxyTypes
    <2>2. CASE stage' = NextStage /\ poolUp' = (stage = "pool")
      BY <1>2, <2>2, Zenon
    <2>3. QED
      BY <2>1, <2>2, Zenon DEF proxy_lib_create_common
  <1>5. block' = block /\ frames' = frames /\ freedTo' = freedTo
    BY DEF proxy_lib_create_common
  <1>6. QED
    BY <1>1, <1>3, <1>4, <1>5 DEF ProxyInv, ProxyTypes, FreedHome, Known

\* The destructor leaves the pool to a preloaded library.
LEMMA DestroyKeepsPool ==
    ASSUME ProxyInv, Preloaded, proxy_lib_destroy_common
    PROVE  ProxyInv'
  BY DEF ProxyInv, ProxyTypes, FreedHome, Known, proxy_lib_destroy_common

\* One block changes its maker or its user.
LEMMA OneBlock ==
    ASSUME ProxyInv, NEW b \in ProxyBlocks, NEW r \in BlockRecs, Known(r.from),
           block' = [block EXCEPT ![b] = r]
    PROVE  /\ block' \in [ProxyBlocks -> BlockRecs]
           /\ \A c \in ProxyBlocks : Known(block'[c].from)
  BY DEF ProxyInv, ProxyTypes, Known

\* A call enters the pool.
LEMMA EnterKeeps ==
    ASSUME ProxyInv, NEW t \in ProxyThreads, NEW call \in {"alloc", "free", "realloc", "usable"},
           NEW b \in ProxyBlocks \cup {0}, Enter(t, call, b)
    PROVE  frames' \in [ProxyThreads -> Seq(ProxyFrames)]
  <1>1. [call |-> call, block |-> b] \in ProxyFrames
    BY DEF ProxyFrames
  <1>2. Append(frames[t], [call |-> call, block |-> b]) \in Seq(ProxyFrames)
    BY <1>1 DEF ProxyInv, ProxyTypes
  <1>3. QED
    BY <1>2 DEF ProxyInv, ProxyTypes, Enter

\* What is left when the stage, the pool and the threshold stay.
LEMMA CallKeeps ==
    ASSUME ProxyInv, UNCHANGED <<stage, poolUp, threshold>>,
           block' \in [ProxyBlocks -> BlockRecs], \A c \in ProxyBlocks : Known(block'[c].from),
           frames' \in [ProxyThreads -> Seq(ProxyFrames)], poolUp \/ frames' = frames,
           FreedHome'
    PROVE  ProxyInv'
  BY DEF ProxyInv, ProxyTypes, Known

-----------------------------------------------------------------------------
\* malloc, calloc and aligned_alloc: a block of the system has a size below the
\* threshold, so there is one; a call goes to the pool only where it is.
LEMMA MallocKeeps ==
    ASSUME ProxyInv, NEW t \in ProxyThreads, NEW size \in ProxySizes, malloc(t, size)
    PROVE  ProxyInv'
  <1>1. UNCHANGED <<stage, poolUp, threshold>> /\ FreedHome'
    BY DEF malloc, ProxyInv, FreedHome
  <1>2. User(t) \in Users
    BY UserTypes DEF ProxyInv
  <1>3. size \in Nat /\ Threshold \in Nat /\ threshold \in Nat
    BY ProxyAssumption DEF ProxyInv, ProxyTypes
  <1>4. ASSUME NEW maker \in Makers, Known(maker), NEW b \in ProxyBlocks, Gets(t, b, maker)
        PROVE  /\ block' \in [ProxyBlocks -> BlockRecs]
               /\ \A c \in ProxyBlocks : Known(block'[c].from)
    <2> DEFINE r == [from |-> maker, user |-> User(t)]
    <2>1. r \in BlockRecs /\ r.from = maker
      BY <1>2 DEF BlockRecs
    <2>2. block' = [block EXCEPT ![b] = r]
      BY <1>4 DEF Gets
    <2> HIDE DEF r
    <2>3. QED
      BY <1>4, <2>1, <2>2, OneBlock
  <1>5. UNCHANGED block => /\ block' \in [ProxyBlocks -> BlockRecs]
                           /\ \A c \in ProxyBlocks : Known(block'[c].from)
    BY DEF ProxyInv, ProxyTypes
  <1>6. frames \in [ProxyThreads -> Seq(ProxyFrames)]
    BY DEF ProxyInv, ProxyTypes
  <1>7. CASE size < threshold
    <2>1. SystemAlloc(t) /\ frames' = frames
      BY <1>7 DEF malloc
    <2>2. "system" \in Makers /\ Known("system")
      BY <1>3, <1>7 DEF Makers, Known
    <2>3. QED
      BY <1>1, <1>4, <1>5, <1>6, <2>1, <2>2, CallKeeps DEF SystemAlloc, Fresh
  <1>8. CASE ~(size < threshold) /\ PoolServes(t)
    <2>1. Enter(t, "alloc", 0) /\ UNCHANGED block /\ poolUp
      BY <1>8 DEF malloc, PoolServes
    <2>2. frames' \in [ProxyThreads -> Seq(ProxyFrames)]
      BY <2>1, EnterKeeps
    <2>3. QED
      BY <1>1, <1>5, <2>1, <2>2, CallKeeps
  <1>9. CASE ~(size < threshold) /\ ~PoolServes(t)
    <2>1. ba_leak_aligned_alloc(t) /\ frames' = frames
      BY <1>9 DEF malloc
    <2>2. "leak" \in Makers /\ Known("leak")
      BY DEF Makers, Known
    <2>3. QED
      BY <1>1, <1>4, <1>5, <1>6, <2>1, <2>2, CallKeeps DEF ba_leak_aligned_alloc, Fresh
  <1>10. QED
    BY <1>7, <1>8, <1>9

\* A block that is neither of the linear allocator nor of a living pool is of the
\* system, and there is a threshold.
LEMMA TheRestIsSystem ==
    ASSUME ProxyInv, NEW b \in ProxyBlocks, block[b].from # "none", ~InLeak(b), ~ByPtr(b)
    PROVE  block[b].from = "system" /\ threshold # 0
  <1>1. block[b].from \in Makers /\ Known(block[b].from)
    BY DEF ProxyInv, ProxyTypes, BlockRecs
  <1>2. QED
    BY <1>1 DEF Makers, Known, InLeak, ByPtr

\* What goes back to its maker goes home.
LEMMA HomeKept ==
    ASSUME ProxyInv, NEW b, NEW receiver, FreedTo(b, receiver), receiver = block[b].from
    PROVE  FreedHome'
  BY DEF ProxyInv, FreedHome, FreedTo

\* free: each block is told by its maker.
LEMMA FreeKeeps ==
    ASSUME ProxyInv, NEW t \in ProxyThreads, NEW b \in ProxyBlocks, free(t, b)
    PROVE  ProxyInv'
  <1>1. UNCHANGED <<stage, poolUp, threshold>> /\ block[b].from # "none" /\ Gone(b)
    BY DEF free, Mine
  <1>2. /\ block' \in [ProxyBlocks -> BlockRecs]
        /\ \A c \in ProxyBlocks : Known(block'[c].from)
    <2>1. NoBlock \in BlockRecs /\ Known(NoBlock.from)
      BY DEF NoBlock, BlockRecs, Makers, Users, Known
    <2>2. QED
      BY <1>1, <2>1, OneBlock DEF Gone
  <1>3. frames \in [ProxyThreads -> Seq(ProxyFrames)]
    BY DEF ProxyInv, ProxyTypes
  <1>4. CASE InLeak(b)
    <2>1. FreedTo(b, "leak") /\ frames' = frames /\ block[b].from = "leak"
      BY <1>4 DEF free, InLeak
    <2>2. FreedHome'
      BY <2>1, HomeKept
    <2>3. QED
      BY <1>1, <1>2, <1>3, <2>1, <2>2, CallKeeps
  <1>5. CASE ~InLeak(b) /\ ByPtr(b)
    <2>1. FreedTo(b, "pool") /\ Enter(t, "free", 0) /\ block[b].from = "pool" /\ poolUp
      BY <1>5 DEF free, ByPtr
    <2>2. FreedHome' /\ frames' \in [ProxyThreads -> Seq(ProxyFrames)]
      BY <2>1, HomeKept, EnterKeeps
    <2>3. QED
      BY <1>1, <1>2, <2>1, <2>2, CallKeeps
  <1>6. CASE ~InLeak(b) /\ ~ByPtr(b)
    <2>1. block[b].from = "system" /\ threshold # 0
      BY <1>1, <1>6, TheRestIsSystem
    <2>2. FreedTo(b, "system") /\ frames' = frames
      BY <1>6, <2>1 DEF free
    <2>3. FreedHome'
      BY <2>1, <2>2, HomeKept
    <2>4. QED
      BY <1>1, <1>2, <1>3, <2>2, <2>3, CallKeeps
  <1>7. QED
    BY <1>4, <1>5, <1>6

\* A block changes hands and keeps its maker.
LEMMA NewUser ==
    ASSUME ProxyInv, NEW b \in ProxyBlocks, NEW u \in Users, block' = [block EXCEPT ![b].user = u]
    PROVE  /\ block' \in [ProxyBlocks -> BlockRecs]
           /\ \A c \in ProxyBlocks : Known(block'[c].from)
  <1> DEFINE r == [block[b] EXCEPT !.user = u]
  <1>1. block[b] \in BlockRecs /\ Known(block[b].from)
    BY DEF ProxyInv, ProxyTypes
  <1>2. r \in BlockRecs /\ r.from = block[b].from
    BY <1>1 DEF BlockRecs
  <1>3. block' = [block EXCEPT ![b] = r]
    OBVIOUS
  <1> HIDE DEF r
  <1>4. QED
    BY <1>1, <1>2, <1>3, OneBlock

\* realloc: like free, and a block of the linear allocator stays one.
LEMMA ReallocKeeps ==
    ASSUME ProxyInv, NEW t \in ProxyThreads, NEW b \in ProxyBlocks, realloc(t, b)
    PROVE  ProxyInv'
  <1>1. UNCHANGED <<stage, poolUp, threshold>> /\ block[b].from # "none"
    BY DEF realloc, Mine
  <1>2. /\ frames \in [ProxyThreads -> Seq(ProxyFrames)] /\ FreedHome
        /\ block \in [ProxyBlocks -> BlockRecs] /\ \A c \in ProxyBlocks : Known(block[c].from)
    BY DEF ProxyInv, ProxyTypes
  <1>3. CASE InLeak(b)
    <2>1. ba_generic_realloc(t, b) /\ frames' = frames /\ block[b].from = "leak"
      BY <1>3 DEF realloc, InLeak
    <2>2. CASE UNCHANGED <<block, freedTo>>
      BY <1>1, <1>2, <2>1, <2>2, CallKeeps DEF FreedHome
    <2>3. CASE ~UNCHANGED <<block, freedTo>>
      <3> DEFINE r == [from |-> "leak", user |-> User(t)]
      <3>1. PICK n \in ProxyBlocks : /\ block' = [block EXCEPT ![b] = NoBlock, ![n] = r]
                                     /\ FreedTo(b, "leak")
        BY <2>1, <2>3 DEF ba_generic_realloc, Fresh
      <3>2. NoBlock \in BlockRecs /\ Known(NoBlock.from)
        BY DEF NoBlock, BlockRecs, Makers, Users, Known
      <3>3. r \in BlockRecs /\ Known(r.from)
        BY UserTypes DEF ProxyInv, BlockRecs, Makers, Known
      <3> HIDE DEF r
      <3>4. /\ block' \in [ProxyBlocks -> BlockRecs]
            /\ \A c \in ProxyBlocks : Known(block'[c].from)
        BY <1>2, <3>1, <3>2, <3>3
      <3>5. FreedHome'
        BY <2>1, <3>1, HomeKept
      <3>6. QED
        BY <1>1, <1>2, <2>1, <3>4, <3>5, CallKeeps
    <2>4. QED
      BY <2>2, <2>3
  <1>4. CASE ~InLeak(b) /\ ByPtr(b)
    <2>1. Enter(t, "realloc", b) /\ Busy(b) /\ UNCHANGED freedTo /\ poolUp
      BY <1>4 DEF realloc, ByPtr
    <2>2. frames' \in [ProxyThreads -> Seq(ProxyFrames)] /\ FreedHome'
      BY <1>2, <2>1, EnterKeeps DEF FreedHome
    <2>3. QED
      BY <1>1, <2>1, <2>2, NewUser, CallKeeps DEF Busy, Users
  <1>5. CASE ~InLeak(b) /\ ~ByPtr(b)
    <2>1. block[b].from = "system" /\ threshold # 0
      BY <1>1, <1>5, TheRestIsSystem
    <2>2. FreedTo(b, "system") /\ UNCHANGED <<frames, block>>
      BY <1>5, <2>1 DEF realloc
    <2>3. FreedHome'
      BY <2>1, <2>2, HomeKept
    <2>4. QED
      BY <1>1, <1>2, <2>2, <2>3, CallKeeps
  <1>6. QED
    BY <1>3, <1>4, <1>5

\* malloc_usable_size lends the block to the pool.
LEMMA UsableKeeps ==
    ASSUME ProxyInv, NEW t \in ProxyThreads, NEW b \in ProxyBlocks, malloc_usable_size(t, b)
    PROVE  ProxyInv'
  <1>1. /\ UNCHANGED <<stage, poolUp, threshold, freedTo>> /\ Enter(t, "usable", b) /\ Busy(b)
        /\ poolUp
    BY DEF malloc_usable_size, ByPtr
  <1>2. frames' \in [ProxyThreads -> Seq(ProxyFrames)] /\ FreedHome'
    BY <1>1, EnterKeeps DEF ProxyInv, FreedHome
  <1>3. QED
    BY <1>1, <1>2, NewUser, CallKeeps DEF Busy, Users

\* The pool answers: a new block is of the pool, which is there as there is a call in it.
LEMMA ReturnKeeps ==
    ASSUME ProxyInv, NEW t \in ProxyThreads, PoolReturns(t)
    PROVE  ProxyInv'
  <1> DEFINE last == frames[t][Len(frames[t])]
             rest == SubSeq(frames[t], 1, Len(frames[t]) - 1)
             user == IF rest = <<>> THEN App ELSE <<t, Len(rest)>>
  <1>1. /\ UNCHANGED <<stage, poolUp, threshold, freedTo>> /\ frames[t] # <<>>
        /\ frames' = [frames EXCEPT ![t] = rest]
        /\ \/ UNCHANGED block
           \/ block' = [block EXCEPT ![last.block].user = user]
           \/ \E b \in Fresh : block' = [block EXCEPT ![b] = [from |-> "pool", user |-> user]]
    BY DEF PoolReturns
  <1>2. /\ frames \in [ProxyThreads -> Seq(ProxyFrames)] /\ FreedHome /\ poolUp
        /\ block \in [ProxyBlocks -> BlockRecs] /\ \A c \in ProxyBlocks : Known(block[c].from)
    BY <1>1 DEF ProxyInv, ProxyTypes
  <1>3. /\ rest \in Seq(ProxyFrames) /\ Len(rest) \in Nat /\ last \in ProxyFrames
    <2>1. frames[t] \in Seq(ProxyFrames) /\ Len(frames[t]) \in Nat /\ Len(frames[t]) > 0
      BY <1>1, <1>2, EmptySeq
    <2>2. QED
      BY <2>1
  <1> HIDE DEF rest, last
  <1>4. user \in Users
    BY <1>3 DEF Users
  <1> HIDE DEF user
  <1>5. frames' \in [ProxyThreads -> Seq(ProxyFrames)] /\ FreedHome'
    BY <1>1, <1>2, <1>3 DEF FreedHome
  <1>6. /\ block' \in [ProxyBlocks -> BlockRecs]
        /\ \A c \in ProxyBlocks : Known(block'[c].from)
    <2>1. CASE UNCHANGED block
      BY <1>2, <2>1
    <2>2. CASE block' = [block EXCEPT ![last.block].user = user]
      <3>1. CASE last.block \in ProxyBlocks
        BY <1>4, <2>2, <3>1, NewUser
      <3>2. CASE last.block \notin ProxyBlocks
        BY <1>2, <2>2, <3>2
      <3>3. QED
        BY <3>1, <3>2
    <2>3. CASE \E b \in Fresh : block' = [block EXCEPT ![b] = [from |-> "pool", user |-> user]]
      <3> DEFINE r == [from |-> "pool", user |-> user]
      <3>1. r \in BlockRecs /\ Known(r.from)
        BY <1>2, <1>4 DEF BlockRecs, Makers, Known
      <3> HIDE DEF r
      <3>2. PICK b \in ProxyBlocks : block' = [block EXCEPT ![b] = r]
        BY <2>3 DEF Fresh, r
      <3>3. QED
        BY <3>1, <3>2, OneBlock
    <2>4. QED
      BY <1>1, <2>1, <2>2, <2>3
  <1>7. QED
    BY <1>1, <1>2, <1>5, <1>6, CallKeeps

-----------------------------------------------------------------------------
\* Every step keeps the invariant.
LEMMA ProxyStep ==
    ASSUME Preloaded, ProxyInv, [ProxyNext]_proxyVars
    PROVE  ProxyInv'
  <1>1. CASE proxy_lib_create_common
    BY <1>1, CreateKeeps
  <1>2. CASE proxy_lib_destroy_common
    BY <1>2, DestroyKeepsPool
  <1>3. ASSUME NEW t \in ProxyThreads, ProxyCall(t) PROVE ProxyInv'
    BY <1>3, MallocKeeps, FreeKeeps, ReallocKeeps, UsableKeeps, ReturnKeeps
    DEF ProxyCall, calloc, aligned_alloc
  <1>4. CASE UNCHANGED proxyVars
    BY <1>4 DEF proxyVars, ProxyInv, ProxyTypes, FreedHome, Known
  <1>5. QED
    BY <1>1, <1>2, <1>3, <1>4 DEF ProxyNext

\* Whatever is freed or resized goes back to the allocator that made it, through
\* every stage of the process, when the library is preloaded.
THEOREM AlwaysFreedHome == ASSUME Preloaded PROVE ProxySpec => []FreedHome
  <1>1. ProxyInv => FreedHome
    BY DEF ProxyInv
  <1>2. QED
    BY <1>1, ProxyInitInv, ProxyStep, PTL DEF ProxySpec

=============================================================================
