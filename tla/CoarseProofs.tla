---------------------------- MODULE CoarseProofs ----------------------------
(***************************************************************************)
(* Theorems about the coarse library, for every page size, strategy, set   *)
(* of requests and regions, and for upstream callbacks that may refuse.    *)
(* The one assumption is that the host does not run out of memory.         *)
(***************************************************************************)
EXTENDS CoarseStepProofs

\* coarse_merge keeps the inductive invariant.
LEMMA MergeStep ==
    ASSUME IInv, NEW lo \in DOMAIN live, NEW hi \in DOMAIN live,
           coarse_merge(lo, hi, live[lo] + live[hi])
    PROVE  /\ IInv' /\ lo + live[lo] = hi /\ mapped' = mapped
           /\ live' = Put(Drop(live, hi), lo, live[lo] + live[hi])
<1>1. /\ StOK(Store, Mem) /\ TypeOK /\ HoldersAreRight
      /\ \A h \in Held : ~Listed(free_blocks, h) /\ h \in DOMAIN all_blocks /\ all_blocks[h].used
  BY DEF IInv, HoldersAreRight, UsedBlocks, Held
<1>2. /\ lo \in DOMAIN all_blocks /\ hi \in DOMAIN all_blocks
      /\ all_blocks[lo].size = live[lo] /\ all_blocks[hi].size = live[hi]
      /\ lo + all_blocks[lo].size = hi
      /\ live' = Put(Drop(live, hi), lo, live[lo] + live[hi])
      /\ UNCHANGED <<used_size, alloc_size, mapped, adding, alive>>
      /\ alive
  BY <1>1 DEF coarse_merge, HoldersAreRight, UsedBlocks
<1> DEFINE st == JoinBlocks(Store, lo, hi)
<1>3. Commit(st)
  BY DEF coarse_merge, user_block_merge, Failing
<1>5. StOK(st, Mem) /\ Joined(Store, st, lo, hi)
  <2>1. Store.bl = all_blocks
    BY DEF Store
  <2>2. QED
    BY <1>1, <1>2, <2>1, JoinBlocksOK
<1> HIDE DEF st
<1>6. Store' = st
  BY <1>3, <1>5 DEF Commit, Store, StOK
<1>7. StOK(Store', Mem) /\ Joined(Store, Store', lo, hi)
  BY <1>5, <1>6
<1>8. /\ DOMAIN all_blocks' = DOMAIN all_blocks \ {hi} /\ lo # hi
      /\ all_blocks'[lo] = [size |-> live[lo] + live[hi], used |-> all_blocks[lo].used]
      /\ \A h \in DOMAIN all_blocks' \ {lo} : all_blocks'[h] = all_blocks[h]
      /\ ~Listed(free_blocks', lo)
      /\ \A c : Listed(free_blocks', c) => Listed(free_blocks, c)
  <2>1. Store.bl = all_blocks /\ Store.fr = free_blocks /\ Store'.bl = all_blocks' /\ Store'.fr = free_blocks'
    BY DEF Store
  <2>2. QED
    BY <1>2, <1>7, <2>1 DEF Joined
<1>9. /\ DOMAIN live' = DOMAIN live \ {hi} /\ live'[lo] = live[lo] + live[hi]
      /\ \A h \in DOMAIN live' \ {lo} : live'[h] = live[h]
  BY <1>2, <1>8 DEF Put, Drop
<1>10. Mem' = Mem
  BY <1>2 DEF Mem
<1>11. HoldersAreRight'
  <2>1. all_blocks[lo].used
    BY <1>1 DEF Held
  <2>2. all_blocks'[lo].size = live'[lo] /\ all_blocks'[lo].used
    BY <1>8, <1>9, <2>1
  <2>3. QED
    BY <1>1, <1>2, <1>8, <1>9, <2>2 DEF HoldersAreRight, Held, UsedBlocks
<1>12. \A h \in Held' : ~Listed(free_blocks', h)
  BY <1>1, <1>2, <1>8, <1>9 DEF Held
<1>13. TypeOK'
  <2>1. live[lo] + live[hi] \in Positive
    BY <1>1 DEF TypeOK, Positive
  <2>2. QED
    BY <1>1, <1>2, <1>7, <1>9, <2>1 DEF TypeOK, StOK, Store, BlocksOK, FreeOK
<1>14. QED
  BY <1>2, <1>7, <1>10, <1>11, <1>12, <1>13 DEF IInv

\* coarse_split keeps the inductive invariant.
LEMMA SplitStep ==
    ASSUME ~HostMayFail, IInv, NEW b \in DOMAIN live, NEW first \in Nat,
           coarse_split(b, live[b], first)
    PROVE  /\ IInv' /\ mapped' = mapped /\ first \in 1 .. (live[b] - 1)
           /\ live' = Put(Put(live, b, first), b + first, live[b] - first)
<1>1. /\ StOK(Store, Mem) /\ TypeOK /\ HoldersAreRight
      /\ \A h \in Held : ~Listed(free_blocks, h) /\ h \in DOMAIN all_blocks /\ all_blocks[h].used
  BY DEF IInv, HoldersAreRight, UsedBlocks, Held
<1> DEFINE m == b + first
           rest == live[b] - first
           front == [all_blocks[b] EXCEPT !.size = first]
           back == [size |-> rest, used |-> TRUE]
           c == cuts \cup {m}
           bl1 == Put(all_blocks, m, back)
           bl2 == [bl1 EXCEPT ![b] = front]
<1>2. /\ b \in DOMAIN all_blocks /\ all_blocks[b] \in BlockRec /\ all_blocks[b].size = live[b]
      /\ live[b] \in Positive /\ first \in Positive /\ first < live[b] /\ rest \in Positive
      /\ UNCHANGED <<used_size, alloc_size, mapped, adding, alive>>
      /\ alive /\ b \in Positive
  <2>1. live[b] \in Positive /\ b \in Positive
    BY <1>1 DEF TypeOK
  <2>2. first \in Positive /\ first < live[b] /\ rest \in Positive
    BY <2>1 DEF coarse_split, Positive
  <2>3. QED
    BY <1>1, <2>1, <2>2 DEF coarse_split, HoldersAreRight, UsedBlocks, TypeOK, BlockRec
<1>3. m \notin DOMAIN all_blocks /\ m \in Positive /\ m # b
  <2>1. BlocksOK(all_blocks, Mem)
    BY <1>1 DEF StOK, Store
  <2>2. QED
    BY <1>2, <2>1, CutFresh
<1>4. PICK s \in can_provider_split(Store, b, first) :
         /\ s.ok
         /\ \E n \in coarse_ravl_add_new(s.st, m, rest, {TRUE}) :
              \/ ~n.ok /\ Commit(n.st) /\ UNCHANGED live
              \/ /\ n.ok
                 /\ Commit([n.st EXCEPT !.bl[b].size = first])
                 /\ live' = Put(Put(live, b, first), m, rest)
  BY DEF coarse_split
<1>5. PICK n \in coarse_ravl_add_new(s.st, m, rest, {TRUE}) :
              \/ ~n.ok /\ Commit(n.st) /\ UNCHANGED live
              \/ /\ n.ok
                 /\ Commit([n.st EXCEPT !.bl[b].size = first])
                 /\ live' = Put(Put(live, b, first), m, rest)
  BY <1>4
<1>6. s.st = [bl |-> all_blocks, fr |-> free_blocks, cuts |-> c]
  <2>s. s.ok
    BY <1>4
  <2>a. s \in {[ok |-> TRUE, st |-> [Store EXCEPT !.cuts = @ \cup {m}]],
                [ok |-> FALSE, st |-> Store]}
    BY DEF can_provider_split, Failing
  <2>b. s = [ok |-> TRUE, st |-> [Store EXCEPT !.cuts = @ \cup {m}]]
    BY <2>s, <2>a
  <2>0. s.st = [Store EXCEPT !.cuts = Store.cuts \cup {m}]
    BY <2>b
  <2>1. s.st = [Store EXCEPT !.cuts = c]
    BY <2>0 DEF Store
  <2> HIDE DEF c
  <2>2. QED
    BY <2>1 DEF Store
<1>7. n.ok /\ n.st = [bl |-> bl1, fr |-> free_blocks, cuts |-> c]
  <2>1. s.st.bl = all_blocks
    BY <1>6
  <2> HIDE DEF c
  <2>2. PICK block \in [size : {rest}, used : {TRUE}] :
           n = [ok |-> TRUE, st |-> [s.st EXCEPT !.bl = Put(@, m, block)]]
    BY <1>3, <1>5, <2>1 DEF coarse_ravl_add_new, Failing
  <2>3. block = back
    BY <2>2
  <2> HIDE DEF m, back
  <2>4. n.ok /\ n.st = [s.st EXCEPT !.bl = bl1]
    BY <2>1, <2>2, <2>3
  <2> HIDE DEF bl1
  <2>5. QED
    BY <1>6, <2>4
<1>8. b \in DOMAIN bl1 /\ bl1[b] = all_blocks[b]
  BY <1>2, <1>3 DEF Put
<1>9. [n.st EXCEPT !.bl[b].size = first] = [bl |-> bl2, fr |-> free_blocks, cuts |-> c]
  <2> HIDE DEF c, bl1
  <2>0. n.st.bl = bl1
    BY <1>7
  <2>1. [n.st EXCEPT !.bl[b].size = first] = [n.st EXCEPT !.bl = bl2]
    BY <1>8, <2>0
  <2> HIDE DEF bl2
  <2>2. QED
    BY <1>7, <2>1
<1>10. live' = Put(Put(live, b, first), m, rest) /\ Commit([bl |-> bl2, fr |-> free_blocks, cuts |-> c])
  BY <1>5, <1>7, <1>9
<1>11. all_blocks' = bl2 /\ free_blocks' = free_blocks /\ cuts' = c
  BY <1>10 DEF Commit
<1>12. /\ DOMAIN bl2 = DOMAIN all_blocks \cup {m}
       /\ bl2[b] = front
       /\ bl2[m] = back
       /\ \A h \in DOMAIN all_blocks \ {b} : bl2[h] = all_blocks[h]
  BY <1>2, <1>3 DEF Put
<1>13. /\ front \in BlockRec /\ front.size = first /\ front.used = all_blocks[b].used
       /\ back \in BlockRec /\ back.size = rest /\ back.used
  BY <1>2 DEF BlockRec
<1> HIDE DEF front, back, bl2, c
<1>14. Cut(all_blocks, bl2, b, first)
  BY <1>2, <1>12, <1>13 DEF Cut
<1>15. BlocksOK(bl2, Mem) /\ FreeOK(free_blocks, bl2) /\ ~Listed(free_blocks, m)
  <2>1. BlocksOK(all_blocks, Mem) /\ FreeOK(free_blocks, all_blocks) /\ ~Listed(free_blocks, b)
    BY <1>1 DEF StOK, Store, Held
  <2>2. QED
    BY <1>2, <1>14, <2>1, CutOK
<1> HIDE DEF m, rest
<1>16. Mem' = Mem
  BY <1>2 DEF Mem
<1>17. StOK(Store', Mem)
  BY <1>1, <1>11, <1>12, <1>15 DEF StOK, Store, c
<1>18. /\ DOMAIN live' = DOMAIN live \cup {m} /\ live'[b] = first /\ live'[m] = rest
       /\ \A h \in DOMAIN live \ {b, m} : live'[h] = live[h]
  BY <1>3, <1>10 DEF Put
<1>19. HoldersAreRight'
  <2>1. all_blocks'[b].used /\ all_blocks'[m].used /\ all_blocks'[b].size = live'[b] /\ all_blocks'[m].size = live'[m]
    BY <1>1, <1>11, <1>12, <1>13, <1>18 DEF Held
  <2>2. m \notin Held
    BY <1>1, <1>3
  <2>3. QED
    BY <1>1, <1>2, <1>11, <1>12, <1>18, <2>1, <2>2 DEF HoldersAreRight, Held, UsedBlocks
<1>20. \A h \in Held' : ~Listed(free_blocks', h)
  BY <1>1, <1>2, <1>11, <1>15, <1>18 DEF Held
<1>21. TypeOK'
  BY <1>1, <1>2, <1>3, <1>17, <1>18 DEF TypeOK, StOK, Store, BlocksOK, FreeOK
<1>22. IInv'
  BY <1>2, <1>16, <1>17, <1>19, <1>20, <1>21 DEF IInv
<1>23. QED
  BY <1>2, <1>10, <1>22 DEF Positive, m, rest

\* coarse_add_memory_fixed keeps the inductive invariant.
LEMMA AddFixedStep ==
    ASSUME ~HostMayFail, IInv, NEW r \in Regions, coarse_add_memory_fixed(r)
    PROVE  IInv' /\ Mem \subseteq Mem' /\ live' = live
<1> DEFINE a == r.addr
           n == r.size
           c == cuts \cup {a}
           back == [size |-> n, used |-> TRUE]
           bl2 == Put(all_blocks, a, back)
           M == Mem \cup Bytes(a, n)
<1>1. /\ StOK(Store, Mem) /\ TypeOK /\ HoldersAreRight
      /\ \A h \in Held : ~Listed(free_blocks, h) /\ h \in DOMAIN all_blocks /\ all_blocks[h].used
  BY DEF IInv, HoldersAreRight, UsedBlocks, Held
<1>2. a \in Positive /\ n \in Positive /\ r = [addr |-> a, size |-> n]
  BY CoarseAssumption
<1>3. /\ alive /\ alive' = alive /\ live' = live /\ mapped' = mapped \cup {r}
      /\ alloc_size' = alloc_size + n /\ used_size' = used_size + n
      /\ adding' = Put(adding, a, n) /\ Bytes(a, n) \cap Mem = {}
  BY DEF coarse_add_memory_fixed, Fresh, Mem, Covered
<1>4. a \notin DOMAIN all_blocks
  <2>1. a \in Bytes(a, n)
    BY <1>2 DEF Bytes, Positive
  <2>2. \A h \in DOMAIN all_blocks : h \in Bytes(h, all_blocks[h].size)
    BY <1>1 DEF TypeOK, Bytes, Positive
  <2>3. QED
    BY <1>1, <1>3, <2>1, <2>2 DEF StOK, Store, BlocksOK
<1>5. PICK o \in coarse_ravl_add_new(Store, a, n, {TRUE}) :
         o.ok /\ Commit([o.st EXCEPT !.cuts = @ \cup {a}])
  BY DEF coarse_add_memory_fixed
<1>6. o.st = [bl |-> bl2, fr |-> free_blocks, cuts |-> cuts]
  <2>1. Store.bl = all_blocks
    BY DEF Store
  <2>2. PICK block \in [size : {n}, used : {TRUE}] :
           o = [ok |-> TRUE, st |-> [Store EXCEPT !.bl = Put(@, a, block)]]
    BY <1>4, <1>5, <2>1 DEF coarse_ravl_add_new, Failing
  <2>3. block = back
    BY <2>2
  <2> HIDE DEF a, back
  <2>4. o.st = [Store EXCEPT !.bl = bl2]
    BY <2>1, <2>2, <2>3
  <2> HIDE DEF bl2
  <2>5. QED
    BY <2>4 DEF Store
<1>7. all_blocks' = bl2 /\ free_blocks' = free_blocks /\ cuts' = c
  <2> HIDE DEF bl2
  <2>1. QED
    BY <1>5, <1>6 DEF Commit
<1>8. /\ DOMAIN bl2 = DOMAIN all_blocks \cup {a} /\ bl2[a] = back
      /\ \A h \in DOMAIN all_blocks : bl2[h] = all_blocks[h]
  BY <1>4 DEF Put
<1>9. back \in BlockRec /\ back.size = n /\ back.used
  BY <1>2 DEF BlockRec
<1> HIDE DEF back, bl2, a, n
<1>10. StOK(Store', M) /\ ~Listed(free_blocks, a)
  <2>1. Store.bl = all_blocks /\ Store.fr = free_blocks /\ Store.cuts = cuts
    BY DEF Store
  <2>2. Store' = [bl |-> bl2, fr |-> free_blocks, cuts |-> cuts \cup {a}]
    BY <1>7 DEF Store
  <2>3. QED
    BY <1>1, <1>2, <1>3, <1>8, <1>9, <2>1, <2>2, NewBlock
<1>11. Mem' = M
  <2>1. Mem' = Covered(mapped \cup {[addr |-> a, size |-> n]})
    BY <1>2, <1>3 DEF Mem
  <2>2. QED
    BY <2>1, MemGrows DEF Mem
<1>12. a \notin Held
  BY <1>1, <1>4
<1>13. /\ DOMAIN adding' = DOMAIN adding \cup {a} /\ adding'[a] = n
       /\ \A h \in DOMAIN adding : adding'[h] = adding[h]
  BY <1>3, <1>12 DEF Put, Held
<1>14. HoldersAreRight'
  <2>1. all_blocks'[a].used /\ all_blocks'[a].size = adding'[a] /\ a \in DOMAIN all_blocks'
    BY <1>7, <1>8, <1>9, <1>13
  <2>2. QED
    BY <1>1, <1>3, <1>7, <1>8, <1>12, <1>13, <2>1 DEF HoldersAreRight, Held, UsedBlocks
<1>15. \A h \in Held' : ~Listed(free_blocks', h)
  BY <1>1, <1>3, <1>7, <1>10, <1>13 DEF Held
<1>16. TypeOK'
  <2>1. used_size' \in Int /\ alloc_size' \in Int
    BY <1>1, <1>2, <1>3 DEF TypeOK, Positive
  <2>2. mapped' \subseteq [addr : Positive, size : Positive]
    BY <1>1, <1>2, <1>3 DEF TypeOK
  <2>3. QED
    BY <1>1, <1>2, <1>3, <1>10, <1>13, <2>1, <2>2 DEF TypeOK, StOK, Store, BlocksOK, FreeOK
<1>17. IInv'
  BY <1>3, <1>10, <1>11, <1>14, <1>15, <1>16 DEF IInv
<1>18. QED
  BY <1>3, <1>11, <1>17

\* Each step of the library preserves the invariant and is, for its users, a
\* step of the abstract provider.
Visible ==
    \/ UNCHANGED <<live, mapped>>
    \/ Mem \subseteq Mem' /\ (UNCHANGED live \/ NewAllocation)
    \/ /\ mapped' = mapped
       /\ \/ \E b \in DOMAIN live : live' = Drop(live, b)
          \/ \E b \in DOMAIN live : \E first \in 1 .. (live[b] - 1) :
                live' = Put(Put(live, b, first), b + first, live[b] - first)
          \/ \E lo, hi \in DOMAIN live :
                lo + live[lo] = hi /\ live' = Put(Drop(live, hi), lo, live[lo] + live[hi])
    \/ live' = NoBlocks /\ mapped' = {}

\* Every step keeps the inductive invariant, and maps to a step of RangeAllocator.
LEMMA NextStep ==
    ASSUME ~HostMayFail, IInv, [Next]_vars
    PROVE  IInv' /\ Visible
<1>1. CASE coarse_new
  BY <1>1, NewStep DEF Visible
<1>2. CASE coarse_delete
  BY <1>2, DeleteStep DEF Visible
<1>3. CASE \E size \in Sizes, al \in Alignments : coarse_alloc(size, al, "user")
  BY <1>3, AllocOK, CoarseAssumption DEF Visible
<1>4. CASE \E b \in DOMAIN live : free(b)
  BY <1>4, FreeStep DEF Visible
<1>5. CASE \E lo, hi \in DOMAIN live : coarse_merge(lo, hi, live[lo] + live[hi])
  BY <1>5, MergeStep DEF Visible
<1>6. CASE \E b \in DOMAIN live, first \in Sizes : coarse_split(b, live[b], first)
  <2>1. PICK b \in DOMAIN live, first \in Sizes : coarse_split(b, live[b], first)
    BY <1>6
  <2>2. first \in Nat
    BY CoarseAssumption
  <2>3. QED
    BY <2>1, <2>2, SplitStep DEF Visible
<1>7. CASE \E size \in Sizes : coarse_add_memory_from_provider(size)
  <2>1. PICK size \in Sizes : coarse_alloc(size, PageSize, "add_memory")
    BY <1>7 DEF coarse_add_memory_from_provider
  <2>2. size \in 0 .. (Word - 1) /\ PageSize \in 0 .. (Word - 1)
    BY CoarseAssumption DEF Positive
  <2>3. QED
    BY <2>1, <2>2, AllocOK DEF Visible
<1>8. CASE \E r \in Regions : coarse_add_memory_fixed(r)
  BY <1>8, AddFixedStep DEF Visible
<1>9. CASE \E b \in DOMAIN adding : coarse_add_memory_finish(b)
  BY <1>9, FinishStep DEF Visible
<1>10. CASE UNCHANGED vars
  <2>1. /\ all_blocks' = all_blocks /\ free_blocks' = free_blocks /\ used_size' = used_size
        /\ alloc_size' = alloc_size /\ cuts' = cuts /\ mapped' = mapped /\ adding' = adding
        /\ live' = live /\ alive' = alive
    BY <1>10 DEF vars
  <2>2. QED
    BY <2>1 DEF IInv, TypeOK, StOK, Store, Mem, HoldersAreRight, Held, UsedBlocks, Visible
<1>11. QED
  BY <1>1, <1>2, <1>3, <1>4, <1>5, <1>6, <1>7, <1>8, <1>9, <1>10 DEF Next

-----------------------------------------------------------------------------
(* The theorems.  ~HostMayFail: umf_ba_global_alloc does not return NULL.  *)

\* The invariant holds in every reachable state.
THEOREM Invariance == ASSUME ~HostMayFail PROVE Spec => []IInv
<1>1. Init => IInv
  BY InitInv
<1>2. IInv /\ [Next]_vars => IInv'
  BY NextStep
<1>3. QED
  BY <1>1, <1>2, PTL DEF Spec

\* Every reachable state of the library is well typed: sizes and addresses are
\* positive, lists are lists of addresses.
THEOREM TypeCorrect == ASSUME ~HostMayFail PROVE Spec => []TypeOK
<1>1. IInv => TypeOK
  BY DEF IInv
<1>2. QED
  BY <1>1, Invariance, PTL

\* Two blocks of a good store share no byte.
LEMMA BlocksApart ==
    ASSUME NEW bl, NEW M, BlocksOK(bl, M), NEW b \in DOMAIN bl, NEW c \in DOMAIN bl, b # c
    PROVE  Bytes(b, bl[b].size) \cap Bytes(c, bl[c].size) = {}
<1>1. b \in Positive /\ c \in Positive /\ bl[b].size \in Positive /\ bl[c].size \in Positive
  BY DEF BlocksOK
<1>2. CASE b < c
  <2>1. b + bl[b].size <= c
    BY <1>2 DEF BlocksOK
  <2>2. QED
    BY <1>1, <2>1 DEF Bytes, Positive
<1>3. CASE c < b
  <2>1. c + bl[c].size <= b
    BY <1>3 DEF BlocksOK
  <2>2. QED
    BY <1>1, <2>1 DEF Bytes, Positive
<1>4. QED
  BY <1>1, <1>2, <1>3 DEF Positive

\* No byte belongs to two blocks of the library, whatever sequence of
\* allocations, splits, merges and refusals led here.
THEOREM BlocksNeverOverlap == ASSUME ~HostMayFail PROVE Spec => []NoOverlap
<1>1. IInv => NoOverlap
  <2>1. SUFFICES ASSUME IInv, NEW b \in DOMAIN all_blocks, NEW c \in DOMAIN all_blocks, b # c
                 PROVE  Extent(b) \cap Extent(c) = {}
    BY DEF NoOverlap
  <2>2. BlocksOK(all_blocks, Mem)
    BY <2>1 DEF IInv, StOK, Store
  <2>3. QED
    BY <2>1, <2>2, BlocksApart DEF Extent
<1>2. QED
  BY <1>1, Invariance, PTL

\* The blocks are always exactly the memory that was handed over: no split,
\* merge or error path loses a byte or invents one.
THEOREM MemoryConserved == ASSUME ~HostMayFail PROVE Spec => []Conservation
<1>1. IInv => Conservation
  <2> SUFFICES ASSUME IInv PROVE Conservation
    OBVIOUS
  <2> DEFINE L == UNION {Extent(b) : b \in DOMAIN all_blocks}
  <2>1. BlocksOK(all_blocks, Mem)
    BY DEF IInv, StOK, Store
  <2>2. ASSUME NEW x \in L PROVE x \in Mem
    <3>1. PICK b \in DOMAIN all_blocks : x \in Extent(b)
      OBVIOUS
    <3>2. QED
      BY <2>1, <3>1 DEF BlocksOK, Extent
  <2>3. ASSUME NEW x \in Mem PROVE x \in L
    <3>1. PICK b \in DOMAIN all_blocks : x \in Extent(b)
      BY <2>1 DEF BlocksOK, Extent
    <3>2. QED
      BY <3>1
  <2>4. L = Mem
    <3> HIDE DEF L
    <3>1. QED
      BY <2>2, <2>3
  <2>5. QED
    BY <2>4 DEF Conservation, Mem, Covered
<1>2. QED
  BY <1>1, Invariance, PTL

\* What a user, or a coarse_add_memory_* call between its two critical
\* sections, holds stays a used block of the size they know.
THEOREM HoldersSafe == ASSUME ~HostMayFail PROVE Spec => []HoldersAreRight
<1>1. IInv => HoldersAreRight
  BY DEF IInv
<1>2. QED
  BY <1>1, Invariance, PTL

\* The upstream provider, told through cb.split and cb.merge alone, knows
\* where every block starts.
THEOREM UpstreamInStep == ASSUME ~HostMayFail PROVE Spec => []UpstreamAgrees
<1>1. IInv => UpstreamAgrees
  BY StoreTypes DEF IInv, UpstreamAgrees
<1>2. QED
  BY <1>1, Invariance, PTL

\* Allocations lie in the provider's memory and share no byte.
LEMMA LiveApart ==
    ASSUME NEW bl, NEW M, BlocksOK(bl, M), NEW lv,
           \A b \in DOMAIN lv : b \in DOMAIN bl /\ bl[b].size = lv[b]
    PROVE  /\ \A b \in DOMAIN lv : Bytes(b, lv[b]) \subseteq M
           /\ \A b, c \in DOMAIN lv : b # c => Bytes(b, lv[b]) \cap Bytes(c, lv[c]) = {}
<1>1. \A b \in DOMAIN lv : Bytes(b, lv[b]) \subseteq M
  BY DEF BlocksOK
<1>2. ASSUME NEW b \in DOMAIN lv, NEW c \in DOMAIN lv, b # c
      PROVE  Bytes(b, lv[b]) \cap Bytes(c, lv[c]) = {}
  <2>1. Bytes(b, bl[b].size) \cap Bytes(c, bl[c].size) = {}
    BY <1>2, BlocksApart
  <2>2. QED
    BY <2>1
<1>3. QED
  BY <1>1, <1>2

\* Two allocations never share a byte.
THEOREM AllocationsDisjoint == ASSUME ~HostMayFail PROVE Spec => []LiveDisjoint
<1>1. ASSUME IInv PROVE LiveDisjoint
  <2>1. BlocksOK(all_blocks, Mem)
    BY <1>1 DEF IInv, StOK, Store
  <2>2. \A b \in DOMAIN live : b \in DOMAIN all_blocks /\ all_blocks[b].size = live[b]
    BY <1>1 DEF IInv, HoldersAreRight, UsedBlocks
  <2>3. QED
    BY <2>1, <2>2, LiveApart DEF LiveDisjoint
<1>2. QED
  BY <1>1, Invariance, PTL

\* An address that is a multiple of the alignment coarse_alloc works with has the
\* alignment that was asked for, and starts a page.
LEMMA EffectivelyAligned ==
    ASSUME NEW c \in Positive, NEW al \in 0 .. (Word - 1), ValidAlignment(al),
           c % EffectiveAlignment(al) = 0
    PROVE  IsAligned(c, al) /\ IsAligned(c, PageSize)
<1>1. /\ PageSize \in Positive /\ Word \in Nat /\ 2 * PageSize <= Word
      /\ al \in Nat /\ c \in Nat /\ (al # 0 => al \in Positive)
  BY CoarseAssumption DEF Positive
<1>2. CASE al = 0
  BY <1>2 DEF EffectiveAlignment, IsAligned
<1>3. CASE al # 0 /\ al % PageSize = 0
  <2>1. c % al = 0
    BY <1>3 DEF EffectiveAlignment
  <2>2. c % PageSize = 0
    BY <1>1, <1>3, <2>1, MultipleOf
  <2>3. QED
    BY <2>1, <2>2 DEF IsAligned
<1>4. CASE al # 0 /\ al % PageSize # 0
  <2>1. PageSize % al = 0
    BY <1>4 DEF ValidAlignment
  <2>2. al <= PageSize
    BY <1>1, <1>4, <2>1 DEF Positive
  <2>3. al % PageSize = al
    BY <1>1, <1>4, <2>2, SMTT(20) DEF Positive
  <2>4. EffectiveAlignment(al) = PageSize
    BY <1>1, <1>4, <2>2, <2>3 DEF EffectiveAlignment, AlignUpSafe, AlignUp, Positive
  <2>5. c % PageSize = 0
    BY <2>4
  <2>6. c % al = 0
    BY <1>1, <1>4, <2>1, <2>5, MultipleOf
  <2>7. QED
    BY <2>5, <2>6 DEF IsAligned
<1>5. QED
  BY <1>2, <1>3, <1>4

\* coarse_alloc returns a block of the size and alignment it was asked for, at the
\* start of a page, whatever the page size, the strategy and the requests.
THEOREM AllocationsAligned == ASSUME ~HostMayFail PROVE Spec => AllocAligned
<1>1. ASSUME IInv, NEW size \in Sizes, NEW al \in Alignments,
             used_size' > used_size, coarse_alloc(size, al, "user")
      PROVE  \E b \in DOMAIN live' \ DOMAIN live :
                live'[b] = size /\ IsAligned(b, al) /\ IsAligned(b, PageSize)
  <2>1. size \in 0 .. (Word - 1) /\ al \in 0 .. (Word - 1) /\ ValidAlignment(al)
    BY <1>1, CoarseAssumption DEF coarse_alloc
  <2>2. used_size' # used_size
    <3>1. alive
      BY <1>1 DEF coarse_alloc
    <3>2. used_size \in Int
      BY <1>1, <3>1 DEF IInv, TypeOK
    <3>3. QED
      BY <1>1, <3>2
  <2>3. PICK c \in Positive : /\ c \notin DOMAIN live /\ live' = Put(live, c, size)
                             /\ c % EffectiveAlignment(al) = 0
    BY <1>1, <2>1, <2>2, AllocOK DEF Granted
  <2>4. c \in DOMAIN live' /\ live'[c] = size
    BY <2>3 DEF Put
  <2>5. IsAligned(c, al) /\ IsAligned(c, PageSize)
    BY <2>1, <2>3, EffectivelyAligned
  <2>6. QED
    BY <2>3, <2>4, <2>5
<1>2. IInv => [\A size \in Sizes, al \in Alignments :
                  used_size' > used_size /\ coarse_alloc(size, al, "user") =>
                      \E b \in DOMAIN live' \ DOMAIN live :
                         /\ live'[b] = size
                         /\ IsAligned(b, al)
                         /\ IsAligned(b, PageSize)]_vars
  BY <1>1
<1>3. QED
  BY <1>2, Invariance, PTL DEF AllocAligned

\* The library implements the abstract provider: for its users every function,
\* with its searching, padding, splitting and merging, is one operation of
\* RangeAllocator or changes nothing.
THEOREM Refinement == ASSUME ~HostMayFail PROVE Spec => ImplementsRangeAllocator
<1>1. Init => Provider!Init
  BY DEF Init, Provider!Init, Provider!Empty, NoBlocks
<1>2. ASSUME IInv, IInv', Visible
      PROVE  [Provider!Next]_(Provider!avars)
  <2>m. Mem = UNION {Bytes(m.addr, m.size) : m \in mapped}
    BY DEF Mem, Covered
  <2>1. CASE UNCHANGED <<live, mapped>>
    BY <2>1 DEF Provider!avars
  <2>2. CASE Mem \subseteq Mem' /\ UNCHANGED live
    BY <2>2 DEF Provider!Next, Provider!Extend, Mem, Covered
  <2>3. CASE Mem \subseteq Mem' /\ NewAllocation
    <3>1. PICK c \in Positive, size \in Positive : c \notin DOMAIN live /\ live' = Put(live, c, size)
      BY <2>3 DEF NewAllocation
    <3>2. /\ DOMAIN live' = DOMAIN live \cup {c} /\ live'[c] = size
          /\ \A b \in DOMAIN live : live'[b] = live[b]
      BY <3>1 DEF Put
    <3>3. /\ \A b \in DOMAIN live' : Bytes(b, live'[b]) \subseteq Mem'
          /\ \A b, d \in DOMAIN live' : b # d => Bytes(b, live'[b]) \cap Bytes(d, live'[d]) = {}
      <4>1. BlocksOK(all_blocks', Mem')
        BY <1>2 DEF IInv, StOK, Store
      <4>2. \A b \in DOMAIN live' : b \in DOMAIN all_blocks' /\ all_blocks'[b].size = live'[b]
        BY <1>2 DEF IInv, HoldersAreRight, UsedBlocks
      <4>3. QED
        BY <4>1, <4>2, LiveApart
    <3>4. /\ Bytes(c, live'[c]) \subseteq Mem'
          /\ \A b \in DOMAIN live : Bytes(c, live'[c]) \cap Bytes(b, live[b]) = {}
      BY <3>1, <3>2, <3>3
    <3>5. live' = Provider!Add(live, c, live'[c])
      BY <3>1, <3>2 DEF Provider!Add, Put
    <3>6. Provider!Alloc
      BY <2>3, <3>1, <3>2, <3>4, <3>5 DEF Provider!Alloc, Provider!Range, Bytes, Mem, Covered
    <3>7. QED
      BY <3>6 DEF Provider!Next
  <2>4. CASE mapped' = mapped /\ \E b \in DOMAIN live : live' = Drop(live, b)
    BY <2>4 DEF Provider!Next, Provider!Free, Provider!Remove, Drop
  <2>5. CASE mapped' = mapped /\ \E b \in DOMAIN live : \E first \in 1 .. (live[b] - 1) :
                live' = Put(Put(live, b, first), b + first, live[b] - first)
    BY <2>5 DEF Provider!Next, Provider!Split, Provider!Add, Put
  <2>6. CASE mapped' = mapped /\ \E lo, hi \in DOMAIN live :
                lo + live[lo] = hi /\ live' = Put(Drop(live, hi), lo, live[lo] + live[hi])
    BY <2>6 DEF Provider!Next, Provider!Merge, Provider!Add, Provider!Remove, Put, Drop
  <2>7. CASE live' = NoBlocks /\ mapped' = {}
    BY <2>7 DEF Provider!Next, Provider!Finalize, Provider!Empty, NoBlocks
  <2>8. QED
    BY <1>2, <2>1, <2>2, <2>3, <2>4, <2>5, <2>6, <2>7 DEF Visible
<1>3. IInv /\ IInv' /\ [Next]_vars => [Provider!Next]_(Provider!avars)
  BY <1>2, NextStep
<1>4. QED
  BY <1>1, <1>3, Invariance, PTL DEF Spec, ImplementsRangeAllocator, Provider!Spec
=============================================================================
