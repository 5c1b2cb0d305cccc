-------------------------- MODULE CoarseStepProofs --------------------------
(***************************************************************************)
(* The inductive invariant of the coarse library, and the proof that       *)
(* allocation, free and creation keep it.                                  *)
(***************************************************************************)
EXTENDS CoarseStoreProofs

\* ALIGN_UP gives a multiple of the alignment.
LEMMA AlignUpMultiple ==
    ASSUME NEW v \in Nat, NEW a \in Positive
    PROVE  AlignUp(v, a) % a = 0
<1>1. \A k \in Nat : (a * k) % a = 0
  BY SMTT(20) DEF Positive
<1>2. v = a * (v \div a) + (v % a) /\ v \div a \in Nat /\ v % a \in Nat /\ a \in Nat
  BY SMTT(20) DEF Positive
<1>3. PICK m \in Nat, r \in Nat : v = a * m + r /\ r = v % a
  BY <1>2
<1>4. a * m + a = a * (m + 1) /\ m + 1 \in Nat
  BY <1>2, SMTT(20)
<1>5. CASE v % a = 0
  BY <1>5 DEF AlignUp
<1>6. CASE v % a # 0
  <2>1. AlignUp(v, a) = v + (a - r)
    BY <1>3, <1>6 DEF AlignUp
  <2> DEFINE am == a * m
  <2>2. am \in Nat /\ v = am + r
    BY <1>2, <1>3
  <2> HIDE DEF am
  <2>3. v + (a - r) = am + a
    BY <1>2, <2>2
  <2>4. AlignUp(v, a) = a * (m + 1)
    BY <2>1, <2>3, <1>4 DEF am
  <2>5. QED
    BY <1>1, <1>4, <2>4
<1>7. QED
  BY <1>5, <1>6

\* A multiple of a multiple.
LEMMA MultipleOf ==
    ASSUME NEW c \in Nat, NEW p \in Positive, NEW q \in Positive, c % p = 0, p % q = 0
    PROVE  c % q = 0
<1>1. c = p * (c \div p) /\ c \div p \in Nat
  BY SMTT(20) DEF Positive
<1>2. p = q * (p \div q) /\ p \div q \in Nat
  BY SMTT(20) DEF Positive
<1>3. PICK m \in Nat, n \in Nat : c = p * m /\ p = q * n
  BY <1>1, <1>2
<1>4. c = q * (n * m) /\ n * m \in Nat
  BY <1>3, SMTT(20) DEF Positive
<1>5. \A k \in Nat : (q * k) % q = 0
  BY SMTT(20) DEF Positive
<1>6. QED
  BY <1>4, <1>5

\* coarse_alloc's second half hands out a block that starts at an aligned address in b.
Handed(st, b, size, alignment, caller) ==
    \E c \in Positive :
        /\ Carved(st, Store', b, c, size)
        /\ size \in Positive /\ c % alignment = 0
        /\ used_size' = used_size + size
        /\ \/ caller = "user" /\ live' = Put(live, c, size) /\ UNCHANGED adding
           \/ caller = "add_memory" /\ adding' = Put(adding, c, size) /\ UNCHANGED live

HandedNothing(st, b) ==
    /\ Keeps(st, Store', b, b)
    /\ UNCHANGED <<used_size, adding, live>>

\* The second half of coarse_alloc: split, merge of the remainder, mark as used.
LEMMA UseBlockOK ==
    ASSUME ~HostMayFail, NEW st, NEW M, StOK(st, M), NEW b, Loose(st, b),
           NEW size \in Nat, NEW alignment \in Positive, NEW caller,
           \/ st.bl[b].size >= size /\ b % alignment = 0
           \/ st.bl[b].size >= size + alignment,
           UseBlock(st, b, size, alignment, caller)
    PROVE  /\ StOK(Store', M)
           /\ HandedNothing(st, b) \/ Handed(st, b, size, alignment, caller)
<1>1. b \in DOMAIN st.bl /\ b \in Positive /\ st.bl[b].size \in Positive
  BY DEF Loose, StOK, BlocksOK
<1>2. /\ AlignUp(b, alignment) - b < st.bl[b].size
      /\ size <= st.bl[b].size - (AlignUp(b, alignment) - b)
      /\ AlignUp(b, alignment) \in Nat
      /\ st.bl[b].size = size => AlignUp(b, alignment) = b
      /\ ~(st.bl[b].size < size)
      /\ size < st.bl[b].size => size < st.bl[b].size - (AlignUp(b, alignment) - b)
  <2>1. /\ AlignUp(b, alignment) \in Nat /\ b <= AlignUp(b, alignment)
        /\ AlignUp(b, alignment) < b + alignment
        /\ b % alignment = 0 => AlignUp(b, alignment) = b
    BY <1>1, AlignUpFacts DEF Positive
  <2>2. CASE st.bl[b].size >= size /\ b % alignment = 0
    BY <1>1, <2>1, <2>2 DEF Positive
  <2>3. CASE st.bl[b].size >= size + alignment
    BY <1>1, <2>1, <2>3 DEF Positive
  <2>4. QED
    BY <2>2, <2>3
<1>3. PICK a \in create_aligned_block(st, b, alignment) :
         \/ ~a.ok /\ TakeBack(a.st, a.cur)
         \/ /\ a.ok
            /\ \E s \in IF st.bl[b].size > size THEN split_current_block(a.st, a.cur, size)
                        ELSE {[ok |-> TRUE, st |-> a.st]} :
                 \/ ~s.ok /\ TakeBack(s.st, a.cur)
                 \/ /\ s.ok
                    /\ Commit([s.st EXCEPT !.bl = Put(@, a.cur, [size |-> size, used |-> TRUE])])
                    /\ used_size' = used_size + size
                    /\ \/ caller = "user" /\ live' = Put(live, a.cur, size) /\ UNCHANGED adding
                       \/ caller = "add_memory" /\ adding' = Put(adding, a.cur, size) /\ UNCHANGED live
  BY <1>2 DEF UseBlock
<1>4. StOK(a.st, M) /\ AlignedPart(st, a, b, alignment)
  BY <1>2, CreateAlignedBlock
<1>5. Loose(a.st, a.cur) /\ Keeps(st, a.st, b, a.cur) /\ a.cur \in Positive
  BY <1>4 DEF AlignedPart, Loose, StOK, BlocksOK
<1>6. ASSUME TakeBack(a.st, a.cur)
      PROVE  StOK(Store', M) /\ HandedNothing(st, b)
  <2>1. PICK r \in free_blocks_re_add(a.st, a.cur) : Commit(r.st)
    BY <1>6 DEF TakeBack
  <2>2. StOK(r.st, M) /\ Keeps(a.st, r.st, a.cur, a.cur)
    BY <1>4, <1>5, ReAdd
  <2>3. Store' = r.st
    BY <2>1, <2>2 DEF Commit, Store, StOK
  <2>4. Keeps(st, Store', b, b)
    BY <1>5, <2>2, <2>3 DEF Keeps
  <2>5. QED
    BY <1>6, <2>2, <2>3, <2>4 DEF HandedNothing, TakeBack
<1>7. CASE ~a.ok /\ TakeBack(a.st, a.cur)
  BY <1>6, <1>7
<1>8. CASE a.ok /\ ~(~a.ok /\ TakeBack(a.st, a.cur))
  <2>1. PICK s \in IF st.bl[b].size > size THEN split_current_block(a.st, a.cur, size)
                   ELSE {[ok |-> TRUE, st |-> a.st]} :
           \/ ~s.ok /\ TakeBack(s.st, a.cur)
           \/ /\ s.ok
              /\ Commit([s.st EXCEPT !.bl = Put(@, a.cur, [size |-> size, used |-> TRUE])])
              /\ used_size' = used_size + size
              /\ \/ caller = "user" /\ live' = Put(live, a.cur, size) /\ UNCHANGED adding
                 \/ caller = "add_memory" /\ adding' = Put(adding, a.cur, size) /\ UNCHANGED live
    BY <1>3, <1>8
  <2> DEFINE st2 == [s.st EXCEPT !.bl = Put(@, a.cur, [size |-> size, used |-> TRUE])]
  <2>2. \/ ~s.ok /\ s.st = a.st
        \/ s.ok /\ size \in Positive /\ StOK(st2, M) /\ Carved(a.st, st2, a.cur, a.cur, size)
    <3>1. a.st.bl[a.cur].size = st.bl[b].size - (AlignUp(b, alignment) - b)
      BY <1>4, <1>8 DEF AlignedPart
    <3>2. CASE st.bl[b].size > size
      <4>1. size < a.st.bl[a.cur].size /\ s \in split_current_block(a.st, a.cur, size)
        BY <1>1, <1>2, <3>1, <3>2, <2>1 DEF Positive
      <4>2. QED
        BY <1>4, <1>5, <4>1, SplitCurrentBlock
    <3>3. CASE ~(st.bl[b].size > size)
      <4>1. s = [ok |-> TRUE, st |-> a.st] /\ st.bl[b].size = size
        BY <1>1, <1>2, <2>1, <3>3 DEF Positive
      <4>2. size \in Positive /\ a.st.bl[a.cur].size = size
        BY <1>1, <1>2, <3>1, <4>1 DEF Positive
      <4> DEFINE front == [size |-> size, used |-> TRUE]
                 bl2 == Put(a.st.bl, a.cur, front)
      <4>3. /\ DOMAIN bl2 = DOMAIN a.st.bl /\ bl2[a.cur] = front
            /\ \A h \in DOMAIN a.st.bl \ {a.cur} : bl2[h] = a.st.bl[h]
        BY <1>5 DEF Put, Loose
      <4>4. front \in BlockRec /\ front.size = size
        BY <4>2 DEF BlockRec
      <4>5. a.st = [bl |-> a.st.bl, fr |-> a.st.fr, cuts |-> a.st.cuts]
        BY <1>4 DEF StOK
      <4> HIDE DEF bl2
      <4>6. st2 = [bl |-> bl2, fr |-> a.st.fr, cuts |-> a.st.cuts]
        <5>1. st2 = [a.st EXCEPT !.bl = bl2]
          BY <4>1 DEF bl2
        <5>2. QED
          BY <4>5, <5>1
      <4> HIDE DEF st2, front
      <4>7. StOK(st2, M)
        BY <1>4, <1>5, <4>2, <4>3, <4>4, <4>6, Marked DEF Loose
      <4>8. Carved(a.st, st2, a.cur, a.cur, size)
        BY <1>5, <4>3, <4>6 DEF Carved, Loose, Keeps, front
      <4>9. QED
        BY <4>1, <4>2, <4>7, <4>8
    <3>4. QED
      BY <3>2, <3>3
  <2>3. CASE ~s.ok /\ TakeBack(s.st, a.cur)
    <3>1. TakeBack(a.st, a.cur)
      BY <2>2, <2>3
    <3>2. QED
      BY <1>6, <3>1
  <2>4. CASE /\ s.ok
             /\ Commit(st2)
             /\ used_size' = used_size + size
             /\ \/ caller = "user" /\ live' = Put(live, a.cur, size) /\ UNCHANGED adding
                \/ caller = "add_memory" /\ adding' = Put(adding, a.cur, size) /\ UNCHANGED live
    <3>1. size \in Positive /\ StOK(st2, M) /\ Carved(a.st, st2, a.cur, a.cur, size)
      BY <2>2, <2>4
    <3> HIDE DEF st2
    <3>2. Store' = st2
      BY <2>4, <3>1 DEF Commit, Store, StOK
    <3>3. Carved(st, Store', b, a.cur, size)
      BY <1>5, <3>1, <3>2 DEF Carved, Keeps
    <3>4. a.cur % alignment = 0
      BY <1>1, <1>4, <1>8, AlignUpMultiple DEF AlignedPart, Positive
    <3>5. Handed(st, b, size, alignment, caller)
      BY <1>5, <2>4, <3>1, <3>3, <3>4 DEF Handed
    <3>6. QED
      BY <3>1, <3>2, <3>5
  <2>5. QED
    BY <2>1, <2>3, <2>4
<1>9. QED
  BY <1>3, <1>7, <1>8

-----------------------------------------------------------------------------
(* The inductive invariant.                                                *)

\* What the upstream provider has handed over.
Covered(S) == UNION {Bytes(m.addr, m.size) : m \in S}

Mem == Covered(mapped)

Held == DOMAIN live \cup DOMAIN adding

IInv ==
    /\ TypeOK
    /\ StOK(Store, Mem)
    /\ HoldersAreRight
    /\ \A b \in Held : ~Listed(free_blocks, b)
    /\ ~alive => all_blocks = NoBlocks /\ mapped = {}

\* coarse_new: the inductive invariant holds initially.
LEMMA InitInv == Init => IInv
<1> SUFFICES ASSUME Init PROVE IInv
  OBVIOUS
<1> USE DEF Init, NoBlocks
<1>1. TypeOK
  BY DEF TypeOK
<1>2. Mem = {}
  BY DEF Mem, Covered
<1>3. StOK(Store, Mem)
  BY <1>2 DEF StOK, Store, BlocksOK, FreeOK
<1>4. HoldersAreRight /\ Held = {}
  BY DEF HoldersAreRight, Held
<1>5. QED
  BY <1>1, <1>3, <1>4 DEF IInv

\* A block in memory of its own.
LEMMA EffectiveAlignmentRange ==
    ASSUME NEW al \in 0 .. (Word - 1), ValidAlignment(al)
    PROVE  EffectiveAlignment(al) \in 1 .. (Word - 1)
<1>1. /\ Word \in Nat /\ PageSize \in Nat /\ PageSize > 0 /\ 2 * PageSize <= Word /\ al \in Nat
  BY CoarseAssumption DEF Positive
<1>2. CASE al = 0 \/ al % PageSize = 0
  BY <1>1, <1>2 DEF EffectiveAlignment
<1>3. CASE al # 0 /\ al % PageSize # 0
  <2>1. PageSize % al = 0
    BY <1>3 DEF ValidAlignment
  <2>2. al <= PageSize
    BY <1>1, <1>3, <2>1
  <2>3. /\ AlignUp(al, PageSize) \in Nat /\ al <= AlignUp(al, PageSize)
        /\ AlignUp(al, PageSize) < al + PageSize
    BY <1>1, AlignUpFacts DEF Positive
  <2>4. EffectiveAlignment(al) = AlignUp(al, PageSize)
    BY <1>1, <1>3, <2>2 DEF EffectiveAlignment, AlignUpSafe
  <2>5. QED
    BY <1>1, <1>3, <2>2, <2>3, <2>4
<1>4. QED
  BY <1>2, <1>3

\* What the users of the library see of coarse_alloc.
NewAllocation ==
    \E c \in Positive, size \in Positive :
        c \notin DOMAIN live /\ live' = Put(live, c, size)

\* What a user gets for a request.
Granted(size, alignment) ==
    \E c \in Positive : c \notin DOMAIN live /\ live' = Put(live, c, size) /\ c % alignment = 0

\* An action that works on a block b which nobody holds disturbs no holder.
LEMMA HoldersKept ==
    ASSUME TypeOK, HoldersAreRight, \A h \in Held : ~Listed(free_blocks, h),
           NEW st, NEW b, NEW size, NEW alignment, NEW caller,
           \A h \in Held : h # b /\ h \in DOMAIN st.bl /\ st.bl[h] = all_blocks[h] /\ ~Listed(st.fr, h),
           HandedNothing(st, b) \/ Handed(st, b, size, alignment, caller)
    PROVE  /\ HoldersAreRight'
           /\ \A h \in Held' : ~Listed(free_blocks', h)
           /\ DOMAIN adding' \subseteq Positive /\ \A h \in DOMAIN adding' : adding'[h] \in Positive
           /\ DOMAIN live' \subseteq Positive /\ \A h \in DOMAIN live' : live'[h] \in Positive
           /\ used_size \in Int => used_size' \in Int
           /\ UNCHANGED live \/ NewAllocation
           /\ caller = "user" => used_size' = used_size \/ Granted(size, alignment)
<1>1. \A h \in Held : all_blocks[h].used
  BY DEF HoldersAreRight, Held, UsedBlocks
<1>2. Store'.bl = all_blocks' /\ Store'.fr = free_blocks'
  BY DEF Store
<1>3. CASE HandedNothing(st, b)
  <2>1. \A h \in Held : /\ h \in DOMAIN all_blocks' /\ all_blocks'[h] = all_blocks[h]
                        /\ ~Listed(free_blocks', h)
    BY <1>1, <1>2, <1>3 DEF HandedNothing, Keeps
  <2>2. adding' = adding /\ live' = live /\ used_size' = used_size
    BY <1>3 DEF HandedNothing
  <2>3. HoldersAreRight'
    BY <2>1, <2>2 DEF HoldersAreRight, Held, UsedBlocks
  <2>4. QED
    BY <2>1, <2>2, <2>3 DEF TypeOK, Held
<1>4. CASE Handed(st, b, size, alignment, caller)
  <2>1. PICK c \in Positive :
           /\ Carved(st, Store', b, c, size)
           /\ size \in Positive /\ c % alignment = 0
           /\ used_size' = used_size + size
           /\ \/ caller = "user" /\ live' = Put(live, c, size) /\ UNCHANGED adding
              \/ caller = "add_memory" /\ adding' = Put(adding, c, size) /\ UNCHANGED live
    BY <1>4 DEF Handed
  <2>2. \A h \in Held : /\ h \in DOMAIN all_blocks' /\ all_blocks'[h] = all_blocks[h]
                        /\ ~Listed(free_blocks', h) /\ h # c
    BY <1>1, <1>2, <2>1 DEF Carved, Keeps
  <2>3. /\ c \in DOMAIN all_blocks' /\ ~Listed(free_blocks', c)
        /\ all_blocks'[c] = [size |-> size, used |-> TRUE]
    BY <1>2, <2>1 DEF Carved, Loose
  <2>4. c \notin DOMAIN live /\ c \notin DOMAIN adding
    BY <2>2 DEF Held
  <2>5. caller = "user" => Granted(size, alignment)
    BY <2>1, <2>4 DEF Granted
  <2>6. CASE live' = Put(live, c, size) /\ UNCHANGED adding
    <3>1. DOMAIN live' = DOMAIN live \cup {c} /\ live'[c] = size /\ \A h \in DOMAIN live : live'[h] = live[h]
      BY <2>4, <2>6 DEF Put
    <3>2. HoldersAreRight'
      BY <2>2, <2>3, <2>4, <2>6, <3>1 DEF HoldersAreRight, Held, UsedBlocks
    <3>3. \A h \in Held' : ~Listed(free_blocks', h)
      BY <2>2, <2>3, <2>6, <3>1 DEF Held
    <3>4. NewAllocation
      BY <2>1, <2>4, <2>6 DEF NewAllocation
    <3>5. QED
      BY <2>1, <2>5, <2>6, <3>1, <3>2, <3>3, <3>4 DEF TypeOK, Positive
  <2>7. CASE adding' = Put(adding, c, size) /\ UNCHANGED live
    <3>1. /\ DOMAIN adding' = DOMAIN adding \cup {c} /\ adding'[c] = size
          /\ \A h \in DOMAIN adding : adding'[h] = adding[h]
      BY <2>4, <2>7 DEF Put
    <3>2. HoldersAreRight'
      BY <2>2, <2>3, <2>4, <2>7, <3>1 DEF HoldersAreRight, Held, UsedBlocks
    <3>3. \A h \in Held' : ~Listed(free_blocks', h)
      BY <2>2, <2>3, <2>7, <3>1 DEF Held
    <3>4. QED
      BY <2>1, <2>5, <2>7, <3>1, <3>2, <3>3 DEF TypeOK, Positive
  <2>8. QED
    BY <2>1, <2>6, <2>7
<1>5. QED
  BY <1>3, <1>4

\* The parts of TypeOK that a good store gives.
LEMMA StoreTypes ==
    ASSUME NEW M, StOK(Store, M)
    PROVE  /\ DOMAIN all_blocks \subseteq Positive
           /\ \A b \in DOMAIN all_blocks : all_blocks[b] \in [size : Positive, used : BOOLEAN]
           /\ DOMAIN free_blocks \subseteq Positive
           /\ \A k \in DOMAIN free_blocks : free_blocks[k] \in Seq(Positive)
           /\ cuts = DOMAIN all_blocks
  BY DEF StOK, Store, BlocksOK, FreeOK

\* Memory the provider adds is outside the memory it already gave.
LEMMA MemGrows ==
    ASSUME NEW S, NEW a, NEW n
    PROVE  Covered(S \cup {[addr |-> a, size |-> n]}) = Covered(S) \cup Bytes(a, n)
<1> DEFINE r == [addr |-> a, size |-> n]
           L == UNION {Bytes(m.addr, m.size) : m \in S \cup {r}}
           R == UNION {Bytes(m.addr, m.size) : m \in S}
<1>1. Bytes(r.addr, r.size) = Bytes(a, n)
  OBVIOUS
<1> HIDE DEF r
<1>2. ASSUME NEW x \in L PROVE x \in R \cup Bytes(a, n)
  <2>1. PICK m \in S \cup {r} : x \in Bytes(m.addr, m.size)
    OBVIOUS
  <2>2. CASE m = r
    BY <1>1, <2>1, <2>2
  <2>3. CASE m \in S
    <3>1. x \in R
      BY <2>1, <2>3
    <3>2. QED
      BY <3>1
  <2>4. QED
    BY <2>1, <2>2, <2>3
<1>3. ASSUME NEW x \in R PROVE x \in L
  OBVIOUS
<1>4. Bytes(r.addr, r.size) \in {Bytes(m.addr, m.size) : m \in S \cup {r}}
  OBVIOUS
<1>5. ASSUME NEW x \in Bytes(a, n) PROVE x \in L
  BY <1>1, <1>4
<1>6. L = R \cup Bytes(a, n)
  <2> HIDE DEF L, R
  <2>1. QED
    BY <1>2, <1>3, <1>5
<1>7. Covered(S \cup {r}) = Covered(S) \cup Bytes(a, n)
  BY <1>6 DEF Covered
<1>8. QED
  BY <1>7 DEF r

\* coarse_alloc, on either path, keeps the inductive invariant.
LEMMA AllocOK ==
    ASSUME ~HostMayFail, IInv, NEW size \in 0 .. (Word - 1), NEW al \in 0 .. (Word - 1), NEW caller,
           coarse_alloc(size, al, caller)
    PROVE  /\ IInv' /\ Mem \subseteq Mem' /\ (UNCHANGED live \/ NewAllocation)
           /\ caller = "user" => used_size' = used_size \/ Granted(size, EffectiveAlignment(al))
<1> DEFINE alignment == EffectiveAlignment(al)
           f == find_free_block(free_blocks, size, alignment)
<1>1. alive /\ alive' = alive
  BY DEF coarse_alloc
<1>2. alignment \in 1 .. (Word - 1) /\ alignment \in Positive /\ size \in Nat
  BY EffectiveAlignmentRange, CoarseAssumption DEF coarse_alloc, Positive
<1>3. /\ StOK(Store, Mem) /\ TypeOK /\ HoldersAreRight
      /\ \A h \in Held : ~Listed(free_blocks, h) /\ h \in DOMAIN all_blocks
  BY DEF IInv, HoldersAreRight, UsedBlocks, Held
<1>4. CASE /\ f.cur # NULL
           /\ UseBlock([Store EXCEPT !.fr = f.fr], f.cur, size, alignment, caller)
           /\ UNCHANGED <<alloc_size, mapped>>
  <2> DEFINE st == [Store EXCEPT !.fr = f.fr]
  <2> HIDE DEF alignment
  <2>1. /\ f.cur \in DOMAIN all_blocks
        /\ \/ all_blocks[f.cur].size >= size /\ f.cur % alignment = 0
           \/ all_blocks[f.cur].size >= size + alignment
        /\ FreeOK(f.fr, all_blocks)
        /\ Listed(free_blocks, f.cur)
        /\ ~Listed(f.fr, f.cur)
        /\ \A c : Listed(f.fr, c) => Listed(free_blocks, c)
    BY <1>2, <1>3, <1>4, FindFreeBlock DEF StOK, Store
  <2> HIDE DEF f
  <2>2. st = [bl |-> all_blocks, fr |-> f.fr, cuts |-> cuts]
    BY DEF Store
  <2>3. UseBlock(st, f.cur, size, alignment, caller)
    BY <1>4
  <2> HIDE DEF st
  <2>4. StOK(st, Mem) /\ Loose(st, f.cur)
    BY <1>3, <2>1, <2>2 DEF StOK, Store, Loose
  <2>5. StOK(Store', Mem) /\ (HandedNothing(st, f.cur) \/ Handed(st, f.cur, size, alignment, caller))
    <3>1. \/ st.bl[f.cur].size >= size /\ f.cur % alignment = 0
          \/ st.bl[f.cur].size >= size + alignment
      BY <2>1, <2>2
    <3>2. QED
      BY <1>2, <2>3, <2>4, <3>1, UseBlockOK
  <2>6. \A h \in Held : h # f.cur /\ h \in DOMAIN st.bl /\ st.bl[h] = all_blocks[h] /\ ~Listed(st.fr, h)
    BY <1>3, <2>1, <2>2
  <2>7. Mem' = Mem /\ mapped' = mapped /\ alloc_size' = alloc_size
    BY <1>4 DEF Mem
  <2>8. /\ HoldersAreRight'
        /\ \A h \in Held' : ~Listed(free_blocks', h)
        /\ DOMAIN adding' \subseteq Positive /\ \A h \in DOMAIN adding' : adding'[h] \in Positive
        /\ DOMAIN live' \subseteq Positive /\ \A h \in DOMAIN live' : live'[h] \in Positive
        /\ used_size \in Int => used_size' \in Int
        /\ UNCHANGED live \/ NewAllocation
        /\ caller = "user" => used_size' = used_size \/ Granted(size, alignment)
    BY <1>3, <2>5, <2>6, HoldersKept
  <2>9. TypeOK'
    BY <1>1, <1>3, <2>5, <2>7, <2>8, StoreTypes DEF TypeOK, StOK, Store, BlocksOK, FreeOK
  <2>10. QED
    BY <1>1, <2>5, <2>7, <2>8, <2>9 DEF IInv, alignment
<1>5. CASE f.cur = NULL /\ GrowAndUse(size, alignment, caller)
  <2> DEFINE n == AlignUpSafe(size, alignment)
  <2> HIDE DEF alignment, f
  <2>1. n \in Positive /\ n >= size
    <3>1. n > 0
      BY <1>5 DEF GrowAndUse
    <3>2. n = AlignUp(size, alignment)
      BY <3>1 DEF AlignUpSafe
    <3>3. QED
      BY <1>2, <3>1, <3>2, AlignUpFacts DEF Positive
  <2>2. PICK a \in {x \in Addr : x % alignment = 0 /\ Bytes(x, n) \subseteq Addr /\ Fresh(x, n)} :
           \E o \in coarse_ravl_add_new([Store EXCEPT !.cuts = @ \cup {a}], a, n, {FALSE}) :
             \/ /\ o.ok
                /\ mapped' = mapped \cup {[addr |-> a, size |-> n]}
                /\ alloc_size' = alloc_size + n
                /\ UseBlock(o.st, a, size, alignment, caller)
             \/ ~o.ok
    BY <1>5 DEF GrowAndUse
  <2> HIDE DEF n
  <2> DEFINE c == cuts \cup {a}
             back == [size |-> n, used |-> FALSE]
             bl2 == Put(all_blocks, a, back)
             st == [bl |-> bl2, fr |-> free_blocks, cuts |-> c]
             M == Mem \cup Bytes(a, n)
  <2>3. a \in Positive /\ a % alignment = 0 /\ Bytes(a, n) \cap Mem = {}
    BY <2>2, CoarseAssumption DEF Fresh, Mem, Covered
  <2>4. a \notin DOMAIN all_blocks
    <3>1. a \in Bytes(a, n)
      BY <2>1, <2>3 DEF Bytes, Positive
    <3>2. \A h \in DOMAIN all_blocks : h \in Bytes(h, all_blocks[h].size)
      BY <1>3 DEF TypeOK, Bytes, Positive
    <3>3. QED
      BY <1>3, <2>3, <3>1, <3>2 DEF StOK, Store, BlocksOK
  <2>5. PICK o \in coarse_ravl_add_new([Store EXCEPT !.cuts = @ \cup {a}], a, n, {FALSE}) :
             \/ /\ o.ok
                /\ mapped' = mapped \cup {[addr |-> a, size |-> n]}
                /\ alloc_size' = alloc_size + n
                /\ UseBlock(o.st, a, size, alignment, caller)
             \/ ~o.ok
    BY <2>2
  <2>6. o.ok /\ o.st = st
    <3>1. [Store EXCEPT !.cuts = @ \cup {a}] = [bl |-> all_blocks, fr |-> free_blocks, cuts |-> c]
      <4>1. [Store EXCEPT !.cuts = @ \cup {a}] = [Store EXCEPT !.cuts = c]
        BY DEF Store
      <4> HIDE DEF c
      <4>2. QED
        BY <4>1 DEF Store
    <3> HIDE DEF c
    <3> DEFINE g == [bl |-> all_blocks, fr |-> free_blocks, cuts |-> c]
    <3>2. o \in coarse_ravl_add_new(g, a, n, {FALSE}) /\ g.bl = all_blocks
      BY <2>5, <3>1
    <3>3. PICK block \in [size : {n}, used : {FALSE}] :
             o = [ok |-> TRUE, st |-> [g EXCEPT !.bl = Put(@, a, block)]]
      <4> HIDE DEF g
      <4>1. QED
        BY <2>4, <3>2 DEF coarse_ravl_add_new, Failing
    <3>4. block = back
      BY <3>3
    <3>5. o.ok /\ o.st = [g EXCEPT !.bl = bl2]
      BY <3>2, <3>3, <3>4
    <3> HIDE DEF bl2
    <3>6. QED
      BY <3>5
  <2>7. DOMAIN bl2 = DOMAIN all_blocks \cup {a} /\ bl2[a] = back /\ \A h \in DOMAIN all_blocks : bl2[h] = all_blocks[h]
    BY <2>4 DEF Put
  <2>8. back \in BlockRec /\ back.size = n
    BY <2>1 DEF BlockRec
  <2> HIDE DEF bl2, back
  <2>9. StOK(st, M) /\ ~Listed(free_blocks, a)
    <3>1. Store.bl = all_blocks /\ Store.fr = free_blocks /\ Store.cuts = cuts
      BY DEF Store
    <3>2. QED
      BY <1>3, <2>1, <2>3, <2>7, <2>8, <3>1, NewBlock
  <2>10. st.bl = bl2 /\ st.fr = free_blocks
    OBVIOUS
  <2> HIDE DEF st, M
  <2>11. Loose(st, a)
    BY <2>7, <2>9, <2>10 DEF Loose
  <2>12. UseBlock(st, a, size, alignment, caller) /\ alloc_size' = alloc_size + n
         /\ mapped' = mapped \cup {[addr |-> a, size |-> n]}
    BY <2>5, <2>6
  <2>13. StOK(Store', M) /\ (HandedNothing(st, a) \/ Handed(st, a, size, alignment, caller))
    <3>1. st.bl[a].size >= size /\ a % alignment = 0
      BY <2>1, <2>3, <2>7, <2>8, <2>10
    <3>2. QED
      BY <1>2, <2>9, <2>11, <2>12, <3>1, UseBlockOK
  <2>14. \A h \in Held : h # a /\ h \in DOMAIN st.bl /\ st.bl[h] = all_blocks[h] /\ ~Listed(st.fr, h)
    BY <1>3, <2>4, <2>7, <2>10
  <2>15. /\ HoldersAreRight'
         /\ \A h \in Held' : ~Listed(free_blocks', h)
         /\ DOMAIN adding' \subseteq Positive /\ \A h \in DOMAIN adding' : adding'[h] \in Positive
         /\ DOMAIN live' \subseteq Positive /\ \A h \in DOMAIN live' : live'[h] \in Positive
         /\ used_size \in Int => used_size' \in Int
         /\ UNCHANGED live \/ NewAllocation
         /\ caller = "user" => used_size' = used_size \/ Granted(size, alignment)
    BY <1>3, <2>13, <2>14, HoldersKept
  <2>16. Mem' = M
    <3>1. Mem' = Covered(mapped \cup {[addr |-> a, size |-> n]})
      BY <2>12 DEF Mem
    <3>2. QED
      BY <3>1, MemGrows DEF Mem, M
  <2>17. TypeOK'
    <3>1. mapped' \subseteq [addr : Positive, size : Positive]
      BY <1>3, <2>1, <2>3, <2>12 DEF TypeOK
    <3>2. alloc_size' \in Int
      BY <1>1, <1>3, <2>1, <2>12 DEF TypeOK, Positive
    <3>3. QED
      BY <1>1, <1>3, <2>13, <2>15, <3>1, <3>2 DEF TypeOK, StOK, Store, BlocksOK, FreeOK
  <2>18. IInv'
    BY <1>1, <2>13, <2>15, <2>16, <2>17 DEF IInv
  <2>19. QED
    BY <2>15, <2>16, <2>18 DEF M, alignment
<1>6. QED
  BY <1>4, <1>5 DEF coarse_alloc

\* coarse_free, for whoever holds block b: the others keep what they hold.
LEMMA CoarseFreeOK ==
    ASSUME ~HostMayFail, IInv, NEW b \in Held, NEW bytes, coarse_free(b, bytes)
    PROVE  /\ StOK(Store', Mem)
           /\ \A h \in Held \ {b} : /\ h \in DOMAIN all_blocks' /\ all_blocks'[h] = all_blocks[h]
                                    /\ ~Listed(free_blocks', h)
           /\ alive /\ alive' /\ used_size' \in Int /\ alloc_size' \in Int
           /\ mapped' = mapped
<1>1. /\ StOK(Store, Mem) /\ TypeOK /\ HoldersAreRight
      /\ \A h \in Held : ~Listed(free_blocks, h) /\ h \in DOMAIN all_blocks /\ all_blocks[h].used
  BY DEF IInv, HoldersAreRight, UsedBlocks, Held
<1>2. alive /\ alive' /\ b \in DOMAIN all_blocks /\ all_blocks[b] \in BlockRec /\ mapped' = mapped
  BY <1>1 DEF coarse_free, UsedBlocks, TypeOK, BlockRec
<1>3. used_size' \in Int /\ alloc_size' \in Int
  <2>1. used_size' = used_size - all_blocks[b].size /\ alloc_size' = alloc_size
    BY DEF coarse_free
  <2>2. all_blocks[b].size \in Int /\ used_size \in Int /\ alloc_size \in Int
    BY <1>1, <1>2 DEF TypeOK, BlockRec, Positive
  <2>3. QED
    BY <2>1, <2>2
<1> DEFINE back == [all_blocks[b] EXCEPT !.used = FALSE]
           bl2 == [all_blocks EXCEPT ![b] = back]
           st == [Store EXCEPT !.bl[b].used = FALSE]
<1>4. st = [bl |-> bl2, fr |-> free_blocks, cuts |-> cuts]
  <2>1. st = [Store EXCEPT !.bl = bl2]
    BY DEF Store
  <2> HIDE DEF bl2
  <2>2. QED
    BY <2>1 DEF Store
<1>5. back \in BlockRec /\ back.size = all_blocks[b].size
  BY <1>2 DEF BlockRec
<1>6. /\ DOMAIN bl2 = DOMAIN all_blocks /\ bl2[b] = back
      /\ \A h \in DOMAIN all_blocks \ {b} : bl2[h] = all_blocks[h]
  BY <1>2
<1>7. PICK r \in free_blocks_re_add(st, b) : Commit(r.st)
  BY DEF coarse_free
<1> HIDE DEF back, bl2, st
<1>8. StOK(st, Mem) /\ Loose(st, b)
  <2>1. Store.bl = all_blocks /\ Store.fr = free_blocks /\ Store.cuts = cuts
    BY DEF Store
  <2>2. StOK(st, Mem)
    BY <1>1, <1>2, <1>4, <1>5, <1>6, <2>1, Marked
  <2>3. QED
    BY <1>1, <1>2, <1>4, <1>6, <2>2 DEF Loose
<1>9. StOK(r.st, Mem) /\ Keeps(st, r.st, b, b)
  BY <1>8, ReAdd
<1>10. Store' = r.st
  BY <1>7, <1>9 DEF Commit, Store, StOK
<1>11. StOK(Store', Mem) /\ Keeps(st, Store', b, b)
  BY <1>9, <1>10
<1>12. Store'.bl = all_blocks' /\ Store'.fr = free_blocks'
  BY DEF Store
<1>13. ASSUME NEW h \in Held \ {b}
       PROVE  h \in DOMAIN all_blocks' /\ all_blocks'[h] = all_blocks[h] /\ ~Listed(free_blocks', h)
  <2>1. st.bl = bl2 /\ st.fr = free_blocks
    BY <1>4
  <2>2. h \in DOMAIN st.bl \ {b} /\ st.bl[h] = all_blocks[h] /\ st.bl[h].used /\ ~Listed(st.fr, h)
    BY <1>1, <1>6, <2>1
  <2>3. QED
    BY <1>11, <1>12, <2>2 DEF Keeps
<1>14. QED
  BY <1>2, <1>3, <1>11, <1>13

\* coarse_free, as the user calls it, keeps the inductive invariant.
LEMMA FreeStep ==
    ASSUME ~HostMayFail, IInv, NEW b \in DOMAIN live, free(b)
    PROVE  IInv' /\ live' = Drop(live, b) /\ mapped' = mapped
<1>1. b \in Held /\ coarse_free(b, live[b]) /\ live' = Drop(live, b) /\ adding' = adding
  BY DEF Held, free
<1>2. /\ StOK(Store', Mem)
      /\ \A h \in Held \ {b} : /\ h \in DOMAIN all_blocks' /\ all_blocks'[h] = all_blocks[h]
                               /\ ~Listed(free_blocks', h)
      /\ alive /\ alive' /\ used_size' \in Int /\ alloc_size' \in Int
      /\ mapped' = mapped
  BY <1>1, CoarseFreeOK
<1>3. /\ DOMAIN live' = DOMAIN live \ {b} /\ \A h \in DOMAIN live \ {b} : live'[h] = live[h]
  BY <1>1 DEF Drop
<1>4. Mem' = Mem
  BY <1>2 DEF Mem
<1>5. HoldersAreRight'
  BY <1>1, <1>2, <1>3 DEF IInv, HoldersAreRight, Held, UsedBlocks
<1>6. \A h \in Held' : ~Listed(free_blocks', h)
  BY <1>1, <1>2, <1>3 DEF Held, IInv, HoldersAreRight
<1>7. TypeOK'
  BY <1>1, <1>2, <1>3 DEF IInv, TypeOK, StOK, Store, BlocksOK, FreeOK
<1>8. QED
  BY <1>1, <1>2, <1>4, <1>5, <1>6, <1>7 DEF IInv

\* The last step of coarse_add_memory_fixed keeps the inductive invariant.
LEMMA FinishStep ==
    ASSUME ~HostMayFail, IInv, NEW b \in DOMAIN adding, coarse_add_memory_finish(b)
    PROVE  IInv' /\ UNCHANGED <<live, mapped>>
<1>1. b \in Held /\ coarse_free(b, adding[b]) /\ adding' = Drop(adding, b) /\ live' = live
  BY DEF Held, coarse_add_memory_finish
<1>2. /\ StOK(Store', Mem)
      /\ \A h \in Held \ {b} : /\ h \in DOMAIN all_blocks' /\ all_blocks'[h] = all_blocks[h]
                               /\ ~Listed(free_blocks', h)
      /\ alive /\ alive' /\ used_size' \in Int /\ alloc_size' \in Int
      /\ mapped' = mapped
  BY <1>1, CoarseFreeOK
<1>3. /\ DOMAIN adding' = DOMAIN adding \ {b} /\ \A h \in DOMAIN adding \ {b} : adding'[h] = adding[h]
  BY <1>1 DEF Drop
<1>4. Mem' = Mem
  BY <1>2 DEF Mem
<1>5. HoldersAreRight'
  BY <1>1, <1>2, <1>3 DEF IInv, HoldersAreRight, Held, UsedBlocks
<1>6. \A h \in Held' : ~Listed(free_blocks', h)
  BY <1>1, <1>2, <1>3 DEF Held, IInv, HoldersAreRight
<1>7. TypeOK'
  BY <1>1, <1>2, <1>3 DEF IInv, TypeOK, StOK, Store, BlocksOK, FreeOK
<1>8. QED
  BY <1>1, <1>2, <1>4, <1>5, <1>6, <1>7 DEF IInv

\* coarse_delete keeps the inductive invariant.
LEMMA DeleteStep ==
    ASSUME IInv, coarse_delete
    PROVE  IInv' /\ live' = NoBlocks /\ mapped' = {}
<1>1. /\ ~alive' /\ all_blocks' = NoBlocks /\ free_blocks' = NoBlocks /\ mapped' = {}
      /\ live' = NoBlocks /\ adding' = NoBlocks
  BY DEF coarse_delete
<1>2. DOMAIN NoBlocks = {}
  BY DEF NoBlocks
<1>3. cuts' = {}
  BY StoreTypes DEF coarse_delete, IInv
<1>4. Mem' = {}
  BY <1>1 DEF Mem, Covered
<1>5. StOK(Store', Mem')
  BY <1>1, <1>2, <1>3, <1>4 DEF StOK, Store, BlocksOK, FreeOK
<1>6. alive' = FALSE
  BY DEF coarse_delete
<1>7. TypeOK'
  BY <1>1, <1>2, <1>3, <1>6 DEF TypeOK
<1>8. HoldersAreRight' /\ Held' = {}
  BY <1>1, <1>2 DEF HoldersAreRight, Held
<1>9. QED
  BY <1>1, <1>5, <1>7, <1>8 DEF IInv

\* A new instance after coarse_delete satisfies the inductive invariant.
LEMMA NewStep ==
    ASSUME IInv, coarse_new
    PROVE  IInv' /\ UNCHANGED <<live, mapped>>
<1>1. /\ ~alive /\ alive' = TRUE /\ all_blocks' = NoBlocks /\ free_blocks' = NoBlocks /\ mapped' = {}
      /\ live' = live /\ adding' = adding /\ cuts' = {} /\ used_size' = 0 /\ alloc_size' = 0
  BY DEF coarse_new
<1>2. DOMAIN NoBlocks = {}
  BY DEF NoBlocks
<1>3. all_blocks = NoBlocks /\ mapped = {}
  BY <1>1 DEF IInv
<1>4. Mem' = {}
  BY <1>1 DEF Mem, Covered
<1>5. StOK(Store', Mem')
  BY <1>1, <1>2, <1>4 DEF StOK, Store, BlocksOK, FreeOK
<1>6. TypeOK'
  BY <1>1, <1>2 DEF TypeOK, IInv
<1>7. DOMAIN live = {} /\ DOMAIN adding = {}
  BY <1>2, <1>3 DEF IInv, HoldersAreRight, UsedBlocks
<1>8. HoldersAreRight' /\ Held' = {}
  BY <1>1, <1>7 DEF HoldersAreRight, Held
<1>9. QED
  BY <1>1, <1>3, <1>5, <1>6, <1>8 DEF IInv
=============================================================================
