-------------------------- MODULE CoarseStoreProofs --------------------------
(***************************************************************************)
(* What the helpers of coarse.c keep of a store (the tree of all blocks    *)
(* and the tree of free blocks): the blocks stay a partition of the memory *)
(* the provider gave, and the free tree lists blocks under their own size. *)
(***************************************************************************)
EXTENDS Coarse, SequenceTheorems, TLAPS

-----------------------------------------------------------------------------
(* Arithmetic and sequences.                                               *)

\* ALIGN_UP rounds up by less than one alignment and keeps a multiple.
LEMMA AlignUpFacts ==
    ASSUME NEW v \in Nat, NEW a \in Positive
    PROVE  /\ AlignUp(v, a) \in Nat
           /\ v <= AlignUp(v, a)
           /\ AlignUp(v, a) < v + a
           /\ v % a = 0 => AlignUp(v, a) = v
  BY SMTT(20) DEF AlignUp, Positive

\* find_free_block's overflow check: a sum that did not wrap is the real sum.
LEMMA SizeAddFacts ==
    ASSUME NEW a \in 0 .. (Word - 1), NEW b \in 0 .. (Word - 1), SizeAdd(a, b) >= a, b > 0
    PROVE  SizeAdd(a, b) = a + b
  BY CoarseAssumption, SMTT(20) DEF SizeAdd, Positive

\* node_list_rm takes exactly the element at i out of the list.
LEMMA UnlinkFacts ==
    ASSUME NEW S, NEW s \in Seq(S), NEW i \in 1 .. Len(s)
    PROVE  /\ Unlink(s, i) \in Seq(S)
           /\ Len(Unlink(s, i)) = Len(s) - 1
           /\ \A j \in 1 .. (Len(s) - 1) :
                 Unlink(s, i)[j] = IF j < i THEN s[j] ELSE s[j + 1]
<1> DEFINE a == SubSeq(s, 1, i - 1)
           b == SubSeq(s, i + 1, Len(s))
<1>1. Len(s) \in Nat /\ i \in Int /\ \A j \in 1 .. Len(s) : s[j] \in S
  BY LenProperties, ElementOfSeq
<1>2. /\ a \in Seq(S) /\ Len(a) = i - 1
      /\ \A j \in 1 .. (i - 1) : a[j] = s[j]
  <2>1. \A j \in 1 .. (i - 1) : s[j] \in S
    BY <1>1
  <2>2. QED
    BY <1>1, <2>1, SubSeqProperties
<1>3. /\ b \in Seq(S) /\ Len(b) = Len(s) - i
      /\ \A j \in 1 .. (Len(s) - i) : b[j] = s[i + j]
  <2>1. \A j \in (i + 1) .. Len(s) : s[j] \in S
    BY <1>1
  <2>2. /\ b \in Seq(S) /\ Len(b) = IF i + 1 <= Len(s) THEN Len(s) - (i + 1) + 1 ELSE 0
        /\ \A j \in 1 .. (Len(s) - (i + 1) + 1) : b[j] = s[(i + 1) + j - 1]
    BY <1>1, <2>1, SubSeqProperties
  <2>3. QED
    BY <1>1, <2>2
<1> HIDE DEF a, b
<1>4. /\ a \o b \in Seq(S)
      /\ Len(a \o b) = Len(a) + Len(b)
      /\ \A j \in 1 .. (Len(a) + Len(b)) :
            (a \o b)[j] = IF j <= Len(a) THEN a[j] ELSE b[j - Len(a)]
  BY <1>2, <1>3, ConcatProperties
<1>5. Unlink(s, i) = a \o b
  BY DEF Unlink, a, b
<1>6. Len(a) + Len(b) = Len(s) - 1
  BY <1>1, <1>2, <1>3
<1>7. ASSUME NEW j \in 1 .. (Len(s) - 1)
      PROVE  (a \o b)[j] = IF j < i THEN s[j] ELSE s[j + 1]
  <2>1. CASE j < i
    BY <1>1, <1>2, <1>4, <1>6, <2>1
  <2>2. CASE ~(j < i)
    <3>1. j - Len(a) \in 1 .. (Len(s) - i) /\ ~(j <= Len(a))
      BY <1>1, <1>2, <2>2
    <3>2. (a \o b)[j] = b[j - Len(a)]
      BY <1>4, <1>6, <3>1
    <3>3. b[j - Len(a)] = s[i + (j - Len(a))] /\ i + (j - Len(a)) = j + 1
      BY <1>1, <1>2, <1>3, <3>1
    <3>4. QED
      BY <2>2, <3>2, <3>3
  <2>3. QED
    BY <2>1, <2>2
<1>8. QED
  BY <1>4, <1>5, <1>6, <1>7

\* node_list_add puts the new element in front and shifts the others.
LEMMA ListAddFacts ==
    ASSUME NEW S, NEW s \in Seq(S), NEW e \in S
    PROVE  /\ node_list_add(s, e) \in Seq(S)
           /\ Len(node_list_add(s, e)) = Len(s) + 1
           /\ \A j \in 1 .. (Len(s) + 1) : node_list_add(s, e)[j] = IF j = 1 THEN e ELSE s[j - 1]
  BY SMTT(20) DEF node_list_add

-----------------------------------------------------------------------------
(* What the helpers keep of a store.                                       *)

\* Block b is in one of the free lists.
Listed(fr, b) == \E k \in DOMAIN fr : \E i \in 1 .. Len(fr[k]) : fr[k][i] = b

\* The blocks are disjoint and are together the memory M.
BlocksOK(bl, M) ==
    /\ DOMAIN bl \subseteq Positive
    /\ \A b \in DOMAIN bl : bl[b] \in [size : Positive, used : BOOLEAN]
    /\ \A b, c \in DOMAIN bl : b < c => b + bl[b].size <= c
    /\ \A b \in DOMAIN bl : Bytes(b, bl[b].size) \subseteq M
    /\ \A x \in M : \E b \in DOMAIN bl : x \in Bytes(b, bl[b].size)

\* The free lists hold existing blocks under their sizes, none of them twice.
FreeOK(fr, bl) ==
    /\ DOMAIN fr \subseteq Positive
    /\ \A k \in DOMAIN fr : fr[k] \in Seq(Positive)
    /\ \A k \in DOMAIN fr : \A i \in 1 .. Len(fr[k]) :
          fr[k][i] \in DOMAIN bl /\ bl[fr[k][i]].size = k
    /\ \A k \in DOMAIN fr : \A i, j \in 1 .. Len(fr[k]) : fr[k][i] = fr[k][j] => i = j

StOK(st, M) ==
    /\ st = [bl |-> st.bl, fr |-> st.fr, cuts |-> st.cuts]
    /\ BlocksOK(st.bl, M)
    /\ FreeOK(st.fr, st.bl)
    /\ st.cuts = DOMAIN st.bl

\* A block that is in no free list, as the one coarse_alloc is working on.
Loose(st, b) == b \in DOMAIN st.bl /\ ~Listed(st.fr, b)

\* From st to st2, where the working block goes from b to c, the blocks that
\* somebody else may hold are left alone.
Keeps(st, st2, b, c) ==
    \A h \in DOMAIN st.bl \ {b} :
        st.bl[h].used /\ ~Listed(st.fr, h) =>
            h \in DOMAIN st2.bl /\ st2.bl[h] = st.bl[h] /\ ~Listed(st2.fr, h) /\ h # c

\* The free blocks tree only depends on the sizes of the blocks it lists.
LEMMA FreeOKFrame ==
    ASSUME NEW fr, NEW bl, NEW bl2, FreeOK(fr, bl),
           \A b \in DOMAIN bl : Listed(fr, b) => b \in DOMAIN bl2 /\ bl2[b].size = bl[b].size
    PROVE  FreeOK(fr, bl2)
  BY DEF FreeOK, Listed

\* node_list_rm keeps the tree exact and unlists the one block.
LEMMA NodeListRm ==
    ASSUME NEW fr, NEW bl, FreeOK(fr, bl),
           NEW k \in DOMAIN fr, NEW i \in 1 .. Len(fr[k])
    PROVE  /\ FreeOK(node_list_rm(fr, k, i), bl)
           /\ ~Listed(node_list_rm(fr, k, i), fr[k][i])
           /\ \A b : Listed(node_list_rm(fr, k, i), b) => Listed(fr, b)
<1> DEFINE l == Unlink(fr[k], i)
           fr2 == node_list_rm(fr, k, i)
<1>1. fr[k] \in Seq(Positive) /\ Len(fr[k]) \in Nat
  BY DEF FreeOK
<1>2. /\ l \in Seq(Positive) /\ Len(l) = Len(fr[k]) - 1
      /\ \A j \in 1 .. (Len(fr[k]) - 1) : l[j] = IF j < i THEN fr[k][j] ELSE fr[k][j + 1]
  BY <1>1, UnlinkFacts
<1> HIDE DEF l
<1> DEFINE at(j) == IF j < i THEN j ELSE j + 1
<1>3. \A j \in 1 .. Len(l) : at(j) \in 1 .. Len(fr[k]) /\ at(j) # i /\ l[j] = fr[k][at(j)]
  BY <1>1, <1>2
<1>4. \A j \in 1 .. Len(l) : l[j] # fr[k][i]
  BY <1>3 DEF FreeOK
<1>5. \A j, m \in 1 .. Len(l) : l[j] = l[m] => j = m
  BY <1>1, <1>2, <1>3 DEF FreeOK
<1>6. fr2 = IF l = <<>> THEN Drop(fr, k) ELSE Put(fr, k, l)
  BY DEF node_list_rm, l
<1> HIDE DEF fr2
<1>7. /\ DOMAIN fr2 \subseteq DOMAIN fr
      /\ \A q \in DOMAIN fr2 : q # k => fr2[q] = fr[q]
      /\ k \in DOMAIN fr2 => fr2[k] = l
  BY <1>6 DEF Drop, Put
<1>8. FreeOK(fr2, bl)
  <2>1. DOMAIN fr2 \subseteq Positive /\ \A q \in DOMAIN fr2 : fr2[q] \in Seq(Positive)
    BY <1>2, <1>7 DEF FreeOK
  <2>2. ASSUME NEW q \in DOMAIN fr2, NEW m \in 1 .. Len(fr2[q])
        PROVE  fr2[q][m] \in DOMAIN bl /\ bl[fr2[q][m]].size = q
    BY <1>3, <1>7 DEF FreeOK
  <2>3. ASSUME NEW q \in DOMAIN fr2, NEW m \in 1 .. Len(fr2[q]), NEW j \in 1 .. Len(fr2[q]),
               fr2[q][m] = fr2[q][j]
        PROVE  m = j
    BY <1>5, <1>7, <2>3 DEF FreeOK
  <2>4. QED
    BY <2>1, <2>2, <2>3 DEF FreeOK
<1>9. ~Listed(fr2, fr[k][i])
  BY <1>4, <1>7 DEF Listed, FreeOK
<1>10. \A b : Listed(fr2, b) => Listed(fr, b)
  BY <1>3, <1>7 DEF Listed
<1>11. QED
  BY <1>8, <1>9, <1>10 DEF fr2

\* free_blocks_add keeps the tree exact and lists the one block.
LEMMA FreeBlocksAdd ==
    ASSUME ~HostMayFail,
           NEW fr, NEW bl, FreeOK(fr, bl),
           NEW b \in DOMAIN bl, b \in Positive, bl[b].size \in Positive, ~Listed(fr, b),
           NEW o \in free_blocks_add(fr, b, bl[b].size)
    PROVE  /\ o.ok
           /\ FreeOK(o.fr, bl)
           /\ \A c : Listed(o.fr, c) => c = b \/ Listed(fr, c)
<1> DEFINE k == bl[b].size
           l == IF k \in DOMAIN fr THEN fr[k] ELSE <<>>
           n == node_list_add(l, b)
<1>1. o = [ok |-> TRUE, fr |-> Put(fr, k, n)]
  BY DEF free_blocks_add, Failing
<1>2. /\ l \in Seq(Positive) /\ Len(l) \in Nat
      /\ k \notin DOMAIN fr => Len(l) = 0
      /\ k \in DOMAIN fr => l = fr[k]
  BY DEF FreeOK
<1> HIDE DEF l
<1>3. /\ n \in Seq(Positive) /\ Len(n) = Len(l) + 1
      /\ \A j \in 1 .. (Len(l) + 1) : n[j] = IF j = 1 THEN b ELSE l[j - 1]
  BY <1>2, ListAddFacts
<1>4. \A j \in 1 .. Len(l) : l[j] \in DOMAIN bl /\ bl[l[j]].size = k /\ l[j] # b /\ Listed(fr, l[j])
  BY <1>2 DEF FreeOK, Listed
<1>5. \A i, j \in 1 .. Len(l) : l[i] = l[j] => i = j
  BY <1>2 DEF FreeOK
<1> HIDE DEF n
<1>6. ASSUME NEW j \in 1 .. Len(n)
      PROVE  \/ j = 1 /\ n[j] = b
             \/ j - 1 \in 1 .. Len(l) /\ n[j] = l[j - 1]
  BY <1>2, <1>3
<1>7. /\ o.ok /\ DOMAIN o.fr = DOMAIN fr \cup {k}
      /\ o.fr[k] = n
      /\ \A q \in DOMAIN fr : q # k => o.fr[q] = fr[q]
  BY <1>1 DEF Put
<1> HIDE DEF k
<1>k. k = bl[b].size /\ k \in Positive
  BY DEF k
<1>8. FreeOK(o.fr, bl)
  <2>1. DOMAIN o.fr \subseteq Positive /\ \A q \in DOMAIN o.fr : o.fr[q] \in Seq(Positive)
    BY <1>3, <1>7, <1>k DEF FreeOK
  <2>2. ASSUME NEW q \in DOMAIN o.fr, NEW m \in 1 .. Len(o.fr[q])
        PROVE  o.fr[q][m] \in DOMAIN bl /\ bl[o.fr[q][m]].size = q
    <3>1. CASE q = k
      <4>1. m \in 1 .. Len(n) /\ o.fr[q][m] = n[m]
        BY <1>7, <3>1
      <4>2. QED
        BY <1>4, <1>6, <1>k, <3>1, <4>1
    <3>2. CASE q # k
      BY <1>7, <3>2 DEF FreeOK
    <3>3. QED
      BY <3>1, <3>2
  <2>3. ASSUME NEW q \in DOMAIN o.fr, NEW m \in 1 .. Len(o.fr[q]), NEW j \in 1 .. Len(o.fr[q]),
               o.fr[q][m] = o.fr[q][j]
        PROVE  m = j
    <3>1. CASE q = k
      <4>1. n[m] = n[j] /\ m \in 1 .. Len(n) /\ j \in 1 .. Len(n)
        BY <1>7, <2>3, <3>1
      <4>2. CASE m = 1 /\ n[m] = b
        BY <1>4, <1>6, <4>1, <4>2
      <4>3. CASE m - 1 \in 1 .. Len(l) /\ n[m] = l[m - 1]
        <5>1. j - 1 \in 1 .. Len(l) /\ n[j] = l[j - 1]
          BY <1>4, <1>6, <4>1, <4>3
        <5>2. m - 1 = j - 1
          BY <1>5, <4>1, <4>3, <5>1
        <5>3. QED
          BY <4>1, <5>2, <1>3, <1>2
      <4>4. QED
        BY <1>6, <4>1, <4>2, <4>3
    <3>2. CASE q # k
      BY <1>7, <2>3, <3>2 DEF FreeOK
    <3>3. QED
      BY <3>1, <3>2
  <2>4. QED
    BY <2>1, <2>2, <2>3 DEF FreeOK
<1>9. ASSUME NEW c, Listed(o.fr, c)
      PROVE  c = b \/ Listed(fr, c)
  <2>1. PICK q \in DOMAIN o.fr : \E i \in 1 .. Len(o.fr[q]) : o.fr[q][i] = c
    BY <1>9 DEF Listed
  <2>2. CASE q = k
    BY <1>4, <1>6, <1>7, <2>1, <2>2
  <2>3. CASE q # k
    BY <1>7, <2>1, <2>3 DEF Listed
  <2>4. QED
    BY <2>2, <2>3
<1>10. QED
  BY <1>7, <1>8, <1>9

\* free_blocks_rm_node leaves a tree in which the block is not listed.
LEMMA FreeBlocksRmNode ==
    ASSUME NEW fr, NEW bl, FreeOK(fr, bl), NEW b \in DOMAIN bl
    PROVE  LET fr2 == free_blocks_rm_node(fr, b, bl[b].size)
           IN  /\ FreeOK(fr2, bl)
               /\ ~Listed(fr2, b)
               /\ \A c : Listed(fr2, c) => Listed(fr, c)
<1> DEFINE k == bl[b].size
<1>1. \A q \in DOMAIN fr : fr[q] \in Seq(Positive) /\ DOMAIN fr[q] = 1 .. Len(fr[q])
  BY DEF FreeOK
<1>2. CASE k \in DOMAIN fr /\ \E i \in DOMAIN fr[k] : fr[k][i] = b
  <2> DEFINE i == CHOOSE i \in DOMAIN fr[k] : fr[k][i] = b
  <2>1. i \in 1 .. Len(fr[k]) /\ fr[k][i] = b
    BY <1>1, <1>2
  <2>2. free_blocks_rm_node(fr, b, k) = node_list_rm(fr, k, i)
    BY <1>2 DEF free_blocks_rm_node
  <2> HIDE DEF i
  <2>3. QED
    BY <1>2, <2>1, <2>2, NodeListRm
<1>3. CASE ~(k \in DOMAIN fr /\ \E i \in DOMAIN fr[k] : fr[k][i] = b)
  <2>1. free_blocks_rm_node(fr, b, k) = fr
    BY <1>3 DEF free_blocks_rm_node
  <2>2. ~Listed(fr, b)
    BY <1>1, <1>3 DEF Listed, FreeOK
  <2>3. QED
    BY <2>1, <2>2
<1>4. QED
  BY <1>2, <1>3

\* free_blocks_rm_ge returns a listed block of at least the size it is asked for.
LEMMA FreeBlocksRmGe ==
    ASSUME NEW fr, NEW bl, FreeOK(fr, bl), NEW n \in Nat, NEW alignment \in Nat, NEW check,
           free_blocks_rm_ge(fr, n, alignment, check).cur # NULL
    PROVE  LET r == free_blocks_rm_ge(fr, n, alignment, check)
           IN  /\ r.cur \in DOMAIN bl
               /\ bl[r.cur].size >= n
               /\ IsAligned(r.cur, alignment)
               /\ FreeOK(r.fr, bl)
               /\ Listed(fr, r.cur)
               /\ ~Listed(r.fr, r.cur)
               /\ \A c : Listed(r.fr, c) => Listed(fr, c)
<1> DEFINE k == ravl_find_ge(fr, n)
           C == Candidates(fr[k], alignment, check)
           i == CHOOSE i \in C : TRUE
           r == free_blocks_rm_ge(fr, n, alignment, check)
<1>1. k # NULL /\ C # {} /\ r = [fr |-> node_list_rm(fr, k, i), cur |-> fr[k][i]]
  BY DEF free_blocks_rm_ge
<1>2. k \in DOMAIN fr /\ k >= n
  <2> DEFINE Least(m) == m >= n /\ \A j \in DOMAIN fr : j >= n => j >= m
  <2>1. \E m \in DOMAIN fr : Least(m)
    BY <1>1 DEF ravl_find_ge
  <2>2. k = CHOOSE m \in DOMAIN fr : Least(m)
    BY <2>1 DEF ravl_find_ge
  <2>3. QED
    BY <2>1, <2>2
<1> HIDE DEF k
<1>3. i \in C
  BY <1>1
<1>4. i \in 1 .. Len(fr[k]) /\ IsAligned(fr[k][i], alignment)
  BY <1>2, <1>3 DEF Candidates, FreeOK
<1> HIDE DEF i, C, r
<1>5. r.cur = fr[k][i] /\ r.fr = node_list_rm(fr, k, i)
  BY <1>1
<1>6. /\ FreeOK(r.fr, bl) /\ ~Listed(r.fr, r.cur)
      /\ \A c : Listed(r.fr, c) => Listed(fr, c)
  BY <1>2, <1>4, <1>5, NodeListRm
<1>7. r.cur \in DOMAIN bl /\ bl[r.cur].size = k
  BY <1>2, <1>4, <1>5 DEF FreeOK
<1>8. Listed(fr, r.cur)
  BY <1>2, <1>4, <1>5 DEF Listed
<1>9. QED
  BY <1>2, <1>4, <1>5, <1>6, <1>7, <1>8 DEF r

\* The block found is large enough, also for the padding its alignment needs.
LEMMA FindFreeBlock ==
    ASSUME NEW fr, NEW bl, FreeOK(fr, bl),
           NEW size \in 0 .. (Word - 1), NEW alignment \in 1 .. (Word - 1),
           find_free_block(fr, size, alignment).cur # NULL
    PROVE  LET r == find_free_block(fr, size, alignment)
           IN  /\ r.cur \in DOMAIN bl
               /\ \/ bl[r.cur].size >= size /\ r.cur % alignment = 0
                  \/ bl[r.cur].size >= size + alignment
               /\ FreeOK(r.fr, bl)
               /\ Listed(fr, r.cur)
               /\ ~Listed(r.fr, r.cur)
               /\ \A c : Listed(r.fr, c) => Listed(fr, c)
<1> DEFINE n == SizeAdd(size, alignment)
           fast == IF n < size THEN [fr |-> fr, cur |-> NULL]
                   ELSE free_blocks_rm_ge(fr, n, 0, "ONLY_THE_FIRST")
           check == IF Strategy = "CHECK_ALL_SIZE" THEN "ALL_BLOCKS" ELSE "ONLY_THE_FIRST"
           exact == free_blocks_rm_ge(fr, size, alignment, check)
           r == find_free_block(fr, size, alignment)
<1>0. Word \in Nat /\ size \in Nat /\ alignment \in Nat /\ alignment > 0 /\ n \in Nat
  BY CoarseAssumption DEF Positive, SizeAdd
<1>1. r = fast \/ (r = exact /\ exact.cur # NULL)
  BY DEF find_free_block
<1>2. CASE r = exact /\ exact.cur # NULL
  <2>1. /\ r.cur \in DOMAIN bl /\ bl[r.cur].size >= size /\ IsAligned(r.cur, alignment)
        /\ FreeOK(r.fr, bl) /\ Listed(fr, r.cur) /\ ~Listed(r.fr, r.cur)
        /\ \A c : Listed(r.fr, c) => Listed(fr, c)
    BY <1>0, <1>2, FreeBlocksRmGe
  <2>2. r.cur % alignment = 0
    BY <1>0, <2>1 DEF IsAligned
  <2>3. QED
    BY <2>1, <2>2
<1>3. CASE r = fast
  <2>1. ~(n < size) /\ r = free_blocks_rm_ge(fr, n, 0, "ONLY_THE_FIRST")
    BY <1>3
  <2>2. n = size + alignment
    BY <1>0, <2>1, SizeAddFacts, CoarseAssumption DEF Positive
  <2> HIDE DEF n
  <2>3. /\ r.cur \in DOMAIN bl /\ bl[r.cur].size >= n
        /\ FreeOK(r.fr, bl) /\ Listed(fr, r.cur) /\ ~Listed(r.fr, r.cur)
        /\ \A c : Listed(r.fr, c) => Listed(fr, c)
    BY <1>0, <2>1, FreeBlocksRmGe
  <2>4. QED
    BY <2>2, <2>3
<1>4. QED
  BY <1>1, <1>2, <1>3

\* In st2 the blocks lo and hi of st are one block, loose, and the rest is as it was.
Joined(st, st2, lo, hi) ==
    /\ DOMAIN st2.bl = DOMAIN st.bl \ {hi}
    /\ lo \in DOMAIN st2.bl /\ lo # hi
    /\ st2.bl[lo] = [size |-> st.bl[lo].size + st.bl[hi].size, used |-> st.bl[lo].used]
    /\ \A h \in DOMAIN st2.bl \ {lo} : st2.bl[h] = st.bl[h]
    /\ ~Listed(st2.fr, lo)
    /\ \A c : Listed(st2.fr, c) => Listed(st.fr, c)

\* Merging two neighbours keeps the blocks a partition of the memory.
LEMMA JoinBlocksOK ==
    ASSUME NEW st, NEW M, StOK(st, M), NEW lo \in DOMAIN st.bl, NEW hi \in DOMAIN st.bl,
           lo + st.bl[lo].size = hi
    PROVE  /\ StOK(JoinBlocks(st, lo, hi), M)
           /\ Joined(st, JoinBlocks(st, lo, hi), lo, hi)
<1> DEFINE bl == st.bl
           sum == bl[lo].size + bl[hi].size
           bl2 == Put(Drop(bl, hi), lo, [bl[lo] EXCEPT !.size = @ + bl[hi].size])
           fr1 == free_blocks_rm_node(st.fr, lo, bl[lo].size)
           fr2 == free_blocks_rm_node(fr1, hi, bl[hi].size)
           st2 == JoinBlocks(st, lo, hi)
<1>1. st2 = [bl |-> bl2, fr |-> fr2, cuts |-> st.cuts \ {hi}]
  BY DEF JoinBlocks
<1>2. /\ lo \in Positive /\ hi \in Positive /\ lo < hi
      /\ bl[lo] \in [size : Positive, used : BOOLEAN]
      /\ bl[hi] \in [size : Positive, used : BOOLEAN]
  BY DEF StOK, BlocksOK, Positive
<1>3. /\ DOMAIN bl2 = DOMAIN bl \ {hi}
      /\ bl2[lo] = [size |-> sum, used |-> bl[lo].used]
      /\ \A h \in DOMAIN bl2 \ {lo} : bl2[h] = bl[h]
  <2>1. lo \in DOMAIN bl \ {hi}
    BY <1>2 DEF Positive
  <2>2. DOMAIN bl2 = DOMAIN bl \ {hi}
    BY <2>1 DEF Put, Drop
  <2>3. bl2[lo] = [bl[lo] EXCEPT !.size = @ + bl[hi].size]
    BY <2>1 DEF Put, Drop
  <2>4. \A h \in DOMAIN bl2 \ {lo} : bl2[h] = bl[h]
    BY <2>1, <2>2 DEF Put, Drop
  <2>5. QED
    BY <1>2, <2>2, <2>3, <2>4
<1>4. /\ FreeOK(fr1, bl) /\ ~Listed(fr1, lo)
      /\ \A c : Listed(fr1, c) => Listed(st.fr, c)
  BY FreeBlocksRmNode DEF StOK
<1> HIDE DEF fr1
<1>5. /\ FreeOK(fr2, bl) /\ ~Listed(fr2, lo) /\ ~Listed(fr2, hi)
      /\ \A c : Listed(fr2, c) => Listed(st.fr, c)
  BY <1>4, FreeBlocksRmNode
<1> HIDE DEF fr2, bl2
<1>6. FreeOK(fr2, bl2)
  BY <1>3, <1>5, FreeOKFrame
<1>7. BlocksOK(bl2, M)
  <2>1. DOMAIN bl2 \subseteq Positive
    BY <1>3 DEF StOK, BlocksOK
  <2>2. \A b \in DOMAIN bl2 : bl2[b] \in [size : Positive, used : BOOLEAN]
    BY <1>2, <1>3 DEF StOK, BlocksOK, Positive
  <2>3. ASSUME NEW b \in DOMAIN bl2, NEW c \in DOMAIN bl2, b < c
        PROVE  b + bl2[b].size <= c
    <3>1. CASE b = lo
      <4>1. c \in DOMAIN bl /\ c # hi /\ c # lo /\ c \in Positive
        BY <1>2, <1>3, <2>1, <2>3, <3>1 DEF Positive
      <4>2. lo + bl[lo].size <= c
        BY <2>3, <3>1, <4>1 DEF StOK, BlocksOK
      <4>3. hi < c
        BY <1>2, <4>1, <4>2 DEF Positive
      <4>4. hi + bl[hi].size <= c
        BY <4>1, <4>3 DEF StOK, BlocksOK
      <4>5. QED
        BY <1>2, <1>3, <3>1, <4>1, <4>4 DEF Positive
    <3>2. CASE b # lo
      BY <1>3, <2>3, <3>2 DEF StOK, BlocksOK
    <3>3. QED
      BY <3>1, <3>2
  <2>4. ASSUME NEW b \in DOMAIN bl2
        PROVE  Bytes(b, bl2[b].size) \subseteq M
    <3>1. CASE b = lo
      <4>1. Bytes(lo, sum) \subseteq Bytes(lo, bl[lo].size) \cup Bytes(hi, bl[hi].size)
        BY <1>2 DEF Bytes, Positive
      <4>2. QED
        BY <1>3, <3>1, <4>1 DEF StOK, BlocksOK
    <3>2. CASE b # lo
      BY <1>3, <3>2 DEF StOK, BlocksOK
    <3>3. QED
      BY <3>1, <3>2
  <2>5. ASSUME NEW x \in M
        PROVE  \E b \in DOMAIN bl2 : x \in Bytes(b, bl2[b].size)
    <3>1. PICK b \in DOMAIN bl : x \in Bytes(b, bl[b].size)
      BY DEF StOK, BlocksOK
    <3>2. CASE b \in {lo, hi}
      <4>1. x \in Bytes(lo, sum)
        BY <1>2, <3>1, <3>2 DEF Bytes, Positive
      <4>2. QED
        BY <1>2, <1>3, <4>1 DEF Positive
    <3>3. CASE b \notin {lo, hi}
      BY <1>3, <3>1, <3>3
    <3>4. QED
      BY <3>2, <3>3
  <2>6. QED
    BY <2>1, <2>2, <2>3, <2>4, <2>5 DEF BlocksOK
<1>8. StOK(st2, M)
  BY <1>1, <1>3, <1>6, <1>7 DEF StOK
<1>9. Joined(st, st2, lo, hi)
  BY <1>1, <1>2, <1>3, <1>5 DEF Positive, Joined
<1>10. QED
  BY <1>8, <1>9

\* get_node_prev returns a registered block.
LEMMA NodePrev ==
    ASSUME NEW bl, NEW b, get_node_prev(bl, b) # NULL
    PROVE  get_node_prev(bl, b) \in DOMAIN bl
  BY DEF get_node_prev

\* get_node_next returns a registered block.
LEMMA NodeNext ==
    ASSUME NEW bl, NEW b, get_node_next(bl, b) # NULL
    PROVE  get_node_next(bl, b) \in DOMAIN bl
  BY DEF get_node_next

\* Merging an unused block with a neighbour leaves a loose block.
LEMMA MergeWithPrev ==
    ASSUME NEW st, NEW M, StOK(st, M), NEW b, Loose(st, b),
           NEW o \in free_block_merge_with_prev(st, b)
    PROVE  StOK(o.st, M) /\ Loose(o.st, o.cur) /\ Keeps(st, o.st, b, o.cur)
<1> DEFINE p == get_node_prev(st.bl, b)
<1>1. b \in DOMAIN st.bl
  BY DEF Loose
<1>2. \/ o = [st |-> st, cur |-> b]
      \/ /\ p \in DOMAIN st.bl /\ ~st.bl[p].used
         /\ p + st.bl[p].size = b
         /\ o = [st |-> JoinBlocks(st, p, b), cur |-> p]
  BY NodePrev DEF free_block_merge_with_prev, user_block_merge, Failing
<1> HIDE DEF p
<1>3. CASE o = [st |-> st, cur |-> b]
  BY <1>3 DEF Keeps
<1>4. CASE /\ p \in DOMAIN st.bl /\ ~st.bl[p].used
           /\ p + st.bl[p].size = b
           /\ o = [st |-> JoinBlocks(st, p, b), cur |-> p]
  <2>1. o.st = JoinBlocks(st, p, b) /\ o.cur = p
    BY <1>4
  <2>2. StOK(o.st, M) /\ Joined(st, o.st, p, b)
    BY <1>1, <1>4, <2>1, JoinBlocksOK
  <2>3. QED
    BY <1>4, <2>1, <2>2 DEF Keeps, Loose, Joined
<1>5. QED
  BY <1>2, <1>3, <1>4

\* The same for the successor (free_block_merge_with_next).
LEMMA MergeWithNext ==
    ASSUME NEW st, NEW M, StOK(st, M), NEW b, Loose(st, b),
           NEW o \in free_block_merge_with_next(st, b)
    PROVE  StOK(o.st, M) /\ Loose(o.st, o.cur) /\ Keeps(st, o.st, b, o.cur)
<1> DEFINE n == get_node_next(st.bl, b)
<1>1. b \in DOMAIN st.bl
  BY DEF Loose
<1>2. \/ o = [st |-> st, cur |-> b]
      \/ /\ n \in DOMAIN st.bl /\ ~st.bl[n].used
         /\ b + st.bl[b].size = n
         /\ o = [st |-> JoinBlocks(st, b, n), cur |-> b]
  BY NodeNext DEF free_block_merge_with_next, user_block_merge, Failing
<1> HIDE DEF n
<1>3. CASE o = [st |-> st, cur |-> b]
  BY <1>3 DEF Keeps
<1>4. CASE /\ n \in DOMAIN st.bl /\ ~st.bl[n].used
           /\ b + st.bl[b].size = n
           /\ o = [st |-> JoinBlocks(st, b, n), cur |-> b]
  <2>1. o.st = JoinBlocks(st, b, n) /\ o.cur = b
    BY <1>4
  <2>2. StOK(o.st, M) /\ Joined(st, o.st, b, n)
    BY <1>1, <1>4, <2>1, JoinBlocksOK
  <2>3. QED
    BY <1>4, <2>1, <2>2 DEF Keeps, Loose, Joined
<1>5. QED
  BY <1>2, <1>3, <1>4

\* So does coalescing with both neighbours and listing the result, which is
\* then loose no more.
LEMMA ReAdd ==
    ASSUME ~HostMayFail, NEW st, NEW M, StOK(st, M), NEW b, Loose(st, b),
           NEW o \in free_blocks_re_add(st, b)
    PROVE  StOK(o.st, M) /\ Keeps(st, o.st, b, b)
<1>1. PICK p \in free_block_merge_with_prev(st, b) :
         \E n \in free_block_merge_with_next(p.st, p.cur) :
            \E a \in free_blocks_add(n.st.fr, n.cur, n.st.bl[n.cur].size) :
                o = [ok |-> a.ok, st |-> [n.st EXCEPT !.fr = a.fr]]
  BY DEF free_blocks_re_add
<1>2. PICK n \in free_block_merge_with_next(p.st, p.cur) :
         \E a \in free_blocks_add(n.st.fr, n.cur, n.st.bl[n.cur].size) :
            o = [ok |-> a.ok, st |-> [n.st EXCEPT !.fr = a.fr]]
  BY <1>1
<1>3. PICK a \in free_blocks_add(n.st.fr, n.cur, n.st.bl[n.cur].size) :
         o = [ok |-> a.ok, st |-> [n.st EXCEPT !.fr = a.fr]]
  BY <1>2
<1>4. StOK(p.st, M) /\ Loose(p.st, p.cur) /\ Keeps(st, p.st, b, p.cur)
  BY MergeWithPrev
<1>5. StOK(n.st, M) /\ Loose(n.st, n.cur) /\ Keeps(p.st, n.st, p.cur, n.cur)
  BY <1>4, MergeWithNext
<1>6. /\ n.cur \in DOMAIN n.st.bl /\ n.cur \in Positive /\ n.st.bl[n.cur].size \in Positive
      /\ FreeOK(n.st.fr, n.st.bl) /\ ~Listed(n.st.fr, n.cur)
  BY <1>5 DEF Loose, StOK, BlocksOK
<1>7. FreeOK(a.fr, n.st.bl) /\ \A c : Listed(a.fr, c) => c = n.cur \/ Listed(n.st.fr, c)
  BY <1>6, FreeBlocksAdd
<1>8. o.st = [bl |-> n.st.bl, fr |-> a.fr, cuts |-> n.st.cuts]
  <2>1. n.st = [bl |-> n.st.bl, fr |-> n.st.fr, cuts |-> n.st.cuts]
    BY <1>5 DEF StOK
  <2>2. o.st = [n.st EXCEPT !.fr = a.fr]
    BY <1>3
  <2>3. QED
    BY <2>1, <2>2
<1>9. StOK(o.st, M)
  BY <1>5, <1>7, <1>8 DEF StOK
<1>10. Keeps(st, o.st, b, b)
  BY <1>4, <1>5, <1>7, <1>8 DEF Keeps
<1>11. QED
  BY <1>9, <1>10

-----------------------------------------------------------------------------
(* Cutting a block in two.                                                 *)

BlockRec == [size : Positive, used : BOOLEAN]

\* bl2 is bl with block b cut after its first n bytes.
Cut(bl, bl2, b, n) ==
    /\ DOMAIN bl2 = DOMAIN bl \cup {b + n}
    /\ bl2[b] \in BlockRec /\ bl2[b].size = n
    /\ bl2[b + n] \in BlockRec /\ bl2[b + n].size = bl[b].size - n
    /\ \A h \in DOMAIN bl \ {b} : bl2[h] = bl[h]

\* The address at which a block is cut is not the start of another block.
LEMMA CutFresh ==
    ASSUME NEW bl, NEW M, BlocksOK(bl, M), NEW b \in DOMAIN bl,
           NEW n \in Positive, n < bl[b].size
    PROVE  b + n \notin DOMAIN bl /\ b + n \in Positive /\ b + n # b
<1>1. b \in Positive /\ bl[b].size \in Positive
  BY DEF BlocksOK
<1>2. b + n \in DOMAIN bl => b + bl[b].size <= b + n
  BY <1>1 DEF BlocksOK, Positive
<1>3. QED
  BY <1>1, <1>2 DEF Positive

\* Cutting a block in two keeps the blocks a partition of the memory.
LEMMA CutOK ==
    ASSUME NEW bl, NEW M, BlocksOK(bl, M), NEW fr, FreeOK(fr, bl),
           NEW b \in DOMAIN bl, ~Listed(fr, b),
           NEW n \in Positive, n < bl[b].size, NEW bl2, Cut(bl, bl2, b, n)
    PROVE  BlocksOK(bl2, M) /\ FreeOK(fr, bl2) /\ ~Listed(fr, b + n)
<1> DEFINE m == b + n
           rest == bl[b].size - n
<1>1. m \notin DOMAIN bl /\ m \in Positive /\ m # b
  BY CutFresh
<1>2. b \in Positive /\ bl[b].size \in Positive /\ rest \in Positive /\ m + rest = b + bl[b].size
  BY DEF BlocksOK, Positive
<1>3. /\ DOMAIN bl2 = DOMAIN bl \cup {m}
      /\ bl2[b] \in BlockRec /\ bl2[b].size = n
      /\ bl2[m] \in BlockRec /\ bl2[m].size = rest
      /\ \A h \in DOMAIN bl \ {b} : bl2[h] = bl[h]
  BY DEF Cut
<1>4. b < m
  BY <1>2 DEF Positive
<1>m. m = b + n
  OBVIOUS
<1> HIDE DEF rest, m
<1>5. DOMAIN bl2 \subseteq Positive /\ \A h \in DOMAIN bl2 : bl2[h] \in BlockRec
  BY <1>1, <1>3 DEF BlocksOK, BlockRec
<1>6. ASSUME NEW x \in DOMAIN bl2, NEW y \in DOMAIN bl2, x < y
      PROVE  x + bl2[x].size <= y
  <2>0. x \in Positive /\ y \in Positive
    BY <1>5
  <2>1. CASE x = b
    <3>1. CASE y = m
      BY <1>2, <1>3, <2>1, <3>1, <1>m DEF Positive
    <3>2. CASE y # m
      <4>1. y \in DOMAIN bl
        BY <1>3, <3>2
      <4>2. b + bl[b].size <= y
        BY <1>6, <2>1, <4>1 DEF BlocksOK
      <4>3. QED
        BY <1>2, <1>3, <2>0, <2>1, <4>2 DEF Positive
    <3>3. QED
      BY <3>1, <3>2
  <2>2. CASE x = m
    <3>1. y \in DOMAIN bl /\ b < y
      BY <1>2, <1>3, <1>4, <1>1, <1>6, <2>0, <2>2 DEF Positive
    <3>2. b + bl[b].size <= y
      BY <3>1 DEF BlocksOK
    <3>3. QED
      BY <1>2, <1>3, <2>2, <3>2
  <2>3. CASE x # b /\ x # m
    <3>0. x \in DOMAIN bl /\ bl2[x] = bl[x] /\ bl[x].size \in Positive
      BY <1>3, <2>3 DEF BlocksOK
    <3>1. CASE y = m
      <4>1. x < b
        <5>1. b < x => b + bl[b].size <= x
          BY <3>0 DEF BlocksOK
        <5>2. m < b + bl[b].size
          BY <1>m, <1>2 DEF Positive
        <5>3. QED
          BY <1>1, <1>2, <1>6, <2>0, <2>3, <3>1, <5>1, <5>2 DEF Positive
      <4>2. x + bl[x].size <= b
        BY <3>0, <4>1 DEF BlocksOK
      <4>3. QED
        BY <1>1, <1>2, <1>4, <2>0, <3>0, <3>1, <4>2 DEF Positive
    <3>2. CASE y # m
      BY <1>3, <1>6, <3>0, <3>2 DEF BlocksOK
    <3>3. QED
      BY <3>1, <3>2
  <2>4. QED
    BY <2>1, <2>2, <2>3
<1>7. Bytes(b, bl[b].size) = Bytes(b, n) \cup Bytes(m, rest)
  BY <1>2, <1>m DEF Bytes, Positive
<1>8. \A h \in DOMAIN bl2 : Bytes(h, bl2[h].size) \subseteq M
  BY <1>3, <1>7 DEF BlocksOK
<1>9. ASSUME NEW x \in M
      PROVE  \E h \in DOMAIN bl2 : x \in Bytes(h, bl2[h].size)
  <2>1. PICK h \in DOMAIN bl : x \in Bytes(h, bl[h].size)
    BY DEF BlocksOK
  <2>2. CASE h = b
    BY <1>3, <1>7, <2>1, <2>2
  <2>3. CASE h # b
    BY <1>3, <2>1, <2>3
  <2>4. QED
    BY <2>2, <2>3
<1>10. BlocksOK(bl2, M)
  BY <1>5, <1>6, <1>8, <1>9 DEF BlocksOK, BlockRec
<1>11. FreeOK(fr, bl2)
  <2>1. \A h \in DOMAIN bl : Listed(fr, h) => h \in DOMAIN bl2 /\ bl2[h].size = bl[h].size
    BY <1>3
  <2>2. QED
    BY <2>1, FreeOKFrame
<1>12. ~Listed(fr, m)
  BY <1>1 DEF Listed, FreeOK
<1>13. QED
  BY <1>10, <1>11, <1>12, <1>m

\* What create_aligned_block makes of a store: when it succeeds the working
\* block is the part of b from the aligned address on.
AlignedPart(st, o, b, alignment) ==
    /\ Loose(o.st, o.cur)
    /\ Keeps(st, o.st, b, o.cur)
    /\ o.ok => /\ o.cur = AlignUp(b, alignment)
               /\ o.st.bl[o.cur].size = st.bl[b].size - (AlignUp(b, alignment) - b)

\* create_aligned_block leaves a loose block that starts at the aligned address.
LEMMA CreateAlignedBlock ==
    ASSUME ~HostMayFail, NEW st, NEW M, StOK(st, M), NEW b, Loose(st, b),
           NEW alignment \in Positive, AlignUp(b, alignment) - b < st.bl[b].size,
           NEW o \in create_aligned_block(st, b, alignment)
    PROVE  StOK(o.st, M) /\ AlignedPart(st, o, b, alignment)
<1> DEFINE padding == AlignUp(b, alignment) - b
           rest == st.bl[b].size - padding
           front == [size |-> padding, used |-> FALSE]
           m == b + padding
<1>1. b \in DOMAIN st.bl /\ b \in Positive /\ st.bl[b].size \in Positive
  BY DEF Loose, StOK, BlocksOK
<1>2. padding \in Nat /\ padding < st.bl[b].size /\ m = AlignUp(b, alignment)
  <2>1. AlignUp(b, alignment) \in Nat /\ b <= AlignUp(b, alignment)
    BY <1>1, AlignUpFacts DEF Positive
  <2>2. QED
    BY <1>1, <2>1 DEF Positive
<1>3. CASE o = [ok |-> TRUE, st |-> st, cur |-> b] /\ padding = 0
  BY <1>1, <1>2, <1>3 DEF AlignedPart, Keeps, Positive
<1>4. CASE o = [ok |-> FALSE, st |-> st, cur |-> b]
  BY <1>4 DEF AlignedPart, Keeps
<1>5. CASE padding # 0 /\ o # [ok |-> FALSE, st |-> st, cur |-> b]
  <2>1. padding \in Positive /\ rest \in Positive
    BY <1>1, <1>2, <1>5 DEF Positive
  <2>2. m \notin DOMAIN st.bl /\ m \in Positive /\ m # b
    BY <1>1, <1>2, <2>1, CutFresh DEF StOK
  <2>3. \E block \in [size : {rest}, used : BOOLEAN] : \E a \in free_blocks_add(st.fr, b, padding) :
           o = [ok  |-> a.ok,
                st  |-> [bl |-> Put(Put(st.bl, m, block), b, front), fr |-> a.fr,
                         cuts |-> st.cuts \cup {m}],
                cur |-> IF a.ok THEN m ELSE b]
    <3> DEFINE Padded(n) ==
                 {[ok  |-> a.ok,
                   st  |-> [bl |-> Put(n.st.bl, b, front), fr |-> a.fr, cuts |-> n.st.cuts],
                   cur |-> IF a.ok THEN m ELSE b] :
                  a \in free_blocks_add(n.st.fr, b, padding)}
               Rest(s) ==
                 UNION {IF n.ok THEN Padded(n) ELSE {[ok |-> FALSE, st |-> n.st, cur |-> b]} :
                        n \in coarse_ravl_add_new(s.st, m, rest, BOOLEAN)}
    <3>1. o \in UNION {IF s.ok THEN Rest(s) ELSE {[ok |-> FALSE, st |-> st, cur |-> b]} :
                       s \in can_provider_split(st, b, padding)}
      BY <1>5 DEF create_aligned_block
    <3> HIDE DEF Rest
    <3>p. PICK s \in can_provider_split(st, b, padding) :
             o \in IF s.ok THEN Rest(s) ELSE {[ok |-> FALSE, st |-> st, cur |-> b]}
      BY <3>1
    <3>2. s.ok /\ o \in Rest(s)
      BY <1>5, <3>p
    <3>3. s.st = [bl |-> st.bl, fr |-> st.fr, cuts |-> st.cuts \cup {m}]
      <4>1. s.st = [st EXCEPT !.cuts = @ \cup {m}]
        BY <3>2 DEF can_provider_split, Failing
      <4>2. st = [bl |-> st.bl, fr |-> st.fr, cuts |-> st.cuts]
        BY DEF StOK
      <4>3. QED
        BY <4>1, <4>2
    <3> HIDE DEF Padded
    <3>4. PICK n \in coarse_ravl_add_new(s.st, m, rest, BOOLEAN) :
             o \in IF n.ok THEN Padded(n) ELSE {[ok |-> FALSE, st |-> n.st, cur |-> b]}
      BY <3>2 DEF Rest
    <3>5. PICK block \in [size : {rest}, used : BOOLEAN] :
             n = [ok |-> TRUE, st |-> [s.st EXCEPT !.bl = Put(@, m, block)]]
      BY <2>2, <3>3 DEF coarse_ravl_add_new, Failing
    <3>6. n.ok
      BY <3>5
    <3>7. n.st = [bl |-> Put(st.bl, m, block), fr |-> st.fr, cuts |-> st.cuts \cup {m}]
      <4>1. n.st = [s.st EXCEPT !.bl = Put(s.st.bl, m, block)]
        BY <3>5
      <4>2. s.st.bl = st.bl
        BY <3>3
      <4>3. n.st = [s.st EXCEPT !.bl = Put(st.bl, m, block)]
        BY <4>1, <4>2
      <4> DEFINE v == Put(st.bl, m, block)
                 c == st.cuts \cup {m}
      <4>4. s.st = [bl |-> st.bl, fr |-> st.fr, cuts |-> c]
        BY <3>3
      <4> HIDE DEF m, v, c
      <4>5. [s.st EXCEPT !.bl = v] = [bl |-> v, fr |-> st.fr, cuts |-> c]
        BY <4>4
      <4>6. QED
        BY <4>3, <4>5 DEF v, c
    <3>8. o \in Padded(n)
      BY <3>4, <3>6
    <3>9. PICK a \in free_blocks_add(n.st.fr, b, padding) :
             o = [ok  |-> a.ok,
                  st  |-> [bl |-> Put(n.st.bl, b, front), fr |-> a.fr, cuts |-> n.st.cuts],
                  cur |-> IF a.ok THEN m ELSE b]
      BY <3>8 DEF Padded
    <3>10. n.st.bl = Put(st.bl, m, block) /\ n.st.fr = st.fr /\ n.st.cuts = st.cuts \cup {m}
      BY <3>7
    <3>11. QED
      BY <3>9, <3>10
  <2>4. PICK block \in [size : {rest}, used : BOOLEAN] : \E a \in free_blocks_add(st.fr, b, padding) :
           o = [ok  |-> a.ok,
                st  |-> [bl |-> Put(Put(st.bl, m, block), b, front), fr |-> a.fr,
                         cuts |-> st.cuts \cup {m}],
                cur |-> IF a.ok THEN m ELSE b]
    BY <2>3
  <2>5. PICK a \in free_blocks_add(st.fr, b, padding) :
           o = [ok  |-> a.ok,
                st  |-> [bl |-> Put(Put(st.bl, m, block), b, front), fr |-> a.fr,
                         cuts |-> st.cuts \cup {m}],
                cur |-> IF a.ok THEN m ELSE b]
    BY <2>4
  <2> DEFINE bl2 == Put(Put(st.bl, m, block), b, front)
  <2>6. /\ DOMAIN bl2 = DOMAIN st.bl \cup {m}
        /\ bl2[b] = front
        /\ bl2[m] = block
        /\ \A h \in DOMAIN st.bl \ {b} : bl2[h] = st.bl[h]
    BY <1>1, <2>2 DEF Put
  <2>7. block \in BlockRec /\ block.size = rest /\ front \in BlockRec /\ front.size = padding
    BY <2>1 DEF BlockRec
  <2> HIDE DEF bl2, front
  <2>8. Cut(st.bl, bl2, b, padding)
    BY <2>6, <2>7 DEF Cut
  <2>9. BlocksOK(bl2, M) /\ FreeOK(st.fr, bl2) /\ ~Listed(st.fr, m)
    BY <1>1, <1>2, <2>1, <2>8, CutOK DEF StOK, Loose
  <2>10. /\ a.ok /\ FreeOK(a.fr, bl2)
         /\ \A c : Listed(a.fr, c) => c = b \/ Listed(st.fr, c)
    <3>1. b \in DOMAIN bl2 /\ bl2[b].size = padding
      BY <1>1, <2>6, <2>7
    <3>2. QED
      BY <1>1, <2>1, <2>9, <3>1, FreeBlocksAdd DEF Loose
  <2>11. o.st = [bl |-> bl2, fr |-> a.fr, cuts |-> st.cuts \cup {m}] /\ o.cur = m
    BY <2>5, <2>10 DEF bl2
  <2> HIDE DEF m
  <2>12. StOK(o.st, M)
    BY <2>6, <2>9, <2>10, <2>11 DEF StOK
  <2>13. Loose(o.st, o.cur)
    BY <2>2, <2>6, <2>9, <2>10, <2>11 DEF Loose
  <2>14. Keeps(st, o.st, b, o.cur)
    BY <2>2, <2>6, <2>10, <2>11 DEF Keeps
  <2>15. o.cur = AlignUp(b, alignment) /\ o.st.bl[o.cur].size = rest
    BY <1>2, <2>6, <2>7, <2>11
  <2>16. QED
    BY <2>12, <2>13, <2>14, <2>15 DEF AlignedPart
<1>6. padding = 0 => o = [ok |-> TRUE, st |-> st, cur |-> b]
  BY DEF create_aligned_block
<1>7. QED
  BY <1>3, <1>4, <1>5, <1>6

\* The working block b of st is, in st2, a used block of this size.
Carved(st, st2, b, c, size) ==
    /\ Loose(st2, c)
    /\ Keeps(st, st2, b, c)
    /\ st2.bl[c] = [size |-> size, used |-> TRUE]

\* split_current_block fails without a trace or leaves a store that the
\* caller makes good by shortening the working block.
LEMMA SplitCurrentBlock ==
    ASSUME ~HostMayFail, NEW st, NEW M, StOK(st, M), NEW b, Loose(st, b),
           NEW size \in Nat, size < st.bl[b].size,
           NEW s \in split_current_block(st, b, size)
    PROVE  \/ ~s.ok /\ s.st = st
           \/ /\ s.ok /\ size \in Positive
              /\ StOK([s.st EXCEPT !.bl = Put(@, b, [size |-> size, used |-> TRUE])], M)
              /\ Carved(st, [s.st EXCEPT !.bl = Put(@, b, [size |-> size, used |-> TRUE])], b, b, size)
<1> DEFINE m == b + size
           rest == st.bl[b].size - size
           c == st.cuts \cup {m}
           front == [size |-> size, used |-> TRUE]
           back == [size |-> rest, used |-> FALSE]
           New(t) == coarse_ravl_add_new(t.st, m, rest, {FALSE})
           Adding(n) == {[ok |-> a.ok, st |-> [n.st EXCEPT !.fr = a.fr]] :
                         a \in free_blocks_add(n.st.fr, m, rest)}
           Rest(t) == UNION {IF n.ok THEN Adding(n) ELSE {n} : n \in New(t)}
<1>1. b \in DOMAIN st.bl /\ b \in Positive /\ st.bl[b].size \in Positive /\ rest \in Positive
  BY DEF Loose, StOK, BlocksOK, Positive
<1>2. s \in UNION {IF t.ok THEN Rest(t) ELSE {t} : t \in can_provider_split(st, b, size)}
  BY DEF split_current_block
<1> HIDE DEF Rest
<1>3. PICK t \in can_provider_split(st, b, size) : s \in IF t.ok THEN Rest(t) ELSE {t}
  BY <1>2
<1>4. CASE ~t.ok
  <2>1. t = [ok |-> FALSE, st |-> st]
    BY <1>4 DEF can_provider_split, Failing
  <2>2. QED
    BY <1>3, <1>4, <2>1
<1>5. CASE t.ok
  <2>1. t.st = [bl |-> st.bl, fr |-> st.fr, cuts |-> c]
    <3>1. t.st = [st EXCEPT !.cuts = c]
      BY <1>5 DEF can_provider_split, Failing
    <3>2. st = [bl |-> st.bl, fr |-> st.fr, cuts |-> st.cuts]
      BY DEF StOK
    <3> HIDE DEF c
    <3>3. QED
      BY <3>1, <3>2
  <2>2. s \in Rest(t)
    BY <1>3, <1>5
  <2> HIDE DEF New, Adding
  <2>3. PICK n \in New(t) : s \in IF n.ok THEN Adding(n) ELSE {n}
    BY <2>2 DEF Rest
  <2>4. CASE size = 0
    <3>1. m = b /\ c = st.cuts
      BY <1>1, <2>4 DEF StOK, Positive
    <3>2. t.st.bl = st.bl
      BY <2>1
    <3>3. n = [ok |-> FALSE, st |-> t.st]
      BY <1>1, <2>3, <3>1, <3>2 DEF New, coarse_ravl_add_new
    <3>4. t.st = st
      <4>1. t.st = [bl |-> st.bl, fr |-> st.fr, cuts |-> st.cuts]
        BY <2>1, <3>1
      <4>2. QED
        BY <4>1 DEF StOK
    <3>5. QED
      BY <2>3, <3>3, <3>4
  <2>5. CASE size # 0
    <3>1. size \in Positive
      BY <2>5 DEF Positive
    <3>2. m \notin DOMAIN st.bl /\ m \in Positive /\ m # b
      BY <1>1, <3>1, CutFresh DEF StOK
    <3>3. n.ok /\ n.st = [bl |-> Put(st.bl, m, back), fr |-> st.fr, cuts |-> c]
      <4>1. t.st.bl = st.bl
        BY <2>1
      <4>2. PICK block \in [size : {rest}, used : {FALSE}] :
               n = [ok |-> TRUE, st |-> [t.st EXCEPT !.bl = Put(@, m, block)]]
        BY <2>3, <3>2, <4>1 DEF New, coarse_ravl_add_new, Failing
      <4>3. block = back
        BY <4>2
      <4> DEFINE v == Put(st.bl, m, back)
      <4> HIDE DEF m, back, c
      <4>4. n.ok /\ n.st = [t.st EXCEPT !.bl = v]
        BY <4>1, <4>2, <4>3
      <4> HIDE DEF v
      <4>5. n.st = [bl |-> v, fr |-> st.fr, cuts |-> c]
        BY <2>1, <4>4
      <4>6. QED
        BY <4>4, <4>5 DEF v
    <3>4. PICK a \in free_blocks_add(n.st.fr, m, rest) :
             s = [ok |-> a.ok, st |-> [n.st EXCEPT !.fr = a.fr]]
      BY <2>3, <3>3 DEF Adding
    <3> DEFINE bl1 == Put(st.bl, m, back)
               bl2 == Put(bl1, b, front)
               st2 == [s.st EXCEPT !.bl = Put(@, b, front)]
    <3>5. st2 = [bl |-> bl2, fr |-> a.fr, cuts |-> c]
      <4>1. n.st = [bl |-> bl1, fr |-> st.fr, cuts |-> c]
        BY <3>3
      <4> HIDE DEF bl1, c, front, m
      <4>2. s.st = [bl |-> bl1, fr |-> a.fr, cuts |-> c]
        BY <3>4, <4>1
      <4>3. st2 = [s.st EXCEPT !.bl = bl2]
        BY <4>2
      <4> HIDE DEF bl2
      <4>4. QED
        BY <4>2, <4>3
    <3>6. /\ DOMAIN bl2 = DOMAIN st.bl \cup {m}
          /\ bl2[b] = front
          /\ bl2[m] = back
          /\ \A h \in DOMAIN st.bl \ {b} : bl2[h] = st.bl[h]
      BY <1>1, <3>2 DEF Put
    <3>7. back \in BlockRec /\ back.size = rest /\ front \in BlockRec /\ front.size = size
      BY <1>1, <3>1 DEF BlockRec
    <3> HIDE DEF bl2, front, back, st2
    <3>8. Cut(st.bl, bl2, b, size)
      BY <3>6, <3>7 DEF Cut
    <3>9. BlocksOK(bl2, M) /\ FreeOK(st.fr, bl2) /\ ~Listed(st.fr, m)
      BY <1>1, <3>1, <3>8, CutOK DEF StOK, Loose
    <3>10. /\ a.ok /\ FreeOK(a.fr, bl2)
           /\ \A x : Listed(a.fr, x) => x = m \/ Listed(st.fr, x)
      <4>1. m \in DOMAIN bl2 /\ bl2[m].size = rest
        BY <3>6, <3>7
      <4>2. n.st.fr = st.fr
        BY <3>3
      <4>3. QED
        BY <1>1, <3>2, <3>9, <4>1, <4>2, FreeBlocksAdd
    <3> HIDE DEF m
    <3>11. StOK(st2, M)
      BY <3>5, <3>6, <3>9, <3>10 DEF StOK, c
    <3>12. Loose(st2, b) /\ Keeps(st, st2, b, b)
      BY <1>1, <3>2, <3>5, <3>6, <3>10 DEF Loose, Keeps
    <3>13. st2.bl[b] = front
      BY <3>5, <3>6
    <3>14. s.ok
      BY <3>4, <3>10
    <3>15. QED
      BY <3>1, <3>11, <3>12, <3>13, <3>14 DEF Carved, st2, front
  <2>6. QED
    BY <2>4, <2>5
<1>6. QED
  BY <1>4, <1>5

\* Changing `used` disturbs nothing else.
LEMMA Marked ==
    ASSUME NEW st, NEW M, StOK(st, M), NEW b \in DOMAIN st.bl, NEW bl2,
           DOMAIN bl2 = DOMAIN st.bl, bl2[b] \in BlockRec, bl2[b].size = st.bl[b].size,
           \A h \in DOMAIN st.bl \ {b} : bl2[h] = st.bl[h]
    PROVE  StOK([bl |-> bl2, fr |-> st.fr, cuts |-> st.cuts], M)
<1>1. \A h \in DOMAIN st.bl : bl2[h] \in BlockRec /\ bl2[h].size = st.bl[h].size
  BY DEF StOK, BlocksOK, BlockRec
<1>2. BlocksOK(bl2, M)
  BY <1>1 DEF StOK, BlocksOK, BlockRec
<1>3. FreeOK(st.fr, bl2)
  BY <1>1, FreeOKFrame DEF StOK
<1>4. QED
  BY <1>2, <1>3 DEF StOK

\* What an action that started from block b of st has done: it handed out a
\* block of this size, or nothing.
LEMMA NewBlock ==
    ASSUME NEW st, NEW M, StOK(st, M), NEW a \in Positive, NEW n \in Positive,
           Bytes(a, n) \cap M = {}, NEW bl2, DOMAIN bl2 = DOMAIN st.bl \cup {a},
           bl2[a] \in BlockRec, bl2[a].size = n,
           \A h \in DOMAIN st.bl \ {a} : bl2[h] = st.bl[h]
    PROVE  /\ StOK([bl |-> bl2, fr |-> st.fr, cuts |-> st.cuts \cup {a}], M \cup Bytes(a, n))
           /\ ~Listed(st.fr, a)
<1>1. a \in Bytes(a, n)
  BY DEF Bytes, Positive
<1>2. \A h \in DOMAIN st.bl : /\ h \in Positive /\ st.bl[h] \in BlockRec /\ st.bl[h].size \in Positive
                              /\ h \in Bytes(h, st.bl[h].size) /\ h \in M /\ h # a
  <2>1. ASSUME NEW h \in DOMAIN st.bl
        PROVE  /\ h \in Positive /\ st.bl[h] \in BlockRec /\ st.bl[h].size \in Positive
               /\ h \in Bytes(h, st.bl[h].size)
    BY DEF StOK, BlocksOK, BlockRec, Bytes, Positive
  <2>2. \A h \in DOMAIN st.bl : h \in M
    BY <2>1 DEF StOK, BlocksOK
  <2>3. QED
    BY <1>1, <2>1, <2>2
<1>3. DOMAIN bl2 \subseteq Positive /\ \A h \in DOMAIN bl2 : bl2[h] \in BlockRec
  BY <1>2
<1>4. ASSUME NEW x \in DOMAIN bl2, NEW y \in DOMAIN bl2, x < y
      PROVE  x + bl2[x].size <= y
  <2>1. CASE x = a
    <3>1. y \in M /\ y \in Positive
      BY <1>2, <1>3, <1>4, <2>1 DEF Positive
    <3>2. y \notin Bytes(a, n)
      BY <3>1
    <3>3. QED
      BY <1>4, <2>1, <3>1, <3>2 DEF Bytes, Positive
  <2>2. CASE y = a
    <3>1. /\ x \in DOMAIN st.bl /\ bl2[x] = st.bl[x] /\ x \in Positive
          /\ st.bl[x].size \in Positive /\ Bytes(x, st.bl[x].size) \subseteq M
      BY <1>2, <1>3, <1>4, <2>2 DEF Positive, StOK, BlocksOK
    <3>2. a \notin Bytes(x, st.bl[x].size)
      BY <1>1, <3>1
    <3>3. QED
      BY <1>4, <2>2, <3>1, <3>2 DEF Bytes, Positive
  <2>3. CASE x # a /\ y # a
    BY <1>4, <2>3 DEF StOK, BlocksOK
  <2>4. QED
    BY <2>1, <2>2, <2>3
<1>5. \A h \in DOMAIN bl2 : Bytes(h, bl2[h].size) \subseteq M \cup Bytes(a, n)
  BY DEF StOK, BlocksOK
<1>6. ASSUME NEW x \in M \cup Bytes(a, n)
      PROVE  \E h \in DOMAIN bl2 : x \in Bytes(h, bl2[h].size)
  <2>1. CASE x \in Bytes(a, n)
    BY <2>1
  <2>2. CASE x \in M
    <3>1. PICK h \in DOMAIN st.bl : x \in Bytes(h, st.bl[h].size)
      BY <2>2 DEF StOK, BlocksOK
    <3>2. QED
      BY <1>2, <3>1
  <2>3. QED
    BY <2>1, <2>2
<1>7. BlocksOK(bl2, M \cup Bytes(a, n))
  BY <1>3, <1>4, <1>5, <1>6 DEF BlocksOK, BlockRec
<1>8. FreeOK(st.fr, bl2)
  BY <1>2, FreeOKFrame DEF StOK
<1>9. ~Listed(st.fr, a)
  BY <1>2 DEF Listed, StOK, FreeOK
<1>10. QED
  BY <1>7, <1>8, <1>9 DEF StOK

\* The alignment that coarse_alloc works with.
=============================================================================
