--------------------------- MODULE JemallocPoolProofs ---------------------------
(***************************************************************************)
(* Pools over jemalloc own their arenas, and what they hand out comes from *)
(* their own provider, for any number of pools, threads, arenas and        *)
(* extents, when EAGAIN does not end a creation early.                     *)
(***************************************************************************)
EXTENDS JemallocPool, SequenceTheorems, TLAPS

Indexes == Seq(Arenas \cup {0})

JeRecords ==
    [at : {"none", "starting", "ready"}, n : Nat, index : Indexes, created : Nat, fixed : BOOLEAN]

\* The record of a pool: the first `created` entries of its index are arenas.
PoolRight(r) ==
    /\ r \in JeRecords /\ Len(r.index) = r.n /\ r.created <= r.n
    /\ \A i \in 1 .. r.created : r.index[i] \in Arenas
    /\ r.at = "none" => r.created = 0
    /\ r.at \in {"starting", "ready"} => r.n > 0
    /\ r.at = "ready" => r.created = r.n

MadeOf(r) == {r.index[i] : i \in 1 .. r.created}

\* The arenas that exist are the ones of the pools, all with hooks, and the table
\* leads from each to its pool.
OwnersRight ==
    /\ hooked = arenaUsed /\ ArenasOwned
    /\ DOMAIN poolByArena = Arenas
    /\ \A p \in JePools : \A a \in Made(p) : poolByArena[a] = p

\* An extent lives in an arena that exists, and is from the provider of its pool.
ExtentsRight ==
    \A x \in DOMAIN extent :
        /\ extent[x] \in [arena : arenaUsed, from : JePools, user : JePools \cup {"none"}]
        /\ extent[x].from = poolByArena[extent[x].arena]
        /\ extent[x].user \in {"none", extent[x].from}

\* The inductive invariant.
JeInv ==
    /\ jePool \in [JePools -> JeRecords] /\ \A p \in JePools : PoolRight(jePool[p])
    /\ OwnersRight /\ ExtentsRight

-----------------------------------------------------------------------------
\* The record of a pool that is not there.
LEMMA NoPoolRight == PoolRight(NoJePool) /\ MadeOf(NoJePool) = {} /\ NoJePool \in JeRecords
  <1>1. <<>> \in Indexes /\ Len(<<>>) = 0
    BY DEF Indexes
  <1>2. NoJePool \in JeRecords
    BY <1>1 DEF NoJePool, JeRecords
  <1>3. 1 .. 0 = {}
    OBVIOUS
  <1> QED BY <1>1, <1>2, <1>3 DEF NoJePool, PoolRight, MadeOf

\* What a change of one pool's record does to the arenas of all.
LEMMA OneRecord ==
    ASSUME JeInv, NEW p \in JePools, NEW r, PoolRight(r), jePool' = [jePool EXCEPT ![p] = r]
    PROVE  /\ jePool' \in [JePools -> JeRecords] /\ \A q \in JePools : PoolRight(jePool'[q])
           /\ Made(p)' = MadeOf(r)
           /\ \A q \in JePools \ {p} : Made(q)' = Made(q)
  <1>1. r \in JeRecords /\ jePool'[p] = r /\ \A q \in JePools \ {p} : jePool'[q] = jePool[q]
    BY DEF JeInv, PoolRight
  <1>2. jePool' \in [JePools -> JeRecords]
    BY <1>1 DEF JeInv
  <1> QED BY <1>1, <1>2 DEF JeInv, Made, MadeOf

\* The arenas of a pool are numbers that jemalloc can give, none of them 0.
LEMMA MadeArenas ==
    ASSUME JeInv, NEW p \in JePools
    PROVE  Made(p) \subseteq Arenas /\ 0 \notin Made(p) /\ Made(p) \subseteq arenaUsed
  <1>1. Made(p) \subseteq Arenas
    BY DEF JeInv, PoolRight, Made
  <1> QED BY <1>1, JeAssumption DEF JeInv, OwnersRight, ArenasOwned

\* Nothing exists yet.
LEMMA JeInitInv == JeInit => JeInv
  <1> SUFFICES ASSUME JeInit PROVE JeInv
    OBVIOUS
  <1>1. jePool \in [JePools -> JeRecords] /\ \A p \in JePools : jePool[p] = NoJePool
    BY NoPoolRight DEF JeInit
  <1>2. \A p \in JePools : PoolRight(jePool[p]) /\ Made(p) = {}
    BY <1>1, NoPoolRight DEF Made, MadeOf
  <1>3. OwnersRight
    BY <1>2 DEF JeInit, OwnersRight, ArenasOwned
  <1>4. ExtentsRight
    BY DEF JeInit, ExtentsRight
  <1> QED BY <1>1, <1>2, <1>3, <1>4 DEF JeInv

\* op_initialize, and its end: no arena comes or goes.
LEMMA RecordOnly ==
    ASSUME JeInv, NEW p \in JePools, NEW r, PoolRight(r), MadeOf(r) = Made(p),
           jePool' = [jePool EXCEPT ![p] = r], UNCHANGED <<arenaUsed, hooked, poolByArena, extent>>
    PROVE  JeInv'
  <1>1. \A q \in JePools : Made(q)' = Made(q)
    BY OneRecord
  <1>2. OwnersRight'
    BY <1>1 DEF JeInv, OwnersRight, ArenasOwned
  <1>3. ExtentsRight'
    BY DEF JeInv, ExtentsRight
  <1> QED BY <1>2, <1>3, OneRecord DEF JeInv

\* err_cleanup and op_finalize: a pool goes with all its arenas and their extents.
LEMMA PoolGoes ==
    ASSUME JeInv, NEW p \in JePools, NEW as, Made(p) \subseteq as, 0 \notin as,
           as \cap arenaUsed = Made(p),
           DestroyArenas(as), jePool' = [jePool EXCEPT ![p] = NoJePool],
           DOMAIN poolByArena' = Arenas, \A a \in arenaUsed : poolByArena'[a] = poolByArena[a]
    PROVE  JeInv'
  <1>1. Made(p)' = {} /\ \A q \in JePools \ {p} : Made(q)' = Made(q)
    BY NoPoolRight, OneRecord
  <1>2. arenaUsed' = arenaUsed \ Made(p) /\ hooked' = arenaUsed'
    BY DEF DestroyArenas, JeInv, OwnersRight
  <1>3. ArenasOwned'
    BY <1>1, <1>2 DEF JeInv, OwnersRight, ArenasOwned
  <1>4. \A q \in JePools : \A a \in Made(q)' : poolByArena'[a] = q
    BY <1>1, MadeArenas DEF JeInv, OwnersRight
  <1>5. OwnersRight'
    BY <1>2, <1>3, <1>4 DEF OwnersRight
  <1>6. ExtentsRight'
    <2> SUFFICES ASSUME NEW x \in DOMAIN extent'
                 PROVE  /\ extent'[x] \in [arena : arenaUsed', from : JePools, user : JePools \cup {"none"}]
                        /\ extent'[x].from = poolByArena'[extent'[x].arena]
                        /\ extent'[x].user \in {"none", extent'[x].from}
      BY DEF ExtentsRight
    <2>1. x \in DOMAIN extent /\ extent'[x] = extent[x] /\ extent[x].arena \notin as
      BY DEF DestroyArenas
    <2>2. /\ extent[x] \in [arena : arenaUsed, from : JePools, user : JePools \cup {"none"}]
          /\ extent[x].from = poolByArena[extent[x].arena]
          /\ extent[x].user \in {"none", extent[x].from}
      BY <2>1 DEF JeInv, ExtentsRight
    <2>3. extent[x].arena \in arenaUsed'
      BY <2>1, <2>2 DEF DestroyArenas
    <2> QED BY <2>1, <2>2, <2>3
  <1> QED BY <1>5, <1>6, NoPoolRight, OneRecord DEF JeInv

\* op_initialize: the pool has a table of arenas, all still 0.
LEMMA InitializeKeeps ==
    ASSUME JeInv, NEW p \in JePools, NEW given \in BOOLEAN, NEW want \in ParamArenas \cup {0},
           op_initialize(p, given, want)
    PROVE  JeInv'
  <1> DEFINE n == IF want = 0 THEN IF DefaultArenas > ArenaMax THEN ArenaMax ELSE DefaultArenas ELSE want
             index == [i \in 1 .. n |-> 0]
             r == [at |-> "starting", n |-> n, index |-> index, created |-> 0, fixed |-> given]
  <1>1. n \in Nat /\ n > 0
    BY JeAssumption
  <1>2. jePool' = [jePool EXCEPT ![p] = r] /\ UNCHANGED <<arenaUsed, hooked, poolByArena, extent>>
    BY DEF op_initialize
  <1> HIDE DEF n
  <1>3. index \in Indexes /\ Len(index) = n
    BY <1>1 DEF Indexes
  <1> HIDE DEF index
  <1>4. r \in JeRecords /\ r.at = "starting" /\ r.n = n /\ r.index = index /\ r.created = 0
    BY <1>1, <1>3 DEF JeRecords
  <1> HIDE DEF r
  <1>5. PoolRight(r)
    BY <1>1, <1>3, <1>4 DEF PoolRight
  <1>6. jePool[p].created = 0
    BY DEF op_initialize, JeInv, PoolRight
  <1>7. MadeOf(r) = {} /\ Made(p) = {}
    BY <1>4, <1>6 DEF MadeOf, Made
  <1> QED BY <1>2, <1>5, <1>7, RecordOnly

\* An arena is created: jemalloc gives a number that is not in use, perhaps one that
\* another pool has had, and the table is overwritten.
LEMMA CreateKeeps ==
    ASSUME JeInv, NEW p \in JePools, NEW a \in Arenas, CreateArena(p, a)
    PROVE  JeInv'
  <1> DEFINE k == jePool[p].created + 1
             index == [jePool[p].index EXCEPT ![k] = a]
             r == [jePool[p] EXCEPT !.index = index, !.created = k]
  <1>1. /\ PoolRight(jePool[p]) /\ jePool[p] \in JeRecords
        /\ jePool[p].at = "starting" /\ jePool[p].created < jePool[p].n
        /\ a \notin arenaUsed
    BY DEF CreateArena, Starting, JeInv
  <1>2. k \in 1 .. jePool[p].n /\ jePool[p].index \in Indexes /\ Len(jePool[p].index) = jePool[p].n
    BY <1>1 DEF PoolRight, JeRecords
  <1>3. /\ index \in Indexes /\ Len(index) = jePool[p].n /\ index[k] = a
        /\ \A i \in 1 .. jePool[p].n : i # k => index[i] = jePool[p].index[i]
    BY <1>2, ExceptSeq DEF Indexes
  <1>4. jePool' = [jePool EXCEPT ![p] = r]
    BY DEF CreateArena
  <1> HIDE DEF index
  <1>5. /\ r \in JeRecords /\ r.at = "starting" /\ r.n = jePool[p].n
        /\ r.index = index /\ r.created = k
    <2>1. k \in Nat
      BY <1>2
    <2> HIDE DEF k
    <2> QED BY <1>1, <1>3, <2>1 DEF JeRecords
  <1> HIDE DEF r
  <1>6. \A i \in 1 .. r.created : i = k \/ (i \in 1 .. jePool[p].created /\ r.index[i] = jePool[p].index[i])
    BY <1>1, <1>2, <1>3, <1>5 DEF JeRecords
  <1>7. PoolRight(r)
    BY <1>1, <1>2, <1>3, <1>5, <1>6 DEF PoolRight, JeRecords
  <1>8. MadeOf(r) = Made(p) \cup {a}
    <2>1. 1 .. r.created = (1 .. jePool[p].created) \cup {k}
      BY <1>1, <1>5 DEF JeRecords
    <2>2. \A i \in 1 .. jePool[p].created : i \in 1 .. jePool[p].n /\ i # k
      BY <1>1 DEF JeRecords, PoolRight
    <2> QED BY <2>1, <2>2, <1>3, <1>5 DEF MadeOf, Made
  <1>9. Made(p)' = Made(p) \cup {a} /\ \A q \in JePools \ {p} : Made(q)' = Made(q)
    BY <1>4, <1>7, <1>8, OneRecord
  <1>10. /\ arenaUsed' = arenaUsed \cup {a} /\ hooked' = arenaUsed' /\ extent' = extent
         /\ DOMAIN poolByArena' = Arenas /\ poolByArena'[a] = p
         /\ \A b \in Arenas \ {a} : poolByArena'[b] = poolByArena[b]
    BY DEF CreateArena, NotePool, JeInv, OwnersRight
  <1>11. ArenasOwned'
    BY <1>1, <1>9, <1>10, MadeArenas DEF JeInv, OwnersRight, ArenasOwned
  <1>12. \A q \in JePools : \A b \in Made(q)' : poolByArena'[b] = q
    BY <1>1, <1>9, <1>10, MadeArenas DEF JeInv, OwnersRight
  <1>13. OwnersRight'
    BY <1>10, <1>11, <1>12 DEF OwnersRight
  <1>14. \A b \in arenaUsed : b \in Arenas /\ b # a
    BY <1>1, MadeArenas DEF JeInv, OwnersRight, ArenasOwned
  <1>15. ExtentsRight'
    BY <1>10, <1>14 DEF JeInv, ExtentsRight
  <1> QED BY <1>4, <1>7, <1>13, <1>15, OneRecord DEF JeInv

\* A creation that fails undoes the arenas made so far, the last one included.
LEMMA CreationFails ==
    ASSUME JeInv, "late" \notin JeFails, NEW p \in JePools,
           \/ CreateFails(p) \/ CreateAgain(p) \/ \E a \in Arenas : CreateUnusable(p, a)
    PROVE  JeInv'
  <1>1. CASE CreateFails(p) \/ CreateAgain(p)
    <2>1. /\ DestroyArenas(Made(p)) /\ jePool' = [jePool EXCEPT ![p] = NoJePool]
          /\ UNCHANGED poolByArena
      BY <1>1 DEF CreateFails, CreateAgain, CleanUp
    <2>2. 0 \notin Made(p) /\ Made(p) \cap arenaUsed = Made(p)
      BY MadeArenas
    <2>3. DOMAIN poolByArena' = Arenas
      BY <2>1 DEF JeInv, OwnersRight
    <2> QED BY <2>1, <2>2, <2>3, PoolGoes
  <1>2. ASSUME NEW a \in Arenas, CreateUnusable(p, a) PROVE JeInv'
    <2>1. /\ a \notin arenaUsed /\ DestroyArenas(Made(p) \cup {a})
          /\ jePool' = [jePool EXCEPT ![p] = NoJePool]
          /\ poolByArena' \in {poolByArena, [poolByArena EXCEPT ![a] = p]}
      BY <1>2 DEF CreateUnusable, CleanUp, NotePool
    <2>2. 0 \notin Made(p) \cup {a} /\ (Made(p) \cup {a}) \cap arenaUsed = Made(p)
      BY <2>1, MadeArenas, JeAssumption
    <2>3. DOMAIN poolByArena' = Arenas /\ \A b \in arenaUsed : poolByArena'[b] = poolByArena[b]
      <3>1. \A b \in arenaUsed : b \in Arenas /\ b # a
        BY <2>1, MadeArenas DEF JeInv, OwnersRight, ArenasOwned
      <3> QED BY <2>1, <3>1 DEF JeInv, OwnersRight
    <2> QED BY <2>1, <2>2, <2>3, PoolGoes
  <1> QED BY <1>1, <1>2

\* A pool is ready when it has all its arenas.
LEMMA AllCreatedKeeps ==
    ASSUME JeInv, NEW p \in JePools, AllCreated(p)
    PROVE  JeInv'
  <1> DEFINE r == [jePool[p] EXCEPT !.at = "ready"]
  <1>1. /\ PoolRight(jePool[p]) /\ jePool[p] \in JeRecords
        /\ jePool[p].at = "starting" /\ ~(jePool[p].created < jePool[p].n)
    BY DEF AllCreated, Starting, JeInv
  <1>2. /\ r \in JeRecords /\ r.at = "ready" /\ r.n = jePool[p].n
        /\ r.index = jePool[p].index /\ r.created = jePool[p].created
    BY <1>1 DEF JeRecords
  <1>3. jePool' = [jePool EXCEPT ![p] = r] /\ UNCHANGED <<arenaUsed, hooked, poolByArena, extent>>
    BY DEF AllCreated
  <1> HIDE DEF r
  <1>4. PoolRight(r) /\ MadeOf(r) = Made(p)
    BY <1>1, <1>2 DEF PoolRight, JeRecords, MadeOf, Made
  <1> QED BY <1>3, <1>4, RecordOnly

\* op_finalize destroys the arenas in all n_arenas entries: they are the ones created.
LEMMA FinalizeKeeps ==
    ASSUME JeInv, NEW p \in JePools, op_finalize(p)
    PROVE  JeInv'
  <1>1. jePool[p].created = jePool[p].n
    BY DEF op_finalize, JeInv, PoolRight
  <1>2. /\ DestroyArenas(Made(p)) /\ jePool' = [jePool EXCEPT ![p] = NoJePool]
        /\ UNCHANGED poolByArena
    BY <1>1 DEF op_finalize, Made
  <1>3. 0 \notin Made(p) /\ Made(p) \cap arenaUsed = Made(p)
    BY MadeArenas
  <1>4. DOMAIN poolByArena' = Arenas
    BY <1>2 DEF JeInv, OwnersRight
  <1> QED BY <1>2, <1>3, <1>4, PoolGoes

-----------------------------------------------------------------------------
\* A step that changes extents only has to keep them right.
LEMMA ExtentsOnly ==
    ASSUME JeInv, UNCHANGED <<jePool, arenaUsed, hooked, poolByArena>>, ExtentsRight'
    PROVE  JeInv'
  <1>1. \A p \in JePools : Made(p)' = Made(p)
    BY DEF Made
  <1>2. OwnersRight'
    BY <1>1 DEF JeInv, OwnersRight, ArenasOwned
  <1> QED BY <1>2 DEF JeInv

\* The arena of a thread is one of its pool's.
LEMMA ArenaOfThread ==
    ASSUME JeInv, NEW p \in JePools, NEW t \in JeThreads, jePool[p].at = "ready"
    PROVE  get_arena_index(p, t) \in Made(p)
  <1>1. jePool[p].n \in Nat /\ jePool[p].n > 0 /\ jePool[p].created = jePool[p].n /\ t \in Nat
    BY JeAssumption DEF JeInv, PoolRight, JeRecords
  <1>2. (t % jePool[p].n) + 1 \in 1 .. jePool[p].created
    BY <1>1
  <1> QED BY <1>2 DEF get_arena_index, Made

\* op_malloc and op_realloc take kept memory of the arena or new memory of the provider.
LEMMA AllocationKeeps ==
    ASSUME JeInv, NEW p \in JePools, NEW t \in JeThreads, NEW x \in Extents,
           op_malloc(p, t, x) \/ \E y \in Extents : op_realloc(p, t, x, y)
    PROVE  JeInv'
  <1> DEFINE a == get_arena_index(p, t)
             e == [arena |-> a, from |-> p, user |-> p]
  <1>1. jePool[p].at = "ready"
    BY DEF op_malloc, op_realloc
  <1>2. a \in Made(p) /\ a \in arenaUsed /\ a \in hooked /\ poolByArena[a] = p
    BY <1>1, ArenaOfThread, MadeArenas DEF JeInv, OwnersRight
  <1> HIDE DEF a
  <1>3. /\ e \in [arena : arenaUsed, from : JePools, user : JePools \cup {"none"}]
        /\ e.arena = a /\ e.from = p /\ e.user = p
    BY <1>2
  <1>4. CASE op_malloc(p, t, x) /\ x \in DOMAIN extent
    <2>1. /\ extent[x].arena = a /\ extent' = [extent EXCEPT ![x].user = p]
          /\ UNCHANGED <<jePool, arenaUsed, hooked, poolByArena>>
      BY <1>4 DEF op_malloc, Serves, a
    <2>2. ExtentsRight'
      BY <1>2, <1>4, <2>1 DEF JeInv, ExtentsRight
    <2> QED BY <2>1, <2>2, ExtentsOnly
  <1>5. CASE op_malloc(p, t, x) /\ x \notin DOMAIN extent
    <2>1. /\ extent' = [y \in DOMAIN extent \cup {x} |-> IF y = x THEN e ELSE extent[y]]
          /\ UNCHANGED <<jePool, arenaUsed, hooked, poolByArena>>
      BY <1>2, <1>5 DEF op_malloc, arena_extent_alloc, a
    <2> HIDE DEF e
    <2>2. ExtentsRight'
      BY <1>2, <1>3, <2>1 DEF JeInv, ExtentsRight
    <2> QED BY <2>1, <2>2, ExtentsOnly
  <1>6. ASSUME NEW y \in Extents, op_realloc(p, t, x, y) PROVE JeInv'
    <2>1. /\ {x, y} \subseteq DOMAIN extent /\ extent[y].arena = a
          /\ extent' = [extent EXCEPT ![x].user = "none", ![y].user = p]
          /\ UNCHANGED <<jePool, arenaUsed, hooked, poolByArena>>
      BY <1>6 DEF op_realloc, Serves, a
    <2>2. ExtentsRight'
      BY <1>2, <2>1 DEF JeInv, ExtentsRight
    <2> QED BY <2>1, <2>2, ExtentsOnly
  <1> QED BY <1>4, <1>5, <1>6

\* Freed memory stays in its arena, and the hooks give back, split or join memory of
\* one arena.
LEMMA HooksKeep ==
    ASSUME JeInv, NEW x \in Extents,
           \/ op_free(x) \/ arena_extent_dalloc(x)
           \/ \E y \in Extents : arena_extent_split(x, y) \/ arena_extent_merge(x, y)
    PROVE  JeInv'
  <1>1. CASE op_free(x)
    BY <1>1, ExtentsOnly DEF op_free, JeInv, ExtentsRight
  <1>2. CASE arena_extent_dalloc(x)
    BY <1>2, ExtentsOnly DEF arena_extent_dalloc, JeInv, ExtentsRight
  <1>3. ASSUME NEW y \in Extents, arena_extent_split(x, y) PROVE JeInv'
    BY <1>3, ExtentsOnly DEF arena_extent_split, JeInv, ExtentsRight
  <1>4. ASSUME NEW y \in Extents, arena_extent_merge(x, y) PROVE JeInv'
    BY <1>4, ExtentsOnly DEF arena_extent_merge, JeInv, ExtentsRight
  <1> QED BY <1>1, <1>2, <1>3, <1>4

-----------------------------------------------------------------------------
\* What a jemalloc pool hands out is from its own provider, through pool_by_arena_index,
\* and its arenas are its own, however often numbers are used again.
THEOREM ProvidersAlwaysIsolated ==
    ASSUME "late" \notin JeFails
    PROVE  JeSpec => [](ProvidersIsolated /\ ArenasOwned)
  <1>1. JeInv /\ [JeNext]_jeVars => JeInv'
    <2> SUFFICES ASSUME JeInv, [JeNext]_jeVars PROVE JeInv'
      OBVIOUS
    <2>1. CASE UNCHANGED jeVars
      BY <2>1, ExtentsOnly DEF jeVars, JeInv, ExtentsRight
    <2>2. ASSUME NEW p \in JePools, NEW given \in BOOLEAN, NEW want \in ParamArenas \cup {0},
                 op_initialize(p, given, want)
          PROVE  JeInv'
      BY <2>2, InitializeKeeps
    <2>3. ASSUME NEW p \in JePools, NEW a \in Arenas, CreateArena(p, a) \/ CreateUnusable(p, a)
          PROVE  JeInv'
      BY <2>3, CreateKeeps, CreationFails
    <2>4. ASSUME NEW p \in JePools,
                 CreateFails(p) \/ CreateAgain(p) \/ AllCreated(p) \/ op_finalize(p)
          PROVE  JeInv'
      BY <2>4, CreationFails, AllCreatedKeeps, FinalizeKeeps
    <2>5. ASSUME NEW p \in JePools, NEW t \in JeThreads, NEW x \in Extents,
                 op_malloc(p, t, x) \/ \E y \in Extents : op_realloc(p, t, x, y)
          PROVE  JeInv'
      BY <2>5, AllocationKeeps
    <2>6. ASSUME NEW x \in Extents, op_free(x) \/ arena_extent_dalloc(x) PROVE JeInv'
      BY <2>6, HooksKeep
    <2>7. ASSUME NEW x \in Extents, NEW y \in Extents,
                 arena_extent_split(x, y) \/ arena_extent_merge(x, y)
          PROVE  JeInv'
      BY <2>7, HooksKeep
    <2> QED BY <2>1, <2>2, <2>3, <2>4, <2>5, <2>6, <2>7 DEF JeNext
  <1>2. JeInv => ProvidersIsolated /\ ArenasOwned
    BY DEF JeInv, OwnersRight, ExtentsRight, ProvidersIsolated
  <1> QED BY JeInitInv, <1>1, <1>2, PTL DEF JeSpec

=============================================================================
