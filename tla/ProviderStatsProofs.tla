--------------------------- MODULE ProviderStatsProofs ---------------------------
(***************************************************************************)
(* The peak of a provider's statistics is exact, for any number of threads *)
(* and any sizes, when no reset runs while threads count.                  *)
(***************************************************************************)
EXTENDS ProviderStats, TLAPS

Places == {"idle", "load", "raise", "allocated", "reset"}

StatTypes ==
    /\ allocated \in Nat /\ peak \in Nat /\ highest \in Nat
    /\ statCall \in [StatThreads -> [at : Places, mine : Nat, peak : Nat]]

\* A thread that has added its memory and not yet seen to the peak.
Counting(t) == statCall[t].at \in {"load", "raise"}

\* A thread in the middle of a reset.
Resetting(t) == statCall[t].at \in {"allocated", "reset"}

\* The inductive invariant.  The peak may lag behind, but only while the thread that
\* reached the highest sum is still counting; what a thread has read of the peak is
\* never above it; and a reset is alone.
StatInv ==
    /\ StatTypes
    /\ peak <= highest /\ allocated <= highest
    /\ \A t \in StatThreads : Counting(t) => statCall[t].mine <= highest
    /\ \A t \in StatThreads : statCall[t].at = "raise" => statCall[t].peak <= peak
    /\ peak = highest \/ \E t \in StatThreads : Counting(t) /\ statCall[t].mine = highest
    /\ \A t, u \in StatThreads : Resetting(t) /\ t # u => statCall[u].at = "idle"
    /\ \A t \in StatThreads : statCall[t].at = "reset" => statCall[t].mine = allocated

-----------------------------------------------------------------------------
\* What a thread's step does to the records of all threads (GoStat and the return
\* to StatIdle).
LEMMA Stepped ==
    ASSUME StatTypes, NEW t \in StatThreads, NEW r \in [at : Places, mine : Nat, peak : Nat],
           statCall' = [statCall EXCEPT ![t] = r]
    PROVE  /\ statCall' \in [StatThreads -> [at : Places, mine : Nat, peak : Nat]]
           /\ statCall'[t] = r
           /\ \A u \in StatThreads \ {t} : statCall'[u] = statCall[u]
  BY DEF StatTypes

\* Both counters start at zero and nobody is counting.
LEMMA StatInitInv == StatInit => StatInv
  BY DEF StatInit, StatInv, StatTypes, StatIdle, Places, Counting, Resetting

\* provider_ctl_stats_alloc, the addition: the thread now vouches for the highest sum.
LEMMA AddKeeps ==
    ASSUME StatInv, ~ResetRaces, NEW t \in StatThreads, NEW size \in StatSizes,
           MayCount(t), AddAllocated(t, size)
    PROVE  StatInv'
  <1> DEFINE r == [at |-> "load", mine |-> allocated + size, peak |-> 0]
  <1>1. size \in Nat /\ size > 0
    BY StatAssumption
  <1>2. r \in [at : Places, mine : Nat, peak : Nat] /\ r.at = "load" /\ r.mine = allocated + size
    BY <1>1 DEF StatInv, StatTypes, Places
  <1>3. statCall' = [statCall EXCEPT ![t] = r]
    BY DEF AddAllocated, GoStat
  <1>4. /\ statCall' \in [StatThreads -> [at : Places, mine : Nat, peak : Nat]]
        /\ statCall'[t] = r
        /\ \A u \in StatThreads \ {t} : statCall'[u] = statCall[u]
    BY <1>2, <1>3, Stepped DEF StatInv
  <1>5. /\ allocated' = allocated + size /\ peak' = peak
        /\ highest' = IF allocated + size > highest THEN allocated + size ELSE highest
    BY DEF AddAllocated
  <1> HIDE DEF r
  <1>6. StatTypes'
    BY <1>1, <1>4, <1>5 DEF StatInv, StatTypes
  <1>7. peak' <= highest' /\ allocated' <= highest' /\ highest <= highest'
    BY <1>1, <1>5 DEF StatInv, StatTypes
  <1>8. \A u \in StatThreads : ~Resetting(u)
    BY DEF MayCount, Resetting
  <1>9. \A u \in StatThreads : Counting(u)' => statCall'[u].mine <= highest'
    <2> SUFFICES ASSUME NEW u \in StatThreads, Counting(u)' PROVE statCall'[u].mine <= highest'
      OBVIOUS
    <2>1. CASE u = t
      BY <2>1, <1>2, <1>4, <1>5, <1>7
    <2>2. CASE u # t
      BY <2>2, <1>4, <1>5, <1>1 DEF StatInv, StatTypes, Counting
    <2> QED BY <2>1, <2>2
  <1>10. \A u \in StatThreads : statCall'[u].at = "raise" => statCall'[u].peak <= peak'
    BY <1>2, <1>4, <1>5 DEF StatInv
  <1>11. peak' = highest' \/ \E u \in StatThreads : (Counting(u) /\ statCall[u].mine = highest)'
    <2>1. CASE allocated + size > highest
      BY <2>1, <1>2, <1>4, <1>5 DEF Counting
    <2>2. CASE ~(allocated + size > highest)
      <3>1. highest' = highest
        BY <2>2, <1>5
      <3>2. statCall[t].at = "idle"
        BY DEF AddAllocated, At
      <3> QED BY <3>1, <3>2, <1>4, <1>5 DEF StatInv, Counting
    <2> QED BY <2>1, <2>2
  <1>12. \A u \in StatThreads : statCall'[u].at \notin {"allocated", "reset"}
    BY <1>2, <1>4, <1>8 DEF Resetting
  <1> QED BY <1>6, <1>7, <1>9, <1>10, <1>11, <1>12 DEF StatInv, Resetting

\* Reading the peak, and a free: neither counter that matters goes up.
LEMMA LoadKeeps ==
    ASSUME StatInv, NEW t \in StatThreads, LoadPeak(t)
    PROVE  StatInv'
  <1> DEFINE r == [at |-> "raise", mine |-> statCall[t].mine, peak |-> peak]
  <1>2. /\ r \in [at : Places, mine : Nat, peak : Nat]
        /\ r.at = "raise" /\ r.mine = statCall[t].mine /\ r.peak = peak
    BY DEF StatInv, StatTypes, Places
  <1>3. statCall' = [statCall EXCEPT ![t] = r]
    BY DEF LoadPeak, GoStat
  <1>4. /\ statCall' \in [StatThreads -> [at : Places, mine : Nat, peak : Nat]]
        /\ statCall'[t] = r
        /\ \A u \in StatThreads \ {t} : statCall'[u] = statCall[u]
    BY <1>2, <1>3, Stepped DEF StatInv
  <1>5. allocated' = allocated /\ peak' = peak /\ highest' = highest /\ statCall[t].at = "load"
    BY DEF LoadPeak, At
  <1> HIDE DEF r
  <1>6. \A u \in StatThreads : Counting(u)' <=> Counting(u)
    BY <1>2, <1>4, <1>5 DEF Counting
  <1>7. \A u \in StatThreads : statCall'[u].mine = statCall[u].mine
    BY <1>2, <1>4
  <1>8. \A u \in StatThreads : ~Resetting(u) /\ ~Resetting(u)'
    BY <1>2, <1>4, <1>5 DEF StatInv, Resetting
  <1>9. \A u \in StatThreads : statCall'[u].at = "raise" => statCall'[u].peak <= peak'
    BY <1>2, <1>4, <1>5 DEF StatInv, StatTypes
  <1> QED BY <1>4, <1>5, <1>6, <1>7, <1>8, <1>9 DEF StatInv, StatTypes, Resetting

\* The compare-exchange of the peak: a thread leaves only when the peak is at least
\* what it vouched for.
LEMMA RaiseKeeps ==
    ASSUME StatInv, NEW t \in StatThreads, Raise(t)
    PROVE  StatInv'
  <1> DEFINE c == statCall[t]
             again == [at |-> "raise", mine |-> c.mine, peak |-> peak]
  <1>1. /\ c \in [at : Places, mine : Nat, peak : Nat]
        /\ peak \in Nat /\ highest \in Nat /\ allocated \in Nat
        /\ c.mine \in Nat /\ c.peak \in Nat
        /\ c.at = "raise" /\ c.mine <= highest /\ c.peak <= peak
        /\ peak <= highest
        /\ allocated' = allocated /\ highest' = highest
    BY DEF StatInv, StatTypes, Counting, Raise, RaisePeak, At
  <1>2. \A u \in StatThreads : ~Resetting(u)
    BY <1>1 DEF StatInv, Resetting
  <1>3. CASE c.mine > c.peak /\ peak # c.peak
    <2>1. peak' = peak /\ statCall' = [statCall EXCEPT ![t] = again]
      BY <1>3 DEF Raise, RaisePeak, GoStat
    <2>2. again \in [at : Places, mine : Nat, peak : Nat]
      BY <1>1 DEF Places
    <2>3. /\ statCall' \in [StatThreads -> [at : Places, mine : Nat, peak : Nat]]
          /\ statCall'[t] = again
          /\ \A u \in StatThreads \ {t} : statCall'[u] = statCall[u]
      BY <2>1, <2>2, Stepped DEF StatInv
    <2>4. \A u \in StatThreads : statCall'[u].at = statCall[u].at /\ statCall'[u].mine = statCall[u].mine
      BY <2>3, <1>1
    <2>5. \A u \in StatThreads : statCall'[u].at = "raise" => statCall'[u].peak <= peak'
      BY <2>1, <2>3, <1>1 DEF StatInv
    <2> QED BY <1>1, <1>2, <2>1, <2>3, <2>4, <2>5 DEF StatInv, StatTypes, Counting, Resetting
  <1>4. CASE ~(c.mine > c.peak /\ peak # c.peak)
    <2>1. /\ peak' = IF c.mine > c.peak /\ peak = c.peak THEN c.mine ELSE peak
          /\ statCall' = [statCall EXCEPT ![t] = StatIdle]
      BY <1>4 DEF Raise, RaisePeak
    <2>2. StatIdle \in [at : Places, mine : Nat, peak : Nat] /\ StatIdle.at = "idle"
      BY DEF StatIdle, Places
    <2>3. /\ statCall' \in [StatThreads -> [at : Places, mine : Nat, peak : Nat]]
          /\ statCall'[t] = StatIdle
          /\ \A u \in StatThreads \ {t} : statCall'[u] = statCall[u]
      BY <2>1, <2>2, Stepped DEF StatInv
    <2>4. peak' \in Nat /\ peak <= peak' /\ c.mine <= peak' /\ peak' <= highest
      BY <2>1, <1>1, <1>4
    <2>5. \A u \in StatThreads : statCall'[u].at = "raise" => statCall'[u].peak <= peak'
      BY <2>2, <2>3, <2>4, <1>1 DEF StatInv, StatTypes
    <2>6. peak' = highest' \/ \E u \in StatThreads : (Counting(u) /\ statCall[u].mine = highest)'
      <3>1. CASE peak = highest \/ c.mine = highest
        BY <3>1, <2>4, <1>1
      <3>2. CASE ~(peak = highest \/ c.mine = highest)
        <4>1. PICK u \in StatThreads : Counting(u) /\ statCall[u].mine = highest
          BY <3>2 DEF StatInv
        <4>2. u # t
          BY <4>1, <3>2
        <4> QED BY <4>1, <4>2, <2>3, <1>1 DEF Counting
      <3> QED BY <3>1, <3>2
    <2>7. \A u \in StatThreads : Counting(u)' => statCall'[u].mine <= highest'
      BY <2>2, <2>3, <1>1 DEF StatInv, Counting
    <2>8. \A u \in StatThreads : ~Resetting(u)'
      BY <2>2, <2>3, <1>2 DEF Resetting
    <2> QED BY <1>1, <2>3, <2>4, <2>5, <2>6, <2>7, <2>8 DEF StatInv, StatTypes, Resetting
  <1> QED BY <1>3, <1>4

\* provider_ctl_stats_free only lowers the sum.
LEMMA SubKeeps ==
    ASSUME StatInv, ~ResetRaces, NEW t \in StatThreads, NEW size \in StatSizes,
           MayCount(t), SubAllocated(t, size)
    PROVE  StatInv'
  <1>1. size \in Nat /\ size > 0
    BY StatAssumption
  <1>2. \A u \in StatThreads : ~Resetting(u)
    BY DEF MayCount, Resetting
  <1>3. /\ allocated' \in Nat /\ allocated' <= allocated
        /\ peak' = peak /\ highest' = highest /\ statCall' = statCall
    BY <1>1 DEF SubAllocated, StatInv, StatTypes
  <1> QED BY <1>2, <1>3 DEF StatInv, StatTypes, Counting, Resetting

\* A reset begins when nobody is counting: it is alone.
LEMMA BeginResetKeeps ==
    ASSUME StatInv, ~ResetRaces, NEW t \in StatThreads, BeginReset(t)
    PROVE  StatInv'
  <1> DEFINE r == [at |-> "allocated", mine |-> 0, peak |-> peak]
  <1>1. r \in [at : Places, mine : Nat, peak : Nat] /\ r.at = "allocated"
    BY DEF StatInv, StatTypes, Places
  <1>2. statCall' = [statCall EXCEPT ![t] = r]
    BY DEF BeginReset, GoStat
  <1>3. /\ statCall' \in [StatThreads -> [at : Places, mine : Nat, peak : Nat]]
        /\ statCall'[t] = r
        /\ \A u \in StatThreads \ {t} : statCall'[u] = statCall[u]
    BY <1>1, <1>2, Stepped DEF StatInv
  <1>4. /\ allocated' = allocated /\ peak' = peak /\ highest' = highest
        /\ \A u \in StatThreads : statCall[u].at = "idle"
    BY DEF BeginReset, At
  <1> HIDE DEF r
  <1> QED BY <1>1, <1>3, <1>4 DEF StatInv, StatTypes, Counting, Resetting

\* What is allocated does not change while a reset runs.
LEMMA LoadAllocatedKeeps ==
    ASSUME StatInv, NEW t \in StatThreads, LoadAllocated(t)
    PROVE  StatInv'
  <1> DEFINE r == [at |-> "reset", mine |-> allocated, peak |-> statCall[t].peak]
  <1>1. r \in [at : Places, mine : Nat, peak : Nat] /\ r.at = "reset" /\ r.mine = allocated
    BY DEF StatInv, StatTypes, Places
  <1>2. statCall' = [statCall EXCEPT ![t] = r]
    BY DEF LoadAllocated, GoStat
  <1>3. /\ statCall' \in [StatThreads -> [at : Places, mine : Nat, peak : Nat]]
        /\ statCall'[t] = r
        /\ \A u \in StatThreads \ {t} : statCall'[u] = statCall[u]
    BY <1>1, <1>2, Stepped DEF StatInv
  <1>4. allocated' = allocated /\ peak' = peak /\ highest' = highest /\ Resetting(t)
    BY DEF LoadAllocated, At, Resetting
  <1>5. \A u \in StatThreads \ {t} : statCall[u].at = "idle"
    BY <1>4 DEF StatInv
  <1> HIDE DEF r
  <1>6. peak = highest
    BY <1>4, <1>5 DEF StatInv, Counting, Resetting
  <1> QED BY <1>1, <1>3, <1>4, <1>5, <1>6 DEF StatInv, StatTypes, Counting, Resetting

\* A reset starts a new measurement: the peak and the highest sum are both what is
\* allocated now.
LEMMA ResetKeeps ==
    ASSUME StatInv, NEW t \in StatThreads, ResetPeak(t)
    PROVE  StatInv'
  <1>1. /\ statCall[t].at = "reset" /\ Resetting(t) /\ statCall[t].mine = allocated
        /\ allocated' = allocated
    BY DEF ResetPeak, At, Resetting, StatInv
  <1>2. \A u \in StatThreads \ {t} : statCall[u].at = "idle"
    BY <1>1 DEF StatInv
  <1>3. CASE peak = statCall[t].peak
    <2>1. /\ peak' = allocated /\ highest' = allocated
          /\ statCall' = [statCall EXCEPT ![t] = StatIdle]
      BY <1>1, <1>3 DEF ResetPeak
    <2>2. StatIdle \in [at : Places, mine : Nat, peak : Nat] /\ StatIdle.at = "idle"
      BY DEF StatIdle, Places
    <2>3. /\ statCall' \in [StatThreads -> [at : Places, mine : Nat, peak : Nat]]
          /\ \A u \in StatThreads : statCall'[u].at = "idle"
      BY <2>1, <2>2, <1>2, Stepped DEF StatInv
    <2> QED BY <1>1, <2>1, <2>3 DEF StatInv, StatTypes, Counting, Resetting
  <1>4. CASE peak # statCall[t].peak
    <2> DEFINE r == [at |-> "allocated", mine |-> 0, peak |-> peak]
    <2>1. peak' = peak /\ highest' = highest /\ statCall' = [statCall EXCEPT ![t] = r]
      BY <1>4 DEF ResetPeak, GoStat
    <2>2. r \in [at : Places, mine : Nat, peak : Nat] /\ r.at = "allocated"
      BY DEF StatInv, StatTypes, Places
    <2>3. /\ statCall' \in [StatThreads -> [at : Places, mine : Nat, peak : Nat]]
          /\ statCall'[t] = r
          /\ \A u \in StatThreads \ {t} : statCall'[u] = statCall[u]
      BY <2>1, <2>2, Stepped DEF StatInv
    <2> HIDE DEF r
    <2>4. peak = highest
      BY <1>1, <1>2 DEF StatInv, Counting
    <2> QED BY <1>1, <1>2, <2>1, <2>2, <2>3, <2>4 DEF StatInv, StatTypes, Counting, Resetting
  <1> QED BY <1>3, <1>4

\* The lock-free peak of provider_ctl_stats_alloc is exact whenever no thread is in
\* the middle of counting, for any number of threads, if resets do not race.
THEOREM PeakAlwaysExact ==
    ASSUME ~ResetRaces
    PROVE  StatSpec => []PeakExact
  <1>1. StatInv /\ [StatNext]_statVars => StatInv'
    <2> SUFFICES ASSUME StatInv, [StatNext]_statVars PROVE StatInv'
      OBVIOUS
    <2>1. ASSUME NEW t \in StatThreads, NEW size \in StatSizes, MayCount(t), AddAllocated(t, size)
          PROVE  StatInv'
      BY <2>1, AddKeeps
    <2>2. ASSUME NEW t \in StatThreads, NEW size \in StatSizes, MayCount(t), SubAllocated(t, size)
          PROVE  StatInv'
      BY <2>2, SubKeeps
    <2>3. ASSUME NEW t \in StatThreads, LoadPeak(t) PROVE StatInv'
      BY <2>3, LoadKeeps
    <2>4. ASSUME NEW t \in StatThreads, Raise(t) PROVE StatInv'
      BY <2>4, RaiseKeeps
    <2>5. ASSUME NEW t \in StatThreads, BeginReset(t) PROVE StatInv'
      BY <2>5, BeginResetKeeps
    <2>6. ASSUME NEW t \in StatThreads, LoadAllocated(t) PROVE StatInv'
      BY <2>6, LoadAllocatedKeeps
    <2>7. ASSUME NEW t \in StatThreads, ResetPeak(t) PROVE StatInv'
      BY <2>7, ResetKeeps
    <2>8. CASE UNCHANGED statVars
      BY <2>8 DEF statVars, StatInv, StatTypes, Counting, Resetting
    <2> QED BY <2>1, <2>2, <2>3, <2>4, <2>5, <2>6, <2>7, <2>8 DEF StatNext
  <1>2. StatInv => PeakExact
    BY DEF StatInv, PeakExact, Counting, At
  <1> QED BY StatInitInv, <1>1, <1>2, PTL DEF StatSpec

=============================================================================
