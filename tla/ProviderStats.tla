------------------------------ MODULE ProviderStats ------------------------------
(***************************************************************************)
(* The statistics of a memory provider                                     *)
(* (src/provider/provider_ctl_stats_impl.h): two counters that threads     *)
(* update without a lock, and a reset of the peak.                         *)
(***************************************************************************)
EXTENDS Integers

CONSTANTS
    StatThreads,
    StatSizes,
    MaxAllocated,   \* bound on the memory allocated
    ResetRaces      \* the peak is reset while other threads allocate or free

ASSUME StatAssumption ==
    /\ StatSizes \subseteq Nat \ {0} /\ MaxAllocated \in Nat /\ ResetRaces \in BOOLEAN

VARIABLES
    allocated,      \* allocated_memory
    peak,           \* peak_memory
    statCall,       \* what each thread is doing, with its local variables
    highest         \* the most that was allocated at once since the last reset

statVars == <<allocated, peak, statCall, highest>>

StatIdle == [at |-> "idle", mine |-> 0, peak |-> 0]

StatInit ==
    /\ allocated = 0 /\ peak = 0 /\ highest = 0
    /\ statCall = [t \in StatThreads |-> StatIdle]

At(t, place) == statCall[t].at = place

GoStat(t, place, mine, seen) ==
    statCall' = [statCall EXCEPT ![t] = [at |-> place, mine |-> mine, peak |-> seen]]

-----------------------------------------------------------------------------

\* provider_ctl_stats_alloc: the memory is added ...
AddAllocated(t, size) ==
    /\ At(t, "idle") /\ allocated + size <= MaxAllocated
    /\ allocated' = allocated + size
    /\ highest' = IF allocated + size > highest THEN allocated + size ELSE highest
    /\ GoStat(t, "load", allocated + size, 0)
    /\ UNCHANGED peak

\* ... the peak is read ...
LoadPeak(t) ==
    /\ At(t, "load")
    /\ GoStat(t, "raise", statCall[t].mine, peak)
    /\ UNCHANGED <<allocated, peak, highest>>

\* Fault: the peak is written without looking whether it has changed.
RaiseBlindly(t) ==
    /\ At(t, "raise")
    /\ peak' = IF statCall[t].mine > statCall[t].peak THEN statCall[t].mine ELSE peak
    /\ statCall' = [statCall EXCEPT ![t] = StatIdle]

\* ... and raised, with compare-exchange, until it is high enough.
RaisePeak(t) ==
    LET c == statCall[t]
        low == c.mine > c.peak
    IN  /\ At(t, "raise")
        /\ peak' = IF low /\ peak = c.peak THEN c.mine ELSE peak
        /\ IF low /\ peak # c.peak THEN GoStat(t, "raise", c.mine, peak)
           ELSE statCall' = [statCall EXCEPT ![t] = StatIdle]

Raise(t) == RaisePeak(t) /\ UNCHANGED <<allocated, highest>>

\* provider_ctl_stats_free.
SubAllocated(t, size) ==
    /\ At(t, "idle") /\ size <= allocated
    /\ allocated' = allocated - size
    /\ UNCHANGED <<peak, statCall, highest>>

\* peak_memory.reset: the peak is read once ...
BeginReset(t) ==
    /\ At(t, "idle") /\ \A u \in StatThreads : ResetRaces \/ At(u, "idle")
    /\ GoStat(t, "allocated", 0, peak)
    /\ UNCHANGED <<allocated, peak, highest>>

\* ... then what is allocated ...
LoadAllocated(t) ==
    /\ At(t, "allocated")
    /\ GoStat(t, "reset", allocated, statCall[t].peak)
    /\ UNCHANGED <<allocated, peak, highest>>

\* ... and the peak becomes that, unless it has changed.
ResetPeak(t) ==
    LET c == statCall[t]
    IN  /\ At(t, "reset")
        /\ IF peak = c.peak
           THEN /\ peak' = c.mine /\ highest' = allocated
                /\ statCall' = [statCall EXCEPT ![t] = StatIdle]
           ELSE GoStat(t, "allocated", 0, peak) /\ UNCHANGED <<peak, highest>>
        /\ UNCHANGED allocated

\* Nobody else is counting while the peak is reset, unless resets race.
MayCount(t) ==
    ResetRaces \/ \A u \in StatThreads : statCall[u].at \notin {"allocated", "reset"}

StatNext ==
    \E t \in StatThreads :
        \/ \E size \in StatSizes : MayCount(t) /\ (AddAllocated(t, size) \/ SubAllocated(t, size))
        \/ LoadPeak(t) \/ Raise(t)
        \/ BeginReset(t) \/ LoadAllocated(t) \/ ResetPeak(t)

StatSpec == StatInit /\ [][StatNext]_statVars

-----------------------------------------------------------------------------
(* What holds.                                                             *)

\* When no thread is counting, the peak is exactly the most that was allocated at
\* once since the last reset.
PeakExact == (\A t \in StatThreads : At(t, "idle")) => peak = highest

=============================================================================
