---------------------------- MODULE RangeAllocator ----------------------------
(***************************************************************************)
(* What a memory provider with splitting and merging promises its users:   *)
(* the operations alloc, free, allocation_split and allocation_merge of    *)
(* umf_memory_provider_ops_t, without the bookkeeping behind them.  An     *)
(* allocation lies in the provider's memory and shares no byte with        *)
(* another one; splitting and merging re-cut allocations and move nothing. *)
(***************************************************************************)
EXTENDS Integers

VARIABLES
    mem,    \* the bytes the provider manages
    live    \* address -> size of the outstanding allocations

avars == <<mem, live>>

Range(a, size) == a .. (a + size - 1)

Add(f, x, v) == [y \in DOMAIN f \cup {x} |-> IF y = x THEN v ELSE f[y]]

Remove(f, x) == [y \in DOMAIN f \ {x} |-> f[y]]

Empty == [x \in {} |-> x]

Init == mem = {} /\ live = Empty

\* The provider gets more memory.
Extend == mem \subseteq mem' /\ UNCHANGED live

\* alloc, which may have to get more memory first.
Alloc ==
    /\ mem \subseteq mem'
    /\ \E a \in DOMAIN live' \ DOMAIN live :
        /\ live' = Add(live, a, live'[a])
        /\ Range(a, live'[a]) \subseteq mem'
        /\ \A b \in DOMAIN live : Range(a, live'[a]) \cap Range(b, live[b]) = {}

Free ==
    /\ \E a \in DOMAIN live : live' = Remove(live, a)
    /\ UNCHANGED mem

Split ==
    /\ \E a \in DOMAIN live : \E first \in 1 .. (live[a] - 1) :
        live' = Add(Add(live, a, first), a + first, live[a] - first)
    /\ UNCHANGED mem

Merge ==
    /\ \E lo, hi \in DOMAIN live :
        /\ lo + live[lo] = hi
        /\ live' = Add(Remove(live, hi), lo, live[lo] + live[hi])
    /\ UNCHANGED mem

\* The provider is destroyed.
Finalize == mem' = {} /\ live' = Empty

Next == Extend \/ Alloc \/ Free \/ Split \/ Merge \/ Finalize

Spec == Init /\ [][Next]_avars

=============================================================================
