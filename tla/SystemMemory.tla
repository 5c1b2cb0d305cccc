----------------------------- MODULE SystemMemory -----------------------------
(***************************************************************************)
(* Memory of the system in pages, as the base allocators take it           *)
(* (src/base_alloc/base_alloc_linux.c).  Addresses are numbers, so that    *)
(* headers, alignment and the ends of pools can be checked.  A mapping is  *)
(* put at the lowest address that has room for it.                         *)
(***************************************************************************)
EXTENDS Integers, FiniteSetsExt

CONSTANTS
    Page,           \* ba_os_get_page_size()
    OsPages         \* pages the system has

ASSUME SystemMemoryAssumption == {Page, OsPages} \subseteq Nat \ {0}

VARIABLE os         \* what is mapped: address -> size

AlignUp(n, a) == ((n + a - 1) \div a) * a

Apart(a, size, b, bsize) == a + size <= b \/ b + bsize <= a

\* Where the system can map this many bytes.
OsRoom(size) ==
    {a \in {Page * k : k \in 1 .. OsPages} :
        a + size <= Page * (OsPages + 1) /\ \A b \in DOMAIN os : Apart(a, size, b, AlignUp(os[b], Page))}

\* ba_os_alloc
OsAlloc(a, size) ==
    /\ OsRoom(size) # {} /\ a = Min(OsRoom(size))
    /\ os' = [x \in DOMAIN os \cup {a} |-> IF x = a THEN size ELSE os[x]]

\* ba_os_free of whole mappings
OsFree(as) == os' = [x \in DOMAIN os \ as |-> os[x]]

\* These bytes are part of a mapping.
InMemory(a, size) == \E b \in DOMAIN os : b <= a /\ a + size <= b + os[b]
=============================================================================
