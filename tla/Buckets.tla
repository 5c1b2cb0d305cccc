------------------------------- MODULE Buckets -------------------------------
(***************************************************************************)
(* How the disjoint pool maps a request to a bucket                        *)
(* (src/pool/pool_disjoint.c): the sizes that disjoint_pool_initialize     *)
(* creates and the arithmetic of size_to_idx.  The state is one request to *)
(* a pool of some configuration; requests follow one another.              *)
(***************************************************************************)
EXTENDS Integers, Sequences, FiniteSetsExt

CONSTANTS
    Word,               \* SIZE_MAX + 1
    CutOff,             \* the largest bucket, a power of two
    MinDefault,         \* UMF_DISJOINT_POOL_MIN_BUCKET_DEFAULT_SIZE
    MinBucketSizes,     \* values of params.min_bucket_size: powers of two
    MaxPoolableSizes,   \* values of params.max_poolable_size
    PageSize,           \* provider_min_page_size
    Alignments          \* alignments of requests

ASSUME BucketsAssumption ==
    /\ {Word, CutOff, MinDefault, PageSize} \subseteq Nat \ {0}
    /\ MinBucketSizes \subseteq 1 .. (Word - 1)
    /\ MaxPoolableSizes \subseteq 0 .. (Word - 1)
    /\ Alignments \subseteq 0 .. (Word - 1)

VARIABLES
    min_bucket_size,    \* params.min_bucket_size
    max_poolable_size,  \* params.max_poolable_size
    size,               \* the request
    alignment

vars == <<min_bucket_size, max_poolable_size, size, alignment>>

-----------------------------------------------------------------------------

\* utils_msb64: the position of the leftmost set bit
msb(n) == CHOOSE i \in 0 .. n : 2 ^ i <= n /\ n < 2 ^ (i + 1)

IsPowerOf2(n) == 2 ^ msb(n) = n

AlignUpSafe(n, a) ==
    IF n + a - 1 >= Word THEN 0 ELSE ((n + a - 1) \div a) * a

\* The size of the first bucket.
Size1(min) == Max({Min({min, CutOff}), MinDefault})

\* The sizes of the buckets: powers of two and the values halfway between
\* them, and CutOff as the last one.
BucketSizes(min) ==
    LET first == Size1(min)
        pairs == Cardinality({k \in 0 .. msb(CutOff) : (first + first \div 2) * 2 ^ k < CutOff})
    IN  [i \in 1 .. (2 * pairs + 1) |->
            IF i = 2 * pairs + 1 THEN CutOff
            ELSE IF i % 2 = 1 THEN first * 2 ^ ((i - 1) \div 2)
            ELSE (first + first \div 2) * 2 ^ ((i - 2) \div 2)]

\* Fault: a size between two powers of two is always put in the halfway bucket.
size_to_idx_no_halfway(n, min) ==
    LET exp == msb(Size1(min))
    IN  IF n < 2 ^ exp THEN 0
        ELSE (msb(n) - exp) * 2 + (IF IsPowerOf2(n) THEN 0 ELSE 1)

\* The index of the bucket for a size.
size_to_idx(n, min) ==
    LET exp      == msb(Size1(min))
        position == msb(n)
        between  == ~IsPowerOf2(n)
        \* bit position - 1 of n - 1
        larger   == between /\ ((n - 1) \div 2 ^ (position - 1)) % 2 = 1
    IN  IF n < 2 ^ exp THEN 0
        ELSE (position - exp) * 2 + (IF between THEN 1 ELSE 0) + (IF larger THEN 1 ELSE 0)

\* Fault: an alignment above the page size is not compensated for.
aligned_size_uncompensated(n, a) ==
    IF a <= 1 THEN n ELSE IF n > 1 THEN AlignUpSafe(n, a) ELSE a

\* The size disjoint_pool_aligned_malloc looks for.
aligned_size(n, a) ==
    IF a <= 1 THEN n
    ELSE IF a <= PageSize THEN IF n > 1 THEN AlignUpSafe(n, a) ELSE a
    ELSE (n + a - 1) % Word

-----------------------------------------------------------------------------

Init ==
    /\ min_bucket_size \in MinBucketSizes
    /\ max_poolable_size \in MaxPoolableSizes
    /\ size = 1
    /\ alignment \in Alignments

\* Another request: all sizes in turn.
Next ==
    /\ size' = (size % (Word - 1)) + 1
    /\ UNCHANGED <<min_bucket_size, max_poolable_size, alignment>>

Spec == Init /\ [][Next]_vars

-----------------------------------------------------------------------------

Wanted == aligned_size(size, alignment)

Pooled == Wanted <= max_poolable_size

Sizes == BucketSizes(min_bucket_size)

Idx == size_to_idx(Wanted, min_bucket_size)

\* The bit arithmetic of size_to_idx finds the smallest bucket the request
\* fits in: it agrees with a search through the sizes.
SmallestBucket ==
    Pooled /\ Wanted \in 1 .. CutOff =>
        /\ Idx + 1 \in DOMAIN Sizes
        /\ Sizes[Idx + 1] >= Wanted
        /\ \A i \in DOMAIN Sizes : Sizes[i] >= Wanted => Sizes[i] >= Sizes[Idx + 1]

\* A chunk has room for the request wherever the chunk starts: the bytes
\* skipped to reach the alignment are paid for.  For an alignment of at most a
\* page the slab starts on a page and the bucket size is a multiple of the
\* alignment (the comment of pool_disjoint.c:1047-1049), so nothing is skipped.
RoomForAlignment ==
    Pooled /\ Wanted \in 1 .. CutOff /\ alignment > 1 /\ size + alignment <= Word =>
        LET bucket == Sizes[Idx + 1]
        IN  \A slab \in {PageSize * k : k \in 1 .. alignment}, chunk \in 0 .. 3 :
                LET ptr == slab + chunk * bucket
                IN  AlignUpSafe(ptr, alignment) # 0 =>
                        AlignUpSafe(ptr, alignment) + size <= ptr + bucket

=============================================================================
