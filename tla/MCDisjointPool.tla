---------------------------- MODULE MCDisjointPool ----------------------------
(* Instances of the disjoint pool for TLC. *)
EXTENDS DisjointPool, TLC

CONSTANTS t1, t2

Symmetry == Permutations(Threads)

\* Requests for a small and a large bucket.
MCTwoSizes == {[size |-> 2, alignment |-> 0], [size |-> 3, alignment |-> 0]}

\* Requests for a bucket and, above MaxPoolableSize, for the provider.
MCDirect == {[size |-> 2, alignment |-> 0], [size |-> 4, alignment |-> 0]}

\* Aligned requests to chunked and to whole-slab buckets, and one for the provider.
MCAligned == {[size |-> 1, alignment |-> 4], [size |-> 3, alignment |-> 2],
              [size |-> 8, alignment |-> 4], [size |-> 13, alignment |-> 0]}

MCAddr12 == 4 .. 15

MCAddr8 == 4 .. 11

MCAddr22 == 2 .. 23

=============================================================================
