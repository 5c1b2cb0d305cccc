------------------------------- MODULE MCCoarse -------------------------------
(* Instances of the coarse library for TLC. *)
EXTENDS Coarse

\* Two touching regions, the first one not aligned to a page.
MCRegions == {[addr |-> 3, size |-> 6], [addr |-> 9, size |-> 4]}

MCTwoSmall == {[addr |-> 2, size |-> 4], [addr |-> 6, size |-> 2]}

MCWindow == 2 .. 8

MCSmallWindow == 2 .. 5

=============================================================================
