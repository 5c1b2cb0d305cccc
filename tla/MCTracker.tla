------------------------------- MODULE MCTracker -------------------------------
(* Instances of the tracker for TLC: pool B is stacked on pool A. *)
EXTENDS Tracker

CONSTANTS A, B, t1, t2

MCNesting == [p \in Pools |-> IF p = A THEN 0 ELSE 1]

MCAddr == 4 .. 7

MCSizes == [p \in Pools |-> IF p = A THEN {2, 4} ELSE {2, 4}]

\* Both threads work for the pool below, one of them for the pool on top.
MCApart == [t \in Threads |-> IF t = t1 THEN {A} ELSE Pools]

\* Every thread works for every pool.
MCTogether == [t \in Threads |-> Pools]

=============================================================================
