----------------------------- MODULE MCMemspace -----------------------------
(* Three NUMA nodes: two of the largest capacity, node 3 the best for node 2. *)
EXTENDS Memspace

mcCapacity == <<1, 2, 2>>
mcBandwidth == [p \in (1..3) \X (1..3) |->
                  CASE p[1] = p[2] -> 3
                    [] p = <<2, 3>> -> 4
                    [] p = <<1, 2>> -> 2
                    [] OTHER -> 0]
mcLatency == [p \in (1..3) \X (1..3) |-> CASE p[1] = p[2] -> 1 [] p = <<2, 1>> -> 0 [] OTHER -> 9]
mcArrays == {<<2, 1, 2>>}
mcKeeps == {{1}, {2, 3}, {}}
=============================================================================
