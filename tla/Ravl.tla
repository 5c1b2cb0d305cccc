-------------------------------- MODULE Ravl --------------------------------
(***************************************************************************)
(* The relaxed AVL tree the coarse library keeps its blocks in             *)
(* (ravl/ravl.c).  Inserting balances by the ranks of the nodes; removing  *)
(* does not, and moves the data of the successor into a node with two      *)
(* children.  Searches take a predicate and follow parent pointers to a    *)
(* neighbour.                                                              *)
(*                                                                         *)
(* A tree is [root, node], a node [parent, slots, rank, key]; 0 is NULL.   *)
(* Node identities are reused as the allocator reuses memory.              *)
(***************************************************************************)
EXTENDS Integers, FiniteSets, Sequences

CONSTANTS RavlKeys,   \* the data, ordered
          RavlNodes   \* memory for nodes: 1..n

VARIABLES ravl,       \* the tree
          inserted    \* ghost: the data that was inserted and not removed

ravlVars == <<ravl, inserted>>

Null == 0
Unallocated == [parent |-> 0, slots |-> [left |-> 0, right |-> 0], rank |-> -2, key |-> 0]
FreeNodes == {n \in RavlNodes : ravl.node[n] = Unallocated}

ravl_new == [root |-> Null, node |-> [n \in RavlNodes |-> Unallocated]]

RavlInit == ravl = ravl_new /\ inserted = {}

-----------------------------------------------------------------------------
\* Places in the tree t.
ravl_new_node(key, parent) == [Unallocated EXCEPT !.key = key, !.rank = 0, !.parent = parent]
ravl_slot_opposite(slot) == IF slot = "left" THEN "right" ELSE "left"
ravl_node_slot_type(t, n) ==
    LET p == t.node[n].parent
    IN  CASE p = Null -> "root"
          [] t.node[p].slots["left"] = n -> "left"
          [] OTHER -> "right"
ravl_node_sibling(t, n) ==
    LET slot == ravl_node_slot_type(t, n)
    IN  IF slot = "root" THEN Null ELSE t.node[t.node[n].parent].slots[ravl_slot_opposite(slot)]

\* *ravl_node_ref(t, n) = m: whatever points down to n points to m.
SetRef(t, n, m) ==
    LET slot == ravl_node_slot_type(t, n)
    IN  IF slot = "root" THEN [t EXCEPT !.root = m]
        ELSE [t EXCEPT !.node[t.node[n].parent].slots[slot] = m]
SetParent(t, n, p) == IF n = Null THEN t ELSE [t EXCEPT !.node[n].parent = p]

\* Fault: the child that changes hands keeps its old parent.
AdoptNot(t, c, p) == t

Adopt(t, c, p) == SetParent(t, c, p)

\* n and its parent swap places.
ravl_rotate(t, n) ==
    LET p == t.node[n].parent
        slot == ravl_node_slot_type(t, n)
        opposite == ravl_slot_opposite(slot)
        c == t.node[n].slots[opposite]
        up == SetRef(t, p, n)
        swapped == [up EXCEPT !.node[n].parent = t.node[p].parent, !.node[p].parent = n,
                              !.node[p].slots[slot] = c, !.node[n].slots[opposite] = p]
    IN  Adopt(swapped, c, p)

-----------------------------------------------------------------------------
\* Ranks.
ravl_node_rank(t, n) == IF n = Null THEN -1 ELSE t.node[n].rank
ravl_node_rank_difference_parent(t, p, n) == ravl_node_rank(t, p) - ravl_node_rank(t, n)
ravl_node_rank_difference(t, n) == ravl_node_rank_difference_parent(t, t.node[n].parent, n)
ravl_node_is_i_j(t, n, i, j) ==
    /\ ravl_node_rank_difference_parent(t, n, t.node[n].slots["left"]) = i
    /\ ravl_node_rank_difference_parent(t, n, t.node[n].slots["right"]) = j
ravl_node_is(t, n, i, j) == ravl_node_is_i_j(t, n, i, j) \/ ravl_node_is_i_j(t, n, j, i)
ravl_node_promote(t, n) == [t EXCEPT !.node[n].rank = @ + 1]
ravl_node_demote(t, n) == [t EXCEPT !.node[n].rank = @ - 1]

\* Walk up while the parent has a child of its own rank and one just below.
RECURSIVE Promoted(_, _)
Promoted(t, n) ==
    LET p == t.node[n].parent
    IN  IF p # Null /\ ravl_node_is(t, p, 0, 1)
        THEN Promoted(ravl_node_promote(t, p), p) ELSE [tree |-> t, n |-> n]

\* Fault: a single rotation also where the inner grandchild is the high one.
RotatesOnce(t, z) == TRUE

RotatesSingly(t, z) == z = Null \/ ravl_node_rank_difference(t, z) = 2

ravl_balance(tree, node) ==
    LET walked == Promoted(tree, node)
        t == walked.tree
        n == walked.n
        y == t.node[n].parent
        s == ravl_node_sibling(t, n)
        z == t.node[n].slots[ravl_slot_opposite(ravl_node_slot_type(t, n))]
        twice == ravl_rotate(ravl_rotate(t, z), z)
    IN  IF ~(/\ ravl_node_rank_difference(t, n) = 0
             /\ ravl_node_rank_difference_parent(t, y, s) > 1)
        THEN t
        ELSE IF RotatesSingly(t, z) THEN ravl_node_demote(ravl_rotate(t, n), y)
        ELSE IF ravl_node_rank_difference(t, z) = 1
        THEN ravl_node_demote(ravl_node_demote(ravl_node_promote(twice, z), n), y)
        ELSE t

-----------------------------------------------------------------------------
\* Walk down to the slot the key belongs in; Null for a duplicate.
RECURSIVE DownTo(_, _, _)
DownTo(t, dst, key) ==
    LET slot == IF key > t.node[dst].key THEN "right" ELSE "left"
    IN  IF t.node[dst].key = key THEN <<Null, slot>>
        ELSE IF t.node[dst].slots[slot] = Null THEN <<dst, slot>>
        ELSE DownTo(t, t.node[dst].slots[slot], key)

ravl_emplace(key) ==
    \E n \in FreeNodes :
       /\ \A m \in FreeNodes : n <= m
       /\ LET at == DownTo(ravl, ravl.root, key)
              grown == IF ravl.root = Null
                       THEN [ravl EXCEPT !.root = n, !.node[n] = ravl_new_node(key, Null)]
                       ELSE [ravl EXCEPT !.node = [@ EXCEPT ![n] = ravl_new_node(key, at[1]),
                                                            ![at[1]].slots[at[2]] = n]]
          IN  /\ ravl.root # Null => at[1] # Null
              /\ ravl' = ravl_balance(grown, n)
              /\ inserted' = inserted \cup {key}

-----------------------------------------------------------------------------
\* Neighbours.
RECURSIVE ravl_node_type_most(_, _, _)
ravl_node_type_most(t, n, slot) ==
    IF t.node[n].slots[slot] = Null THEN n
    ELSE ravl_node_type_most(t, t.node[n].slots[slot], slot)
RECURSIVE FirstParentOn(_, _, _)
FirstParentOn(t, n, slot) ==
    LET p == t.node[n].parent
    IN  IF p # Null /\ n = t.node[p].slots[slot] THEN FirstParentOn(t, p, slot) ELSE p
ravl_node_cessor(t, n, slot) ==
    IF t.node[n].slots[slot] # Null
    THEN ravl_node_type_most(t, t.node[n].slots[slot], ravl_slot_opposite(slot))
    ELSE FirstParentOn(t, n, slot)
ravl_node_successor(t, n) == ravl_node_cessor(t, n, "right")
ravl_node_predecessor(t, n) == ravl_node_cessor(t, n, "left")
ravl_first(t) == IF t.root = Null THEN Null ELSE ravl_node_type_most(t, t.root, "left")
ravl_last(t) == IF t.root = Null THEN Null ELSE ravl_node_type_most(t, t.root, "right")

\* The answer so far, and whether the search is over, at node n.
ravl_predicate_holds(t, key, best, n, flags) ==
    LET k == t.node[n].key
    IN  CASE "equal" \in flags /\ key = k -> <<n, TRUE>>
          [] "greater" \in flags /\ key < k -> <<n, FALSE>>
          [] "greater" \in flags /\ key = k -> <<ravl_node_successor(t, n), TRUE>>
          [] "less" \in flags /\ key > k -> <<n, FALSE>>
          [] "less" \in flags /\ key = k -> <<ravl_node_predecessor(t, n), TRUE>>
          [] OTHER -> <<best, FALSE>>
RECURSIVE Search(_, _, _, _, _)
Search(t, n, key, best, flags) ==
    LET holds == ravl_predicate_holds(t, key, best, n, flags)
    IN  IF n = Null THEN best
        ELSE IF holds[2] THEN holds[1]
        ELSE Search(t, t.node[n].slots[IF key > t.node[n].key THEN "right" ELSE "left"],
                    key, holds[1], flags)
ravl_find(t, key, flags) == Search(t, t.root, key, Null, flags)

\* A node with one child or none makes room for it; a node with two takes the
\* data of its successor, which goes instead.
Spliced(t, n) ==
    LET slots == t.node[n].slots
        r == IF slots["left"] # Null THEN slots["left"] ELSE slots["right"]
    IN  [SetRef(SetParent(t, r, t.node[n].parent), n, r) EXCEPT !.node[n] = Unallocated]
Removed2(t, n) ==
    LET s == ravl_node_successor(t, n)
    IN  Spliced([t EXCEPT !.node[n].key = t.node[s].key], s)
ravl_remove(key) ==
    LET n == ravl_find(ravl, key, {"equal"})
        slots == ravl.node[n].slots
    IN  /\ n # Null
        /\ ravl' = IF slots["left"] # Null /\ slots["right"] # Null
                   THEN Removed2(ravl, n) ELSE Spliced(ravl, n)
        /\ inserted' = inserted \ {key}

ravl_clear == ravl.root # Null /\ ravl' = ravl_new /\ inserted' = {}

RavlNext == ravl_clear \/ \E k \in RavlKeys : ravl_emplace(k) \/ ravl_remove(k)

RavlSpec == RavlInit /\ [][RavlNext]_ravlVars

-----------------------------------------------------------------------------
\* Every search finds what a search of the set would: the key, or the nearest
\* one on the side the predicate asks for, whatever insertions, rotations and
\* removals made the tree; first and last are the ends of the set.
NearestKey(key, flags) ==
    LET good == {k \in inserted : \/ "equal" \in flags /\ k = key
                                  \/ "greater" \in flags /\ k > key
                                  \/ "less" \in flags /\ k < key}
        up == "greater" \in flags
    IN  IF good = {} THEN 0
        ELSE CHOOSE k \in good : \A j \in good : IF up THEN k <= j ELSE j <= k
Predicates == {{"equal"}, {"greater"}, {"less"}, {"equal", "greater"}, {"equal", "less"}}
KeyOf(n) == IF n = Null THEN 0 ELSE ravl.node[n].key
RavlFinds ==
    /\ \A k \in RavlKeys, f \in Predicates : KeyOf(ravl_find(ravl, k, f)) = NearestKey(k, f)
    /\ inserted # {} =>
          /\ \A k \in inserted : KeyOf(ravl_first(ravl)) <= k /\ k <= KeyOf(ravl_last(ravl))

\* Balancing restores that every rank difference is positive, also in a tree
\* whose ranks removals have left too high.
RanksPositive ==
    \A n \in RavlNodes \ FreeNodes :
       ravl.node[n].parent # Null => ravl_node_rank_difference(ravl, n) > 0
=============================================================================
