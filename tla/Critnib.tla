-------------------------------- MODULE Critnib --------------------------------
(***************************************************************************)
(* The critnib (src/critnib/critnib.c): a radix tree from addresses to     *)
(* values.  Writers exclude each other with a mutex, readers take no lock. *)
(* What a remove takes out of the tree is kept for DELETED_LIFE removes    *)
(* before it is used again, and a reader that sees so many removes go by   *)
(* starts again.                                                           *)
(*                                                                         *)
(* Every load of a reader is a step.  The stores of an insert that precede *)
(* the publishing one reach only a reader that will start again, so an     *)
(* insert is one step; a remove is one step for each store to the tree.    *)
(* One writer stands for all of them, and one reader, as readers change    *)
(* nothing: the map has no callback to free leaves, as the offset maps of  *)
(* the OS and file providers.  Module Tracker adds the reference counts of *)
(* maps that have one.                                                     *)
(***************************************************************************)
EXTENDS Integers, FiniteSetsExt, SequencesExt

CONSTANTS
    Slice,          \* SLICE: bits that index the children of a node
    Life,           \* DELETED_LIFE
    Shifts,         \* the shifts of a key: multiples of Slice
    Pairs,          \* the keys and values to insert
    Questions,      \* keys that are looked up
    Lookups,        \* "get", "le", "ge"
    MaxNodes,       \* host memory is bounded
    MaxLeaves,
    MaxRemoves      \* bound on remove_count

MapKeys == {p[1] : p \in Pairs}

ASSUME CritnibAssumption ==
    /\ {Slice, Life, MaxNodes, MaxLeaves} \subseteq Nat \ {0} /\ MaxRemoves \in Nat
    /\ 0 \in Shifts /\ \A s \in Shifts : s \in Nat /\ s % Slice = 0
    /\ MapKeys \cup Questions \subseteq 0 .. (2 ^ (Max(Shifts) + Slice) - 1)
    /\ Lookups \subseteq {"get", "le", "ge"}

VARIABLES
    root,           \* a reference: 0 for NULL, i > 0 for node i, i < 0 for leaf -i
    node,           \* the nodes allocated: child, path, shift
    leafOf,         \* the leaves allocated: key, value
    deletedNode,    \* the nodes to use again
    deletedLeaf,
    pending,        \* slot -> the node and the leaf taken out that many removes ago
    removeCount,
    writer,         \* where the holder of the mutex is
    reader          \* where the reader is, and what the map held meanwhile

critnibVars ==
    <<root, node, leafOf, deletedNode, deletedLeaf, pending, removeCount, writer, reader>>

-----------------------------------------------------------------------------

NULL == 0

Nibs == 0 .. (2 ^ Slice - 1)

IsLeaf(n) == n < 0

slice_index(key, shift) == (key \div (2 ^ shift)) % (2 ^ Slice)

\* The part of a key above the nibble at this shift, in place.
PathOf(key, shift) == key - (key % (2 ^ (shift + Slice)))

\* The key is outside the subtree of node n.
Outside(n, key) == PathOf(key, node[n].shift) # node[n].path

NoPending == [slot \in 0 .. (Life - 1) |-> [node |-> NULL, leaf |-> NULL]]

critnib_new ==
    /\ root = NULL /\ node = <<>> /\ leafOf = <<>>
    /\ deletedNode = <<>> /\ deletedLeaf = <<>> /\ pending = NoPending /\ removeCount = 0
    /\ writer = [at |-> "idle"] /\ reader = [at |-> "idle"]

\* The references below a set of references.
Below(S) == S \cup UNION {Range(node[n].child) : n \in {n \in S : n > 0}}

\* What the tree holds: a node is at most as deep as there are shifts.
Reached == FoldSet(LAMBDA s, S : Below(S), {root}, Shifts) \ {NULL}

Content == {<<leafOf[-n].key, leafOf[-n].value>> : n \in {n \in Reached : IsLeaf(n)}}

-----------------------------------------------------------------------------
(* Writers.                                                                *)

\* alloc_node and alloc_leaf: one that was used before, or a new one.
NextOf(deleted, known, most) ==
    IF deleted # <<>> THEN Head(deleted)
    ELSE IF Len(known) < most THEN Len(known) + 1 ELSE NULL

Placed(known, i, r) == IF i > Len(known) THEN Append(known, r) ELSE [known EXCEPT ![i] = r]

Rest(deleted) == IF deleted = <<>> THEN <<>> ELSE Tail(deleted)

\* Where an insert ends: the node to hang the leaf under (NULL for the root),
\* and what is there now.
Spot(key) ==
    LET Step(s, at) ==
            IF at.n <= 0 \/ Outside(at.n, key) THEN at
            ELSE [up |-> at.n, n |-> node[at.n].child[slice_index(key, node[at.n].shift)]]
    IN  FoldSet(Step, [up |-> NULL, n |-> root], Shifts)

\* Fault: the nibble where two keys differ is looked for from the bottom.
SplitLow(path, key) == Min({s \in Shifts : slice_index(path, s) # slice_index(key, s)})

\* The nibble where two keys part.
SplitAt(path, key) == Max({s \in Shifts : slice_index(path, s) # slice_index(key, s)})

\* The tree with reference m in place of what was below node up for this key.
Hang(up, key, m, nodes) ==
    /\ root' = IF up = NULL THEN m ELSE root
    /\ node' = IF up = NULL THEN nodes
               ELSE [nodes EXCEPT ![up].child[slice_index(key, node[up].shift)] = m]

\* Does this key answer the question?
Answers(op, key, k) ==
    CASE op = "get" -> k = key [] op = "le" -> k <= key [] op = "ge" -> k >= key

Relevant(op, key, content) == {c \in content : Answers(op, key, c[1])}

\* The reader's view of what the map held during its call.
Seen(content) ==
    IF reader.at = "idle" THEN reader
    ELSE [reader EXCEPT !.ever = @ \cup Relevant(reader.op, reader.key, content),
                        !.always = @ \cap content]

critnib_insert(key, value, update) ==
    LET k    == NextOf(deletedLeaf, leafOf, MaxLeaves)
        spot == Spot(key)
        path == IF IsLeaf(spot.n) THEN leafOf[-spot.n].key ELSE node[spot.n].path
        sh   == SplitAt(path, key)
        m    == NextOf(deletedNode, node, MaxNodes)
        new  == [child |-> [i \in Nibs |-> CASE i = slice_index(path, sh) -> spot.n
                                             [] i = slice_index(key, sh) -> -k
                                             [] OTHER -> NULL],
                 path |-> PathOf(key, sh), shift |-> sh]
        full == [key |-> key, value |-> value]
    IN  /\ writer.at = "idle" /\ k # NULL
        /\ \/ /\ spot.n = NULL
              /\ Hang(spot.up, key, -k, node)
              /\ leafOf' = Placed(leafOf, k, full) /\ deletedLeaf' = Rest(deletedLeaf)
              /\ UNCHANGED deletedNode
           \/ /\ spot.n # NULL /\ path # key /\ m # NULL
              /\ Hang(spot.up, key, m, Placed(node, m, new))
              /\ leafOf' = Placed(leafOf, k, full) /\ deletedLeaf' = Rest(deletedLeaf)
              /\ deletedNode' = Rest(deletedNode)
           \/ /\ spot.n # NULL /\ (path = key \/ m = NULL)   \* EEXIST, updated or ENOMEM
              /\ leafOf' = LET kept == Placed(leafOf, k, full)
                           IN  IF update /\ path = key THEN [kept EXCEPT ![-spot.n].value = value]
                               ELSE kept
              /\ deletedLeaf' = <<k>> \o Rest(deletedLeaf)
              /\ UNCHANGED <<root, node, deletedNode>>
        /\ reader' = Seen(Content')
        /\ UNCHANGED <<pending, removeCount, writer>>

\* free_node: the first child becomes the link of the list of deleted nodes.
Freed(n) ==
    IF n = NULL THEN node
    ELSE [node EXCEPT ![n].child[0] = IF deletedNode = <<>> THEN NULL ELSE Head(deletedNode)]

With(n, deleted) == IF n = NULL THEN deleted ELSE <<n>> \o deleted

\* The slot whose content has waited long enough.
Turn(count) == count % Life

\* critnib_remove locks, counts, and hands on what has waited long enough.
critnib_remove(key) ==
    LET del == Turn(removeCount)
    IN  /\ writer.at = "idle" /\ root # NULL /\ removeCount < MaxRemoves
        /\ removeCount' = removeCount + 1
        /\ node' = Freed(pending[del].node)
        /\ deletedNode' = With(pending[del].node, deletedNode)
        /\ deletedLeaf' = With(pending[del].leaf, deletedLeaf)
        /\ pending' = [pending EXCEPT ![del] = [node |-> NULL, leaf |-> NULL]]
        /\ writer' = [at |-> "unlink", key |-> key, del |-> del]
        /\ UNCHANGED <<root, leafOf, reader>>

\* The way to a leaf, guided by the nibbles alone: the last two nodes and the end.
Way(key) ==
    LET Step(s, w) ==
            IF w.n <= 0 THEN w
            ELSE [over |-> w.up, up |-> w.n,
                  n |-> node[w.n].child[slice_index(key, node[w.n].shift)]]
    IN  FoldSet(Step, [over |-> NULL, up |-> NULL, n |-> root], Shifts)

\* It unlinks the leaf.
Unlink(key) ==
    LET way  == Way(key)
        gone == IsLeaf(way.n) /\ leafOf[-way.n].key = key
        left == {i \in Nibs \ {slice_index(key, node[way.up].shift)} : node[way.up].child[i] # NULL}
    IN  /\ writer.at = "unlink" /\ writer.key = key
        /\ IF gone THEN Hang(way.up, key, NULL, node) ELSE UNCHANGED <<root, node>>
        /\ pending' = IF gone THEN [pending EXCEPT ![writer.del].leaf = -way.n] ELSE pending
        /\ writer' = IF gone /\ way.up # NULL /\ Cardinality(left) = 1
                     THEN [at |-> "collapse", key |-> key, del |-> writer.del, over |-> way.over,
                           up |-> way.up, child |-> node[way.up].child[Max(left)]]
                     ELSE [at |-> "idle"]
        /\ UNCHANGED <<leafOf, deletedNode, deletedLeaf, removeCount>>
        /\ reader' = Seen(Content')

\* A node with one child left gives it to the node above.
Collapse ==
    /\ writer.at = "collapse"
    /\ Hang(writer.over, writer.key, writer.child, node)
    /\ pending' = [pending EXCEPT ![writer.del].node = writer.up]
    /\ writer' = [at |-> "idle"]
    /\ UNCHANGED <<leafOf, deletedNode, deletedLeaf, removeCount, reader>>

\* critnib_delete, when nobody uses the map any more.
critnib_delete ==
    /\ writer.at = "idle" /\ reader.at = "idle" /\ removeCount = MaxRemoves
    /\ root' = NULL /\ node' = <<>> /\ leafOf' = <<>> /\ deletedNode' = <<>>
    /\ deletedLeaf' = <<>> /\ pending' = NoPending /\ removeCount' = 0
    /\ UNCHANGED <<writer, reader>>

-----------------------------------------------------------------------------
(* Readers.                                                                *)

\* The way a lookup goes from a child that has no answer.
Toward(op) == IF op = "le" THEN -1 ELSE 1

\* The child of a subtree that is nearest to a key outside it.
Nearest(op) == IF op = "le" THEN Max(Nibs) ELSE 0

\* A lookup begins: it loads remove_count.
Ask(op, key) ==
    /\ reader.at = "idle"
    /\ reader' = [at |-> "root", op |-> op, key |-> key, n |-> NULL, over |-> <<>>, nib |-> 0,
                  leaf |-> NULL, value |-> NULL, wrs1 |-> removeCount,
                  ever |-> Relevant(op, key, Content), always |-> Relevant(op, key, Content)]
    /\ UNCHANGED <<root, node, leafOf, deletedNode, deletedLeaf, pending, removeCount, writer>>

\* The next load of the reader: what it becomes.
Goes(r) ==
    /\ reader' = r
    /\ UNCHANGED <<root, node, leafOf, deletedNode, deletedLeaf, pending, removeCount, writer>>

\* Nothing below: the search goes on beside, in the node above.
Nothing(r) ==
    IF r.over = <<>> THEN [r EXCEPT !.at = "check", !.n = NULL, !.nib = 0]
    ELSE [r EXCEPT !.at = "beside", !.n = Last(r.over).n, !.nib = Last(r.over).nib,
                   !.over = Front(@)]

Reach(r, n) == [r EXCEPT !.at = "value", !.leaf = -n, !.n = NULL, !.over = <<>>, !.nib = 0]

LoadRoot ==
    reader.at = "root" /\ Goes([reader EXCEPT !.at = "down", !.n = root, !.over = <<>>])

\* critnib_get, find_le and find_ge follow the key.
Down ==
    LET r == reader
        i == slice_index(r.key, node[r.n].shift)
    IN  /\ r.at = "down"
        /\ \/ r.n = NULL /\ Goes(Nothing(r))
           \/ IsLeaf(r.n) /\ Goes(IF Answers(r.op, r.key, leafOf[-r.n].key) THEN Reach(r, r.n)
                                  ELSE Nothing(r))
           \/ /\ r.n > 0 /\ r.op # "get" /\ Outside(r.n, r.key)
              /\ Goes(IF (node[r.n].path < r.key) = (r.op = "le")
                      THEN [r EXCEPT !.at = "edge", !.nib = Nearest(r.op)]
                      ELSE Nothing(r))
           \/ /\ r.n > 0 /\ (r.op = "get" \/ ~Outside(r.n, r.key))
              /\ Goes([r EXCEPT !.n = node[r.n].child[i],
                                !.over = IF r.op = "get" THEN @ ELSE Append(@, [n |-> r.n, nib |-> i])])

\* The children beside the one that had no answer, one load each.
Beside ==
    LET r == reader
        i == r.nib + Toward(r.op)
        m == node[r.n].child[i]
    IN  /\ r.at = "beside"
        /\ \/ i \notin Nibs /\ Goes(Nothing(r))
           \/ i \in Nibs /\ m = NULL /\ Goes([r EXCEPT !.nib = i])
           \/ i \in Nibs /\ IsLeaf(m) /\ Goes(Reach(r, m))
           \/ i \in Nibs /\ m > 0 /\ Goes([r EXCEPT !.at = "edge", !.n = m, !.nib = Nearest(r.op)])

\* find_predecessor and find_successor: the nearest child that is there ...
Edge ==
    LET r == reader
    IN  /\ r.at = "edge"
        /\ \/ r.nib \notin Nibs /\ Goes(Nothing(r))
           \/ /\ r.nib \in Nibs
              /\ Goes(IF node[r.n].child[r.nib] = NULL THEN [r EXCEPT !.nib = @ + Toward(r.op)]
                      ELSE [r EXCEPT !.at = "again"])

\* ... is loaded a second time.
Again ==
    LET r == reader
        m == node[r.n].child[r.nib]
    IN  /\ r.at = "again"
        /\ \/ m = NULL /\ Goes(Nothing(r))
           \/ IsLeaf(m) /\ Goes(Reach(r, m))
           \/ m > 0 /\ Goes([r EXCEPT !.at = "edge", !.n = m, !.nib = Nearest(r.op)])

LoadValue ==
    reader.at = "value" /\ Goes([reader EXCEPT !.at = "check", !.value = leafOf[reader.leaf].value])

\* Fault: one remove too many may go by.
StaleLate(wrs1, wrs2) == wrs1 + Life < wrs2

\* Too many removes went by.
Stale(wrs1, wrs2) == wrs1 + Life <= wrs2

\* The lookup starts again, or ends.
Check ==
    /\ reader.at = "check"
    /\ Goes([reader EXCEPT !.at = IF Stale(reader.wrs1, removeCount) THEN "restart" ELSE "done"])

Restart ==
    /\ reader.at = "restart"
    /\ Goes([reader EXCEPT !.at = "root", !.wrs1 = removeCount, !.leaf = NULL, !.value = NULL])

Answered == reader.at = "done" /\ Goes([at |-> "idle"])

\* critnib_iter, under the mutex: the keys it visits, in order.
critnib_iter(low, high) ==
    LET Visit(s, S) == UNION {IF n <= 0 THEN {n}
                              ELSE IF node[n].path > high THEN {}
                              ELSE Range(node[n].child) : n \in S}
    IN  {leafOf[-n].key : n \in FoldSet(Visit, {root}, Shifts) \ {NULL}} \cap (low .. high)

-----------------------------------------------------------------------------

CritnibNext ==
    \/ \E p \in Pairs, update \in BOOLEAN : critnib_insert(p[1], p[2], update)
    \/ \E key \in MapKeys : critnib_remove(key) \/ Unlink(key)
    \/ Collapse \/ critnib_delete
    \/ \E op \in Lookups, key \in Questions : Ask(op, key)
    \/ LoadRoot \/ Down \/ Beside \/ Edge \/ Again \/ LoadValue \/ Check \/ Restart \/ Answered

CritnibSpec == critnib_new /\ [][CritnibNext]_critnibVars

-----------------------------------------------------------------------------
(* What holds.                                                             *)

\* What a lookup finds was in the map at some time during the call, under a key
\* that answers the question, and critnib_get does not miss a key that was there
\* all the time, whatever writers did to the nodes the reader was in.
FoundWasThere ==
    reader.at = "done" =>
        /\ reader.leaf # NULL => \E c \in reader.ever : /\ c[2] = reader.value
                                                        /\ Answers(reader.op, reader.key, c[1])
        /\ reader.op = "get" /\ reader.leaf = NULL => \A c \in reader.always : c[1] # reader.key

\* A lookup for the nearest key does not pass over one that was there all the time
\* for another that is further away, or for nothing.
NearestFound ==
    reader.at = "done" /\ reader.op \in {"le", "ge"} =>
        \A c \in reader.always :
            Answers(reader.op, reader.key, c[1]) =>
                reader.leaf # NULL /\ (\E d \in reader.ever : /\ d[2] = reader.value
                                                              /\ Answers(reader.op, d[1], c[1]))

\* Between writes, every leaf of the tree is where the nibbles of its key lead, no
\* node has fewer than two children, an iteration visits the keys of its range,
\* and what is not in the tree is in one list or slot, once.  (Readers do not
\* change the tree: it is enough to look while none is under way.)
TreeRight ==
    writer.at = "idle" /\ reader.at = "idle" =>
        LET kept == deletedNode \o SetToSeq({pending[s].node : s \in DOMAIN pending} \ {NULL})
            old  == deletedLeaf \o SetToSeq({pending[s].leaf : s \in DOMAIN pending} \ {NULL})
        IN  /\ \A n \in Reached :
                   IF IsLeaf(n) THEN Way(leafOf[-n].key).n = n /\ Spot(leafOf[-n].key).n = n
                   ELSE Cardinality({i \in Nibs : node[n].child[i] # NULL}) >= 2
            /\ \A low, high \in Questions :
                   critnib_iter(low, high) = {c[1] : c \in Content} \cap (low .. high)
            /\ IsInjective(kept) /\ IsInjective(old)
            /\ Range(kept) = DOMAIN node \ Reached
            /\ Range(old) = DOMAIN leafOf \ {-n : n \in Reached}

=============================================================================
