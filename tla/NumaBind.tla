-------------------------------- MODULE NumaBind --------------------------------
(***************************************************************************)
(* How the OS memory provider spreads an allocation over NUMA nodes        *)
(* (src/provider/provider_os_memory.c): the parameters are checked and     *)
(* translated, then an iterator yields runs of pages and, for each, the    *)
(* nodes it is bound to.  A page that belongs to several partitions is     *)
(* bound to the nodes of all of them.                                      *)
(***************************************************************************)
EXTENDS Integers, FiniteSetsExt, SequencesExt

CONSTANTS
    NumaNodes,      \* node numbers
    NodeLists,      \* the numa_list of the parameters: sequences of nodes
    PartLists,      \* the partitions of the parameters: sequences of node and weight
    PartPages,      \* part_size, in pages
    MaxPages,       \* bound on the pages of an allocation
    MaxBinds        \* bound on the allocations

ASSUME NumaAssumption ==
    /\ NodeLists \subseteq Seq(NumaNodes)
    /\ \A ps \in PartLists : \A i \in DOMAIN ps : ps[i].node \in NumaNodes /\ ps[i].weight \in Nat
    /\ PartPages \subseteq Nat /\ {MaxPages, MaxBinds} \subseteq Nat

VARIABLES
    params,         \* numa_mode, numa_list, partitions and part_size
    numa,           \* the translated parameters: nodeset and partitions
    allocSum,       \* alloc_sum, in pages
    membind,        \* the iterator
    boundTo,        \* page of the current allocation -> the nodes the system was asked to bind it to
    binds           \* how many allocations were bound

numaVars == <<params, numa, allocSum, membind, boundTo, binds>>

Modes == {"default", "bind", "interleave", "preferred", "split", "local"}

NoBind == [left |-> 0]

NumaInit ==
    /\ params \in [mode : Modes, list : NodeLists, parts : PartLists, partSize : PartPages]
    /\ numa = [ready |-> FALSE] /\ membind = NoBind
    /\ allocSum = 0 /\ boundTo = <<>> /\ binds = 0

-----------------------------------------------------------------------------

\* validate_numa_mode: which modes need nodes and which must have none.
validate_numa_mode ==
    /\ params.mode \in {"default", "local"} => params.list = <<>>
    /\ params.mode \in {"bind", "interleave", "split"} => params.list # <<>>

\* validatePartitions: every partition has a weight and a node of the list.
validatePartitions ==
    \A i \in DOMAIN params.parts :
        params.parts[i].weight # 0 /\ params.parts[i].node \in ToSet(params.list)

\* dedicated_node_bind: the provider itself binds each page to a node.
dedicated_node_bind ==
    params.mode = "split" \/ (params.mode = "interleave" /\ params.partSize > 0)

\* translate_numa_mode and getHwlocMembindFlags: the policy given to the system.
Policy ==
    [policy |-> CASE params.mode = "default" -> "default"
                  [] params.mode = "interleave" /\ ~dedicated_node_bind -> "interleave"
                  [] OTHER -> "bind",
     strict |-> params.mode = "bind" \/ dedicated_node_bind]

\* initialize_nodeset: one set per node of the list, or one set of them all.
Nodeset ==
    IF params.list = <<>> THEN <<NumaNodes>>
    ELSE IF dedicated_node_bind THEN [i \in DOMAIN params.list |-> {params.list[i]}]
    ELSE <<ToSet(params.list)>>

\* initializePartitions: those of the parameters, or one of weight 1 per node.
initializePartitions ==
    IF params.parts = <<>> THEN [i \in DOMAIN params.list |-> [to |-> {params.list[i]}, weight |-> 1]]
    ELSE [i \in DOMAIN params.parts |->
             [to |-> {params.parts[i].node}, weight |-> params.parts[i].weight]]

\* translate_params refuses what does not fit together.
translate_params ==
    /\ ~numa.ready /\ validate_numa_mode /\ validatePartitions
    /\ numa' = [ready |-> TRUE, nodeset |-> Nodeset, policy |-> Policy,
                parts |-> IF params.mode = "split" THEN initializePartitions ELSE <<>>]
    /\ UNCHANGED <<params, allocSum, membind, boundTo, binds>>

-----------------------------------------------------------------------------

WeightSum == FoldLeft(LAMBDA n, p : n + p.weight, 0, numa.parts)

\* nextBind, its loop: the pages and the rest of partition n when the loop has come
\* to n from partition `from`, with this rest from before.
Share(pages, from, rest) ==
    LET at[n \in from .. Len(numa.parts)] ==
            LET w == pages * numa.parts[n].weight
                r == (IF n = from THEN rest ELSE at[n - 1].rest) + (w % WeightSum)
                b == w \div WeightSum
            IN  IF r >= WeightSum THEN [bind |-> b + 1, rest |-> r - WeightSum] ELSE [bind |-> b, rest |-> r]
    IN  at

\* Fault: a page on the border is bound to one partition.
TargetsLast(i, j) == numa.parts[j].to

\* The targets of partitions i to j.
Targets(i, j) == UNION {numa.parts[n].to : n \in i .. j}

\* nextBind: the next run of pages.  A page shared by partitions is bound on its own.
nextBind(m) ==
    LET start == IF m.over = 0 /\ m.rest # 0 THEN m.node + 1 ELSE m.node
        share == Share(m.pages, start, m.rest)
        stop  == IF m.over # 0 THEN m.node ELSE Min({n \in DOMAIN share : share[n].bind > 0})
        got   == IF m.over # 0 THEN [bind |-> m.over, rest |-> m.rest] ELSE share[stop]
        border == stop > m.node
        over  == IF border THEN got.bind - 1 ELSE 0
    IN  [m EXCEPT !.to = Targets(m.node, stop), !.size = IF border THEN 1 ELSE got.bind,
                  !.rest = got.rest, !.over = over,
                  !.node = IF got.rest = 0 /\ over = 0 THEN stop + 1 ELSE stop]

\* The pages of a run when the provider interleaves.
Part(left) == Min({params.partSize, left})

\* membindFirst: nodes count from 1 here.
membindFirst(pages) ==
    LET node == IF Len(numa.nodeset) > 1 /\ params.mode = "interleave"
                THEN ((allocSum \div params.partSize) % Len(numa.nodeset)) + 1 ELSE 1
        m == [left |-> pages, pages |-> pages, at |-> 0, node |-> node, to |-> numa.nodeset[node],
              size |-> pages, rest |-> 0, over |-> 0]
    IN  CASE Len(numa.nodeset) = 1 -> m
          [] params.mode = "interleave" -> [m EXCEPT !.size = Part(pages)]
          [] OTHER -> nextBind(m)

NodeAfter(node) == (node % Len(numa.nodeset)) + 1

\* membindNext, while memory is left to bind.
membindNext(m) ==
    LET n == [m EXCEPT !.left = @ - m.size, !.at = @ + m.size]
    IN  CASE n.left = 0 -> NoBind
          [] params.mode = "interleave" ->
                 [n EXCEPT !.node = NodeAfter(m.node), !.to = numa.nodeset[NodeAfter(m.node)],
                           !.size = Part(n.left)]
          [] OTHER -> nextBind(n)

\* os_alloc starts to bind an allocation, under a policy other than the default.
FirstBind(pages) ==
    /\ numa.ready /\ numa.policy.policy # "default" /\ membind = NoBind /\ binds < MaxBinds
    /\ membind' = membindFirst(pages)
    /\ allocSum' = IF Len(numa.nodeset) > 1 /\ params.mode = "interleave" THEN allocSum + pages ELSE allocSum
    /\ boundTo' = <<>> /\ binds' = binds + 1
    /\ UNCHANGED <<params, numa>>

\* The loop of os_alloc: ask for the run to be bound and go on, also on a system that
\* cannot bind at all, or give up on a failed bind.
BindRun(bound) ==
    /\ membind # NoBind
    /\ boundTo' = IF bound THEN [p \in 1 .. (membind.at + membind.size) |->
                                    IF p <= membind.at THEN boundTo[p] ELSE membind.to] ELSE <<>>
    /\ membind' = IF bound THEN membindNext(membind) ELSE NoBind
    /\ UNCHANGED <<params, numa, allocSum, binds>>

NumaNext ==
    \/ translate_params
    \/ \E pages \in 1 .. MaxPages : FirstBind(pages)
    \/ \E bound \in BOOLEAN : BindRun(bound)

NumaSpec == NumaInit /\ [][NumaNext]_numaVars

-----------------------------------------------------------------------------
(* What holds.                                                             *)

\* The partitions whose share of n pages, counted in fractions of a page, reaches
\* into page p.
Sharers(p, n) ==
    LET sum(i) == FoldLeft(LAMBDA k, q : k + q.weight, 0, SubSeq(numa.parts, 1, i))
    IN  {i \in DOMAIN numa.parts :
            (p - 1) * WeightSum < n * sum(i) /\ p * WeightSum > n * sum(i - 1)}

\* An allocation is to be bound page by page without a gap: when split, each page to
\* the nodes of exactly the partitions whose weighted share of the allocation
\* reaches into it; when interleaved, in runs of part_size over the nodes in a circle.
BoundRight ==
    (numa.ready /\ membind = NoBind /\ boundTo # <<>>) =>
        LET n == Len(boundTo)
        IN  CASE Len(numa.nodeset) = 1 -> \A p \in 1 .. n : boundTo[p] = numa.nodeset[1]
              [] params.mode = "split" ->
                     \A p \in 1 .. n : boundTo[p] = UNION {numa.parts[i].to : i \in Sharers(p, n)}
              [] OTHER -> \A p, q \in 1 .. n :
                     boundTo[p] = boundTo[q] <=>
                         ((p - 1) \div params.partSize) % Len(params.list) =
                         ((q - 1) \div params.partSize) % Len(params.list)

=============================================================================
