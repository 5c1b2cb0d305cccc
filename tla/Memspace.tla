------------------------------ MODULE Memspace ------------------------------
(***************************************************************************)
(* Memspaces (memspace.c, memspaces/, memtarget.c, memtargets/): ordered   *)
(* collections of memory targets, each an object of its own that stands    *)
(* for a NUMA node.  Four memspaces are predefined and made on first use;  *)
(* others belong to the user.  Any allocation in the way may fail, and the *)
(* targets made until then must be given back.                             *)
(*                                                                         *)
(* A memspace is the sequence of the nodes its targets stand for; "live"   *)
(* counts the target objects that exist.  The calls are sequential; the    *)
(* loops that make, destroy and remove targets take one step a target.     *)
(***************************************************************************)
EXTENDS Integers, Sequences, FiniteSets, SequencesExt

CONSTANTS Nodes,         \* NUMA nodes of the platform: 1..n
          Capacity,      \* node -> its local memory
          Bandwidth,     \* <<from, to>> -> bandwidth, 0 if not local
          Latency,       \* <<from, to>> -> latency, the worst if not local
          UserSpaces,          \* memspaces of the user
          Arrays,        \* arrays of node ids the user creates a memspace from
          Keeps,         \* what a filter keeps: sets of nodes
          Policies,      \* memory policies, "none" among them
          MaxTargets,    \* bound on the targets of a memspace
          MemFails,      \* calls that may fail
          RemoveFailsAt  \* which removals of a filter may fail

VARIABLES space,     \* memspace -> its targets
          once,      \* predefined memspaces whose init-once has run
          live,      \* number of target objects
          job,       \* the loop that runs
          outcome,   \* ghost: what the last filter was given and left
          wild,      \* ghost: a target was read after it was destroyed
          provider   \* the provider created last

spaceVars == <<space, once, live, job, outcome, wild, provider>>

Predefined == {"host_all", "capacity", "bandwidth", "latency"}
AllSpaces == Predefined \cup UserSpaces
NoSpace == <<0>>
Exists(s) == space[s] # NoSpace
NoJob == [at |-> "none"]
NoOutcome == [result |-> "success", before |-> <<>>, after |-> <<>>]
NoProvider == [of |-> "none", mode |-> "none", nodes |-> <<>>]

SpaceInit ==
    /\ space = [s \in AllSpaces |-> NoSpace] /\ once = {} /\ live = 0
    /\ job = NoJob /\ outcome = NoOutcome /\ wild = FALSE /\ provider = NoProvider

NoLoopRuns == job.at = "none"
ForgetOutcome == outcome' = NoOutcome /\ provider' = NoProvider
Others == ForgetOutcome /\ UNCHANGED <<job, wild>>

-----------------------------------------------------------------------------
\* The loop of umfMemspaceCreateFromNumaArray(), umfMemspaceClone() and
\* umfMemspaceFilter() that makes one target after the other.
Start(s, nodes, kind) ==
    /\ NoLoopRuns /\ ~Exists(s) /\ nodes # <<>>
    /\ job' = [at |-> "make", s |-> s, nodes |-> nodes, k |-> 0, kind |-> kind]
    /\ ForgetOutcome /\ UNCHANGED <<space, live, wild>>

umfMemtargetCreate ==
    /\ job.at = "make" /\ job.k < Len(job.nodes)
    /\ live' = live + 1 /\ job' = [job EXCEPT !.k = @ + 1]
    /\ UNCHANGED <<space, once, outcome, wild, provider>>

\* A failure destroys what was made.  After creating from an array of ids the
\* array of targets has been freed when it is read for that.
MakeFails ==
    /\ job.at = "make" /\ job.k < Len(job.nodes) /\ job.kind \in MemFails
    /\ job' = [job EXCEPT !.at = "undo"]
    /\ wild' = (wild \/ (job.kind = "array" /\ job.k > 0))
    /\ UNCHANGED <<space, once, live, outcome, provider>>

\* Fault: the first target is forgotten.
UndoLast == 1

UndoUntil == 0

umfMemtargetDestroy ==
    /\ job.at = "undo"
    /\ IF job.k > UndoUntil
       THEN live' = live - 1 /\ job' = [job EXCEPT !.k = @ - 1]
       ELSE job' = NoJob /\ UNCHANGED live
    /\ UNCHANGED <<space, once, outcome, wild, provider>>

umfMemspaceHostAllCreate == SetToSortSeq(Nodes, LAMBDA a, b : a < b)

\* Fault: the comparison is the other way round.
CmpAscending(a, b) == Capacity[a] <= Capacity[b]

propertyCmp(a, b) == Capacity[a] >= Capacity[b]

\* qsort() may leave equals in any order.
umfMemspaceSortDesc(s) ==
    {p \in [DOMAIN s -> ToSet(s)] :
        /\ \A x \in ToSet(s) : Cardinality({i \in DOMAIN s : p[i] = x}) =
                               Cardinality({i \in DOMAIN s : s[i] = x})
        /\ \A i \in DOMAIN s : i > 1 => propertyCmp(p[i - 1], p[i])}

\* The first of the nodes with the best value, the first node if none is
\* better than the worst.
FirstBest(nodes, score) ==
    nodes[CHOOSE i \in DOMAIN nodes :
             \A j \in DOMAIN nodes : /\ score[nodes[j]] <= score[nodes[i]]
                                     /\ j < i => score[nodes[j]] < score[nodes[i]]]
getBestBandwidthTarget(from, nodes) == FirstBest(nodes, [n \in Nodes |-> Bandwidth[<<from, n>>]])
getBestLatencyTarget(from, nodes) == FirstBest(nodes, [n \in Nodes |-> -Latency[<<from, n>>]])

\* Fault: a target that is the best for two initiators is listed twice.
UniqueNot(best, n) == Append(best, n)

Unique(best, n) == IF n \in ToSet(best) THEN best ELSE Append(best, n)

\* The best target of each target, as getTarget() gave them, each once.
umfMemspaceFilter(targets) == FoldLeft(LAMBDA best, n : Unique(best, n), <<>>, targets)

-----------------------------------------------------------------------------
\* The loop is done; the highest-capacity memspace is sorted then.  Where the
\* capacity of a node is not known it is lost, with its targets.
Finished(s, nodes) ==
    IF s # "capacity" THEN {nodes}
    ELSE IF "property" \in MemFails THEN {NoSpace} ELSE umfMemspaceSortDesc(nodes)
MakeDone ==
    /\ job.at = "make" /\ job.k = Len(job.nodes)
    /\ job' = NoJob
    /\ \E nodes \in Finished(job.s, job.nodes) : space' = [space EXCEPT ![job.s] = nodes]
    /\ UNCHANGED <<once, live, outcome, wild, provider>>

\* The predefined memspaces, made on first use.  That it failed is remembered,
\* too; the platform may have no table of bandwidths or latencies.
Get(s, nodes, kind) ==
    /\ s \notin once /\ s # "host_all" => "host_all" \in once
    /\ once' = once \cup {s}
    /\ \/ /\ s \notin MemFails => s # "host_all" /\ ~Exists("host_all")
          /\ NoLoopRuns /\ Others /\ UNCHANGED <<space, live>>
       \/ /\ s # "host_all" => Exists("host_all")
          /\ Start(s, nodes, kind)

umfMemspaceHostAllGet == Get("host_all", umfMemspaceHostAllCreate, "array")
umfMemspaceHighestCapacityGet == Get("capacity", space["host_all"], "clone")
BestBandwidth(nodes) == [i \in DOMAIN nodes |-> getBestBandwidthTarget(nodes[i], nodes)]
umfMemspaceHighestBandwidthGet ==
    Get("bandwidth", umfMemspaceFilter(BestBandwidth(space["host_all"])), "clone")
BestLatency(nodes) == [i \in DOMAIN nodes |-> getBestLatencyTarget(nodes[i], nodes)]
umfMemspaceLowestLatencyGet ==
    Get("latency", umfMemspaceFilter(BestLatency(space["host_all"])), "clone")

-----------------------------------------------------------------------------
\* Memspaces of the user.
umfMemspaceNew(s) ==
    /\ NoLoopRuns /\ ~Exists(s) /\ space' = [space EXCEPT ![s] = <<>>]
    /\ UNCHANGED <<once, live>> /\ Others

\* The targets in the order of the array, twice if a node is in it twice.
umfMemspaceCreateFromNumaArray(s, ids) == Start(s, ids, "array") /\ UNCHANGED once

\* An empty memspace cannot be cloned: there is no array of length zero.
umfMemspaceClone(from, s) ==
    Exists(from) /\ Start(s, space[from], "clone") /\ UNCHANGED once

\* Fault: the targets stay when the memspace goes.
DestroyKeeps(s) == live' = live

DestroyTargets(s) == live' = live - Len(space[s])

umfMemspaceDestroy(s) ==
    /\ NoLoopRuns /\ Exists(s) /\ space' = [space EXCEPT ![s] = NoSpace] /\ DestroyTargets(s)
    /\ UNCHANGED once /\ Others

\* A target of a node that is there already is refused.
AddTo(nodes, n) == IF n \in ToSet(nodes) THEN nodes ELSE Append(nodes, n)
umfMemspaceMemtargetAdd(s, n) ==
    /\ NoLoopRuns /\ Exists(s) /\ Len(space[s]) < MaxTargets
    /\ space' = [space EXCEPT ![s] = AddTo(@, n)]
    /\ live' = live + (Len(space'[s]) - Len(space[s]))
    /\ UNCHANGED once /\ Others

\* The first target of that node goes, destroyed, whichever was passed.
FirstOf(nodes, n) == CHOOSE i \in DOMAIN nodes : nodes[i] = n /\ \A j \in 1..(i - 1) : nodes[j] # n
Removed(nodes, n) == IF n \in ToSet(nodes) THEN RemoveAt(nodes, FirstOf(nodes, n)) ELSE nodes
umfMemspaceMemtargetRemove(s, n) ==
    /\ NoLoopRuns /\ Exists(s) /\ n \in ToSet(space[s])
    /\ space' = [space EXCEPT ![s] = Removed(@, n)] /\ live' = live - 1
    /\ UNCHANGED once /\ Others

-----------------------------------------------------------------------------
\* umfMemspaceFilterHelper(): mark what goes, then remove it.  A callback that
\* fails, and an empty memspace, leave before anything is removed.
StartFilter(s, keep) ==
    /\ NoLoopRuns /\ Exists(s) /\ s \in UserSpaces
    /\ provider' = NoProvider /\ UNCHANGED <<space, once, live, wild>>
    /\ \/ /\ space[s] # <<>>
          /\ job' = [at |-> "remove", s |-> s, before |-> space[s], i |-> 1, j |-> 1,
                        marked |-> SelectSeq(space[s], LAMBDA n : n \notin keep)]
          /\ outcome' = NoOutcome
       \/ /\ space[s] = <<>> \/ "callback" \in MemFails
          /\ outcome' = [result |-> "error", before |-> space[s], after |-> space[s]]
          /\ UNCHANGED job

filterById(ids) == ids
filterByCapacity(least) == {n \in Nodes : Capacity[n] >= least}
umfMemspaceFilterById(s, ids) == StartFilter(s, filterById(ids))
umfMemspaceFilterByCapacity(s, least) == StartFilter(s, filterByCapacity(least))

FilterRemoves ==
    /\ job.at = "remove" /\ job.i <= Len(job.marked)
    /\ space' = [space EXCEPT ![job.s] = Removed(@, job.marked[job.i])]
    /\ live' = live - 1
    /\ job' = [job EXCEPT !.i = @ + 1]
    /\ UNCHANGED <<once, outcome, wild, provider>>

\* Fault: the target is destroyed before there is memory for the others.
RemoveFailsLate ==
    /\ job.at = "remove" /\ job.i \in (1..Len(job.marked)) \cap RemoveFailsAt
    /\ space' = [space EXCEPT ![job.s] = Removed(@, job.marked[job.i])]
    /\ live' = live - 1 /\ job' = [job EXCEPT !.at = "put back"]
    /\ UNCHANGED <<once, outcome, wild, provider>>

\* No memory for the others: this target stays, and those that went before it
\* are to be put back.  The last target needs no memory to go.
FilterRemoveFails ==
    /\ job.at = "remove" /\ job.i \in (1..Len(job.marked)) \cap RemoveFailsAt
    /\ Len(space[job.s]) > 1
    /\ job' = [job EXCEPT !.at = "put back"]
    /\ UNCHANGED <<space, once, live, outcome, wild, provider>>

\* Putting back clones a target that removing it has destroyed.
FilterPutsBack ==
    /\ job.at = "put back" /\ wild' = (wild \/ job.i > 1)
    /\ UNCHANGED <<once, provider>>
    /\ IF job.j < job.i
       THEN LET after == AddTo(space[job.s], job.marked[job.j])
            IN  /\ space' = [space EXCEPT ![job.s] = after]
                /\ live' = live + (Len(after) - Len(space[job.s]))
                /\ job' = [job EXCEPT !.j = @ + 1]
                /\ UNCHANGED outcome
       ELSE /\ outcome' = [result |-> "error", before |-> job.before,
                           after |-> space[job.s]]
            /\ job' = NoJob /\ UNCHANGED <<space, live>>

FilterDone ==
    /\ job.at = "remove" /\ job.i > Len(job.marked)
    /\ outcome' = [result |-> "success", before |-> job.before, after |-> space[job.s]]
    /\ job' = NoJob /\ UNCHANGED <<space, once, live, wild, provider>>

-----------------------------------------------------------------------------
\* numa_memory_provider_create_from_memspace(): the nodes and the mode the OS
\* provider is created with.
ModeOf(s, policy) ==
    IF policy # "none" THEN policy ELSE IF s = "host_all" THEN "default" ELSE "bind"
NodesOf(s, policy) ==
    IF s = "host_all" /\ policy = "none" THEN <<>>
    ELSE IF s = "capacity" THEN <<space[s][1]>> ELSE space[s]

\* The handle is compared with two predefined memspaces, which makes them.
numa_memory_provider_create_from_memspace(s, policy) ==
    /\ NoLoopRuns /\ Exists(s) /\ space[s] # <<>> /\ {"host_all", "capacity"} \subseteq once
    /\ provider' = [of |-> s, mode |-> ModeOf(s, policy), nodes |-> NodesOf(s, policy)]
    /\ outcome' = NoOutcome /\ UNCHANGED <<space, once, live, job, wild>>

SpaceNext ==
    \/ umfMemspaceHostAllGet \/ umfMemspaceHighestCapacityGet
    \/ umfMemspaceHighestBandwidthGet \/ umfMemspaceLowestLatencyGet
    \/ \E s \in UserSpaces :
          \/ umfMemspaceNew(s) \/ umfMemspaceDestroy(s)
          \/ \E ids \in Arrays : umfMemspaceCreateFromNumaArray(s, ids)
          \/ \E from \in AllSpaces : umfMemspaceClone(from, s)
          \/ \E n \in Nodes : umfMemspaceMemtargetAdd(s, n) \/ umfMemspaceMemtargetRemove(s, n)
          \/ \E keep \in Keeps : umfMemspaceFilterById(s, keep)
          \/ \E n \in Nodes : umfMemspaceFilterByCapacity(s, Capacity[n])
    \/ umfMemtargetCreate \/ MakeFails \/ umfMemtargetDestroy \/ MakeDone
    \/ FilterRemoves \/ FilterRemoveFails \/ FilterPutsBack \/ FilterDone
    \/ \E s \in AllSpaces, p \in Policies : numa_memory_provider_create_from_memspace(s, p)

SpaceSpec == SpaceInit /\ [][SpaceNext]_spaceVars

-----------------------------------------------------------------------------
\* Every target object belongs to one memspace or to the loop that makes one:
\* no failure on the way leaves a target behind, destroys one twice or reads
\* one that was destroyed.
TargetsOwned ==
    /\ ~wild
    /\ live = (IF job.at \in {"make", "undo"} THEN job.k ELSE 0)
              + FoldSet(LAMBDA s, sum : sum + (IF Exists(s) THEN Len(space[s]) ELSE 0), 0, AllSpaces)

\* A predefined memspace is what its name says: the highest capacity first,
\* every node once; the best target of each node, each once.
BestOf(s, better(_, _, _)) ==
    Exists(s) => ToSet(space[s]) \subseteq
        {n \in Nodes : \E from \in Nodes : \A m \in Nodes : ~better(from, m, n)}
PredefinedRight ==
    /\ \A s \in Predefined : Exists(s) =>
          Cardinality(ToSet(space[s])) = Len(space[s])
    /\ Exists("capacity") =>
          /\ ToSet(space["capacity"]) = Nodes
          /\ \A n \in Nodes : Capacity[space["capacity"][1]] >= Capacity[n]
    /\ BestOf("bandwidth", LAMBDA f, m, n : Bandwidth[<<f, m>>] > Bandwidth[<<f, n>>])
    /\ BestOf("latency", LAMBDA f, m, n : Latency[<<f, m>>] < Latency[<<f, n>>])

\* A provider of the highest-capacity memspace is bound to a node of that
\* capacity, one of another memspace to nodes of the platform; only the
\* memspace of all nodes, without a policy, binds to none.
ProviderBound ==
    provider.of # "none" =>
       /\ provider.nodes = <<>> <=> provider.of = "host_all" /\ provider.mode = "default"
       /\ provider.of = "capacity" =>
             \A n \in Nodes : Capacity[provider.nodes[1]] >= Capacity[n]

\* A filter that fails leaves the memspace as it was.
FilterKeeps == outcome.result = "error" => outcome.after = outcome.before
=============================================================================
