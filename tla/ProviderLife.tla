------------------------------ MODULE ProviderLife ------------------------------
(***************************************************************************)
(* How memory providers, and the scalable pool, come to life and end.  An   *)
(* initialize function takes resources one by one; when a step fails, a     *)
(* chain of labels releases what was taken.  A finalize function releases   *)
(* the rest.  The CUDA, Level Zero and TBB libraries are opened once, by    *)
(* the first one who needs them, and closed when UMF itself ends.           *)
(***************************************************************************)
EXTENDS Integers, Sequences, FiniteSets

CONSTANTS
    Instances,      \* providers and pools that may exist at the same time
    LifeKinds,      \* instance -> the kinds it may be of
    LifeFails,      \* the steps that may fail
    Symbols,        \* the libraries may lack symbols
    MaxRestarts     \* how often UMF is used again after it ended

VARIABLES
    instance,       \* its kind, the steps done, what it holds and how it stands
    library,        \* per library: was it tried, is it usable, the handle kept, times it is open
    ends            \* how often UMF ended

lifeVars == <<instance, library, ends>>

Unborn == [kind |-> "none", done |-> 0, held |-> {}, status |-> "none"]

\* One step: what it takes when it succeeds, what it gives back then, and what the
\* code releases when it fails.
Step(name, takes, undo) == [name |-> name, takes |-> takes, drops |-> {}, undo |-> undo]

\* A private provider has no file descriptor; a split one has partitions.  When
\* the lock fails the descriptor stays open.
os_initialize(kind) ==
    LET low == {"provider", "topo"}
        maps == low \cup {"fd_offset_map"}
        all == maps \cup {"nodeset"}
    IN  <<Step("provider", {"provider"}, {}),
          Step("topo_init", {"topo"}, {"provider"}),
          Step("topo_load", {}, low),
          Step("fd_offset_map", {"fd_offset_map"}, low),
          Step("translate", {"nodeset"} \cup (IF kind = "os_split" THEN {"partitions"} ELSE {}), maps)>>
        \o (IF kind = "os_shared" THEN <<Step("fd", {"fd"}, all), Step("lock", {"lock"}, all)>> ELSE <<>>)
        \o <<Step("nodeset_str_buf", {"nodeset_str_buf"}, {})>>

os_finalize == {"lock", "fd_offset_map", "nodeset", "partitions", "nodeset_str_buf", "topo", "provider"}

file_initialize ==
    LET opened == {"provider", "fd"}
        coarse == opened \cup {"coarse"}
        locked == coarse \cup {"lock"}
    IN  <<Step("provider", {"provider"}, {}),
          Step("translate", {}, {"provider"}),
          Step("path", {}, {"provider"}),
          Step("fd", {"fd"}, {"provider"}),
          Step("size", {}, opened),
          Step("coarse", {"coarse"}, opened),
          Step("lock", {"lock"}, coarse),
          Step("fd_offset_map", {"fd_offset_map"}, locked),
          Step("mmaps", {"mmaps"}, locked \cup {"fd_offset_map"})>>

file_provider_finalize == {"mmaps", "lock", "fd", "fd_offset_map", "coarse", "provider"}

\* The descriptor is closed as soon as the device is mapped, or is not.
devdax_initialize ==
    LET coarse == {"provider", "coarse"}
        mapped == coarse \cup {"base"}
    IN  <<Step("provider", {"provider"}, {}),
          Step("coarse", {"coarse"}, {"provider"}),
          Step("translate", {}, coarse),
          Step("path", {}, coarse),
          Step("fd", {"fd"}, coarse),
          [Step("map", {"base"}, coarse \cup {"fd"}) EXCEPT !.drops = {"fd"}],
          Step("is_dax", {}, mapped),
          Step("memory", {}, mapped),
          Step("lock", {"lock"}, mapped)>>

devdax_finalize == {"lock", "base", "coarse", "provider"}

\* Fault: when the memory cannot be added, the jump goes past the label that
\* deletes the coarse allocator.
fixed_initialize_skips ==
    <<Step("provider", {"provider"}, {}),
      Step("coarse", {"coarse"}, {"provider"}),
      Step("memory", {}, {"provider"})>>

fixed_initialize ==
    <<Step("provider", {"provider"}, {}),
      Step("coarse", {"coarse"}, {"provider"}),
      Step("memory", {}, {"provider", "coarse"})>>

fixed_finalize == {"coarse", "provider"}

cu_memory_provider_initialize ==
    <<Step("library", {}, {}),
      Step("provider", {"provider"}, {}),
      Step("granularity", {}, {"provider"})>>

cu_memory_provider_finalize == {"provider"}

ze_memory_provider_finalize == {"residents", "provider"}

\* The smallest page is found out with an allocation that is freed at once.
ze_memory_provider_initialize ==
    <<Step("library", {}, {}),
      Step("provider", {"provider"}, {}),
      Step("properties", {}, {"provider"}),
      Step("residents", {"residents"}, {"provider"}),
      Step("page_size", {}, ze_memory_provider_finalize)>>

tbb_pool_initialize ==
    <<Step("pool_data", {"pool_data"}, {}),
      Step("library", {}, {"pool_data"}),
      Step("tbb_pool", {"tbb_pool"}, {"pool_data"})>>

tbb_pool_finalize == {"tbb_pool", "pool_data"}

Steps(kind) ==
    CASE kind \in {"os", "os_split", "os_shared"} -> os_initialize(kind)
      [] kind = "file" -> file_initialize
      [] kind = "devdax" -> devdax_initialize
      [] kind = "fixed" -> fixed_initialize
      [] kind = "cuda" -> cu_memory_provider_initialize
      [] kind = "ze" -> ze_memory_provider_initialize
      [] kind = "tbb" -> tbb_pool_initialize

Releases(kind) ==
    CASE kind \in {"os", "os_split", "os_shared"} -> os_finalize
      [] kind = "file" -> file_provider_finalize
      [] kind = "devdax" -> devdax_finalize
      [] kind = "fixed" -> fixed_finalize
      [] kind = "cuda" -> cu_memory_provider_finalize
      [] kind = "ze" -> ze_memory_provider_finalize
      [] kind = "tbb" -> tbb_pool_finalize

\* Finalize looks whether it has these.
MayLack == {"nodeset_str_buf", "partitions", "lock"}

-----------------------------------------------------------------------------
(* The libraries.                                                          *)

Libraries == {"cuda", "ze", "tbb"}

Untried == [tried |-> FALSE, usable |-> FALSE, handle |-> FALSE, opened |-> 0]

\* Fault: the handle is kept before the symbols are looked up.
init_gpu_global_state_early(found, complete) ==
    [tried |-> TRUE, usable |-> found /\ complete, handle |-> found,
     opened |-> IF found /\ complete THEN 1 ELSE 0]

\* Without all symbols the library is closed again.
init_gpu_global_state(found, complete) ==
    [tried |-> TRUE, usable |-> found /\ complete, handle |-> found /\ complete,
     opened |-> IF found /\ complete THEN 1 ELSE 0]

\* Here the handle of a library that was closed again is kept.
init_tbb_callbacks_once(found, complete) ==
    [tried |-> TRUE, usable |-> found /\ complete, handle |-> found,
     opened |-> IF found /\ complete THEN 1 ELSE 0]

\* Who comes first opens the library.
Opened(k, found, complete) ==
    IF library[k].tried THEN library[k]
    ELSE IF k = "tbb" THEN init_tbb_callbacks_once(found, complete)
    ELSE init_gpu_global_state(found, complete)

\* The end of UMF closes what has a handle.  That it was opened is not forgotten.
fini_global_state(k) ==
    IF library[k].handle THEN [library[k] EXCEPT !.handle = FALSE, !.opened = @ - 1] ELSE library[k]

-----------------------------------------------------------------------------

LifeInit ==
    /\ instance = [i \in Instances |-> Unborn]
    /\ library = [k \in Libraries |-> Untried]
    /\ ends = 0

StepOf(i) == Steps(instance[i].kind)[instance[i].done + 1]

InStep(i) == instance[i].status = "starting" /\ instance[i].done < Len(Steps(instance[i].kind))

Begin(i, kind) ==
    /\ instance[i] = Unborn /\ ends <= MaxRestarts
    /\ instance' = [instance EXCEPT ![i] = [kind |-> kind, done |-> 0, held |-> {}, status |-> "starting"]]
    /\ UNCHANGED <<library, ends>>

Passed(i) ==
    instance' = [instance EXCEPT ![i].done = @ + 1,
                                 ![i].held = (@ \cup StepOf(i).takes) \ StepOf(i).drops]

\* The label that a failing step jumps to.  A path that is too long ends the
\* function with the result of the step before it, success.
Failed(i) ==
    instance' = [instance EXCEPT ![i].held = @ \ StepOf(i).undo,
                                 ![i].status = IF StepOf(i).name = "path" THEN "unreported" ELSE "failed"]

Succeed(i) ==
    /\ InStep(i) /\ StepOf(i).name # "library"
    /\ Passed(i)
    /\ UNCHANGED <<library, ends>>

Fail(i) ==
    /\ InStep(i) /\ StepOf(i).name \in LifeFails
    /\ StepOf(i).name \notin {"library", "nodeset_str_buf"}
    /\ Failed(i)
    /\ UNCHANGED <<library, ends>>

\* A provider does without the buffer it prints its nodes to.
DoWithout(i) ==
    /\ InStep(i) /\ StepOf(i).name = "nodeset_str_buf" /\ StepOf(i).name \in LifeFails
    /\ instance' = [instance EXCEPT ![i].done = @ + 1]
    /\ UNCHANGED <<library, ends>>

UseLibrary(i, found, complete) ==
    LET k == instance[i].kind
    IN  /\ InStep(i) /\ StepOf(i).name = "library"
        /\ (~found => "library" \in LifeFails) /\ (~complete => k \in Symbols)
        /\ library' = [library EXCEPT ![k] = Opened(k, found, complete)]
        /\ IF library'[k].usable THEN Passed(i) ELSE Failed(i)
        /\ UNCHANGED ends

Running(i) ==
    /\ instance[i].status = "starting" /\ ~InStep(i)
    /\ instance' = [instance EXCEPT ![i].status = "ready"]
    /\ UNCHANGED <<library, ends>>

Finalized(i) ==
    /\ instance[i].status = "ready"
    /\ instance' = [instance EXCEPT ![i].status = "gone", ![i].held = @ \ Releases(instance[i].kind)]
    /\ UNCHANGED <<library, ends>>

Forget(i) ==
    /\ instance[i].status \in {"failed", "unreported", "gone"}
    /\ instance' = [instance EXCEPT ![i] = Unborn]
    /\ UNCHANGED <<library, ends>>

\* The last user of UMF ends it; nothing is left then.
EndUmf ==
    /\ \A i \in Instances : instance[i] = Unborn
    /\ ends <= MaxRestarts
    /\ library' = [k \in Libraries |-> fini_global_state(k)]
    /\ ends' = ends + 1
    /\ UNCHANGED instance

LifeNext ==
    \/ \E i \in Instances :
           \/ \E kind \in LifeKinds[i] : Begin(i, kind)
           \/ Succeed(i) \/ Fail(i) \/ DoWithout(i)
           \/ \E found, complete \in BOOLEAN : UseLibrary(i, found, complete)
           \/ Running(i) \/ Finalized(i) \/ Forget(i)
    \/ EndUmf

LifeSpec == LifeInit /\ [][LifeNext]_lifeVars

-----------------------------------------------------------------------------
(* What holds.                                                             *)

\* Wherever initialize stops, what it took is given back and the caller hears of
\* it; what a ready provider holds is what finalize releases, no more and no less.
NothingLeftBehind ==
    \A i \in Instances :
        LET x == instance[i]
        IN  /\ x.status \in {"failed", "gone"} => x.held = {}
            /\ x.status # "unreported"
            /\ x.status = "ready" => /\ x.held \subseteq Releases(x.kind)
                                     /\ Releases(x.kind) \ x.held \subseteq MayLack

\* A provider or pool that is ready finds its library open, and no library is
\* closed more often than it was opened.
LibraryOpen ==
    /\ \A k \in Libraries : library[k].opened >= 0
    /\ \A i \in Instances :
           (instance[i].status = "ready" /\ instance[i].kind \in Libraries) => library[instance[i].kind].opened > 0

=============================================================================
