----------------------------- MODULE ProviderParams -----------------------------
(***************************************************************************)
(* The parameter objects of the memory providers and pools                 *)
(* (umf...ParamsCreate, ...Set... and ...Destroy).  Paths, names of shared  *)
(* memory, NUMA lists and partitions are copied to host memory, which may  *)
(* run out; other values are stored as they are.                           *)
(***************************************************************************)
EXTENDS Integers, FiniteSets

CONSTANTS
    Copies,         \* addresses of copies in host memory
    MaxValue,       \* values are numbers up to this; 0 is NULL, the empty value or the default
    CudaLoads       \* the symbols of the CUDA library are found

ASSUME ParamAssumption == 0 \notin Copies /\ MaxValue \in Nat /\ CudaLoads \in BOOLEAN

VARIABLES
    object,         \* the parameter object: its kind and fields, or NoObject
    hostCopy,       \* the live copies: address -> what was copied
    want,           \* ghost: the values the object was given
    lost            \* ghost: objects that no one can free any more

paramVars == <<object, hostCopy, want, lost>>

NoObject == [kind |-> "none"]

\* The fields that hold a copy, and the others.
CopiedOf(kind) ==
    CASE kind = "os" -> {"shm_name", "numa_list", "partitions"}
      [] kind \in {"file", "devdax"} -> {"path"}
      [] OTHER -> {}

PlainOf(kind) ==
    CASE kind = "os" -> {"protection", "visibility", "numa_mode", "part_size", "name"}
      [] kind = "file" -> {"protection", "visibility", "name"}
      [] kind = "devdax" -> {"size", "protection", "name"}
      [] kind = "fixed" -> {"memory", "name"}
      [] kind = "cuda" -> {"context", "device", "memory_type", "alloc_flags", "name"}
      [] kind = "ze" -> {"context", "device", "memory_type", "ordinal", "residents", "policy", "name"}
      [] kind = "jemalloc" -> {"n_arenas", "name"}
      [] kind = "disjoint" -> {"slab_min_size", "max_poolable_size", "capacity", "min_bucket_size",
                               "pool_trace", "shared_limits", "name"}
      [] kind = "scalable" -> {"granularity", "keep_all_memory", "name"}

ParamInit == object = NoObject /\ hostCopy = <<>> /\ want = <<>> /\ lost = 0

Is(kind) == object.kind = kind

\* The live copies when the copy of v at c takes the place of the one at old.
Replaced(old, v, c) ==
    [x \in (DOMAIN hostCopy \ {old}) \cup ({c} \ {0}) |-> IF x = c THEN v ELSE hostCopy[x]]

\* Fault: the old copy is freed before there is memory for the new one.
CopyLate(field, v, c) ==
    /\ hostCopy' = Replaced(object.fields[field], v, c)
    /\ IF v # 0 /\ c = 0 THEN UNCHANGED <<object, want>>
       ELSE /\ object' = [object EXCEPT !.fields[field] = c]
            /\ want' = [want EXCEPT ![field] = v]

\* A new copy replaces the old one, which is freed then; without memory for it
\* nothing changes.  A value of 0 needs no copy.
Copy(field, v, c) ==
    IF v # 0 /\ c = 0 THEN UNCHANGED <<object, hostCopy, want>>
    ELSE /\ hostCopy' = Replaced(object.fields[field], v, c)
         /\ object' = [object EXCEPT !.fields[field] = c]
         /\ want' = [want EXCEPT ![field] = v]

SetCopy(kind, field, v, c) ==
    /\ Is(kind) /\ c \notin DOMAIN hostCopy /\ (v = 0 => c = 0)
    /\ Copy(field, v, c)
    /\ UNCHANGED lost

SetPlain(kind, field, v) ==
    /\ Is(kind)
    /\ object' = [object EXCEPT !.fields[field] = v]
    /\ want' = [want EXCEPT ![field] = v]
    /\ UNCHANGED <<hostCopy, lost>>

\* A new object has the values of given and 0 elsewhere; the fields in copied are
\* copies at c.  When there is no memory for the copy the object is freed again.
CreateParams(kind, given, copied, c) ==
    /\ object = NoObject /\ (copied = {} <=> c = 0)
    /\ want' = [f \in CopiedOf(kind) \cup PlainOf(kind) |-> IF f \in DOMAIN given THEN given[f] ELSE 0]
    /\ object' = [kind |-> kind, fields |-> [f \in DOMAIN want' |-> IF f \in copied THEN c ELSE want'[f]]]
    /\ hostCopy' = [x \in {c} \ {0} |-> want'[CHOOSE f \in copied : TRUE]]
    /\ UNCHANGED lost

\* The object is freed with its copies.
DestroyParams(kind) ==
    /\ Is(kind)
    /\ hostCopy' = [x \in DOMAIN hostCopy \ {object.fields[f] : f \in CopiedOf(kind)} |-> hostCopy[x]]
    /\ object' = NoObject /\ want' = <<>>
    /\ UNCHANGED lost

-----------------------------------------------------------------------------
(* The functions.                                                          *)

umfOsMemoryProviderParamsCreate == CreateParams("os", <<>>, {}, 0)
umfOsMemoryProviderParamsDestroy == DestroyParams("os")
umfOsMemoryProviderParamsSetProtection(v) == SetPlain("os", "protection", v)
umfOsMemoryProviderParamsSetVisibility(v) == SetPlain("os", "visibility", v)
umfOsMemoryProviderParamsSetShmName(v, c) == SetCopy("os", "shm_name", v, c)
umfOsMemoryProviderParamsSetNumaList(v, c) == SetCopy("os", "numa_list", v, c)
umfOsMemoryProviderParamsSetNumaMode(v) == SetPlain("os", "numa_mode", v)
umfOsMemoryProviderParamsSetPartSize(v) == SetPlain("os", "part_size", v)
umfOsMemoryProviderParamsSetPartitions(v, c) == SetCopy("os", "partitions", v, c)
umfOsMemoryProviderParamsSetName(v) == v # 0 /\ SetPlain("os", "name", v)

umfFileMemoryProviderParamsCreate(v, c) == v # 0 /\ CreateParams("file", [path |-> v], {"path"}, c)
umfFileMemoryProviderParamsDestroy == DestroyParams("file")
umfFileMemoryProviderParamsSetPath(v, c) == v # 0 /\ SetCopy("file", "path", v, c)
umfFileMemoryProviderParamsSetProtection(v) == SetPlain("file", "protection", v)
umfFileMemoryProviderParamsSetVisibility(v) == SetPlain("file", "visibility", v)
umfFileMemoryProviderParamsSetName(v) == v # 0 /\ SetPlain("file", "name", v)

umfDevDaxMemoryProviderParamsCreate(v, c, size) ==
    v # 0 /\ CreateParams("devdax", [path |-> v, size |-> size], {"path"}, c)
umfDevDaxMemoryProviderParamsDestroy == DestroyParams("devdax")
\* The size goes with the path: it is kept when there is no memory for the path.
umfDevDaxMemoryProviderParamsSetDeviceDax(v, c, size) ==
    /\ Is("devdax") /\ v # 0 /\ c # 0 /\ c \notin DOMAIN hostCopy
    /\ hostCopy' = Replaced(object.fields["path"], v, c)
    /\ object' = [object EXCEPT !.fields["path"] = c, !.fields["size"] = size]
    /\ want' = [want EXCEPT !["path"] = v, !["size"] = size]
    /\ UNCHANGED lost
\* A protection of 0 is refused here, and one with unknown bits.
umfDevDaxMemoryProviderParamsSetProtection(v) == v # 0 /\ SetPlain("devdax", "protection", v)
umfDevDaxMemoryProviderParamsSetName(v) == v # 0 /\ SetPlain("devdax", "name", v)

\* Neither the address nor the size may be 0.
umfFixedMemoryProviderParamsCreate(v) == v # 0 /\ CreateParams("fixed", [memory |-> v], {}, 0)
umfFixedMemoryProviderParamsDestroy == DestroyParams("fixed")
umfFixedMemoryProviderParamsSetMemory(v) == v # 0 /\ SetPlain("fixed", "memory", v)
umfFixedMemoryProviderParamsSetName(v) == v # 0 /\ SetPlain("fixed", "name", v)

\* The context and the device of the calling thread are the first values.  When the
\* symbols of the library are missing the new object is returned to no one.
umfCUDAMemoryProviderParamsCreate(v) ==
    IF CudaLoads THEN CreateParams("cuda", [context |-> v, device |-> v], {}, 0)
    ELSE object = NoObject /\ lost = 0 /\ lost' = 1 /\ UNCHANGED <<object, hostCopy, want>>
umfCUDAMemoryProviderParamsDestroy == DestroyParams("cuda")
umfCUDAMemoryProviderParamsSetContext(v) == SetPlain("cuda", "context", v)
umfCUDAMemoryProviderParamsSetDevice(v) == SetPlain("cuda", "device", v)
umfCUDAMemoryProviderParamsSetMemoryType(v) == SetPlain("cuda", "memory_type", v)
umfCUDAMemoryProviderParamsSetAllocFlags(v) == SetPlain("cuda", "alloc_flags", v)
umfCUDAMemoryProviderParamsSetName(v) == v # 0 /\ SetPlain("cuda", "name", v)

umfLevelZeroMemoryProviderParamsCreate == CreateParams("ze", <<>>, {}, 0)
umfLevelZeroMemoryProviderParamsDestroy == DestroyParams("ze")
umfLevelZeroMemoryProviderParamsSetContext(v) == v # 0 /\ SetPlain("ze", "context", v)
umfLevelZeroMemoryProviderParamsSetDevice(v) == SetPlain("ze", "device", v)
umfLevelZeroMemoryProviderParamsSetMemoryType(v) == SetPlain("ze", "memory_type", v)
umfLevelZeroMemoryProviderParamsSetDeviceOrdinal(v) == SetPlain("ze", "ordinal", v)
umfLevelZeroMemoryProviderParamsSetName(v) == v # 0 /\ SetPlain("ze", "name", v)
\* The array of devices is not copied: the object refers to the caller's.
umfLevelZeroMemoryProviderParamsSetResidentDevices(v) == SetPlain("ze", "residents", v)
umfLevelZeroMemoryProviderParamsSetFreePolicy(v) == SetPlain("ze", "policy", v)

umfJemallocPoolParamsCreate == CreateParams("jemalloc", <<>>, {}, 0)
umfJemallocPoolParamsDestroy == DestroyParams("jemalloc")
umfJemallocPoolParamsSetNumArenas(v) == SetPlain("jemalloc", "n_arenas", v)
umfJemallocPoolParamsSetName(v) == v # 0 /\ SetPlain("jemalloc", "name", v)

umfScalablePoolParamsCreate == CreateParams("scalable", <<>>, {}, 0)
umfScalablePoolParamsDestroy == DestroyParams("scalable")
umfScalablePoolParamsSetGranularity(v) == v # 0 /\ SetPlain("scalable", "granularity", v)
umfScalablePoolParamsSetKeepAllMemory(v) == SetPlain("scalable", "keep_all_memory", v)
umfScalablePoolParamsSetName(v) == v # 0 /\ SetPlain("scalable", "name", v)

umfDisjointPoolParamsCreate == CreateParams("disjoint", <<>>, {}, 0)
umfDisjointPoolParamsDestroy == DestroyParams("disjoint")
umfDisjointPoolParamsSetSlabMinSize(v) == SetPlain("disjoint", "slab_min_size", v)
umfDisjointPoolParamsSetMaxPoolableSize(v) == SetPlain("disjoint", "max_poolable_size", v)
umfDisjointPoolParamsSetCapacity(v) == SetPlain("disjoint", "capacity", v)
\* Only a power of 2 is taken.
umfDisjointPoolParamsSetMinBucketSize(v) ==
    (\E k \in 0 .. v : v = 2 ^ k) /\ SetPlain("disjoint", "min_bucket_size", v)
umfDisjointPoolParamsSetTrace(v) == SetPlain("disjoint", "pool_trace", v)
umfDisjointPoolParamsSetSharedLimits(v) == SetPlain("disjoint", "shared_limits", v)
umfDisjointPoolParamsSetName(v) == v # 0 /\ SetPlain("disjoint", "name", v)

ParamNext ==
    \/ umfOsMemoryProviderParamsCreate \/ umfOsMemoryProviderParamsDestroy
    \/ umfFileMemoryProviderParamsDestroy \/ umfDevDaxMemoryProviderParamsDestroy
    \/ umfFixedMemoryProviderParamsDestroy \/ umfCUDAMemoryProviderParamsDestroy
    \/ umfLevelZeroMemoryProviderParamsCreate \/ umfLevelZeroMemoryProviderParamsDestroy
    \/ umfJemallocPoolParamsCreate \/ umfJemallocPoolParamsDestroy \/ umfScalablePoolParamsCreate
    \/ umfScalablePoolParamsDestroy \/ umfDisjointPoolParamsCreate \/ umfDisjointPoolParamsDestroy
    \/ \E v \in 0 .. MaxValue :
           \/ umfOsMemoryProviderParamsSetProtection(v) \/ umfOsMemoryProviderParamsSetVisibility(v)
           \/ umfOsMemoryProviderParamsSetNumaMode(v) \/ umfOsMemoryProviderParamsSetPartSize(v)
           \/ umfOsMemoryProviderParamsSetName(v) \/ umfFileMemoryProviderParamsSetProtection(v)
           \/ umfFileMemoryProviderParamsSetVisibility(v) \/ umfFileMemoryProviderParamsSetName(v)
           \/ umfDevDaxMemoryProviderParamsSetProtection(v) \/ umfDevDaxMemoryProviderParamsSetName(v)
           \/ umfFixedMemoryProviderParamsCreate(v) \/ umfFixedMemoryProviderParamsSetMemory(v)
           \/ umfFixedMemoryProviderParamsSetName(v) \/ umfCUDAMemoryProviderParamsCreate(v)
           \/ umfCUDAMemoryProviderParamsSetContext(v) \/ umfCUDAMemoryProviderParamsSetDevice(v)
           \/ umfCUDAMemoryProviderParamsSetMemoryType(v) \/ umfCUDAMemoryProviderParamsSetAllocFlags(v)
           \/ umfCUDAMemoryProviderParamsSetName(v) \/ umfLevelZeroMemoryProviderParamsSetContext(v)
           \/ umfLevelZeroMemoryProviderParamsSetDevice(v)
           \/ umfLevelZeroMemoryProviderParamsSetMemoryType(v)
           \/ umfLevelZeroMemoryProviderParamsSetDeviceOrdinal(v)
           \/ umfLevelZeroMemoryProviderParamsSetName(v)
           \/ umfLevelZeroMemoryProviderParamsSetResidentDevices(v)
           \/ umfLevelZeroMemoryProviderParamsSetFreePolicy(v) \/ umfJemallocPoolParamsSetNumArenas(v)
           \/ umfJemallocPoolParamsSetName(v) \/ umfScalablePoolParamsSetGranularity(v)
           \/ umfScalablePoolParamsSetKeepAllMemory(v) \/ umfScalablePoolParamsSetName(v)
           \/ umfDisjointPoolParamsSetSlabMinSize(v) \/ umfDisjointPoolParamsSetMaxPoolableSize(v)
           \/ umfDisjointPoolParamsSetCapacity(v) \/ umfDisjointPoolParamsSetMinBucketSize(v)
           \/ umfDisjointPoolParamsSetTrace(v) \/ umfDisjointPoolParamsSetSharedLimits(v)
           \/ umfDisjointPoolParamsSetName(v)
           \/ \E c \in Copies \cup {0} :
                  \/ umfOsMemoryProviderParamsSetShmName(v, c) \/ umfOsMemoryProviderParamsSetNumaList(v, c)
                  \/ umfOsMemoryProviderParamsSetPartitions(v, c) \/ umfFileMemoryProviderParamsCreate(v, c)
                  \/ umfFileMemoryProviderParamsSetPath(v, c)
                  \/ \E size \in 0 .. MaxValue :
                         \/ umfDevDaxMemoryProviderParamsCreate(v, c, size)
                         \/ umfDevDaxMemoryProviderParamsSetDeviceDax(v, c, size)

ParamSpec == ParamInit /\ [][ParamNext]_paramVars

-----------------------------------------------------------------------------
(* What holds.                                                             *)

\* The copies in host memory are those that the object refers to, each from one
\* field: none is lost, freed early or shared, also after a setter that ran out of
\* memory; and every field has the value it was last given.
CopiesOwned ==
    LET owned == IF object = NoObject THEN {}
                 ELSE {f \in CopiedOf(object.kind) : object.fields[f] # 0}
    IN  /\ lost = 0
        /\ DOMAIN hostCopy = {object.fields[f] : f \in owned}
        /\ Cardinality(owned) = Cardinality(DOMAIN hostCopy)
        /\ \A f \in DOMAIN want :
               want[f] = IF f \in owned THEN hostCopy[object.fields[f]] ELSE object.fields[f]

=============================================================================
