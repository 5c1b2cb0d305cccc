--------------------------- MODULE GpuProviderProofs ---------------------------
(***************************************************************************)
(* The CUDA and Level Zero providers give every thread its context back    *)
(* and lose no memory of the driver, for any number of threads, contexts,  *)
(* addresses and devices, when a saved context can be set again, memory    *)
(* can be made resident and a misaligned block can be freed.               *)
(***************************************************************************)
EXTENDS GpuProvider, TLAPS

CuPlaces == {"alloc", "free", "open", "allocated", "freed", "opened", "failed"}

\* The call of a thread in CUDA keeps the context the thread had set.
InCuda(call, own) ==
    \E at \in CuPlaces, ptr \in GpuPtrs \cup {0} : call = [at |-> at, ptr |-> ptr, restore |-> own]

InZe(call) ==
    \E ptr \in GpuPtrs, left \in Nat : call = [at |-> "resident", ptr |-> ptr, left |-> left]

\* A thread on its way to hand out, or back, memory that no caller holds.
Carries(call) == call.at \in {"allocated", "free", "resident"}

CallsRight ==
    /\ context = [t \in GpuThreads |-> context[t]] /\ wanted = [t \in GpuThreads |-> wanted[t]]
    /\ gpuCall = [t \in GpuThreads |-> gpuCall[t]]
    /\ \A t \in GpuThreads :
          \/ gpuCall[t] = GpuIdle /\ context[t] = wanted[t]
          \/ InCuda(gpuCall[t], wanted[t])
          \/ InZe(gpuCall[t]) /\ context[t] = wanted[t]

\* What the driver has allocated is held by one caller or carried by one thread.
MemoryRight ==
    /\ given \subseteq DOMAIN gpuMemory /\ DOMAIN gpuMemory \subseteq GpuPtrs
    /\ \A t \in GpuThreads : Carries(gpuCall[t]) => gpuCall[t].ptr \in DOMAIN gpuMemory \ given
    /\ \A t, u \in GpuThreads :
          Carries(gpuCall[t]) /\ Carries(gpuCall[u]) /\ t # u => gpuCall[t].ptr # gpuCall[u].ptr
    /\ \A x \in DOMAIN gpuMemory \ given :
          \E t \in GpuThreads : Carries(gpuCall[t]) /\ gpuCall[t].ptr = x

\* The inductive invariant.
GpuInv == CallsRight /\ MemoryRight

-----------------------------------------------------------------------------
\* What the calls look like.
LEMMA CallShapes ==
    ASSUME NEW call, NEW own, InCuda(call, own)
    PROVE  /\ call.at \in CuPlaces /\ call.ptr \in GpuPtrs \cup {0} /\ call.restore = own
           /\ call # GpuIdle
<1>1. PICK at0 \in CuPlaces, ptr0 \in GpuPtrs \cup {0} :
         call = [at |-> at0, ptr |-> ptr0, restore |-> own]
  BY DEF InCuda
<1>2. call.at = at0 /\ call.ptr = ptr0 /\ call.restore = own
  BY <1>1
<1>3. call # GpuIdle
  BY <1>2 DEF GpuIdle, CuPlaces
<1>4. QED
  BY <1>2, <1>3

\* A call that goes on to another place remains a call in CUDA.
LEMMA CallMoves ==
    ASSUME NEW call, NEW own, InCuda(call, own), NEW at \in CuPlaces
    PROVE  LET c == [call EXCEPT !.at = at]
           IN  InCuda(c, own) /\ c.at = at /\ c.ptr = call.ptr
<1>1. PICK at0 \in CuPlaces, ptr0 \in GpuPtrs \cup {0} :
         call = [at |-> at0, ptr |-> ptr0, restore |-> own]
  BY DEF InCuda
<1>2. [call EXCEPT !.at = at] = [at |-> at, ptr |-> ptr0, restore |-> own] /\ call.ptr = ptr0
  BY <1>1
<1>3. QED
  BY <1>2 DEF InCuda

\* A thread steps, and its new call is right.
LEMMA OneCall ==
    ASSUME CallsRight, NEW t \in GpuThreads, NEW c, NEW x,
           gpuCall' = [gpuCall EXCEPT ![t] = c], context' = [context EXCEPT ![t] = x],
           wanted' = wanted,
           \/ c = GpuIdle /\ x = wanted[t]
           \/ InCuda(c, wanted[t])
           \/ InZe(c) /\ x = wanted[t]
    PROVE  CallsRight'
<1>1. gpuCall'[t] = c /\ context'[t] = x
  BY DEF CallsRight
<1>2. \A u \in GpuThreads \ {t} : gpuCall'[u] = gpuCall[u] /\ context'[u] = context[u]
  BY DEF CallsRight
<1>3. /\ context' = [u \in GpuThreads |-> context'[u]] /\ wanted' = [u \in GpuThreads |-> wanted'[u]]
      /\ gpuCall' = [u \in GpuThreads |-> gpuCall'[u]]
  BY DEF CallsRight
<1>4. QED
  BY <1>1, <1>2, <1>3 DEF CallsRight

\* The ways of memory, when the call of a thread goes from old to c.
Stays(old, c) ==
    /\ Carries(c) <=> Carries(old)
    /\ Carries(c) => c.ptr = old.ptr
    /\ given' = given /\ DOMAIN gpuMemory' = DOMAIN gpuMemory
Allocates(old, c) ==
    /\ ~Carries(old) /\ Carries(c) /\ c.ptr \in GpuPtrs \ DOMAIN gpuMemory
    /\ given' = given /\ DOMAIN gpuMemory' = DOMAIN gpuMemory \cup {c.ptr}
Collects(old, c) ==
    /\ ~Carries(old) /\ Carries(c) /\ c.ptr \in given
    /\ given' = given \ {c.ptr} /\ DOMAIN gpuMemory' = DOMAIN gpuMemory
HandsOut(old, c) ==
    /\ Carries(old) /\ ~Carries(c)
    /\ given' = given \cup {old.ptr} /\ DOMAIN gpuMemory' = DOMAIN gpuMemory
GivesBack(old, c) ==
    /\ Carries(old) /\ ~Carries(c)
    /\ given' = given /\ DOMAIN gpuMemory' = DOMAIN gpuMemory \ {old.ptr}

\* A thread steps, and memory moves between the driver, the thread and the callers,
\* or stays where it is.
LEMMA MemoryMoves ==
    ASSUME CallsRight, MemoryRight, NEW t \in GpuThreads, NEW c,
           gpuCall' = [gpuCall EXCEPT ![t] = c],
           \/ Stays(gpuCall[t], c) \/ Allocates(gpuCall[t], c) \/ Collects(gpuCall[t], c)
           \/ HandsOut(gpuCall[t], c) \/ GivesBack(gpuCall[t], c)
    PROVE  MemoryRight'
<1>1. gpuCall'[t] = c /\ \A u \in GpuThreads \ {t} : gpuCall'[u] = gpuCall[u]
  BY DEF CallsRight
<1>2. CASE Stays(gpuCall[t], c)
  BY <1>1, <1>2 DEF MemoryRight, Stays
<1>3. CASE Allocates(gpuCall[t], c)
  BY <1>1, <1>3 DEF MemoryRight, Allocates
<1>4. CASE Collects(gpuCall[t], c)
  BY <1>1, <1>4 DEF MemoryRight, Collects
<1>5. CASE HandsOut(gpuCall[t], c)
  BY <1>1, <1>5 DEF MemoryRight, HandsOut
<1>6. CASE GivesBack(gpuCall[t], c)
  BY <1>1, <1>6 DEF MemoryRight, GivesBack
<1>7. QED
  BY <1>2, <1>3, <1>4, <1>5, <1>6

\* Nobody is in a call and nothing is allocated.
LEMMA GpuInitInv == GpuInit => GpuInv
  BY DEF GpuInit, GpuInv, CallsRight, MemoryRight, GpuIdle, Carries

-----------------------------------------------------------------------------
(* One lemma per step of a thread.                                         *)

\* Which calls are idle, in CUDA or in Level Zero can be told from their place.
LEMMA CallPlaces ==
    ASSUME CallsRight, NEW t \in GpuThreads
    PROVE  /\ gpuCall[t] = GpuIdle => context[t] = wanted[t] /\ ~Carries(gpuCall[t])
           /\ gpuCall[t].at \in CuPlaces => InCuda(gpuCall[t], wanted[t])
           /\ gpuCall[t].at = "resident" => InZe(gpuCall[t]) /\ context[t] = wanted[t]
<1>1. GpuIdle.at = "idle"
  BY DEF GpuIdle
<1>2. InZe(gpuCall[t]) => gpuCall[t].at = "resident"
  BY DEF InZe
<1>3. InCuda(gpuCall[t], wanted[t]) => gpuCall[t].at \in CuPlaces /\ gpuCall[t] # GpuIdle
  BY CallShapes
<1>4. "idle" \notin CuPlaces /\ "resident" \notin CuPlaces
  BY DEF CuPlaces
<1>5. QED
  BY <1>1, <1>2, <1>3, <1>4 DEF CallsRight, Carries

\* A call of CUDA begins: the context of the thread is saved in it.
LEMMA CuEnterOK ==
    ASSUME GpuInv, NEW t \in GpuThreads, NEW op, NEW ptr, CuEnter(t, op, ptr),
           (op \in {"alloc", "open"} /\ ptr = 0) \/ (op = "free" /\ ptr \in given)
    PROVE  GpuInv'
<1> DEFINE c == [at |-> op, ptr |-> ptr, restore |-> context[t]]
<1>1. /\ gpuCall[t] = GpuIdle /\ context[t] = wanted[t] /\ ~Carries(gpuCall[t])
      /\ given \subseteq GpuPtrs
  BY CallPlaces DEF GpuInv, MemoryRight, CuEnter
<1>2. InCuda(c, wanted[t])
  BY <1>1 DEF InCuda, CuPlaces
<1>3. /\ gpuCall' = [gpuCall EXCEPT ![t] = c] /\ context' = [context EXCEPT ![t] = OwnContext]
      /\ wanted' = wanted /\ gpuMemory' = gpuMemory
      /\ given' = IF op = "free" THEN given \ {ptr} ELSE given
  BY DEF CuEnter, Becomes, set_context
<1>4. c.at = op /\ c.ptr = ptr
  OBVIOUS
<1> HIDE DEF c
<1>5. CallsRight'
  BY <1>2, <1>3, OneCall DEF GpuInv
<1>6. Stays(gpuCall[t], c) \/ Collects(gpuCall[t], c)
  BY <1>1, <1>3, <1>4 DEF Stays, Collects, Carries
<1>7. QED
  BY <1>3, <1>5, <1>6, MemoryMoves DEF GpuInv

\* The driver allocates or refuses.
LEMMA CuDriverAllocOK ==
    ASSUME GpuInv, NEW t \in GpuThreads, NEW ptr \in GpuPtrs, NEW ok \in BOOLEAN,
           CuDriverAlloc(t, ptr, ok)
    PROVE  GpuInv'
<1> DEFINE c == [at |-> IF ok THEN "allocated" ELSE "failed", ptr |-> ptr,
                 restore |-> gpuCall[t].restore]
<1>1. InCuda(gpuCall[t], wanted[t]) /\ ~Carries(gpuCall[t])
  BY CallPlaces DEF GpuInv, CuDriverAlloc, CuPlaces, Carries
<1>2. InCuda(c, wanted[t])
  BY <1>1, CallShapes DEF InCuda, CuPlaces
<1>3. /\ gpuCall' = [gpuCall EXCEPT ![t] = c] /\ context' = context
      /\ wanted' = wanted /\ given' = given /\ ptr \notin DOMAIN gpuMemory
      /\ DOMAIN gpuMemory' = IF ok THEN DOMAIN gpuMemory \cup {ptr} ELSE DOMAIN gpuMemory
  BY DEF CuDriverAlloc, Becomes
<1>4. context' = [context EXCEPT ![t] = context[t]]
  BY <1>3 DEF GpuInv, CallsRight
<1>5. c.at = (IF ok THEN "allocated" ELSE "failed") /\ c.ptr = ptr
  OBVIOUS
<1> HIDE DEF c
<1>6. CallsRight'
  BY <1>2, <1>3, <1>4, OneCall DEF GpuInv
<1>7. Stays(gpuCall[t], c) \/ Allocates(gpuCall[t], c)
  BY <1>1, <1>3, <1>5 DEF Stays, Allocates, Carries
<1>8. QED
  BY <1>3, <1>6, <1>7, MemoryMoves DEF GpuInv

\* The driver frees or refuses: then the caller has the memory again.
LEMMA CuDriverFreeOK ==
    ASSUME GpuInv, NEW t \in GpuThreads, NEW ok \in BOOLEAN, CuDriverFree(t, ok)
    PROVE  GpuInv'
<1> DEFINE at == IF ok THEN "freed" ELSE "failed"
<1> DEFINE c == [gpuCall[t] EXCEPT !.at = at]
<1>1. InCuda(gpuCall[t], wanted[t]) /\ Carries(gpuCall[t])
  BY CallPlaces DEF GpuInv, CuDriverFree, CuPlaces, Carries
<1>2. at \in CuPlaces /\ at \notin {"allocated", "free", "resident"}
  BY DEF CuPlaces
<1>3. InCuda(c, wanted[t]) /\ c.at = at
  BY <1>1, <1>2, CallMoves
<1>4. /\ gpuCall' = [gpuCall EXCEPT ![t] = c] /\ context' = context /\ wanted' = wanted
      /\ given' = IF ok THEN given ELSE given \cup {gpuCall[t].ptr}
      /\ DOMAIN gpuMemory' = IF ok THEN DOMAIN gpuMemory \ {gpuCall[t].ptr} ELSE DOMAIN gpuMemory
  BY DEF CuDriverFree, Becomes
<1>5. context' = [context EXCEPT ![t] = context[t]]
  BY <1>4 DEF GpuInv, CallsRight
<1> HIDE DEF c, at
<1>6. CallsRight'
  BY <1>3, <1>4, <1>5, OneCall DEF GpuInv
<1>7. HandsOut(gpuCall[t], c) \/ GivesBack(gpuCall[t], c)
  BY <1>1, <1>2, <1>3, <1>4 DEF HandsOut, GivesBack, Carries
<1>8. QED
  BY <1>4, <1>6, <1>7, MemoryMoves DEF GpuInv

\* The driver opens a handle or refuses: no memory moves.
LEMMA CuDriverOpenOK ==
    ASSUME GpuInv, NEW t \in GpuThreads, NEW ok \in BOOLEAN, CuDriverOpen(t, ok)
    PROVE  GpuInv'
<1> DEFINE at == IF ok THEN "opened" ELSE "failed"
<1> DEFINE c == [gpuCall[t] EXCEPT !.at = at]
<1>1. InCuda(gpuCall[t], wanted[t]) /\ ~Carries(gpuCall[t])
  BY CallPlaces DEF GpuInv, CuDriverOpen, CuPlaces, Carries
<1>2. at \in CuPlaces /\ at \notin {"allocated", "free", "resident"}
  BY DEF CuPlaces
<1>3. InCuda(c, wanted[t]) /\ c.at = at
  BY <1>1, <1>2, CallMoves
<1>4. /\ gpuCall' = [gpuCall EXCEPT ![t] = c] /\ context' = context /\ wanted' = wanted
      /\ given' = given /\ gpuMemory' = gpuMemory
  BY DEF CuDriverOpen, Becomes
<1>5. context' = [context EXCEPT ![t] = context[t]]
  BY <1>4 DEF GpuInv, CallsRight
<1> HIDE DEF c, at
<1>6. CallsRight'
  BY <1>3, <1>4, <1>5, OneCall DEF GpuInv
<1>7. Stays(gpuCall[t], c)
  BY <1>1, <1>2, <1>3, <1>4 DEF Stays, Carries
<1>8. QED
  BY <1>4, <1>6, <1>7, MemoryMoves DEF GpuInv

\* A block that is not aligned can be freed again.
FreeWorks == May("misaligned") => ~(May("get") \/ May("set") \/ May("call"))

\* A call of CUDA ends and the context it had saved is set again.
LEMMA CuLeaveOK ==
    ASSUME GpuInv, ~May("restore"), FreeWorks, NEW t \in GpuThreads, NEW restored \in BOOLEAN,
           NEW block \in {"kept", "undone", "lost"}, CuLeave(t, restored, block)
    PROVE  GpuInv'
<1>1. InCuda(gpuCall[t], wanted[t]) /\ restored
  BY CallPlaces DEF GpuInv, CuLeave, CuPlaces
<1>2. gpuCall[t].restore = wanted[t]
  BY <1>1, CallShapes
<1>3. /\ gpuCall' = [gpuCall EXCEPT ![t] = GpuIdle] /\ wanted' = wanted
      /\ context' = [context EXCEPT ![t] = wanted[t]]
  BY <1>1, <1>2 DEF CuLeave, Becomes, Restored, set_context
<1>4. /\ gpuCall[t].at \in {"allocated", "freed", "opened", "failed"}
      /\ block # "kept" => gpuCall[t].at = "allocated"
      /\ given' = IF gpuCall[t].at = "allocated" /\ block = "kept"
                   THEN given \cup {gpuCall[t].ptr} ELSE given
      /\ DOMAIN gpuMemory' = IF block # "undone" THEN DOMAIN gpuMemory
                             ELSE DOMAIN gpuMemory \ {gpuCall[t].ptr}
      /\ block # "lost"
  BY DEF CuLeave, FreeWorks
<1>5. ~Carries(GpuIdle)
  BY DEF Carries, GpuIdle
<1>6. CallsRight'
  BY <1>3, OneCall DEF GpuInv
<1>7. \/ Stays(gpuCall[t], GpuIdle) \/ HandsOut(gpuCall[t], GpuIdle)
      \/ GivesBack(gpuCall[t], GpuIdle)
  BY <1>4, <1>5 DEF Stays, HandsOut, GivesBack, Carries
<1>8. QED
  BY <1>3, <1>6, <1>7, MemoryMoves DEF GpuInv

\* The driver allocates for Level Zero.
LEMMA ZeAllocOK ==
    ASSUME GpuInv, NEW t \in GpuThreads, NEW ptr \in GpuPtrs, ZeAlloc(t, ptr)
    PROVE  GpuInv'
<1> DEFINE c == [at |-> "resident", ptr |-> ptr, left |-> Residents]
<1>1. gpuCall[t] = GpuIdle /\ context[t] = wanted[t] /\ ~Carries(gpuCall[t])
  BY CallPlaces DEF GpuInv, ZeAlloc
<1>2. InZe(c) /\ c.at = "resident" /\ c.ptr = ptr
  BY GpuAssumption DEF InZe
<1>3. /\ gpuCall' = [gpuCall EXCEPT ![t] = c] /\ context' = context /\ wanted' = wanted
      /\ given' = given /\ ptr \notin DOMAIN gpuMemory
      /\ DOMAIN gpuMemory' = DOMAIN gpuMemory \cup {ptr}
  BY DEF ZeAlloc, Becomes
<1>4. context' = [context EXCEPT ![t] = context[t]]
  BY <1>3 DEF GpuInv, CallsRight
<1> HIDE DEF c
<1>5. CallsRight'
  BY <1>1, <1>2, <1>3, <1>4, OneCall DEF GpuInv
<1>6. Allocates(gpuCall[t], c)
  BY <1>1, <1>2, <1>3 DEF Allocates, Carries
<1>7. QED
  BY <1>3, <1>5, <1>6, MemoryMoves DEF GpuInv

\* The memory is made resident on one more device, or handed out.
LEMMA ZeResidentOK ==
    ASSUME GpuInv, ~May("resident"), NEW t \in GpuThreads, NEW ok \in BOOLEAN, ZeResident(t, ok)
    PROVE  GpuInv'
<1>1. /\ InZe(gpuCall[t]) /\ context[t] = wanted[t] /\ Carries(gpuCall[t]) /\ ok
  BY CallPlaces DEF GpuInv, ZeResident, Carries
<1>2. context' = context /\ wanted' = wanted /\ gpuMemory' = gpuMemory
  BY DEF ZeResident
<1>3. context' = [context EXCEPT ![t] = context[t]]
  BY <1>2 DEF GpuInv, CallsRight
<1>4. PICK ptr \in GpuPtrs, left \in Nat :
         gpuCall[t] = [at |-> "resident", ptr |-> ptr, left |-> left]
  BY <1>1 DEF InZe
<1>5. CASE left > 0
  <2> DEFINE c == [at |-> "resident", ptr |-> ptr, left |-> left - 1]
  <2>1. gpuCall[t].left = left /\ [gpuCall[t] EXCEPT !.left = @ - 1] = c
    BY <1>4
  <2>2. gpuCall' = [gpuCall EXCEPT ![t] = c] /\ given' = given
    BY <1>1, <1>5, <2>1 DEF ZeResident, Becomes
  <2>3. InZe(c) /\ c.at = "resident" /\ c.ptr = gpuCall[t].ptr
    BY <1>4, <1>5 DEF InZe
  <2> HIDE DEF c
  <2>4. CallsRight'
    BY <1>1, <1>2, <1>3, <2>2, <2>3, OneCall DEF GpuInv
  <2>5. Stays(gpuCall[t], c)
    BY <1>1, <1>2, <2>2, <2>3 DEF Stays, Carries
  <2>6. QED
    BY <2>2, <2>4, <2>5, MemoryMoves DEF GpuInv
<1>6. CASE ~(left > 0)
  <2>1. gpuCall[t].left = left
    BY <1>4
  <2>2. gpuCall' = [gpuCall EXCEPT ![t] = GpuIdle] /\ given' = given \cup {gpuCall[t].ptr}
    BY <1>1, <1>6, <2>1 DEF ZeResident, Becomes
  <2>3. ~Carries(GpuIdle)
    BY DEF Carries, GpuIdle
  <2>4. CallsRight'
    BY <1>1, <1>2, <1>3, <2>2, OneCall DEF GpuInv
  <2>5. HandsOut(gpuCall[t], GpuIdle)
    BY <1>1, <1>2, <2>2, <2>3 DEF HandsOut
  <2>6. QED
    BY <2>2, <2>4, <2>5, MemoryMoves DEF GpuInv
<1>7. QED
  BY <1>5, <1>6

\* A thread sets a context of its own between two calls.
LEMMA SetOwnOK ==
    ASSUME GpuInv, NEW t \in GpuThreads, NEW c, SetOwn(t, c)
    PROVE  GpuInv'
<1>1. /\ context' = [context EXCEPT ![t] = c] /\ wanted' = [wanted EXCEPT ![t] = c]
      /\ gpuCall' = gpuCall /\ given' = given /\ gpuMemory' = gpuMemory /\ gpuCall[t] = GpuIdle
  BY DEF SetOwn
<1>2. context'[t] = c /\ wanted'[t] = c
  BY <1>1 DEF GpuInv, CallsRight
<1>3. \A u \in GpuThreads \ {t} : context'[u] = context[u] /\ wanted'[u] = wanted[u]
  BY <1>1 DEF GpuInv, CallsRight
<1>4. /\ context' = [u \in GpuThreads |-> context'[u]] /\ wanted' = [u \in GpuThreads |-> wanted'[u]]
      /\ gpuCall' = [u \in GpuThreads |-> gpuCall'[u]]
  BY <1>1 DEF GpuInv, CallsRight
<1>5. CallsRight'
  BY <1>1, <1>2, <1>3, <1>4 DEF GpuInv, CallsRight
<1>6. MemoryRight'
  BY <1>1 DEF GpuInv, MemoryRight
<1>7. QED
  BY <1>5, <1>6 DEF GpuInv

\* Level Zero frees memory of a caller, or its driver refuses.
LEMMA ZeFreeOK ==
    ASSUME GpuInv, NEW ptr \in given, NEW ok \in BOOLEAN, ZeFree(ptr, ok)
    PROVE  GpuInv'
<1>1. /\ context' = context /\ wanted' = wanted /\ gpuCall' = gpuCall
      /\ given' = IF ok THEN given \ {ptr} ELSE given
      /\ DOMAIN gpuMemory' = IF ok THEN DOMAIN gpuMemory \ {ptr} ELSE DOMAIN gpuMemory
  BY DEF ZeFree
<1>2. CallsRight'
  BY <1>1 DEF GpuInv, CallsRight
<1>3. MemoryRight'
  BY <1>1 DEF GpuInv, MemoryRight
<1>4. QED
  BY <1>2, <1>3 DEF GpuInv

-----------------------------------------------------------------------------
\* When no call is under way, what the driver has allocated is what callers hold.
NothingLost == (\A t \in GpuThreads : gpuCall[t] = GpuIdle) => DOMAIN gpuMemory = given

\* Every step keeps the invariant, when contexts are restored and memory is made
\* resident.
LEMMA GpuStep ==
    ASSUME ~May("restore"), ~May("resident"), FreeWorks, GpuInv, [GpuNext]_gpuVars
    PROVE  GpuInv'
<1>1. ASSUME NEW t \in GpuThreads, NEW c \in Contexts, SetOwn(t, c)
      PROVE  GpuInv'
  BY <1>1, SetOwnOK
<1>2. ASSUME NEW t \in GpuThreads, NEW op \in {"alloc", "open"}, CuEnter(t, op, 0)
      PROVE  GpuInv'
  BY <1>2, CuEnterOK
<1>3. ASSUME NEW t \in GpuThreads, NEW ptr \in given, CuEnter(t, "free", ptr)
      PROVE  GpuInv'
  BY <1>3, CuEnterOK
<1>4. ASSUME NEW t \in GpuThreads, NEW ptr \in GpuPtrs, NEW ok \in BOOLEAN,
             CuDriverAlloc(t, ptr, ok)
      PROVE  GpuInv'
  BY <1>4, CuDriverAllocOK
<1>5. ASSUME NEW t \in GpuThreads, NEW ok \in BOOLEAN,
             CuDriverFree(t, ok) \/ CuDriverOpen(t, ok) \/ ZeResident(t, ok)
      PROVE  GpuInv'
  BY <1>5, CuDriverFreeOK, CuDriverOpenOK, ZeResidentOK
<1>6. ASSUME NEW t \in GpuThreads, NEW restored \in BOOLEAN,
             NEW block \in {"kept", "undone", "lost"}, CuLeave(t, restored, block)
      PROVE  GpuInv'
  BY <1>6, CuLeaveOK
<1>7. ASSUME NEW t \in GpuThreads, NEW ptr \in GpuPtrs, ZeAlloc(t, ptr)
      PROVE  GpuInv'
  BY <1>7, ZeAllocOK
<1>8. ASSUME NEW ptr \in given, NEW ok \in BOOLEAN, ZeFree(ptr, ok)
      PROVE  GpuInv'
  BY <1>8, ZeFreeOK
<1>9. ASSUME UNCHANGED <<context, wanted, gpuMemory, given, gpuCall>>
      PROVE  GpuInv'
  BY <1>9 DEF GpuInv, CallsRight, MemoryRight
<1>10. CASE UNCHANGED gpuVars
  BY <1>9, <1>10 DEF gpuVars
<1>11. ASSUME NEW t \in GpuThreads, CuRefused(t)
       PROVE  GpuInv'
  BY <1>9, <1>11 DEF CuRefused, gpuVars
<1>12. ASSUME NEW ok \in BOOLEAN, CloseGpu(ok) \/ ZeOpen(ok)
       PROVE  GpuInv'
  BY <1>9, <1>12 DEF CloseGpu, ZeOpen
<1>13. ASSUME NEW ptr \in given, ZeGetHandle(ptr)
       PROVE  GpuInv'
  BY <1>9, <1>13 DEF ZeGetHandle
<1>14. ASSUME NEW ptr \in ipcHandles, NEW ok \in BOOLEAN, ZePutHandle(ptr, ok)
       PROVE  GpuInv'
  BY <1>9, <1>14 DEF ZePutHandle
<1>15. QED
  BY <1>1, <1>2, <1>3, <1>4, <1>5, <1>6, <1>7, <1>8, <1>10, <1>11, <1>12, <1>13, <1>14 DEF GpuNext

\* The CUDA and Level Zero providers: a thread in no call has the context it has set
\* itself, and when no call is under way callers hold all the memory of the driver,
\* also after calls that it refused.  A context that cannot be set again is only logged
\* (cu_memory_provider_alloc), memory that cannot be made resident is not freed
\* (ze_memory_provider_alloc_helper), and nobody learns that a misaligned block could
\* not be freed (cu_memory_provider_alloc): the three are excluded.
THEOREM ContextsAndMemoryKept ==
    ASSUME "restore" \notin GpuFails, "resident" \notin GpuFails, FreeWorks
    PROVE  GpuSpec => [](ContextKept /\ NothingLost)
<1>1. GpuInit => GpuInv
  BY GpuInitInv
<1>2. GpuInv /\ [GpuNext]_gpuVars => GpuInv'
  BY GpuStep DEF May
<1>3. GpuInv => ContextKept /\ NothingLost
  <2> SUFFICES ASSUME GpuInv PROVE ContextKept /\ NothingLost
    OBVIOUS
  <2>1. \A t \in GpuThreads :
           gpuCall[t] = GpuIdle => context[t] = wanted[t] /\ ~Carries(gpuCall[t])
    BY CallPlaces DEF GpuInv
  <2>2. QED
    BY <2>1 DEF GpuInv, MemoryRight, ContextKept, NothingLost
<1>4. QED
  BY <1>1, <1>2, <1>3, PTL DEF GpuSpec

=============================================================================
