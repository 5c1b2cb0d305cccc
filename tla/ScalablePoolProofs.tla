--------------------------- MODULE ScalablePoolProofs ---------------------------
(***************************************************************************)
(* A call of the scalable pool that fails says why, for any number of      *)
(* threads, blocks and raw blocks.                                         *)
(***************************************************************************)
EXTENDS ScalablePool, TLAPS

Errors == {Success, Unknown, NoMemory, ProviderError}

Calls == [op : {"none", "malloc", "realloc", "free"}, block : TbbBlocks \cup {0}, refused : BOOLEAN]
Answers ==
    [op : {"none", "malloc", "realloc", "free"}, ok : BOOLEAN, refused : BOOLEAN, error : Errors]

TbbTypes ==
    /\ allocError \in [TbbThreads -> Errors] /\ freeError \in [TbbThreads -> Errors]
    /\ tbbCall \in [TbbThreads -> Calls]
    /\ returned \in [TbbThreads -> Answers]

\* During a call, the variable of the thread holds the refusal of this call, if there
\* was one, and nothing else.
ErrorOfCall(c, alloc, free) ==
    /\ c.op \in {"malloc", "realloc"} => alloc = IF c.refused THEN NoMemory ELSE Success
    /\ c.op = "free" => free = IF c.refused THEN ProviderError ELSE Success

Explained(r) ==
    ~r.ok => r.error = IF ~r.refused THEN Unknown ELSE IF r.op = "free" THEN ProviderError ELSE NoMemory

\* The inductive invariant.
TbbInv ==
    /\ TbbTypes
    /\ \A t \in TbbThreads : ErrorOfCall(tbbCall[t], allocError[t], freeError[t])
    /\ \A t \in TbbThreads : Explained(returned[t])

-----------------------------------------------------------------------------
\* A step of t that keeps its own invariant keeps everybody's: the variables belong
\* to one thread each.
LEMMA OneThread ==
    ASSUME TbbInv, NEW t \in TbbThreads, NEW a \in Errors, NEW f \in Errors,
           NEW c \in Calls, NEW r \in Answers,
           allocError' = [allocError EXCEPT ![t] = a], freeError' = [freeError EXCEPT ![t] = f],
           tbbCall' = [tbbCall EXCEPT ![t] = c], returned' = [returned EXCEPT ![t] = r],
           ErrorOfCall(c, a, f), Explained(r)
    PROVE  TbbInv'
  <1>1. TbbTypes'
    BY DEF TbbInv, TbbTypes
  <1>2. ASSUME NEW u \in TbbThreads
        PROVE  ErrorOfCall(tbbCall[u], allocError[u], freeError[u])' /\ Explained(returned[u])'
    <2>1. CASE u = t
      <3>1. tbbCall'[u] = c /\ allocError'[u] = a /\ freeError'[u] = f /\ returned'[u] = r
        BY <2>1 DEF TbbInv, TbbTypes
      <3> QED BY <3>1 DEF ErrorOfCall, Explained
    <2>2. CASE u # t
      <3>1. /\ tbbCall'[u] = tbbCall[u] /\ allocError'[u] = allocError[u]
            /\ freeError'[u] = freeError[u] /\ returned'[u] = returned[u]
        BY <2>2 DEF TbbInv, TbbTypes
      <3> QED BY <3>1 DEF TbbInv, ErrorOfCall, Explained
    <2> QED BY <2>1, <2>2
  <1> QED BY <1>1, <1>2 DEF TbbInv

\* What a thread has in the variables before a step.
LEMMA OfThread ==
    ASSUME TbbInv, NEW t \in TbbThreads
    PROVE  /\ tbbCall[t] \in Calls /\ returned[t] \in Answers
           /\ allocError[t] \in Errors /\ freeError[t] \in Errors
           /\ ErrorOfCall(tbbCall[t], allocError[t], freeError[t]) /\ Explained(returned[t])
           /\ allocError = [allocError EXCEPT ![t] = allocError[t]]
           /\ freeError = [freeError EXCEPT ![t] = freeError[t]]
           /\ tbbCall = [tbbCall EXCEPT ![t] = tbbCall[t]]
           /\ returned = [returned EXCEPT ![t] = returned[t]]
  BY DEF TbbInv, TbbTypes

\* Nothing has been called.
LEMMA TbbInitInv == TbbInit => TbbInv
  BY DEF TbbInit, TbbInv, TbbTypes, Calls, Answers, TbbIdle, ErrorOfCall, Explained, Errors

\* Every allocation and every free forgets the error of the call before it.
LEMMA CallsBegin ==
    ASSUME TbbInv, NEW t \in TbbThreads,
           tbb_malloc(t) \/ \E b \in TbbBlocks : tbb_realloc(t, b) \/ tbb_free(t, b)
    PROVE  TbbInv'
  <1>1. CASE tbb_malloc(t)
    <2> DEFINE c == [tbbCall[t] EXCEPT !.op = "malloc"]
    <2>1. c \in Calls /\ c.op = "malloc" /\ c.refused = FALSE
      BY <1>1, OfThread DEF tbb_malloc, Calls, TbbIdle
    <2>2. ErrorOfCall(c, Success, freeError[t])
      BY <2>1 DEF ErrorOfCall
    <2>3. /\ allocError' = [allocError EXCEPT ![t] = Success]
          /\ tbbCall' = [tbbCall EXCEPT ![t] = c]
          /\ freeError' = freeError /\ returned' = returned
      BY <1>1 DEF tbb_malloc, ForgetAllocError
    <2>4. Success \in Errors
      BY DEF Errors
    <2> QED BY <2>1, <2>2, <2>3, <2>4, OfThread, OneThread
  <1>2. ASSUME NEW b \in TbbBlocks, tbb_realloc(t, b) PROVE TbbInv'
    <2> DEFINE c == [op |-> "realloc", block |-> b, refused |-> FALSE]
    <2>1. c \in Calls /\ ErrorOfCall(c, Success, freeError[t])
      BY DEF Calls, ErrorOfCall
    <2>3. /\ allocError' = [allocError EXCEPT ![t] = Success]
          /\ tbbCall' = [tbbCall EXCEPT ![t] = c]
          /\ freeError' = freeError /\ returned' = returned
      BY <1>2 DEF tbb_realloc, ForgetAllocError
    <2>4. Success \in Errors
      BY DEF Errors
    <2> QED BY <2>1, <2>3, <2>4, OfThread, OneThread
  <1>3. ASSUME NEW b \in TbbBlocks, tbb_free(t, b) PROVE TbbInv'
    <2> DEFINE c == [op |-> "free", block |-> b, refused |-> FALSE]
    <2>1. c \in Calls /\ ErrorOfCall(c, allocError[t], Success)
      BY DEF Calls, ErrorOfCall
    <2>3. /\ freeError' = [freeError EXCEPT ![t] = Success]
          /\ tbbCall' = [tbbCall EXCEPT ![t] = c]
          /\ allocError' = allocError /\ returned' = returned
      BY <1>3 DEF tbb_free
    <2>4. Success \in Errors
      BY DEF Errors
    <2> QED BY <2>1, <2>3, <2>4, OfThread, OneThread
  <1> QED BY <1>1, <1>2, <1>3

\* The callbacks note the provider's refusal for the thread they run in.
LEMMA CallbacksNote ==
    ASSUME TbbInv, NEW t \in TbbThreads, tbb_raw_alloc_wrapper(t) \/ tbb_raw_free_wrapper(t)
    PROVE  TbbInv'
  <1> DEFINE c == [tbbCall[t] EXCEPT !.refused = TRUE]
  <1>1. CASE UNCHANGED <<allocError, freeError, tbbCall, returned>>
    BY <1>1 DEF TbbInv, TbbTypes
  <1>2. c \in Calls /\ c.op = tbbCall[t].op /\ c.refused = TRUE
    BY OfThread DEF Calls
  <1>3. CASE /\ tbbCall[t].op \in {"malloc", "realloc"}
             /\ allocError' = [allocError EXCEPT ![t] = NoMemory]
             /\ tbbCall' = [tbbCall EXCEPT ![t] = c]
             /\ UNCHANGED <<freeError, returned>>
    <2>1. ErrorOfCall(c, NoMemory, freeError[t])
      BY <1>2, <1>3 DEF ErrorOfCall
    <2>2. NoMemory \in Errors
      BY DEF Errors
    <2> QED BY <1>2, <1>3, <2>1, <2>2, OfThread, OneThread
  <1>4. CASE /\ tbbCall[t].op = "free"
             /\ freeError' = [freeError EXCEPT ![t] = ProviderError]
             /\ tbbCall' = [tbbCall EXCEPT ![t] = c]
             /\ UNCHANGED <<allocError, returned>>
    <2>1. ErrorOfCall(c, allocError[t], ProviderError)
      BY <1>2, <1>4 DEF ErrorOfCall
    <2>2. ProviderError \in Errors
      BY DEF Errors
    <2> QED BY <1>2, <1>4, <2>1, <2>2, OfThread, OneThread
  <1> QED BY <1>1, <1>3, <1>4 DEF tbb_raw_alloc_wrapper, tbb_raw_free_wrapper

\* What a call tells its thread when it returns.
LEMMA CallsReturnTold ==
    ASSUME TbbInv, NEW t \in TbbThreads, NEW ok \in BOOLEAN, NEW e \in Errors, NEW a \in Errors,
           Told(t, ok, e), allocError' = [allocError EXCEPT ![t] = a], UNCHANGED freeError,
           ~ok => e = IF ~tbbCall[t].refused THEN Unknown
                      ELSE IF tbbCall[t].op = "free" THEN ProviderError ELSE NoMemory
    PROVE  TbbInv'
  <1> DEFINE r == [op |-> tbbCall[t].op, ok |-> ok, refused |-> tbbCall[t].refused, error |-> e]
  <1>1. r \in Answers /\ Explained(r)
    BY OfThread DEF Calls, Answers, Explained
  <1>2. TbbIdle \in Calls /\ ErrorOfCall(TbbIdle, a, freeError[t])
    BY DEF TbbIdle, Calls, ErrorOfCall
  <1>3. returned' = [returned EXCEPT ![t] = r] /\ tbbCall' = [tbbCall EXCEPT ![t] = TbbIdle]
    BY DEF Told
  <1> HIDE DEF r
  <1> QED BY <1>1, <1>2, <1>3, OfThread, OneThread

\* tbb_malloc and tbb_realloc return a block, or NULL with the error of this call.
LEMMA AllocationsReturn ==
    ASSUME TbbInv, NEW t \in TbbThreads,
           AllocReturnsNull(t) \/ \E b \in TbbBlocks : AllocSucceeds(t, b)
    PROVE  TbbInv'
  <1>1. CASE AllocReturnsNull(t)
    <2> DEFINE e == IF allocError[t] = Success THEN Unknown ELSE allocError[t]
    <2>1. allocError' = [allocError EXCEPT ![t] = e] /\ UNCHANGED freeError
      BY <1>1 DEF AllocReturnsNull
    <2>2. allocError'[t] = e /\ e \in Errors
      BY <2>1, OfThread DEF TbbInv, TbbTypes, Errors
    <2>3. e = IF ~tbbCall[t].refused THEN Unknown ELSE IF tbbCall[t].op = "free" THEN ProviderError ELSE NoMemory
      BY <1>1, OfThread DEF AllocReturnsNull, ErrorOfCall, NoMemory, Success, Unknown, Calls
    <2>4. Told(t, FALSE, e)
      BY <1>1, <2>2 DEF AllocReturnsNull
    <2> HIDE DEF e
    <2> QED BY <2>1, <2>2, <2>3, <2>4, CallsReturnTold
  <1>2. ASSUME NEW b \in TbbBlocks, AllocSucceeds(t, b) PROVE TbbInv'
    <2>1. Told(t, TRUE, allocError[t]) /\ UNCHANGED <<allocError, freeError>>
      BY <1>2 DEF AllocSucceeds
    <2> QED BY <2>1, OfThread, CallsReturnTold
  <1> QED BY <1>1, <1>2

\* tbb_free returns an error with the refusal of this call, or an unknown one.
LEMMA FreesReturn ==
    ASSUME TbbInv, NEW t \in TbbThreads, NEW ok \in BOOLEAN, FreeReturns(t, ok)
    PROVE  TbbInv'
  <1> DEFINE e == IF ok THEN Success ELSE IF freeError[t] # Success THEN freeError[t] ELSE Unknown
  <1>1. e \in Errors
    BY OfThread DEF Errors
  <1>2. ~ok => e = IF ~tbbCall[t].refused THEN Unknown ELSE IF tbbCall[t].op = "free" THEN ProviderError ELSE NoMemory
    BY OfThread DEF FreeReturns, ErrorOfCall, ProviderError, Success, Unknown, Calls
  <1>3. Told(t, ok, e) /\ UNCHANGED <<allocError, freeError>>
    BY DEF FreeReturns
  <1> HIDE DEF e
  <1> QED BY <1>1, <1>2, <1>3, OfThread, CallsReturnTold

\* A failing call of the scalable pool reports the provider's refusal during this very
\* call, or that the reason is unknown: never success, never an older error.
THEOREM FailuresAlwaysExplained == TbbSpec => []FailureExplained
  <1>1. TbbInv /\ [TbbNext]_tbbVars => TbbInv'
    <2> SUFFICES ASSUME TbbInv, [TbbNext]_tbbVars PROVE TbbInv'
      OBVIOUS
    <2>1. CASE UNCHANGED tbbVars
      BY <2>1 DEF tbbVars, TbbInv, TbbTypes
    <2>2. CASE TbbNext
      BY <2>2, CallsBegin, CallbacksNote, AllocationsReturn, FreesReturn DEF TbbNext
    <2> QED BY <2>1, <2>2
  <1>2. TbbInv => FailureExplained
    BY DEF TbbInv, FailureExplained, Explained
  <1> QED BY TbbInitInv, <1>1, <1>2, PTL DEF TbbSpec

=============================================================================
