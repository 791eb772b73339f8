---------------------------- MODULE BufferQueue -----------------------------
(***************************************************************************)
(* The delegation queue of queues/buffer_queue.hpp: entries of various     *)
(* sizes in one array.  The entry of an operation holds a small number for *)
(* its function; sizes, functions and rev_functions, maps that are copied  *)
(* and replaced when an operation is enqueued for the first time, say what *)
(* the number means.  A claim that does not fit leaves a marker, and the   *)
(* flag is set to FULL.                                                    *)
(*                                                                         *)
(* The copy of a map and the compare_exchange that installs it are one     *)
(* step, and replaced maps are not freed.                                  *)
(***************************************************************************)
EXTENDS FlaggedQueue

CONSTANTS
  ARRAY_SIZE,    \* size of the array
  WORD,          \* sizeof(std::atomic<int>)
  Function,      \* wrapper functions
  FunctionOf,    \* FunctionOf[o]: the wrapper that o is enqueued with
  SizeOf         \* SizeOf[f]: the size of its entries

ASSUME BufferAssumption ==
  /\ WORD \in Nat \ {0} /\ ARRAY_SIZE \in Nat /\ WORD <= ARRAY_SIZE
  /\ FunctionOf \in [Op -> Function]
  /\ SizeOf \in [Function -> WORD..ARRAY_SIZE]

ASSUME FiniteAssumption == IsFiniteSet(Thread) /\ IsFiniteSet(Function)

VARIABLES
  sizes,           \* functions whose size is known
  functions,       \* functions[k]: the function of number k
  rev_functions,   \* rev_functions[f]: the number of f; 0 if it has none
  function_idx,    \* the number to give out next
  number           \* number[t]: the one that t has drawn

registry == <<sizes, functions, rev_functions, function_idx, number>>

NoFunction == "none"
Marker == -1
TodoMax == ARRAY_SIZE - WORD
MaxIdx == Cardinality(Function) * Cardinality(Thread)

TypeOK ==
  /\ QueueTypeOK(ARRAY_SIZE, Parameters..MaxIdx)
  /\ sizes \in SUBSET Function
  /\ functions \in [1..MaxIdx -> Function \cup {NoFunction}]
  /\ rev_functions \in [Function -> 0..MaxIdx]
  /\ function_idx \in 1 .. MaxIdx + 1
  /\ number \in [Thread -> 0..MaxIdx]

Init ==
  /\ QueueInit(ARRAY_SIZE)
  /\ sizes = {}
  /\ functions = [k \in 1..MaxIdx |-> NoFunction]
  /\ rev_functions = [f \in Function |-> 0]
  /\ function_idx = 1
  /\ number = [t \in Thread |-> 0]

Of(t) == FunctionOf[op[t]]

-----------------------------------------------------------------------------
(* enqueue(): registration of the function *)

IsNew(t) ==
  /\ Go(t, "look", "newIndex")
  /\ rev_functions[Of(t)] = 0
  /\ UNCHANGED <<counter, closed, fun, buf, enqueuer, flusher, registry>>

NewIndex(t) ==
  /\ Go(t, "newIndex", "addSize")
  /\ number' = [number EXCEPT ![t] = function_idx]
  /\ function_idx' = function_idx + 1
  /\ UNCHANGED <<counter, closed, fun, buf, enqueuer, flusher, sizes, functions, rev_functions>>

AddSize(t) ==
  /\ Go(t, "addSize", "addFunction")
  /\ sizes' = sizes \cup {Of(t)}
  /\ UNCHANGED <<counter, closed, fun, buf, enqueuer, flusher, functions, rev_functions, function_idx, number>>

AddFunction(t) ==
  /\ Go(t, "addFunction", "addReverse")
  /\ functions' = [functions EXCEPT ![number[t]] = Of(t)]
  /\ UNCHANGED <<counter, closed, fun, buf, enqueuer, flusher, sizes, rev_functions, function_idx, number>>

AddReverse(t) ==
  /\ Go(t, "addReverse", "look")
  /\ rev_functions' = [rev_functions EXCEPT ![Of(t)] = number[t]]
  /\ number' = [number EXCEPT ![t] = 0]
  /\ UNCHANGED <<counter, closed, fun, buf, enqueuer, flusher, sizes, functions, function_idx>>

Register(t) == IsNew(t) \/ NewIndex(t) \/ AddSize(t) \/ AddFunction(t) \/ AddReverse(t)

-----------------------------------------------------------------------------
(* enqueue(): the entry *)

Look(t) ==
  /\ pc[t] = "look" /\ rev_functions[Of(t)] # 0
  /\ LookAtFlag(t)

\* Variant for sensitivity: a claim that does not fit leaves no marker.
ClaimNoMarker(t) ==
  /\ pc[t] = "claim"
  /\ ClaimSpace(t, SizeOf[Of(t)], ARRAY_SIZE,
       IF counter + SizeOf[Of(t)] <= ARRAY_SIZE THEN "write" ELSE "full")

\* Variant for sensitivity: the test leaves out the size.
ClaimUnfit(t) ==
  /\ pc[t] = "claim"
  /\ ClaimSpace(t, SizeOf[Of(t)], ARRAY_SIZE, IF counter < ARRAY_SIZE THEN "write" ELSE "full")

Claim(t) ==
  /\ pc[t] = "claim"
  /\ ClaimSpace(t, SizeOf[Of(t)], ARRAY_SIZE,
       IF counter + SizeOf[Of(t)] <= ARRAY_SIZE THEN "write"
       ELSE IF counter < ARRAY_SIZE - WORD THEN "mark" ELSE "full")

Write(t) ==
  WriteParameters(t, claim[t] + WORD .. claim[t] + SizeOf[Of(t)] - 1)

Publish(t) == pc[t] = "publish" /\ StoreFunction(t, rev_functions[Of(t)])

\* "avoid deadlock in flush by setting special value"
Mark(t) ==
  /\ Go(t, "mark", "full")
  /\ fun' = [fun EXCEPT ![claim[t]] = Marker]
  /\ UNCHANGED <<counter, closed, buf, enqueuer, flusher>>

\* This store may come late, into the next session.
Full(t) ==
  /\ Finish(t, "full")
  /\ closed' = "FULL"
  /\ UNCHANGED <<counter, fun, buf, flusher>>

-----------------------------------------------------------------------------
(* flush() *)

Load(t) == LoadCounter(t, TodoMax)
Close(t) == CloseCounter(t, TodoMax, ARRAY_SIZE)

\* What the number stands for; "none" would be a null pointer, of size 0.
Called(k) == IF k \in DOMAIN functions THEN functions[k] ELSE NoFunction
SizeCalled(k) == IF Called(k) \in sizes THEN SizeOf[Called(k)] ELSE 0

Run(t) ==
  /\ index < todo
  /\ fun[index] \notin {0, Marker}
  /\ RunEntry(t, SizeCalled(fun[index]))

\* The marker is cleared, and everything is done.
FindMarker(t) ==
  /\ index < todo
  /\ fun[index] = Marker
  /\ FlushReturns(t)
  /\ fun' = [fun EXCEPT ![index] = 0]

Step(t) ==
  \/ Register(t)
  \/ /\ \/ Look(t) \/ Claim(t) \/ Write(t) \/ Publish(t) \/ Mark(t) \/ Full(t)
        \/ OpenFlag(t) \/ Load(t) \/ Close(t) \/ CloseFlag(t)
        \/ Run(t) \/ FindMarker(t) \/ NextRound(t) \/ FlushEnd(t)
     /\ UNCHANGED registry

Next ==
  \E t \in Thread :
    \/ Step(t)
    \/ OpenCounter(t) /\ UNCHANGED registry
    \/ \E o \in Op : Enqueue(t, o) /\ UNCHANGED registry

Spec == Init /\ [][Next]_<<queueVars, registry>>

=============================================================================
