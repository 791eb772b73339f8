---------------------------- MODULE QueuesProofs ----------------------------
(***************************************************************************)
(* entry_queue and buffer_queue keep the promise of TantrumQueue, for any  *)
(* number of threads, operations and functions and arrays of any size: an  *)
(* inductive invariant of each says which parts of the array are claimed.  *)
(*                                                                         *)
(* In the buffer_queue every operation must have parameters: without them  *)
(* an entry can start where flush() does not look.                         *)
(***************************************************************************)
EXTENDS MCQueues, FiniteSetTheorems, TLAPS

\* "buffer_queue" keeps the parameters behind the word that names the function.
HaveParameters == \A w \in Function : SizeOf[w] > WORD

-----------------------------------------------------------------------------
(* buffer_queue: the inductive invariant *)

Numbering == {"addSize", "addFunction", "addReverse"}
Registered == {"claim", "write", "publish", "mark", "full"}

\* The number that t has drawn and not yet given to its function is t's own.
NumberOK(t) ==
  /\ pc[t] \in Registered => rev_functions[Of(t)] # 0
  /\ pc[t] \in Numbering => number[t] # 0 /\ number[t] < function_idx
  /\ pc[t] \in {"addFunction", "addReverse"} => Of(t) \in sizes
  /\ pc[t] = "addReverse" => functions[number[t]] = Of(t)
  /\ pc[t] \in {"addSize", "addFunction"} =>
       /\ \A w \in Function : rev_functions[w] # number[t]
       /\ \A i \in DOMAIN fun : fun[i] # number[t]
       /\ \A u \in Thread : pc[u] \in Numbering /\ number[u] = number[t] => u = t

\* What a number names is never changed.
RegistryOK ==
  /\ \A w \in Function : rev_functions[w] # 0 =>
       /\ rev_functions[w] < function_idx
       /\ functions[rev_functions[w]] = w /\ w \in sizes
  /\ \A i \in DOMAIN fun : fun[i] < function_idx
  /\ \A t \in Thread : NumberOK(t)

\* The numbers that can still be drawn: a thread registers a function once,
\* and only while the function has no number.
Draws(w, t) ==
  \/ pc[t] = "newIndex" /\ Of(t) = w
  \/ rev_functions[w] = 0 /\ ~(pc[t] \in Numbering /\ Of(t) = w)
MayDraw == {d \in Function \X Thread : Draws(d[1], d[2])}
NumbersLeft == function_idx + Cardinality(MayDraw) <= MaxIdx + 1

Place == 0 .. ARRAY_SIZE - 1
Border == 0 .. ARRAY_SIZE
Writing == {"write", "publish", "mark"}

\* The parts of the array that are claimed, from i to e: entries that can be
\* run, the marker, and what an enqueuer has claimed and not stored yet.
End(t) == IF pc[t] = "mark" THEN ARRAY_SIZE ELSE claim[t] + SizeOf[Of(t)]
Storing(t, i, e) == pc[t] \in Writing /\ claim[t] = i /\ e = End(t)
Tile(i, e) ==
  \/ fun[i] > 0 /\ e = i + SizeOf[FunctionOf[buf[i]]]
  \/ fun[i] = Marker /\ e = ARRAY_SIZE
  \/ \E t \in Thread : Storing(t, i, e)

\* Entries whose parameters are in the array already.
Filled(i) == fun[i] > 0 \/ \E t \in Thread : pc[t] = "publish" /\ claim[t] = i

\* The tiles do not overlap, and whatever is not zero lies in one of them.
Disjoint ==
  \A i, j \in Place, e, d \in Border :
    Tile(i, e) /\ Tile(j, d) => i < e /\ (i < j => e <= j) /\ (i = j => e = d)
Covered ==
  \A i \in Place : fun[i] # 0 =>
    \E j \in Place, e \in Border : Tile(j, e) /\ j <= i /\ i < e /\ (i = j \/ Filled(j))

\* An entry that can be run names the function of its operation, which is in
\* no other entry.
EntryOK(i) ==
  fun[i] > 0 =>
    /\ buf[i] \in Op /\ i + SizeOf[FunctionOf[buf[i]]] <= ARRAY_SIZE
    /\ functions[fun[i]] = FunctionOf[buf[i]] /\ FunctionOf[buf[i]] \in sizes
    /\ \A t \in Thread : op[t] # buf[i]
    /\ \A j \in Place : fun[j] > 0 /\ buf[j] = buf[i] => j = i
EntriesOK == \A i \in Place : EntryOK(i)

\* A thread in enqueue() has an operation, one that no other has.
CallerOK(t) ==
  /\ pc[t] \in EnqueuePc <=> op[t] # NoOp
  /\ \A u \in Thread : op[t] = op[u] /\ op[t] # NoOp => t = u
CallersOK == \A t \in Thread : CallerOK(t)

\* One that stores an entry has a place of its own, where nothing is yet.
WriterOK(t) ==
  /\ pc[t] \in Writing =>
       /\ claim[t] < ARRAY_SIZE /\ End(t) <= ARRAY_SIZE /\ fun[claim[t]] = 0
       /\ \A u \in Thread : pc[u] \in Writing /\ claim[u] = claim[t] => u = t
  /\ pc[t] = "publish" => buf[claim[t]] = op[t]
WritersOK == \A t \in Thread : WriterOK(t)

\* Up to where the helper is going to run what is claimed.
Session == \E t \in Thread : InSession(t)
Closing == last \/ \E t \in Thread : pc[t] = "closeFlag"
Limit == IF Closing THEN todo ELSE IF counter < TodoMax THEN counter ELSE TodoMax

\* One helper at a time; nothing more can be claimed once it is closing the
\* queue.
HelperOK ==
  /\ \A t, u \in Thread : InSession(t) /\ InSession(u) => t = u
  /\ last => \E t \in Thread : pc[t] = "scan"
  /\ Limit <= TodoMax /\ (index <= Limit \/ Limit = TodoMax)
  /\ \A t \in Thread : pc[t] = "scan" /\ ~last => todo <= Limit
  /\ Closing => counter >= TodoMax
  /\ ~Session => counter >= TodoMax /\ index = 0

\* The tiles lie between the helper and the limit, one behind the other.
SpanOK ==
  /\ ~Session => \A i \in Place, e \in Border : ~Tile(i, e)
  /\ \A i \in Place : Session /\ i = index /\ i < Limit => \E e \in Border : Tile(i, e)
  /\ \A i \in Place, e \in Border : Tile(i, e) =>
       /\ index <= i /\ i < Limit
       /\ e <= Limit \/ Limit = TodoMax
       /\ e < Limit => \E d \in Border : Tile(e, d)

ArrayOK == Disjoint /\ Covered /\ EntriesOK /\ CallersOK /\ WritersOK /\ HelperOK /\ SpanOK
BufferInv == TypeOK /\ RegistryOK /\ NumbersLeft /\ ArrayOK

-----------------------------------------------------------------------------
(* buffer_queue: types and constants *)

LEMMA Constants ==
  /\ ARRAY_SIZE \in Nat /\ WORD \in Nat /\ WORD > 0 /\ WORD <= ARRAY_SIZE
  /\ TodoMax \in Nat /\ TodoMax = ARRAY_SIZE - WORD /\ TodoMax < ARRAY_SIZE
  /\ MaxIdx \in Nat
  /\ FunctionOf \in [Op -> Function] /\ SizeOf \in [Function -> WORD..ARRAY_SIZE]
  /\ NoOp \notin Op
<1>1. Cardinality(Function) \in Nat /\ Cardinality(Thread) \in Nat
  BY FS_CardinalityType, FiniteAssumption DEF FiniteAssumption
<1>2. MaxIdx \in Nat
  BY <1>1, SMT DEF MaxIdx
<1> QED
  BY <1>2, BufferAssumption, OpAssumption DEF BufferAssumption, OpAssumption, TodoMax

\* The variables of the array, in the ranges of this queue.
Value == Parameters..MaxIdx
Places == {"idle"} \cup EnqueuePc \cup SessionPc

ArrayTypes ==
  /\ counter \in Border /\ closed \in {"OPEN", "FULL", "CLOSED"}
  /\ fun \in [Place -> Value] /\ buf \in [Place -> Op \cup {NoOp}]
  /\ pc \in [Thread -> Places]
  /\ op \in [Thread -> Op \cup {NoOp}] /\ claim \in [Thread -> Border]
  /\ index \in Border /\ todo \in Border /\ last \in BOOLEAN

RegistryTypes ==
  /\ sizes \in SUBSET Function
  /\ functions \in [1..MaxIdx -> Function \cup {NoFunction}]
  /\ rev_functions \in [Function -> 0..MaxIdx]
  /\ function_idx \in 1 .. MaxIdx + 1
  /\ number \in [Thread -> 0..MaxIdx]

LEMMA Types == TypeOK <=> ArrayTypes /\ RegistryTypes
  BY DEF TypeOK, QueueTypeOK, ArrayTypes, RegistryTypes, Places, Place, Border, Value

LEMMA TypesNext == TypeOK' <=> ArrayTypes' /\ RegistryTypes'
  BY DEF TypeOK, QueueTypeOK, ArrayTypes, RegistryTypes, Places, Place, Border, Value

LEMMA LimitType ==
  ASSUME TypeOK
  PROVE  Limit \in Int
  BY Types, Constants DEF ArrayTypes, Limit, Border

\* A thread in the middle of enqueue() has an operation.
LEMMA HasOp ==
  ASSUME TypeOK, CallersOK, NEW t \in Thread, pc[t] \in EnqueuePc
  PROVE  /\ op[t] \in Op /\ Of(t) \in Function
         /\ SizeOf[Of(t)] \in WORD..ARRAY_SIZE
         /\ HaveParameters => SizeOf[Of(t)] > WORD
<1>1. op[t] \in Op
  BY Types DEF ArrayTypes, CallersOK, CallerOK
<1> QED
  BY <1>1, Constants DEF Of, HaveParameters

\* The part of the array that the helper runs next is an entry with the size
\* that its number stands for.
LEMMA AtEntry ==
  ASSUME BufferInv, NEW t \in Thread, pc[t] = "scan", index < todo,
         fun[index] \notin {0, Marker}
  PROVE  /\ index \in Place /\ fun[index] \in 1..MaxIdx
         /\ buf[index] \in Op /\ FunctionOf[buf[index]] \in Function
         /\ Called(fun[index]) = FunctionOf[buf[index]]
         /\ Called(fun[index]) \in sizes
         /\ SizeCalled(fun[index]) = SizeOf[FunctionOf[buf[index]]]
         /\ SizeOf[FunctionOf[buf[index]]] \in WORD..ARRAY_SIZE
         /\ Tile(index, index + SizeOf[FunctionOf[buf[index]]])
         /\ index + SizeOf[FunctionOf[buf[index]]] \in Border
<1> USE DEF BufferInv, ArrayOK
<1>0. Limit \in Int
  BY LimitType
<1>1. index < Limit /\ Limit <= TodoMax
  <2>1. todo <= Limit
    BY Types DEF ArrayTypes, HelperOK, Limit, Closing, Border
  <2> QED
    BY <1>0, <2>1, Types DEF ArrayTypes, HelperOK, Border
<1>2. Session
  BY DEF Session, InSession, SessionPc
<1>3. index \in Place /\ index \in DOMAIN fun
  BY <1>0, <1>1, Types, Constants DEF ArrayTypes, Place, Border
<1>4. PICK e \in Border : Tile(index, e)
  BY <1>1, <1>2, <1>3 DEF SpanOK
<1>5. fun[index] > 0
  <2>1. CASE \E u \in Thread : Storing(u, index, e)
    BY <2>1 DEF Storing, WritersOK, WriterOK
  <2> QED
    BY <1>4, <2>1 DEF Tile
<1>6. EntryOK(index) /\ fun[index] \in Parameters..MaxIdx
  BY <1>3, Types DEF ArrayTypes, EntriesOK, Value
<1>7. fun[index] \in 1..MaxIdx /\ DOMAIN functions = 1..MaxIdx
  BY <1>5, <1>6, Types, Constants DEF RegistryTypes, Parameters
<1>8. buf[index] \in Op /\ FunctionOf[buf[index]] \in Function
      /\ SizeOf[FunctionOf[buf[index]]] \in WORD..ARRAY_SIZE
  BY <1>5, <1>6, Constants DEF EntryOK
<1>9. Called(fun[index]) = FunctionOf[buf[index]] /\ Called(fun[index]) \in sizes
  BY <1>5, <1>6, <1>7 DEF EntryOK, Called
<1>10. Tile(index, index + SizeOf[FunctionOf[buf[index]]])
  BY <1>5 DEF Tile
<1>11. index + SizeOf[FunctionOf[buf[index]]] \in Border
  BY <1>3, <1>5, <1>6, <1>8, Constants DEF EntryOK, Border, Place
<1> QED
  BY <1>3, <1>7, <1>8, <1>9, <1>10, <1>11 DEF SizeCalled

\* A step of the queue is a step of one of these kinds.
Quiet(t) == (Look(t) \/ Full(t) \/ OpenFlag(t) \/ NextRound(t)) /\ UNCHANGED registry
Enqueues(t) == \E o \in Op : Enqueue(t, o) /\ UNCHANGED registry
Stores(t) == (Claim(t) \/ Write(t) \/ Publish(t) \/ Mark(t)) /\ UNCHANGED registry
Begins(t) == (OpenCounter(t) \/ Load(t) \/ Close(t) \/ CloseFlag(t)) /\ UNCHANGED registry
Takes(t) == (Run(t) \/ FindMarker(t) \/ FlushEnd(t)) /\ UNCHANGED registry

LEMMA KindsOfSteps ==
  ASSUME Next
  PROVE  \E t \in Thread : \/ Register(t) \/ Quiet(t) \/ Enqueues(t)
                           \/ Stores(t) \/ Begins(t) \/ Takes(t)
  BY DEF Next, Step, Quiet, Enqueues, Stores, Begins, Takes

LEMMA FunctionIdx ==
  ASSUME TypeOK, NumbersLeft, NEW t \in Thread, pc[t] = "newIndex", Of(t) \in Function
  PROVE  function_idx <= MaxIdx
<1>1. IsFiniteSet(Function \X Thread)
  BY FS_Product, FiniteAssumption DEF FiniteAssumption
<1>2. MayDraw \in SUBSET (Function \X Thread) /\ <<Of(t), t>> \in MayDraw
  BY DEF MayDraw, Draws
<1>3. IsFiniteSet(MayDraw) /\ Cardinality(MayDraw) \in Nat
  BY <1>1, <1>2, FS_Subset, FS_CardinalityType
<1>4. Cardinality(MayDraw) # 0
  BY <1>2, <1>3, FS_EmptySet
<1> QED
  BY <1>3, <1>4, Types, Constants DEF RegistryTypes, NumbersLeft

LEMMA Ranges ==
  /\ 0 \in Border /\ ARRAY_SIZE \in Border /\ TodoMax \in Border
  /\ 0 \in Value /\ Parameters \in Value /\ Marker \in Value /\ 1..MaxIdx \subseteq Value
  BY Constants DEF Border, Value, Parameters, Marker

LEMMA TypeStep ==
  ASSUME BufferInv, Next
  PROVE  TypeOK'
<1> PICK t \in Thread : \/ Register(t) \/ Quiet(t) \/ Enqueues(t)
                        \/ Stores(t) \/ Begins(t) \/ Takes(t)
  BY KindsOfSteps
<1>a. TypeOK /\ CallersOK
  BY DEF BufferInv, ArrayOK
<1>b. ArrayTypes /\ RegistryTypes
  BY <1>a, Types
<1> USE DEF Go, EnqueuePc, SessionPc
<1>1. CASE Register(t)
  <2>1. ArrayTypes'
    <3>1. pc' \in [Thread -> Places] /\ UNCHANGED <<counter, closed, fun, buf, enqueuer, flusher>>
      BY <1>1, <1>b DEF ArrayTypes, Places, Register, IsNew, NewIndex, AddSize, AddFunction, AddReverse
    <3> QED
      BY <3>1, <1>b DEF ArrayTypes, enqueuer, flusher
  <2>2. RegistryTypes'
    <3>1. CASE IsNew(t)
      BY <1>b, <3>1 DEF IsNew, registry, RegistryTypes
    <3>2. CASE NewIndex(t)
      <4>1. Of(t) \in Function
        BY <1>a, <3>2, HasOp DEF NewIndex
      <4>2. function_idx <= MaxIdx
        BY <3>2, <4>1, FunctionIdx DEF NewIndex, BufferInv
      <4> QED
        BY <1>b, <3>2, <4>2, Constants DEF NewIndex, RegistryTypes
    <3>3. CASE AddSize(t) \/ AddFunction(t) \/ AddReverse(t)
      <4>1. Of(t) \in Function
        BY <1>a, <3>3, HasOp DEF AddSize, AddFunction, AddReverse
      <4>2. CASE AddSize(t)
        BY <1>b, <4>1, <4>2 DEF AddSize, RegistryTypes
      <4>3. CASE AddFunction(t)
        BY <1>b, <4>1, <4>3 DEF AddFunction, RegistryTypes
      <4>4. CASE AddReverse(t)
        BY <1>b, <4>1, <4>4, Constants DEF AddReverse, RegistryTypes
      <4> QED
        BY <3>3, <4>2, <4>3, <4>4
    <3> QED
      BY <1>1, <3>1, <3>2, <3>3 DEF Register
  <2> QED
    BY <2>1, <2>2, TypesNext
<1>2. CASE ~Register(t)
  <2>1. RegistryTypes'
    BY <1>2, <1>b DEF Quiet, Enqueues, Stores, Begins, Takes, registry, RegistryTypes
  <2>2. ArrayTypes'
    <3> USE <1>b, Ranges DEF ArrayTypes, Places
    <3>1. CASE Look(t)
      BY <3>1 DEF Look, LookAtFlag, Finish, enqueuer, flusher
    <3>2. CASE Full(t)
      BY <3>2 DEF Full, Finish, flusher
    <3>3. CASE OpenFlag(t) \/ NextRound(t)
      BY <3>3 DEF OpenFlag, NextRound, enqueuer, flusher
    <3>4. CASE Enqueues(t)
      BY <3>4 DEF Enqueues, Enqueue, flusher
    <3>5. CASE Claim(t)
      <4>1. SizeOf[Of(t)] \in Nat /\ counter' \in Border
        BY <1>a, <3>5, HasOp, Constants DEF Claim, ClaimSpace, Border
      <4> QED
        BY <3>5, <4>1 DEF Claim, ClaimSpace, flusher
    <3>6. CASE Write(t)
      BY <3>6 DEF Write, WriteParameters, enqueuer, flusher
    <3>7. CASE Publish(t)
      <4>1. rev_functions[Of(t)] \in Value
        BY <1>a, <1>b, <3>7, HasOp, Constants DEF Publish, RegistryTypes, Value, Parameters
      <4> QED
        BY <3>7, <4>1 DEF Publish, StoreFunction, Finish, flusher
    <3>8. CASE Mark(t)
      BY <3>8 DEF Mark, enqueuer, flusher
    <3>9. CASE OpenCounter(t) \/ CloseFlag(t)
      BY <3>9 DEF OpenCounter, CloseFlag, enqueuer, flusher
    <3>10. CASE Load(t)
      BY <3>10 DEF Load, LoadCounter, enqueuer
    <3>11. CASE Close(t)
      BY <3>11 DEF Close, CloseCounter, enqueuer
    <3>12. CASE Run(t)
      <4>1. index + SizeCalled(fun[index]) \in Border
        BY <3>12, AtEntry DEF Run, RunEntry
      <4> QED
        BY <3>12, <4>1 DEF Run, RunEntry, enqueuer
    <3>13. CASE FindMarker(t)
      BY <3>13 DEF FindMarker, FlushReturns, enqueuer
    <3>14. CASE FlushEnd(t)
      BY <3>14 DEF FlushEnd, FlushReturns, enqueuer
    <3> QED
      BY <1>2, <3>1, <3>2, <3>3, <3>4, <3>5, <3>6, <3>7, <3>8, <3>9, <3>10, <3>11, <3>12, <3>13, <3>14
      DEF Quiet, Stores, Begins, Takes
  <2> QED
    BY <2>1, <2>2, TypesNext
<1> QED
  BY <1>1, <1>2

-----------------------------------------------------------------------------
(* buffer_queue: the numbers of the functions *)

\* The steps outside of the registration leave it alone, and start the
\* entry of an operation only if its function has a number.
LEMMA OtherSteps ==
  ASSUME BufferInv, NEW t \in Thread, Quiet(t) \/ Enqueues(t) \/ Stores(t) \/ Begins(t) \/ Takes(t)
  PROVE  /\ UNCHANGED registry
         /\ \A u \in Thread : pc'[u] \in Registered =>
              op'[u] = op[u] /\ rev_functions[Of(u)] # 0
         /\ \A u \in Thread : pc'[u] \in Numbering \cup {"newIndex"} =>
              op'[u] = op[u] /\ pc'[u] = pc[u]
         /\ \A u \in Thread : pc[u] \in Numbering \cup {"newIndex"} =>
              op'[u] = op[u] /\ pc'[u] = pc[u]
<1>1. /\ pc \in [Thread -> Places] /\ op \in [Thread -> Op \cup {NoOp}]
      /\ \A u \in Thread : pc[u] \in Registered => rev_functions[Of(u)] # 0
  BY Types DEF ArrayTypes, BufferInv, RegistryOK, NumberOK
<1>a. UNCHANGED registry
  BY DEF Quiet, Enqueues, Stores, Begins, Takes
<1> USE <1>1, <1>a DEF Registered, Numbering, Go
<1>2. CASE Look(t) \/ Full(t) \/ OpenFlag(t) \/ NextRound(t)
  BY <1>2 DEF Look, LookAtFlag, Full, Finish, OpenFlag, NextRound, enqueuer
<1>3. CASE Enqueues(t)
  BY <1>3 DEF Enqueues, Enqueue
<1>4. CASE Claim(t) \/ Write(t)
  BY <1>4 DEF Claim, ClaimSpace, Write, WriteParameters, enqueuer
<1>5. CASE Publish(t) \/ Mark(t)
  BY <1>5 DEF Publish, StoreFunction, Mark, Finish, enqueuer
<1>6. CASE OpenCounter(t) \/ Load(t) \/ Close(t) \/ CloseFlag(t)
  BY <1>6 DEF OpenCounter, Load, LoadCounter, Close, CloseCounter, CloseFlag, enqueuer
<1>7. CASE Run(t) \/ FindMarker(t) \/ FlushEnd(t)
  BY <1>7 DEF Run, RunEntry, FindMarker, FlushEnd, FlushReturns, enqueuer
<1> QED
  BY <1>2, <1>3, <1>4, <1>5, <1>6, <1>7 DEF Quiet, Stores, Begins, Takes

\* What a step stores in the array is a number that its function has.
LEMMA OtherStores ==
  ASSUME BufferInv, NEW t \in Thread, Quiet(t) \/ Enqueues(t) \/ Stores(t) \/ Begins(t) \/ Takes(t),
         NEW i \in DOMAIN fun'
  PROVE  /\ i \in DOMAIN fun
         /\ \/ fun'[i] = fun[i] \/ fun'[i] \in {0, Marker, Parameters}
            \/ \E w \in Function : rev_functions[w] # 0 /\ fun'[i] = rev_functions[w]
<1>1. fun \in [Place -> Value] /\ pc \in [Thread -> Places] /\ CallersOK /\ TypeOK
      /\ \A u \in Thread : pc[u] \in Registered => rev_functions[Of(u)] # 0
  BY Types DEF ArrayTypes, BufferInv, RegistryOK, NumberOK, ArrayOK
<1> USE <1>1
<1>2. CASE Look(t) \/ Full(t) \/ OpenFlag(t) \/ NextRound(t)
  BY <1>2 DEF Look, LookAtFlag, Full, Finish, OpenFlag, NextRound
<1>3. CASE Enqueues(t)
  BY <1>3 DEF Enqueues, Enqueue
<1>4. CASE Claim(t) \/ Write(t)
  BY <1>4 DEF Claim, ClaimSpace, Write, WriteParameters
<1>5. CASE Publish(t)
  <2>1. pc[t] = "publish" /\ Of(t) \in Function /\ rev_functions[Of(t)] # 0
    BY <1>5, HasOp DEF Publish, EnqueuePc, Registered
  <2> QED
    BY <1>5, <2>1 DEF Publish, StoreFunction
<1>6. CASE Mark(t)
  BY <1>6 DEF Mark
<1>7. CASE OpenCounter(t) \/ Load(t) \/ Close(t) \/ CloseFlag(t)
  BY <1>7 DEF OpenCounter, Load, LoadCounter, Close, CloseCounter, CloseFlag
<1>8. CASE Run(t) \/ FindMarker(t) \/ FlushEnd(t)
  BY <1>8 DEF Run, RunEntry, FindMarker, FlushEnd, FlushReturns
<1> QED
  BY <1>2, <1>3, <1>4, <1>5, <1>6, <1>7, <1>8 DEF Quiet, Stores, Begins, Takes

LEMMA RegistryOther ==
  ASSUME BufferInv, NEW t \in Thread, Quiet(t) \/ Enqueues(t) \/ Stores(t) \/ Begins(t) \/ Takes(t)
  PROVE  RegistryOK'
<1>1. RegistryOK /\ RegistryTypes /\ fun \in [Place -> Value]
  BY Types DEF BufferInv, ArrayTypes
<1>2. UNCHANGED <<sizes, functions, rev_functions, function_idx, number>>
  BY OtherSteps DEF registry
<1>3. \A i \in DOMAIN fun' : fun'[i] < function_idx
  <2> SUFFICES ASSUME NEW i \in DOMAIN fun' PROVE fun'[i] < function_idx
    OBVIOUS
  <2>1. CASE fun'[i] = fun[i]
    BY <1>1, <2>1, OtherStores DEF RegistryOK
  <2>2. CASE fun'[i] \in {0, Marker, Parameters}
    BY <1>1, <2>2 DEF Marker, Parameters, RegistryTypes
  <2>3. CASE \E w \in Function : rev_functions[w] # 0 /\ fun'[i] = rev_functions[w]
    BY <1>1, <2>3 DEF RegistryOK
  <2> QED
    BY <2>1, <2>2, <2>3, OtherStores
<1>4. ASSUME NEW u \in Thread PROVE NumberOK(u)'
  <2>1. NumberOK(u) /\ \A v \in Thread : pc'[v] \in Numbering => pc[v] \in Numbering
    BY <1>1, OtherSteps DEF RegistryOK
  <2>2. pc'[u] \in Registered => rev_functions[FunctionOf[op'[u]]] # 0
    BY OtherSteps DEF Of
  <2>3. pc'[u] \in Numbering => pc'[u] = pc[u] /\ op'[u] = op[u]
    BY OtherSteps
  <2>4. CASE pc'[u] \notin {"addSize", "addFunction"}
    BY <1>2, <2>1, <2>2, <2>3, <2>4 DEF NumberOK, Numbering, Of
  <2>5. CASE pc'[u] \in {"addSize", "addFunction"}
    <3>1. number[u] > 0 /\ number[u] \in Int
      BY <1>1, <2>1, <2>3, <2>5, Constants DEF NumberOK, Numbering, RegistryTypes
    <3>2. \A i \in DOMAIN fun' : fun'[i] # number[u]
      <4> SUFFICES ASSUME NEW i \in DOMAIN fun' PROVE fun'[i] # number[u]
        OBVIOUS
      <4>1. CASE fun'[i] = fun[i]
        BY <2>1, <2>3, <2>5, <4>1, OtherStores DEF NumberOK, Numbering
      <4>2. CASE fun'[i] \in {0, Marker, Parameters}
        BY <3>1, <4>2 DEF Marker, Parameters
      <4>3. CASE \E w \in Function : rev_functions[w] # 0 /\ fun'[i] = rev_functions[w]
        BY <2>1, <2>3, <2>5, <4>3 DEF NumberOK, Numbering
      <4> QED
        BY <4>1, <4>2, <4>3, OtherStores
    <3> QED
      BY <1>2, <2>1, <2>2, <2>3, <2>5, <3>2 DEF NumberOK, Numbering, Of
  <2> QED
    BY <2>4, <2>5
<1> QED
  BY <1>1, <1>2, <1>3, <1>4 DEF RegistryOK

\* The registration of a function, with a number of its own.
LEMMA RegistryRegister ==
  ASSUME BufferInv, NEW t \in Thread, Register(t)
  PROVE  RegistryOK'
<1>1. RegistryOK /\ RegistryTypes /\ TypeOK /\ CallersOK
      /\ fun \in [Place -> Value] /\ pc \in [Thread -> Places]
  BY Types DEF BufferInv, ArrayOK, ArrayTypes
<1>2. UNCHANGED <<fun, op>> /\ Of(t) \in Function
  BY <1>1, HasOp DEF Register, IsNew, NewIndex, AddSize, AddFunction, AddReverse, Go, EnqueuePc, enqueuer
<1>3. \A u \in Thread : NumberOK(u)
  BY <1>1 DEF RegistryOK
<1>4. CASE IsNew(t)
  <2>1. UNCHANGED registry /\ pc' = [pc EXCEPT ![t] = "newIndex"]
    BY <1>4 DEF IsNew, Go
  <2> QED
    BY <1>1, <1>2, <2>1 DEF RegistryOK, NumberOK, Registered, Numbering, Of, registry
<1>5. CASE NewIndex(t)
  <2>1. /\ number' = [number EXCEPT ![t] = function_idx] /\ function_idx' = function_idx + 1
        /\ UNCHANGED <<sizes, functions, rev_functions>>
        /\ pc[t] = "newIndex" /\ pc' = [pc EXCEPT ![t] = "addSize"]
    BY <1>5 DEF NewIndex, Go
  <2>2. \A w \in Function : rev_functions[w] < function_idx /\ rev_functions[w] \in Int
    BY <1>1, Constants DEF RegistryOK, RegistryTypes
  <2>3. \A i \in DOMAIN fun : fun[i] < function_idx /\ fun[i] \in Int
    BY <1>1, Constants DEF RegistryOK, Value, Parameters
  <2>4. function_idx \in Nat /\ function_idx > 0 /\ \A u \in Thread : number[u] \in Int
    BY <1>1, Constants DEF RegistryTypes
  <2>5. \A u \in Thread : pc[u] \in Numbering => number[u] < function_idx
    BY <1>3 DEF NumberOK
  <2>6. ASSUME NEW u \in Thread PROVE NumberOK(u)'
    <3>1. CASE u = t
      BY <1>1, <1>2, <2>1, <2>2, <2>3, <2>4, <2>5, <3>1 DEF NumberOK, Registered, Numbering, Of, RegistryTypes
    <3>2. CASE u # t
      BY <1>1, <1>2, <1>3, <2>1, <2>4, <2>5, <3>2 DEF NumberOK, Registered, Numbering, Of, RegistryTypes
    <3> QED
      BY <3>1, <3>2
  <2>7. \A w \in Function : rev_functions[w] < function_idx + 1
    BY <2>2, <2>4
  <2>8. \A i \in DOMAIN fun : fun[i] < function_idx + 1
    BY <2>3, <2>4
  <2> QED
    BY <1>1, <1>2, <2>1, <2>6, <2>7, <2>8 DEF RegistryOK
<1>6. CASE AddSize(t)
  <2>1. /\ sizes' = sizes \cup {Of(t)} /\ UNCHANGED <<functions, rev_functions, function_idx, number>>
        /\ pc[t] = "addSize" /\ pc' = [pc EXCEPT ![t] = "addFunction"]
    BY <1>6 DEF AddSize, Go
  <2> QED
    BY <1>1, <1>2, <2>1 DEF RegistryOK, NumberOK, Registered, Numbering, Of
<1>7. CASE AddFunction(t)
  <2>1. /\ functions' = [functions EXCEPT ![number[t]] = Of(t)]
        /\ UNCHANGED <<sizes, rev_functions, function_idx, number>>
        /\ pc[t] = "addFunction" /\ pc' = [pc EXCEPT ![t] = "addReverse"]
    BY <1>7 DEF AddFunction, Go
  <2>2. /\ number[t] \in 1..MaxIdx /\ DOMAIN functions = 1..MaxIdx
        /\ \A w \in Function : rev_functions[w] # number[t]
        /\ \A u \in Thread \ {t} : pc[u] \in Numbering => number[u] # number[t]
    BY <1>1, <1>3, <2>1, Constants DEF NumberOK, Numbering, RegistryTypes
  <2>3. \A w \in Function : rev_functions[w] # 0 => functions'[rev_functions[w]] = w
    BY <1>1, <2>1, <2>2 DEF RegistryOK, RegistryTypes
  <2>4. ASSUME NEW u \in Thread PROVE NumberOK(u)'
    <3>1. CASE u = t
      BY <1>1, <1>2, <1>3, <2>1, <2>2, <3>1 DEF NumberOK, Registered, Numbering, Of, RegistryTypes
    <3>2. CASE u # t
      <4>1. pc'[u] = pc[u] /\ \A v \in Thread : pc'[v] \in Numbering <=> pc[v] \in Numbering
        BY <1>1, <2>1, <3>2 DEF Numbering
      <4>2. pc[u] = "addReverse" => functions'[number[u]] = functions[number[u]]
        BY <1>1, <1>3, <2>1, <2>2, <3>2 DEF NumberOK, Numbering, RegistryTypes
      <4> QED
        BY <1>2, <1>3, <2>1, <4>1, <4>2 DEF NumberOK, Of
    <3> QED
      BY <3>1, <3>2
  <2> QED
    BY <1>1, <1>2, <2>1, <2>3, <2>4 DEF RegistryOK
<1>8. CASE AddReverse(t)
  <2>1. /\ rev_functions' = [rev_functions EXCEPT ![Of(t)] = number[t]]
        /\ number' = [number EXCEPT ![t] = 0]
        /\ UNCHANGED <<sizes, functions, function_idx>>
        /\ pc[t] = "addReverse" /\ pc' = [pc EXCEPT ![t] = "look"]
    BY <1>8 DEF AddReverse, Go
  <2>2. /\ number[t] # 0 /\ number[t] < function_idx
        /\ functions[number[t]] = Of(t) /\ Of(t) \in sizes
    BY <1>3, <2>1 DEF NumberOK, Numbering
  <2>3. \A w \in Function : rev_functions'[w] = IF w = Of(t) THEN number[t] ELSE rev_functions[w]
    BY <1>1, <2>1 DEF RegistryTypes
  <2>4. ASSUME NEW u \in Thread PROVE NumberOK(u)'
    <3>1. CASE u = t
      BY <1>1, <2>1, <3>1 DEF NumberOK, Registered, Numbering
    <3>2. CASE u # t
      <4>1. /\ pc'[u] = pc[u] /\ \A v \in Thread : pc'[v] \in Numbering => pc[v] \in Numbering /\ v # t
            /\ number'[u] = number[u] /\ \A v \in Thread \ {t} : number'[v] = number[v]
        BY <1>1, <2>1, <3>2 DEF Numbering, RegistryTypes
      <4>2. pc[u] \in Registered => rev_functions'[Of(u)] # 0
        <5>1. pc[u] \in Registered => Of(u) \in Function
          BY <1>1, HasOp DEF Registered, EnqueuePc
        <5> QED
          BY <1>3, <2>2, <2>3, <5>1 DEF NumberOK
      <4>3. pc[u] \in {"addSize", "addFunction"} => \A w \in Function : rev_functions'[w] # number[u]
        BY <1>3, <2>1, <2>3, <3>2 DEF NumberOK, Numbering
      <4> QED
        BY <1>2, <1>3, <2>1, <4>1, <4>2, <4>3 DEF NumberOK, Of
    <3> QED
      BY <3>1, <3>2
  <2> QED
    BY <1>1, <1>2, <2>1, <2>2, <2>3, <2>4 DEF RegistryOK
<1> QED
  BY <1>4, <1>5, <1>6, <1>7, <1>8 DEF Register

LEMMA RegistryStep ==
  ASSUME BufferInv, Next
  PROVE  RegistryOK'
  BY KindsOfSteps, RegistryRegister, RegistryOther

-----------------------------------------------------------------------------
(* buffer_queue: there are numbers enough *)

\* Only the step that draws a number can draw the less afterwards; no step
\* can draw what could not be drawn before.
LEMMA DrawsLess ==
  ASSUME BufferInv, Next
  PROVE  /\ MayDraw' \subseteq MayDraw
         /\ \/ function_idx' = function_idx
            \/ function_idx' = function_idx + 1 /\ \E d \in MayDraw : d \notin MayDraw'
<1> PICK t \in Thread : \/ Register(t) \/ Quiet(t) \/ Enqueues(t)
                        \/ Stores(t) \/ Begins(t) \/ Takes(t)
  BY KindsOfSteps
<1>1. RegistryOK /\ RegistryTypes /\ TypeOK /\ CallersOK /\ pc \in [Thread -> Places]
  BY Types DEF BufferInv, ArrayOK, ArrayTypes
<1>2. CASE ~Register(t)
  <2>1. UNCHANGED registry
        /\ \A u \in Thread : (pc[u] \in Numbering \cup {"newIndex"} \/ pc'[u] \in Numbering \cup {"newIndex"})
             => op'[u] = op[u] /\ pc'[u] = pc[u]
    BY <1>2, OtherSteps
  <2>2. \A w \in Function, u \in Thread : Draws(w, u)' => Draws(w, u)
    BY <2>1 DEF Draws, Of, registry
  <2>3. MayDraw' \subseteq MayDraw
    BY <2>2 DEF MayDraw
  <2> QED
    BY <2>1, <2>3 DEF registry
<1>3. CASE Register(t)
  <2>1. UNCHANGED op /\ Of(t) \in Function
    BY <1>1, <1>3, HasOp DEF Register, IsNew, NewIndex, AddSize, AddFunction, AddReverse, Go, EnqueuePc, enqueuer
  <2>2. \A w \in Function, u \in Thread : Draws(w, u)' => Draws(w, u)
    <3>1. CASE IsNew(t)
      BY <1>1, <2>1, <3>1 DEF IsNew, Go, Draws, Of, Numbering, registry
    <3>2. CASE NewIndex(t)
      BY <1>1, <2>1, <3>2 DEF NewIndex, Go, Draws, Of, Numbering
    <3>3. CASE AddSize(t)
      BY <1>1, <2>1, <3>3 DEF AddSize, Go, Draws, Of, Numbering
    <3>4. CASE AddFunction(t)
      BY <1>1, <2>1, <3>4 DEF AddFunction, Go, Draws, Of, Numbering
    <3>5. CASE AddReverse(t)
      <4>1. number[t] # 0
        BY <1>1, <3>5 DEF AddReverse, Go, RegistryOK, NumberOK, Numbering
      <4> QED
        BY <1>1, <2>1, <3>5, <4>1 DEF AddReverse, Go, Draws, Of, Numbering, RegistryTypes
    <3> QED
      BY <1>3, <3>1, <3>2, <3>3, <3>4, <3>5 DEF Register
  <2>3. MayDraw' \subseteq MayDraw
    BY <2>2 DEF MayDraw
  <2>4. CASE NewIndex(t)
    <3>1. <<Of(t), t>> \in MayDraw
      BY <2>1, <2>4 DEF NewIndex, Go, MayDraw, Draws
    <3>2. <<Of(t), t>> \notin MayDraw'
      BY <1>1, <2>1, <2>4 DEF NewIndex, Go, MayDraw, Draws, Numbering, Of
    <3> QED
      BY <2>3, <2>4, <3>1, <3>2 DEF NewIndex
  <2>5. CASE ~NewIndex(t)
    BY <1>3, <2>3, <2>5 DEF Register, IsNew, AddSize, AddFunction, AddReverse, registry
  <2> QED
    BY <2>4, <2>5
<1> QED
  BY <1>2, <1>3

LEMMA LeftStep ==
  ASSUME BufferInv, Next
  PROVE  NumbersLeft'
<1>1. NumbersLeft /\ function_idx \in Int /\ MaxIdx \in Nat /\ MaxIdx' = MaxIdx
  BY Types, Constants DEF BufferInv, RegistryTypes, MaxIdx
<1>2. IsFiniteSet(MayDraw)
  BY FS_Product, FS_Subset, FiniteAssumption DEF FiniteAssumption, MayDraw
<1>3. MayDraw' \in SUBSET MayDraw
  BY DrawsLess
<1>4. /\ Cardinality(MayDraw) \in Nat /\ Cardinality(MayDraw') \in Nat
      /\ Cardinality(MayDraw') <= Cardinality(MayDraw)
      /\ Cardinality(MayDraw) = Cardinality(MayDraw') => MayDraw = MayDraw'
  BY <1>2, <1>3, FS_Subset, FS_CardinalityType
<1>5. CASE function_idx' = function_idx
  BY <1>1, <1>4, <1>5 DEF NumbersLeft
<1>6. CASE function_idx' = function_idx + 1 /\ \E d \in MayDraw : d \notin MayDraw'
  <2>1. Cardinality(MayDraw') + 1 <= Cardinality(MayDraw)
    BY <1>4, <1>6
  <2> QED
    BY <1>1, <1>4, <1>6, <2>1 DEF NumbersLeft
<1> QED
  BY <1>5, <1>6, DrawsLess

-----------------------------------------------------------------------------
(* buffer_queue: the callers and the entries *)

\* A step begins a call, ends one, or leaves the callers alone.
SameCallers == op' = op /\ \A u \in Thread : pc'[u] \in EnqueuePc <=> pc[u] \in EnqueuePc
EndsCall(t) ==
  op' = [op EXCEPT ![t] = NoOp] /\ pc' = [pc EXCEPT ![t] = "idle"] /\ claim' = [claim EXCEPT ![t] = 0]
BeginsCall(t, o) ==
  /\ op' = [op EXCEPT ![t] = o] /\ pc' = [pc EXCEPT ![t] = "look"] /\ UNCHANGED claim
  /\ o \notin Stored /\ \A u \in Thread : op[u] # o

LEMMA CallSteps ==
  ASSUME ArrayTypes, Next
  PROVE  \/ SameCallers
         \/ \E t \in Thread : EndsCall(t) \/ \E o \in Op : BeginsCall(t, o)
<1> PICK t \in Thread : \/ Register(t) \/ Quiet(t) \/ Enqueues(t)
                        \/ Stores(t) \/ Begins(t) \/ Takes(t)
  BY KindsOfSteps
<1>0. pc \in [Thread -> Places]
  BY DEF ArrayTypes
<1>1. CASE Enqueues(t)
  BY <1>1 DEF Enqueues, Enqueue, BeginsCall, Go
<1>2. CASE Full(t) \/ Publish(t)
  BY <1>2 DEF Full, Publish, StoreFunction, Finish, EndsCall, Go
<1>3. CASE Look(t)
  BY <1>0, <1>3 DEF Look, LookAtFlag, Finish, EndsCall, SameCallers, Go, EnqueuePc, enqueuer
<1> USE <1>0 DEF SameCallers, Go, EnqueuePc, enqueuer
<1>4. CASE Register(t)
  BY <1>4 DEF Register, IsNew, NewIndex, AddSize, AddFunction, AddReverse
<1>5. CASE OpenFlag(t) \/ NextRound(t) \/ Claim(t) \/ Write(t) \/ Mark(t)
  BY <1>5 DEF OpenFlag, NextRound, Claim, ClaimSpace, Write, WriteParameters, Mark
<1>6. CASE OpenCounter(t) \/ Load(t) \/ Close(t) \/ CloseFlag(t)
  BY <1>6 DEF OpenCounter, Load, LoadCounter, Close, CloseCounter, CloseFlag
<1>7. CASE Run(t) \/ FindMarker(t) \/ FlushEnd(t)
  BY <1>7 DEF Run, RunEntry, FindMarker, FlushEnd, FlushReturns
<1> QED
  BY <1>1, <1>2, <1>3, <1>4, <1>5, <1>6, <1>7 DEF Quiet, Stores, Begins, Takes

LEMMA CallersStep ==
  ASSUME BufferInv, Next
  PROVE  CallersOK'
<1>1. CallersOK /\ ArrayTypes
  BY Types DEF BufferInv, ArrayOK
<1>2. op \in [Thread -> Op \cup {NoOp}] /\ pc \in [Thread -> Places]
  BY <1>1 DEF ArrayTypes
<1>3. CASE SameCallers
  BY <1>1, <1>3 DEF SameCallers, CallersOK, CallerOK
<1>4. ASSUME NEW t \in Thread, EndsCall(t) PROVE CallersOK'
  BY <1>1, <1>2, <1>4 DEF EndsCall, CallersOK, CallerOK, EnqueuePc
<1>5. ASSUME NEW t \in Thread, NEW o \in Op, BeginsCall(t, o) PROVE CallersOK'
  BY <1>1, <1>2, <1>5, Constants DEF BeginsCall, CallersOK, CallerOK, EnqueuePc
<1> QED
  BY <1>1, <1>3, <1>4, <1>5, CallSteps

\* The names of the entries stay.
LEMMA NamesKept ==
  ASSUME BufferInv, Next
  PROVE  /\ sizes \subseteq sizes'
         /\ \A i \in Place : fun[i] > 0 => functions'[fun[i]] = functions[fun[i]]
<1> PICK t \in Thread : \/ Register(t) \/ Quiet(t) \/ Enqueues(t)
                        \/ Stores(t) \/ Begins(t) \/ Takes(t)
  BY KindsOfSteps
<1>1. CASE AddFunction(t)
  <2>1. /\ functions' = [functions EXCEPT ![number[t]] = Of(t)] /\ sizes' = sizes
        /\ pc[t] = "addFunction"
    BY <1>1 DEF AddFunction, Go
  <2>2. \A i \in Place : fun[i] # number[t]
    BY <2>1, Types DEF ArrayTypes, BufferInv, RegistryOK, NumberOK
  <2>3. \A i \in Place : fun[i] > 0 => fun[i] \in 1..MaxIdx
    BY Types, Constants DEF ArrayTypes, BufferInv, Value, Parameters
  <2>4. DOMAIN functions = 1..MaxIdx
    BY Types DEF RegistryTypes, BufferInv
  <2> QED
    BY <2>1, <2>2, <2>3, <2>4
<1>2. CASE ~AddFunction(t)
  BY <1>2, OtherSteps DEF Register, IsNew, NewIndex, AddSize, AddReverse, registry
<1> QED
  BY <1>1, <1>2

\* Entries that were there before are as they were.
LEMMA EntryKept ==
  ASSUME BufferInv, Next, NEW i \in Place, fun[i] > 0, fun'[i] = fun[i], buf'[i] = buf[i]
  PROVE  /\ buf'[i] \in Op /\ i + SizeOf[FunctionOf[buf'[i]]] <= ARRAY_SIZE
         /\ functions'[fun'[i]] = FunctionOf[buf'[i]] /\ FunctionOf[buf'[i]] \in sizes'
         /\ \A t \in Thread : op'[t] # buf'[i]
<1>1. EntryOK(i) /\ ArrayTypes
  BY Types DEF BufferInv, ArrayOK, EntriesOK
<1>2. buf[i] \in Stored
  BY <1>1 DEF Stored, ArrayTypes
<1>3. \A t \in Thread : op'[t] # buf[i]
  BY <1>1, <1>2, CallSteps, Constants
  DEF ArrayTypes, EntryOK, SameCallers, EndsCall, BeginsCall
<1> QED
  BY <1>1, <1>3, NamesKept DEF EntryOK

LEMMA EntriesKept ==
  ASSUME BufferInv, Next,
         \A i \in Place : fun'[i] > 0 => fun'[i] = fun[i] /\ buf'[i] = buf[i]
  PROVE  EntriesOK'
<1>1. EntriesOK
  BY DEF BufferInv, ArrayOK
<1> SUFFICES ASSUME NEW i \in Place, fun'[i] > 0 PROVE EntryOK(i)'
  BY Constants DEF EntriesOK, Place, EntryOK
<1>2. fun[i] > 0 /\ fun'[i] = fun[i] /\ buf'[i] = buf[i]
  OBVIOUS
<1>3. \A j \in Place : fun'[j] > 0 /\ buf'[j] = buf'[i] => j = i
  BY <1>1, <1>2 DEF EntriesOK, EntryOK
<1> QED
  BY <1>2, <1>3, EntryKept DEF EntryOK, Place

\* The entry that Publish adds is the caller's own.
LEMMA EntriesPublish ==
  ASSUME BufferInv, Next, NEW t \in Thread, Publish(t), UNCHANGED registry
  PROVE  EntriesOK'
<1>1. EntriesOK /\ WritersOK /\ CallersOK /\ RegistryOK /\ TypeOK /\ ArrayTypes /\ RegistryTypes
  BY Types DEF BufferInv, ArrayOK
<1>2. /\ pc[t] = "publish" /\ buf' = buf /\ op' = [op EXCEPT ![t] = NoOp]
      /\ fun' = [fun EXCEPT ![claim[t]] = rev_functions[Of(t)]]
  BY DEF Publish, StoreFunction, Finish, Go
<1>3. /\ claim[t] \in Place /\ fun[claim[t]] = 0 /\ buf[claim[t]] = op[t]
      /\ claim[t] + SizeOf[Of(t)] <= ARRAY_SIZE
  BY <1>1, <1>2, Constants DEF WritersOK, WriterOK, Writing, End, ArrayTypes, Place, Border
<1>4. op[t] \in Op /\ Of(t) \in Function
  BY <1>1, <1>2, HasOp DEF EnqueuePc
<1>5. /\ functions[rev_functions[Of(t)]] = Of(t) /\ Of(t) \in sizes
  BY <1>1, <1>2, <1>4 DEF RegistryOK, NumberOK, Registered
<1>6. \A u \in Thread : op'[u] # op[t]
  BY <1>1, <1>2, <1>4, Constants DEF ArrayTypes, CallersOK, CallerOK
<1>7. \A j \in Place : j # claim[t] /\ fun'[j] > 0 => fun[j] > 0 /\ fun'[j] = fun[j] /\ buf[j] # op[t]
  BY <1>1, <1>2 DEF EntriesOK, EntryOK, ArrayTypes
<1> SUFFICES ASSUME NEW i \in Place, fun'[i] > 0 PROVE EntryOK(i)'
  BY Constants DEF EntriesOK, Place, EntryOK
<1>8. CASE i = claim[t]
  <2>1. fun'[i] = rev_functions[Of(t)]
    BY <1>1, <1>2, <1>3, <1>8 DEF ArrayTypes
  <2> QED
    BY <1>2, <1>3, <1>4, <1>5, <1>6, <1>7, <1>8, <2>1 DEF EntryOK, Of, registry, Place
<1>9. CASE i # claim[t]
  <2>1. \A j \in Place : fun'[j] > 0 /\ buf'[j] = buf'[i] => j = i
    BY <1>1, <1>2, <1>3, <1>7, <1>9 DEF EntriesOK, EntryOK
  <2> QED
    BY <1>2, <1>7, <1>9, <2>1, EntryKept DEF EntryOK, Place
<1> QED
  BY <1>8, <1>9

-----------------------------------------------------------------------------
(* buffer_queue: the tiles *)

SameTiles == \A i \in Place, e \in Border : Tile(i, e)' <=> Tile(i, e)

\* Nothing is stored, and nobody claims, fills or leaves a tile.
Still ==
  /\ UNCHANGED <<fun, buf>>
  /\ \A t \in Thread : /\ pc'[t] \in Writing <=> pc[t] \in Writing
                       /\ pc[t] \in Writing => /\ pc'[t] = pc[t]
                                               /\ claim'[t] = claim[t] /\ op'[t] = op[t]

LEMMA StillTiles ==
  ASSUME Still
  PROVE  SameTiles /\ \A i \in Place : Filled(i)' <=> Filled(i)
<1>1. \A t \in Thread, i \in Place, e \in Border : Storing(t, i, e)' <=> Storing(t, i, e)
  BY DEF Still, Storing, End, Of
<1>2. SameTiles
  BY <1>1 DEF Still, SameTiles, Tile
<1> QED
  BY <1>2 DEF Still, Filled, Writing

LEMMA StillOK ==
  ASSUME ArrayOK, Still
  PROVE  Disjoint' /\ Covered' /\ WritersOK'
<1>1. SameTiles /\ \A i \in Place : Filled(i)' <=> Filled(i)
  BY StillTiles
<1>2. Disjoint'
  BY <1>1 DEF ArrayOK, Disjoint, SameTiles, Place, Border
<1>3. Covered'
  <2> SUFFICES ASSUME NEW i \in Place, fun'[i] # 0
               PROVE  \E j \in Place, e \in Border :
                        Tile(j, e)' /\ j <= i /\ i < e /\ (i = j \/ Filled(j)')
    BY DEF Covered, Place, Border
  <2>1. PICK j \in Place, e \in Border : Tile(j, e) /\ j <= i /\ i < e /\ (i = j \/ Filled(j))
    BY DEF ArrayOK, Covered, Still
  <2> QED
    BY <1>1, <2>1 DEF SameTiles
<1>4. WritersOK'
  <2> SUFFICES ASSUME NEW t \in Thread PROVE WriterOK(t)'
    BY DEF WritersOK
  <2>1. WriterOK(t)
    BY DEF ArrayOK, WritersOK
  <2> QED
    BY <2>1 DEF Still, WriterOK, End, Of, Writing
<1> QED
  BY <1>2, <1>3, <1>4

LEMMA StillSteps ==
  ASSUME ArrayTypes, NEW t \in Thread,
         \/ Register(t) \/ Quiet(t) \/ Enqueues(t) \/ Begins(t) \/ FlushEnd(t)
         \/ Claim(t) /\ pc'[t] = "full"
  PROVE  Still
<1> USE DEF Still, Writing, Go, enqueuer, ArrayTypes
<1>1. CASE Register(t)
  BY <1>1 DEF Register, IsNew, NewIndex, AddSize, AddFunction, AddReverse
<1>2. CASE Look(t) \/ Full(t) \/ OpenFlag(t) \/ NextRound(t)
  BY <1>2 DEF Look, LookAtFlag, Full, Finish, OpenFlag, NextRound
<1>3. CASE Enqueues(t)
  BY <1>3 DEF Enqueues, Enqueue
<1>4. CASE Begins(t)
  BY <1>4 DEF Begins, OpenCounter, Load, LoadCounter, Close, CloseCounter, CloseFlag
<1>5. CASE FlushEnd(t)
  BY <1>5 DEF FlushEnd, FlushReturns
<1>6. CASE Claim(t) /\ pc'[t] = "full"
  BY <1>6 DEF Claim, ClaimSpace
<1> QED
  BY <1>1, <1>2, <1>3, <1>4, <1>5, <1>6 DEF Quiet

\* An enqueuer between its claim and its store has a tile, from its claim on.
LEMMA WriterTile ==
  ASSUME BufferInv, NEW t \in Thread, pc[t] \in Writing
  PROVE  /\ claim[t] \in Place /\ End(t) \in Border /\ claim[t] < End(t)
         /\ Tile(claim[t], End(t)) /\ fun[claim[t]] = 0
         /\ op[t] \in Op /\ Of(t) \in Function /\ SizeOf[Of(t)] \in WORD..ARRAY_SIZE
<1>1. ArrayTypes /\ WriterOK(t) /\ TypeOK /\ CallersOK
  BY Types DEF BufferInv, ArrayOK, WritersOK
<1>2. op[t] \in Op /\ Of(t) \in Function /\ SizeOf[Of(t)] \in WORD..ARRAY_SIZE
  BY <1>1, HasOp DEF Writing, EnqueuePc
<1>3. claim[t] \in Place /\ claim[t] < End(t) /\ End(t) \in Border
  BY <1>1, <1>2, Constants DEF WriterOK, End, ArrayTypes, Place, Border
<1>4. Tile(claim[t], End(t))
  BY DEF Tile, Storing
<1> QED
  BY <1>1, <1>2, <1>3, <1>4 DEF WriterOK

\* Nothing else starts inside of it.
LEMMA WriterAlone ==
  ASSUME BufferInv, NEW t \in Thread, pc[t] \in Writing,
         NEW i \in Place, i >= claim[t], i < End(t), i # claim[t]
  PROVE  /\ ~(fun[i] > 0) /\ fun[i] # Marker
         /\ \A u \in Thread : pc[u] \in Writing => claim[u] # i
<1>1. Disjoint /\ ArrayTypes /\ EntriesOK
  BY Types DEF BufferInv, ArrayOK
<1>2. \A d \in Border : ~Tile(i, d)
  <2> SUFFICES ASSUME NEW d \in Border, Tile(i, d) PROVE FALSE
    OBVIOUS
  <2>1. End(t) <= i
    BY <1>1, WriterTile DEF Disjoint, Place
  <2> QED
    BY <2>1, WriterTile DEF Place, Border
<1>3. ~(fun[i] > 0)
  <2> SUFFICES ASSUME fun[i] > 0 PROVE FALSE
    OBVIOUS
  <2>1. buf[i] \in Op /\ i + SizeOf[FunctionOf[buf[i]]] <= ARRAY_SIZE
    BY <1>1 DEF EntriesOK, EntryOK
  <2>2. i + SizeOf[FunctionOf[buf[i]]] \in Border
    BY <2>1, Constants DEF Place, Border
  <2> QED
    BY <1>2, <2>2 DEF Tile
<1>4. fun[i] # Marker
  BY <1>2, Ranges DEF Tile
<1>5. ASSUME NEW u \in Thread, pc[u] \in Writing PROVE claim[u] # i
  BY <1>2, <1>5, WriterTile
<1> QED
  BY <1>3, <1>4, <1>5

\* Write, Publish and Mark fill the tile of the caller and change no other.
LEMMA WriteFills ==
  ASSUME BufferInv, NEW t \in Thread, Write(t)
  PROVE  SameTiles /\ Disjoint' /\ Covered' /\ WritersOK'
<1>1. Disjoint /\ Covered /\ ArrayTypes /\ WritersOK /\ EntriesOK
  BY Types DEF BufferInv, ArrayOK
<1>2. /\ pc[t] = "write" /\ pc' = [pc EXCEPT ![t] = "publish"] /\ UNCHANGED <<op, claim>>
      /\ buf' = [buf EXCEPT ![claim[t]] = op[t]]
      /\ fun' = [i \in Place |-> IF i \in claim[t] + WORD .. claim[t] + SizeOf[Of(t)] - 1
                                 THEN Parameters ELSE fun[i]]
  BY <1>1 DEF Write, WriteParameters, Go, enqueuer, ArrayTypes
<1>3. /\ claim[t] \in Place /\ End(t) = claim[t] + SizeOf[Of(t)] /\ fun[claim[t]] = 0
      /\ End(t) \in Border /\ Tile(claim[t], End(t)) /\ SizeOf[Of(t)] \in Nat /\ claim[t] < End(t)
  BY <1>2, WriterTile, Constants DEF Writing, End
<1>4. \A i \in Place : i \in claim[t] + WORD .. claim[t] + SizeOf[Of(t)] - 1 =>
        /\ claim[t] < i /\ i < End(t) /\ ~(fun[i] > 0) /\ fun[i] # Marker
        /\ \A u \in Thread : pc[u] \in Writing => claim[u] # i
  <2> SUFFICES ASSUME NEW i \in Place, i \in claim[t] + WORD .. claim[t] + SizeOf[Of(t)] - 1
               PROVE  /\ claim[t] < i /\ i < End(t) /\ ~(fun[i] > 0) /\ fun[i] # Marker
                      /\ \A u \in Thread : pc[u] \in Writing => claim[u] # i
    OBVIOUS
  <2>1. claim[t] < i /\ i < End(t)
    BY <1>3, Constants DEF Place
  <2> QED
    BY <1>2, <1>3, <2>1, WriterAlone DEF Writing, Place
<1>5. \A i \in Place : /\ fun'[i] > 0 <=> fun[i] > 0
                       /\ fun'[i] = Marker <=> fun[i] = Marker
                       /\ fun[i] > 0 => buf'[i] = buf[i]
  <2> SUFFICES ASSUME NEW i \in Place
               PROVE  /\ fun'[i] > 0 <=> fun[i] > 0
                      /\ fun'[i] = Marker <=> fun[i] = Marker
                      /\ fun[i] > 0 => buf'[i] = buf[i]
    OBVIOUS
  <2>1. CASE i \in claim[t] + WORD .. claim[t] + SizeOf[Of(t)] - 1
    <3>1. fun'[i] = Parameters
      BY <1>2, <2>1
    <3> QED
      BY <1>4, <2>1, <3>1 DEF Parameters, Marker
  <2>2. CASE i \notin claim[t] + WORD .. claim[t] + SizeOf[Of(t)] - 1
    BY <1>1, <1>2, <1>3, <2>2 DEF ArrayTypes
  <2> QED
    BY <2>1, <2>2
<1>6. \A u \in Thread, i \in Place, e \in Border : Storing(u, i, e)' <=> Storing(u, i, e)
  BY <1>1, <1>2 DEF Storing, End, Of, Writing, ArrayTypes
<1>7. SameTiles
  <2> SUFFICES ASSUME NEW i \in Place, NEW e \in Border PROVE Tile(i, e)' <=> Tile(i, e)
    BY DEF SameTiles
  <2> QED
    BY <1>5, <1>6 DEF Tile
<1>8. Disjoint'
  BY <1>1, <1>7 DEF Disjoint, SameTiles, Place, Border
<1>9. Covered'
  <2> SUFFICES ASSUME NEW i \in Place, fun'[i] # 0
               PROVE  \E j \in Place, e \in Border :
                        Tile(j, e)' /\ j <= i /\ i < e /\ (i = j \/ Filled(j)')
    BY DEF Covered, Place, Border
  <2>1. CASE i \in claim[t] + WORD .. claim[t] + SizeOf[Of(t)] - 1
    <3>1. Tile(claim[t], End(t)) /\ claim[t] <= i /\ i < End(t)
      BY <1>3, <1>4, <2>1 DEF Place
    <3>2. PICK j \in Place : j = claim[t]
      BY <1>3
    <3>3. PICK e \in Border : e = End(t)
      BY <1>3
    <3>4. Filled(j)'
      BY <1>1, <1>2, <3>2 DEF Filled, ArrayTypes
    <3> QED
      BY <1>7, <3>1, <3>2, <3>3, <3>4 DEF SameTiles
  <2>2. CASE i \notin claim[t] + WORD .. claim[t] + SizeOf[Of(t)] - 1
    <3>1. fun[i] # 0
      BY <1>2, <2>2
    <3>2. PICK j \in Place, e \in Border : Tile(j, e) /\ j <= i /\ i < e /\ (i = j \/ Filled(j))
      BY <1>1, <3>1 DEF Covered
    <3>3. Filled(j) => Filled(j)'
      BY <1>1, <1>2, <1>5 DEF Filled, ArrayTypes
    <3> QED
      BY <1>7, <3>2, <3>3 DEF SameTiles
  <2> QED
    BY <2>1, <2>2
<1>10. ASSUME NEW u \in Thread PROVE WriterOK(u)'
  <2>1. WriterOK(u) /\ WriterOK(t)
    BY <1>1 DEF WritersOK
  <2>2. pc'[u] \in Writing <=> pc[u] \in Writing
    BY <1>1, <1>2 DEF ArrayTypes, Writing
  <2>3. pc[u] \in Writing => claim[u] \in Place /\ fun'[claim[u]] = 0 /\ End(u)' = End(u)
    <3> SUFFICES ASSUME pc[u] \in Writing
                 PROVE  claim[u] \in Place /\ fun'[claim[u]] = 0 /\ End(u)' = End(u)
      OBVIOUS
    <3>1. claim[u] \in Place /\ fun[claim[u]] = 0
      BY WriterTile
    <3>2. claim[u] \notin claim[t] + WORD .. claim[t] + SizeOf[Of(t)] - 1
      BY <1>4, <3>1
    <3> QED
      BY <1>1, <1>2, <3>1, <3>2 DEF ArrayTypes, End, Of
  <2>4. pc'[u] = "publish" => buf'[claim[u]] = op[u]
    <3>1. CASE u = t
      BY <1>1, <1>2, <1>3, <3>1 DEF ArrayTypes
    <3>2. CASE u # t
      BY <1>1, <1>2, <2>1, <3>2 DEF ArrayTypes, WriterOK, Writing
    <3> QED
      BY <3>1, <3>2
  <2>5. \A v \in Thread : pc'[v] \in Writing => pc[v] \in Writing
    BY <1>1, <1>2 DEF ArrayTypes, Writing
  <2> QED
    BY <1>2, <2>1, <2>2, <2>3, <2>4, <2>5 DEF WriterOK
<1>11. WritersOK'
  BY <1>10 DEF WritersOK
<1> QED
  BY <1>7, <1>8, <1>9, <1>11

\* The word that the caller stores stands for the tile that it had claimed.
LEMMA StoreFills ==
  ASSUME BufferInv, NEW t \in Thread, Publish(t) \/ Mark(t)
  PROVE  SameTiles /\ Disjoint' /\ Covered' /\ WritersOK'
<1>1. /\ Disjoint /\ Covered /\ ArrayTypes /\ RegistryTypes /\ WritersOK /\ EntriesOK
      /\ RegistryOK
  BY Types DEF BufferInv, ArrayOK
<1>2. PICK i0 \in Place : i0 = claim[t]
  BY WriterTile DEF Publish, Mark, StoreFunction, Finish, Go, Writing
<1>3. PICK e0 \in Border : e0 = End(t)
  BY WriterTile DEF Publish, Mark, StoreFunction, Finish, Go, Writing
<1>4. /\ pc[t] \in Writing /\ pc'[t] \notin Writing /\ Tile(i0, e0) /\ fun[i0] = 0 /\ i0 < e0
      /\ \A u \in Thread \ {t} : pc'[u] = pc[u] /\ op'[u] = op[u] /\ claim'[u] = claim[u]
      /\ \A i \in Place : i # i0 => fun'[i] = fun[i]
      /\ UNCHANGED buf /\ DOMAIN fun' = Place
  BY <1>1, <1>2, <1>3, WriterTile
  DEF Publish, Mark, StoreFunction, Finish, Go, Writing, ArrayTypes, enqueuer
<1>5. /\ Storing(t, i0, e0)
      /\ \A u \in Thread : pc[u] \in Writing /\ claim[u] = i0 => u = t
  BY <1>1, <1>2, <1>3, <1>4 DEF WritersOK, WriterOK, Storing
<1>6. \/ fun'[i0] > 0 /\ fun'[i0] # Marker /\ e0 = i0 + SizeOf[FunctionOf[buf[i0]]]
      \/ fun'[i0] = Marker /\ ~(fun'[i0] > 0) /\ e0 = ARRAY_SIZE
  <2>1. CASE Publish(t)
    <3>1. fun'[i0] = rev_functions[Of(t)] /\ pc[t] = "publish"
      BY <1>1, <1>2, <2>1 DEF Publish, StoreFunction, Finish, Go, ArrayTypes
    <3>2. rev_functions[Of(t)] \in 1..MaxIdx
      BY <1>1, <1>4, <3>1, WriterTile, Constants DEF RegistryOK, NumberOK, Registered, RegistryTypes
    <3>3. buf[i0] = op[t]
      BY <1>1, <1>2, <3>1 DEF WritersOK, WriterOK
    <3> QED
      BY <1>2, <1>3, <3>1, <3>2, <3>3 DEF End, Of, Marker
  <2>2. CASE Mark(t)
    BY <1>1, <1>2, <1>3, <2>2 DEF Mark, Go, End, Marker, ArrayTypes
  <2> QED
    BY <2>1, <2>2
<1>7. \A u \in Thread \ {t}, i \in Place, e \in Border : Storing(u, i, e)' <=> Storing(u, i, e)
  BY <1>4 DEF Storing, End, Of
<1>8. \A i \in Place, e \in Border : ~Storing(t, i, e)' /\ (Storing(t, i, e) <=> i = i0 /\ e = e0)
  BY <1>2, <1>3, <1>4 DEF Storing
<1>9. SameTiles
  <2> SUFFICES ASSUME NEW i \in Place, NEW e \in Border PROVE Tile(i, e)' <=> Tile(i, e)
    BY DEF SameTiles
  <2>1. CASE i = i0
    <3>1. \A u \in Thread \ {t} : ~Storing(u, i, e)
      BY <1>5, <2>1 DEF Storing
    <3>2. Tile(i, e) <=> e = e0
      BY <1>4, <1>8, <2>1, <3>1 DEF Tile, Marker
    <3>3. Tile(i, e)' <=> e = e0
      BY <1>4, <1>6, <1>7, <1>8, <2>1, <3>1 DEF Tile
    <3> QED
      BY <3>2, <3>3
  <2>2. CASE i # i0
    BY <1>4, <1>7, <1>8, <2>2 DEF Tile
  <2> QED
    BY <2>1, <2>2
<1>10. Disjoint'
  BY <1>1, <1>9 DEF Disjoint, SameTiles, Place, Border
<1>11. Covered'
  <2> SUFFICES ASSUME NEW i \in Place, fun'[i] # 0
               PROVE  \E j \in Place, e \in Border :
                        Tile(j, e)' /\ j <= i /\ i < e /\ (i = j \/ Filled(j)')
    BY DEF Covered, Place, Border
  <2>1. CASE i = i0
    BY <1>4, <1>9, <2>1 DEF SameTiles, Place
  <2>2. CASE i # i0
    <3>1. PICK j \in Place, e \in Border : Tile(j, e) /\ j <= i /\ i < e /\ (i = j \/ Filled(j))
      BY <1>1, <1>4, <2>2 DEF Covered
    <3>2. Filled(j) => Filled(j)' \/ i = j
      <4>1. CASE fun[j] > 0
        BY <1>4, <4>1 DEF Filled, Marker
      <4>2. CASE \E u \in Thread \ {t} : pc[u] = "publish" /\ claim[u] = j
        BY <1>4, <4>2 DEF Filled
      <4>3. CASE pc[t] = "publish" /\ claim[t] = j
        <5>1. Publish(t)
          BY <4>3 DEF Mark, Go
        <5>2. fun'[i0] # Marker
          <6>1. fun'[i0] = rev_functions[Of(t)]
            BY <1>1, <1>2, <5>1 DEF Publish, StoreFunction, ArrayTypes
          <6> QED
            BY <1>1, <1>4, <6>1, WriterTile, Constants DEF RegistryTypes, Marker
        <5> QED
          BY <1>2, <1>6, <4>3, <5>2 DEF Filled
      <4> QED
        BY <4>1, <4>2, <4>3 DEF Filled
    <3> QED
      BY <1>9, <3>1, <3>2 DEF SameTiles
  <2> QED
    BY <2>1, <2>2
<1>12. ASSUME NEW u \in Thread PROVE WriterOK(u)'
  <2>1. CASE u = t
    BY <1>4, <2>1 DEF WriterOK, Writing
  <2>2. CASE u # t
    <3>1. WriterOK(u) /\ pc'[u] = pc[u] /\ claim'[u] = claim[u] /\ op'[u] = op[u]
      BY <1>1, <1>4, <2>2 DEF WritersOK
    <3>2. pc[u] \in Writing => claim[u] \in Place /\ claim[u] # i0
      BY <1>5, <2>2, WriterTile
    <3> QED
      BY <1>4, <3>1, <3>2 DEF WriterOK, End, Of, Writing
  <2> QED
    BY <2>1, <2>2
<1>13. WritersOK'
  BY <1>12 DEF WritersOK
<1> QED
  BY <1>9, <1>10, <1>11, <1>13

-----------------------------------------------------------------------------
(* buffer_queue: the helper *)

LEMMA LimitArray ==
  ASSUME TypeOK, HelperOK
  PROVE  Limit \in Int /\ Limit <= TodoMax /\ Limit < ARRAY_SIZE
  BY LimitType, Constants DEF HelperOK

LEMMA SpanSame ==
  ASSUME TypeOK, HelperOK, SpanOK, SameTiles, index' = index, Limit' = Limit, Session' <=> Session
  PROVE  SpanOK'
<1>1. \A i \in Place, e \in Border : Tile(i, e) =>
        /\ index <= i /\ i < Limit
        /\ e <= Limit \/ Limit = TodoMax
        /\ e < Limit => \E d \in Border : Tile(e, d)
  BY DEF SpanOK
<1>2. ASSUME NEW i \in Place, NEW e \in Border, Tile(i, e), e < Limit PROVE \E d \in Border : Tile(e, d)'
  <2>1. PICK d \in Border : Tile(e, d)
    BY <1>1, <1>2
  <2>2. e \in Place
    BY <1>2, LimitArray, Constants DEF Place, Border
  <2> QED
    BY <2>1, <2>2 DEF SameTiles
<1> QED
  BY <1>1, <1>2 DEF SpanOK, SameTiles, Place, Border, TodoMax

\* The helper is where it was, and nothing is claimed.
NoHelper ==
  /\ UNCHANGED <<counter, index, todo, last>>
  /\ \A t \in Thread : /\ pc'[t] \in SessionPc <=> pc[t] \in SessionPc
                       /\ pc'[t] = "closeFlag" <=> pc[t] = "closeFlag"
                       /\ pc'[t] = "scan" => pc[t] = "scan"
                       /\ last /\ pc[t] = "scan" => pc'[t] = "scan"

LEMMA NoHelperOK ==
  ASSUME HelperOK, NoHelper
  PROVE  HelperOK' /\ Limit' = Limit /\ (Session' <=> Session)
<1>1. (Session' <=> Session) /\ (Closing' <=> Closing)
  BY DEF NoHelper, Session, InSession, Closing
<1>2. Limit' = Limit
  BY <1>1 DEF NoHelper, Limit, TodoMax
<1> QED
  BY <1>1, <1>2 DEF HelperOK, NoHelper, InSession, TodoMax

LEMMA NoHelperSteps ==
  ASSUME ArrayTypes, HelperOK, NEW t \in Thread,
         Register(t) \/ Quiet(t) \/ Enqueues(t) \/ Write(t) \/ Publish(t) \/ Mark(t)
  PROVE  NoHelper
<1> USE DEF NoHelper, SessionPc, Go, enqueuer, flusher, ArrayTypes
<1>1. CASE Register(t)
  BY <1>1 DEF Register, IsNew, NewIndex, AddSize, AddFunction, AddReverse
<1>2. CASE Look(t) \/ Full(t) \/ OpenFlag(t)
  BY <1>2 DEF Look, LookAtFlag, Full, Finish, OpenFlag
<1>3. CASE NextRound(t)
  BY <1>3 DEF NextRound
<1>4. CASE Enqueues(t)
  BY <1>4 DEF Enqueues, Enqueue
<1>5. CASE Write(t) \/ Publish(t) \/ Mark(t)
  BY <1>5 DEF Write, WriteParameters, Publish, StoreFunction, Finish, Mark
<1> QED
  BY <1>1, <1>2, <1>3, <1>4, <1>5 DEF Quiet

LEMMA ArrayQuiet ==
  ASSUME BufferInv, Next, NEW t \in Thread, Register(t) \/ Quiet(t) \/ Enqueues(t)
  PROVE  ArrayOK'
<1>1. ArrayOK /\ TypeOK /\ ArrayTypes
  BY Types DEF BufferInv
<1>2. Still /\ NoHelper
  BY <1>1, StillSteps, NoHelperSteps DEF ArrayOK
<1>3. Disjoint' /\ Covered' /\ WritersOK' /\ SameTiles
  BY <1>1, <1>2, StillOK, StillTiles
<1>4. HelperOK' /\ Limit' = Limit /\ (Session' <=> Session) /\ index' = index
  BY <1>1, <1>2, NoHelperOK DEF ArrayOK, NoHelper
<1>5. SpanOK'
  BY <1>1, <1>3, <1>4, SpanSame DEF ArrayOK
<1>6. EntriesOK'
  BY <1>2, EntriesKept DEF Still
<1> QED
  BY <1>3, <1>4, <1>5, <1>6, CallersStep DEF ArrayOK

LEMMA ArrayFill ==
  ASSUME BufferInv, Next, NEW t \in Thread, Write(t) \/ Publish(t) \/ Mark(t), UNCHANGED registry
  PROVE  ArrayOK'
<1>1. ArrayOK /\ TypeOK /\ ArrayTypes
  BY Types DEF BufferInv
<1>2. NoHelper
  BY <1>1, NoHelperSteps DEF ArrayOK
<1>3. Disjoint' /\ Covered' /\ WritersOK' /\ SameTiles
  BY WriteFills, StoreFills
<1>4. HelperOK' /\ Limit' = Limit /\ (Session' <=> Session) /\ index' = index
  BY <1>1, <1>2, NoHelperOK DEF ArrayOK, NoHelper
<1>5. SpanOK'
  BY <1>1, <1>3, <1>4, SpanSame DEF ArrayOK
<1>6. EntriesOK'
  <2>1. CASE Write(t)
    <3>1. pc[t] = "write" /\ buf' = [buf EXCEPT ![claim[t]] = op[t]] /\ fun[claim[t]] = 0
      BY <2>1, WriterTile DEF Write, WriteParameters, Go, Writing
    <3>2. \A i \in Place : fun'[i] = fun[i] \/ fun'[i] = Parameters
      BY <1>1, <2>1 DEF Write, WriteParameters, ArrayTypes
    <3>3. \A i \in Place : fun'[i] > 0 => fun'[i] = fun[i] /\ buf'[i] = buf[i]
      BY <1>1, <3>1, <3>2 DEF ArrayTypes, Parameters
    <3> QED
      BY <3>3, EntriesKept
  <2>2. CASE Mark(t)
    <3>1. \A i \in Place : fun'[i] > 0 => fun'[i] = fun[i] /\ buf'[i] = buf[i]
      BY <1>1, <2>2 DEF Mark, ArrayTypes, Marker
    <3> QED
      BY <3>1, EntriesKept
  <2>3. CASE Publish(t)
    BY <2>3, EntriesPublish
  <2> QED
    BY <2>1, <2>2, <2>3
<1> QED
  BY <1>3, <1>4, <1>5, <1>6, CallersStep DEF ArrayOK

\* A claim that fits, or that ends beyond the array, is a new tile at the
\* limit, which moves beyond it.
LEMMA ArrayClaim ==
  ASSUME BufferInv, Next, HaveParameters, NEW t \in Thread, Claim(t), UNCHANGED registry
  PROVE  ArrayOK'
<1>1. /\ ArrayOK /\ TypeOK /\ ArrayTypes /\ Disjoint /\ Covered /\ EntriesOK /\ CallersOK
      /\ WritersOK /\ HelperOK /\ SpanOK
  BY Types DEF BufferInv, ArrayOK
<1>2. /\ pc[t] = "claim" /\ claim' = [claim EXCEPT ![t] = counter]
      /\ UNCHANGED <<closed, fun, buf, op, index, todo, last>>
      /\ pc' = [pc EXCEPT ![t] = IF counter + SizeOf[Of(t)] <= ARRAY_SIZE THEN "write"
                                 ELSE IF counter < TodoMax THEN "mark" ELSE "full"]
      /\ counter' = IF counter + SizeOf[Of(t)] < ARRAY_SIZE THEN counter + SizeOf[Of(t)] ELSE ARRAY_SIZE
  BY DEF Claim, ClaimSpace, Go, flusher, TodoMax
<1>3. op[t] \in Op /\ SizeOf[Of(t)] \in WORD..ARRAY_SIZE /\ SizeOf[Of(t)] > WORD
  BY <1>1, <1>2, HasOp DEF EnqueuePc
<1>4. counter \in Border /\ counter' \in Border /\ counter' >= counter
  BY <1>1, <1>2, <1>3, Constants DEF ArrayTypes, Border
<1>5. /\ \A u \in Thread : InSession(u)' <=> InSession(u)
      /\ \A u \in Thread : pc'[u] = "scan" <=> pc[u] = "scan"
      /\ (Session' <=> Session) /\ (Closing' <=> Closing)
  BY <1>1, <1>2 DEF ArrayTypes, InSession, SessionPc, Session, Closing
<1>6. EntriesOK' /\ CallersOK'
  BY <1>2, EntriesKept, CallersStep
<1>7. CASE counter >= TodoMax
  <2>1. pc'[t] = "full"
    BY <1>1, <1>2, <1>3, <1>4, <1>7, Constants DEF ArrayTypes, Border
  <2>2. Still
    BY <1>1, <2>1, StillSteps
  <2>3. counter' >= TodoMax /\ Limit' = Limit
    BY <1>2, <1>4, <1>5, <1>7, Constants DEF Limit, Border, TodoMax
  <2>4. HelperOK'
    BY <1>1, <1>2, <1>5, <2>3 DEF HelperOK, TodoMax
  <2>5. SpanOK'
    BY <1>1, <1>2, <1>5, <2>2, <2>3, StillTiles, SpanSame
  <2> QED
    BY <1>1, <1>6, <2>2, <2>4, <2>5, StillOK DEF ArrayOK
<1>8. CASE counter < TodoMax
  <2> DEFINE e0 == IF counter + SizeOf[Of(t)] <= ARRAY_SIZE
                   THEN counter + SizeOf[Of(t)] ELSE ARRAY_SIZE
  <2>0. PICK e1 \in Border : e1 = e0
    BY <1>3, <1>4, Constants DEF Border
  <2>1. PICK i0 \in Place : i0 = counter
    BY <1>4, <1>8, Constants DEF Place, Border
  <2>2. Session /\ ~Closing /\ Limit = i0
    BY <1>1, <1>4, <1>8, <2>1, Constants DEF HelperOK, Limit, Border
  <2>a. Limit # TodoMax
    BY <1>4, <1>8, <2>1, <2>2, Constants DEF Border
  <2>3. /\ i0 < e1 /\ i0 < Limit' /\ Limit' \in Int /\ Limit' <= TodoMax
        /\ e1 <= Limit' \/ Limit' = TodoMax
        /\ ~(e1 < Limit') /\ Limit <= Limit'
    BY <1>2, <1>3, <1>4, <1>5, <1>8, <2>0, <2>1, <2>2, Constants DEF Limit, Border, TodoMax
  <2>4. /\ pc'[t] \in {"write", "mark"} /\ claim'[t] = i0 /\ End(t)' = e1
        /\ \A u \in Thread \ {t} : pc'[u] = pc[u] /\ claim'[u] = claim[u]
        /\ pc[t] \notin Writing
    BY <1>1, <1>2, <1>3, <1>8, <2>0, <2>1 DEF ArrayTypes, End, Of, Writing
  <2>5. \A e \in Border : ~Tile(i0, e)
    BY <1>1, <2>1, <2>2 DEF SpanOK, Place
  <2>6. fun[i0] = 0
    <3> SUFFICES ASSUME fun[i0] # 0 PROVE FALSE
      OBVIOUS
    <3>1. PICK j \in Place, e \in Border : Tile(j, e) /\ j <= i0 /\ i0 < e
      BY <1>1 DEF Covered
    <3>2. e <= Limit
      BY <1>1, <2>1, <2>2, <2>a, <3>1 DEF SpanOK
    <3> QED
      BY <2>2, <3>1, <3>2 DEF Place, Border
  <2>7. \A u \in Thread, i \in Place, e \in Border :
          Storing(u, i, e)' <=> Storing(u, i, e) \/ (u = t /\ i = i0 /\ e = e1)
    BY <1>2, <2>4 DEF Storing, End, Of, Writing
  <2>8. \A i \in Place, e \in Border : Tile(i, e)' <=> Tile(i, e) \/ (i = i0 /\ e = e1)
    BY <1>2, <2>7 DEF Tile
  <2>9. Disjoint'
    <3>1. \A i \in Place, e \in Border : Tile(i, e) => i < i0 /\ e <= i0
      BY <1>1, <2>1, <2>2, <2>a DEF SpanOK
    <3>2. ASSUME NEW i \in Place, NEW j \in Place, NEW e \in Border, NEW d \in Border,
                 Tile(i, e)', Tile(j, d)'
          PROVE  i < e /\ (i < j => e <= j) /\ (i = j => e = d)
      <4>1. CASE Tile(i, e) /\ Tile(j, d)
        BY <1>1, <4>1 DEF Disjoint
      <4>2. CASE Tile(i, e) /\ j = i0 /\ d = e1
        BY <1>1, <3>1, <4>2 DEF Disjoint, Place
      <4>3. CASE i = i0 /\ e = e1 /\ Tile(j, d)
        BY <2>3, <3>1, <4>3 DEF Place
      <4>4. CASE i = i0 /\ e = e1 /\ j = i0 /\ d = e1
        BY <2>3, <4>4 DEF Place
      <4> QED
        BY <2>8, <3>2, <4>1, <4>2, <4>3, <4>4
    <3> QED
      BY <3>2 DEF Disjoint, Place, Border
  <2>10. Covered'
    <3> SUFFICES ASSUME NEW i \in Place, fun'[i] # 0
                 PROVE  \E j \in Place, e \in Border :
                          Tile(j, e)' /\ j <= i /\ i < e /\ (i = j \/ Filled(j)')
      BY DEF Covered, Place, Border
    <3>1. PICK j \in Place, e \in Border : Tile(j, e) /\ j <= i /\ i < e /\ (i = j \/ Filled(j))
      BY <1>1, <1>2 DEF Covered
    <3>2. Filled(j) => Filled(j)'
      BY <1>2, <2>4 DEF Filled, Writing
    <3> QED
      BY <2>8, <3>1, <3>2
  <2>11. WritersOK'
    <3> SUFFICES ASSUME NEW u \in Thread PROVE WriterOK(u)'
      BY DEF WritersOK
    <3>1. \A v \in Thread : pc[v] \in Writing => claim[v] # i0
      BY <2>5, WriterTile
    <3>2. CASE u = t
      BY <1>2, <2>1, <2>3, <2>4, <2>6, <3>1, <3>2, Constants DEF WriterOK, Writing, Place, Border
    <3>3. CASE u # t
      <4>1. WriterOK(u)
        BY <1>1 DEF WritersOK
      <4> QED
        BY <1>2, <2>4, <3>1, <3>3, <4>1 DEF WriterOK, End, Of, Writing
    <3> QED
      BY <3>2, <3>3
  <2>12. HelperOK'
    <3>1. \A u \in Thread : pc'[u] = "scan" => todo <= Limit'
      BY <1>1, <1>5, <2>2, <2>3 DEF HelperOK, Closing, ArrayTypes, Place, Border
    <3>2. index <= Limit'
      BY <1>1, <2>1, <2>2, <2>a, <2>3 DEF HelperOK, ArrayTypes, Place, Border
    <3> QED
      BY <1>1, <1>2, <1>5, <2>2, <2>3, <3>1, <3>2 DEF HelperOK, TodoMax
  <2>13. SpanOK'
    <3>1. ASSUME NEW i \in Place, i = index, i < Limit' PROVE \E e \in Border : Tile(i, e)'
      <4>1. i <= i0
        BY <1>1, <2>1, <2>2, <2>a, <3>1 DEF HelperOK
      <4>2. CASE i = i0
        BY <2>8, <4>2
      <4>3. CASE i < i0
        BY <1>1, <2>2, <2>8, <3>1, <4>3 DEF SpanOK
      <4> QED
        BY <4>1, <4>2, <4>3 DEF Place
    <3>2. ASSUME NEW i \in Place, NEW e \in Border, Tile(i, e)'
          PROVE  /\ index <= i /\ i < Limit'
                 /\ e <= Limit' \/ Limit' = TodoMax
                 /\ e < Limit' => \E d \in Border : Tile(e, d)'
      <4>1. CASE i = i0 /\ e = e1
        BY <1>1, <2>1, <2>2, <2>a, <2>3, <4>1 DEF HelperOK
      <4>2. CASE Tile(i, e)
        <5>1. index <= i /\ i < i0 /\ e <= i0
          BY <1>1, <2>1, <2>2, <2>a, <4>2 DEF SpanOK
        <5>2. e < i0 => \E d \in Border : Tile(e, d)
          BY <1>1, <2>2, <4>2 DEF SpanOK
        <5>3. \E d \in Border : Tile(e, d)'
          <6>1. PICK k \in Place : k = e
            BY <5>1, <1>4, <2>1, Constants DEF Place, Border
          <6>2. CASE k = i0
            BY <2>8, <6>1, <6>2
          <6>3. CASE k < i0
            BY <2>8, <5>2, <6>1, <6>3
          <6> QED
            BY <5>1, <6>1, <6>2, <6>3 DEF Place
        <5>4. i < Limit' /\ e <= Limit'
          BY <2>3, <5>1 DEF Place, Border
        <5> QED
          BY <5>1, <5>3, <5>4
      <4> QED
        BY <2>8, <3>2, <4>1, <4>2
    <3> QED
      BY <1>2, <1>5, <2>2, <3>1, <3>2 DEF SpanOK, Place, Border, TodoMax
  <2> QED
    BY <1>6, <2>9, <2>10, <2>11, <2>12, <2>13 DEF ArrayOK
<1> QED
  BY <1>4, <1>7, <1>8, Constants DEF Border

\* open() and the steps of flush() that end a round change what the helper
\* knows of the limit, not the limit.
LEMMA ArrayBegins ==
  ASSUME BufferInv, Next, NEW t \in Thread, Begins(t)
  PROVE  ArrayOK'
<1>1. ArrayOK /\ TypeOK /\ ArrayTypes /\ HelperOK /\ SpanOK
  BY Types DEF BufferInv, ArrayOK
<1>2. Still
  BY <1>1, StillSteps
<1>3. Disjoint' /\ Covered' /\ WritersOK' /\ SameTiles /\ EntriesOK' /\ CallersOK'
  BY <1>1, <1>2, StillOK, StillTiles, EntriesKept, CallersStep DEF Still
<1>4. /\ counter \in Border /\ index \in Border /\ todo \in Border /\ last \in BOOLEAN
      /\ pc \in [Thread -> Places] /\ TodoMax \in Nat
  BY <1>1, Constants DEF ArrayTypes
<1>5. CASE OpenCounter(t)
  <2>1. /\ ~Session /\ ~last /\ pc' = [pc EXCEPT ![t] = "openFlag"] /\ counter' = 0
        /\ UNCHANGED <<fun, buf, index, todo, last>>
    BY <1>1, <1>5 DEF OpenCounter, Go, Session, InSession, HelperOK, SessionPc, enqueuer, flusher
  <2>2. Session' /\ ~Closing' /\ \A u \in Thread : InSession(u)' => u = t
    BY <1>4, <2>1 DEF Session, InSession, SessionPc, Closing
  <2>3. Limit' = 0 /\ index = 0
    BY <1>1, <1>4, <2>1, <2>2 DEF Limit, HelperOK, TodoMax
  <2>4. HelperOK'
    BY <1>4, <2>1, <2>2, <2>3, Constants DEF HelperOK, InSession, SessionPc, TodoMax
  <2>5. SpanOK'
    BY <1>1, <1>3, <2>1, <2>3 DEF SpanOK, SameTiles, Place, Border
  <2> QED
    BY <1>3, <2>4, <2>5 DEF ArrayOK
<1>6. CASE Load(t) \/ Close(t) \/ CloseFlag(t)
  <2>1. /\ pc[t] \in {"load", "close", "closeFlag"} /\ pc'[t] \in {"close", "closeFlag", "scan"}
        /\ \A u \in Thread \ {t} : pc'[u] = pc[u]
        /\ index' = index
    BY <1>4, <1>6 DEF Load, LoadCounter, Close, CloseCounter, CloseFlag, Go
  <2>2. ~last /\ \A u \in Thread : InSession(u) => u = t
    BY <1>1, <2>1 DEF HelperOK, InSession, SessionPc
  <2>3. Session /\ Session' /\ \A u \in Thread : InSession(u)' => u = t
    BY <2>1, <2>2 DEF Session, InSession, SessionPc
  <2>4. /\ Closing <=> pc[t] = "closeFlag"
        /\ Closing' <=> last' \/ pc'[t] = "closeFlag"
    BY <2>1, <2>2 DEF Closing, InSession, SessionPc
  <2>5. /\ Limit' = Limit
        /\ last' => pc'[t] = "scan"
        /\ pc'[t] = "scan" /\ ~last' => todo' <= Limit
        /\ Closing' => counter' >= TodoMax
    <3>1. CASE Load(t)
      <4>1. /\ pc[t] = "load" /\ UNCHANGED <<counter, last>>
            /\ pc' = [pc EXCEPT ![t] = IF counter = index THEN "close"
                                       ELSE IF counter >= TodoMax THEN "closeFlag" ELSE "scan"]
            /\ todo' = IF counter >= TodoMax THEN TodoMax ELSE counter
        BY <3>1 DEF Load, LoadCounter, Go
      <4>2. todo' = Limit
        BY <1>4, <2>4, <4>1, Constants DEF Limit, Border
      <4>3. Closing' <=> pc'[t] = "closeFlag"
        BY <2>2, <2>4, <4>1
      <4>4. Limit' = Limit
        BY <1>4, <2>4, <4>1, <4>2, <4>3, Constants DEF Limit, Border, TodoMax
      <4>5. todo' <= Limit
        BY <4>2, <1>1, LimitType
      <4>6. pc'[t] = "closeFlag" => counter >= TodoMax
        BY <1>4, <4>1
      <4> QED
        BY <2>2, <4>1, <4>3, <4>4, <4>5, <4>6
    <3>2. CASE Close(t)
      <4>1. /\ pc[t] = "close" /\ last' = last /\ counter' = ARRAY_SIZE
            /\ pc' = [pc EXCEPT ![t] = "closeFlag"]
            /\ todo' = IF counter >= TodoMax THEN TodoMax ELSE counter
        BY <3>2 DEF Close, CloseCounter, Go
      <4>2. todo' = Limit
        BY <1>4, <2>4, <4>1, Constants DEF Limit, Border
      <4>3. pc'[t] = "closeFlag" /\ Closing'
        BY <1>4, <2>4, <4>1
      <4>4. Limit' = todo'
        BY <4>3 DEF Limit
      <4>5. counter' >= TodoMax
        BY <4>1, Constants
      <4> QED
        BY <2>2, <4>1, <4>2, <4>3, <4>4, <4>5
    <3>3. CASE CloseFlag(t)
      <4>1. /\ pc[t] = "closeFlag" /\ last' /\ UNCHANGED <<counter, todo>>
            /\ pc' = [pc EXCEPT ![t] = "scan"]
        BY <3>3 DEF CloseFlag, Go, enqueuer
      <4>2. Closing /\ Closing'
        BY <2>4, <4>1
      <4> QED
        BY <1>1, <1>4, <4>1, <4>2 DEF Limit, HelperOK
    <3> QED
      BY <1>6, <3>1, <3>2, <3>3
  <2>6. HelperOK'
    BY <1>1, <2>1, <2>3, <2>5 DEF HelperOK, InSession, SessionPc, TodoMax
  <2>7. SpanOK'
    BY <1>1, <1>3, <2>1, <2>3, <2>5, SpanSame
  <2> QED
    BY <1>3, <2>6, <2>7 DEF ArrayOK
<1> QED
  BY <1>5, <1>6 DEF Begins

\* flush() returns and leaves nothing behind.
LEMMA ArrayEmpty ==
  ASSUME BufferInv, Next, NEW t \in Thread, FlushReturns(t), counter >= TodoMax,
         \A i \in Place : fun'[i] = 0, DOMAIN fun' = Place,
         \A u \in Thread : pc[u] \notin Writing
  PROVE  ArrayOK'
<1>1. HelperOK /\ ArrayTypes
  BY Types DEF BufferInv, ArrayOK
<1>2. /\ pc[t] = "scan" /\ pc' = [pc EXCEPT ![t] = "idle"] /\ pc \in [Thread -> Places]
      /\ index' = 0 /\ last' = FALSE /\ counter' = counter
  BY <1>1 DEF FlushReturns, Go, ArrayTypes
<1>3. \A u \in Thread : pc'[u] \notin SessionPc /\ pc'[u] \notin Writing
  BY <1>1, <1>2 DEF HelperOK, InSession, SessionPc, Writing
<1>4. ~Session' /\ ~Closing'
  BY <1>2, <1>3 DEF Session, InSession, Closing, SessionPc
<1>5. Limit' = TodoMax
  BY <1>1, <1>2, <1>4, Constants DEF Limit, TodoMax, ArrayTypes, Border
<1>6. \A i \in Place, e \in Border : ~Tile(i, e)'
  BY <1>3 DEF Tile, Storing, Marker
<1>7. Disjoint' /\ SpanOK'
  BY <1>4, <1>6 DEF Disjoint, SpanOK, Place, Border
<1>8. Covered' /\ EntriesOK'
  BY DEF Covered, EntriesOK, EntryOK, Place
<1>9. WritersOK'
  BY <1>3 DEF WritersOK, WriterOK, Writing
<1>10. HelperOK'
  BY <1>2, <1>3, <1>4, <1>5, Constants DEF HelperOK, InSession, SessionPc, TodoMax
<1> QED
  BY <1>7, <1>8, <1>9, <1>10, CallersStep DEF ArrayOK

\* Without a tile there is nothing in the array.
LEMMA NoTiles ==
  ASSUME BufferInv, \A i \in Place, e \in Border : ~Tile(i, e)
  PROVE  /\ \A i \in Place : fun[i] = 0
         /\ \A u \in Thread : pc[u] \notin Writing
  BY WriterTile DEF BufferInv, ArrayOK, Covered

LEMMA ArrayFlushEnd ==
  ASSUME BufferInv, Next, NEW t \in Thread, FlushEnd(t)
  PROVE  ArrayOK' /\ \A i \in Place : fun[i] = 0
<1>1. /\ HelperOK /\ SpanOK /\ ArrayTypes /\ TypeOK /\ index >= todo /\ last
      /\ FlushReturns(t) /\ fun' = fun
  BY Types DEF BufferInv, ArrayOK, FlushEnd
<1>2. Limit = todo /\ counter >= TodoMax
  BY <1>1 DEF HelperOK, Limit, Closing
<1>3. \A i \in Place, e \in Border : ~Tile(i, e)
  BY <1>1, <1>2 DEF SpanOK, ArrayTypes, Place, Border
<1> QED
  BY <1>1, <1>2, <1>3, NoTiles, ArrayEmpty DEF ArrayTypes

\* Behind the marker there is nothing.
LEMMA ArrayFindMarker ==
  ASSUME BufferInv, Next, NEW t \in Thread, FindMarker(t)
  PROVE  ArrayOK' /\ \A i \in Place : ~(fun[i] > 0)
<1>1. /\ ArrayOK /\ HelperOK /\ SpanOK /\ ArrayTypes /\ TypeOK /\ Disjoint /\ Covered /\ EntriesOK
      /\ index < todo /\ fun[index] = Marker /\ FlushReturns(t)
      /\ fun' = [fun EXCEPT ![index] = 0] /\ pc[t] = "scan"
  BY Types DEF BufferInv, ArrayOK, FindMarker, FlushReturns, Go
<1>2. index < Limit /\ Limit <= TodoMax /\ Limit \in Int /\ Limit < ARRAY_SIZE
  <2>1. Limit \in Int /\ Limit <= TodoMax /\ Limit < ARRAY_SIZE
    BY <1>1, LimitArray
  <2>2. todo <= Limit
    BY <1>1, <2>1 DEF HelperOK, Limit, Closing
  <2> QED
    BY <1>1, <2>1, <2>2 DEF ArrayTypes, Border
<1>3. PICK i0 \in Place : i0 = index
  BY <1>1, <1>2, Constants DEF ArrayTypes, Place, Border
<1>4. Tile(i0, ARRAY_SIZE)
  BY <1>1, <1>3 DEF Tile
<1>5. Limit = TodoMax
  BY <1>1, <1>2, <1>4, Ranges, Constants DEF SpanOK
<1>6. counter >= TodoMax
  BY <1>1, <1>5, Constants DEF Limit, HelperOK, ArrayTypes, Border
<1>7. ASSUME NEW i \in Place, NEW e \in Border, Tile(i, e) PROVE i = i0
  <2>1. index <= i
    BY <1>1, <1>7 DEF SpanOK
  <2>2. i0 < i => ARRAY_SIZE <= i
    BY <1>1, <1>4, <1>7, Ranges DEF Disjoint
  <2> QED
    BY <1>3, <2>1, <2>2, Constants DEF Place
<1>8. \A u \in Thread : pc[u] \notin Writing
  <2> SUFFICES ASSUME NEW u \in Thread, pc[u] \in Writing PROVE FALSE
    OBVIOUS
  <2>1. claim[u] = i0 /\ fun[claim[u]] = 0
    BY <1>7, WriterTile
  <2> QED
    BY <1>1, <1>3, <2>1 DEF Marker
<1>9. \A i \in Place : i # i0 => fun[i] = 0
  <2> SUFFICES ASSUME NEW i \in Place, i # i0, fun[i] # 0 PROVE FALSE
    OBVIOUS
  <2>1. PICK j \in Place, e \in Border : Tile(j, e) /\ (i = j \/ Filled(j))
    BY <1>1 DEF Covered
  <2>2. j = i0 /\ Filled(i0)
    BY <1>7, <2>1
  <2> QED
    BY <1>1, <1>3, <1>8, <2>2 DEF Filled, Marker, Writing
<1>10. \A i \in Place : fun'[i] = 0
  BY <1>1, <1>3, <1>9 DEF ArrayTypes
<1>11. \A i \in Place : ~(fun[i] > 0)
  BY <1>1, <1>3, <1>9 DEF Marker
<1> QED
  BY <1>1, <1>6, <1>8, <1>10, <1>11, ArrayEmpty DEF ArrayTypes

\* The entry that the helper has run is gone, and the next one begins where
\* it ended.
LEMMA ArrayRun ==
  ASSUME BufferInv, Next, NEW t \in Thread, Run(t)
  PROVE  ArrayOK'
<1>1. /\ ArrayOK /\ TypeOK /\ ArrayTypes /\ Disjoint /\ Covered /\ EntriesOK /\ WritersOK
      /\ HelperOK /\ SpanOK
  BY Types DEF BufferInv, ArrayOK
<1>2. pc[t] = "scan" /\ index < todo /\ fun[index] \notin {0, Marker}
  BY DEF Run, RunEntry, Go
<1>3. PICK i0 \in Place : i0 = index
  BY <1>2, AtEntry
<1>4. PICK e0 \in Border : e0 = index + SizeOf[FunctionOf[buf[index]]]
  BY <1>2, AtEntry
<1>5. /\ Tile(i0, e0) /\ fun[i0] > 0 /\ SizeCalled(fun[index]) = e0 - i0 /\ i0 < e0
  BY <1>2, <1>3, <1>4, AtEntry, Constants DEF Place, Border
<1>6. /\ pc' = pc /\ UNCHANGED <<counter, todo, last, op, claim>> /\ index' = e0
      /\ buf' = [buf EXCEPT ![i0] = NoOp]
      /\ fun' = [i \in Place |-> IF i \in i0 .. e0 - 1 THEN 0 ELSE fun[i]]
  <2>1. /\ pc' = [pc EXCEPT ![t] = "scan"] /\ UNCHANGED <<counter, todo, last, op, claim>>
        /\ index' = index + SizeCalled(fun[index])
        /\ buf' = [buf EXCEPT ![index] = NoOp]
        /\ fun' = [i \in DOMAIN fun |->
                     IF i \in index .. index + SizeCalled(fun[index]) - 1 THEN 0 ELSE fun[i]]
    BY DEF Run, RunEntry, Go, enqueuer
  <2>2. pc' = pc
    BY <1>1, <1>2, <2>1 DEF ArrayTypes
  <2>3. index + SizeCalled(fun[index]) = e0
    BY <1>3, <1>4, <1>5 DEF Place, Border
  <2>4. index .. index + SizeCalled(fun[index]) - 1 = i0 .. e0 - 1
    BY <1>3, <1>5, <2>3 DEF Place, Border
  <2>5. DOMAIN fun = Place
    BY <1>1 DEF ArrayTypes
  <2> QED
    BY <1>3, <2>1, <2>2, <2>3, <2>4, <2>5
<1>7. ASSUME NEW i \in Place, NEW e \in Border, Tile(i, e), i # i0
      PROVE  i >= e0 /\ i \notin i0 .. e0 - 1 /\ fun'[i] = fun[i] /\ buf'[i] = buf[i]
  <2>1. i0 <= i
    BY <1>1, <1>3, <1>7 DEF SpanOK
  <2>2. i >= e0
    BY <1>1, <1>5, <1>7, <2>1 DEF Disjoint, Place
  <2> QED
    BY <1>1, <1>6, <1>7, <2>2 DEF Place, Border, ArrayTypes
<1>8. \A u \in Thread : pc[u] \in Writing => claim[u] # i0
  BY <1>5, WriterTile
<1>9. \A u \in Thread, i \in Place, e \in Border : Storing(u, i, e)' <=> Storing(u, i, e)
  BY <1>6 DEF Storing, End, Of
<1>10. \A i \in Place, e \in Border : Tile(i, e)' <=> Tile(i, e) /\ i # i0
  <2> SUFFICES ASSUME NEW i \in Place, NEW e \in Border
               PROVE  Tile(i, e)' <=> Tile(i, e) /\ i # i0
    OBVIOUS
  <2>1. CASE i = i0
    <3>1. fun'[i] = 0
      BY <1>5, <1>6, <2>1 DEF Place, Border
    <3>2. \A u \in Thread : ~Storing(u, i, e)
      BY <1>8, <2>1 DEF Storing
    <3> QED
      BY <1>9, <2>1, <3>1, <3>2 DEF Tile, Marker
  <2>2. CASE i # i0
    <3>1. Tile(i, e) => fun'[i] = fun[i] /\ buf'[i] = buf[i]
      BY <1>7, <2>2
    <3>2. fun'[i] # 0 => fun'[i] = fun[i]
      BY <1>6
    <3>3. buf'[i] = buf[i]
      BY <1>1, <1>6, <2>2 DEF ArrayTypes
    <3> QED
      BY <1>9, <2>2, <3>1, <3>2, <3>3 DEF Tile, Marker
  <2> QED
    BY <2>1, <2>2
<1>11. Disjoint'
  BY <1>1, <1>10 DEF Disjoint, Place, Border
<1>12. Covered'
  <2> SUFFICES ASSUME NEW i \in Place, fun'[i] # 0
               PROVE  \E j \in Place, e \in Border :
                        Tile(j, e)' /\ j <= i /\ i < e /\ (i = j \/ Filled(j)')
    BY DEF Covered, Place, Border
  <2>1. i \notin i0 .. e0 - 1 /\ fun[i] # 0
    BY <1>6
  <2>2. PICK j \in Place, e \in Border : Tile(j, e) /\ j <= i /\ i < e /\ (i = j \/ Filled(j))
    BY <1>1, <2>1 DEF Covered
  <2>3. j # i0
    <3> SUFFICES ASSUME j = i0 PROVE FALSE
      OBVIOUS
    <3>1. e = e0
      BY <1>1, <1>5, <2>2 DEF Disjoint
    <3> QED
      BY <2>1, <2>2, <3>1 DEF Place, Border
  <2>4. Tile(j, e)' /\ fun'[j] = fun[j]
    BY <1>7, <1>10, <2>2, <2>3
  <2>5. Filled(j) => Filled(j)'
    BY <1>6, <2>4 DEF Filled
  <2> QED
    BY <2>2, <2>4, <2>5
<1>13. WritersOK'
  <2> SUFFICES ASSUME NEW u \in Thread PROVE WriterOK(u)'
    BY DEF WritersOK
  <2>1. WriterOK(u)
    BY <1>1 DEF WritersOK
  <2>2. pc[u] \in Writing => claim[u] \in Place /\ claim[u] # i0 /\ fun'[claim[u]] = 0
    BY <1>6, <1>8, WriterTile
  <2> QED
    BY <1>1, <1>6, <2>1, <2>2 DEF WriterOK, End, Of, Writing, ArrayTypes
<1>14. EntriesOK'
  <2>1. \A i \in Place : fun'[i] > 0 => fun'[i] = fun[i] /\ buf'[i] = buf[i]
    BY <1>1, <1>5, <1>6 DEF ArrayTypes, Place, Border
  <2> QED
    BY <2>1, EntriesKept
<1>15. (Session' <=> Session) /\ Session /\ (Closing' <=> Closing) /\ Limit' = Limit
  BY <1>2, <1>6 DEF Session, InSession, Closing, Limit, SessionPc, TodoMax
<1>16. e0 <= Limit \/ Limit = TodoMax
  BY <1>1, <1>5 DEF SpanOK
<1>17. HelperOK'
  BY <1>1, <1>6, <1>15, <1>16 DEF HelperOK, InSession, SessionPc, TodoMax
<1>18. Limit \in Int /\ Limit < ARRAY_SIZE
  BY <1>1, LimitArray
<1>19. SpanOK'
  <2>1. ASSUME NEW i \in Place, i = e0, i < Limit PROVE \E e \in Border : Tile(i, e)'
    <3>1. PICK d \in Border : Tile(e0, d)
      BY <1>1, <1>5, <2>1 DEF SpanOK
    <3> QED
      BY <1>5, <1>10, <2>1, <3>1 DEF Place, Border
  <2>2. ASSUME NEW i \in Place, NEW e \in Border, Tile(i, e)'
        PROVE  /\ e0 <= i /\ i < Limit
               /\ e <= Limit \/ Limit = TodoMax
               /\ e < Limit => \E d \in Border : Tile(e, d)'
    <3>1. Tile(i, e) /\ i # i0
      BY <1>10, <2>2
    <3>2. e0 <= i /\ i < e
      BY <1>1, <1>7, <3>1 DEF Disjoint, Place
    <3>3. i < Limit /\ (e <= Limit \/ Limit = TodoMax)
      BY <1>1, <3>1 DEF SpanOK
    <3>4. ASSUME e < Limit PROVE \E d \in Border : Tile(e, d)'
      <4>1. PICK d \in Border : Tile(e, d)
        BY <1>1, <3>1, <3>4 DEF SpanOK
      <4>2. PICK k \in Place : k = e
        BY <1>18, <3>4, Constants DEF Place, Border
      <4>3. k # i0
        BY <1>5, <3>2, <4>2 DEF Place, Border
      <4> QED
        BY <1>10, <4>1, <4>2, <4>3
    <3> QED
      BY <3>2, <3>3, <3>4
  <2> QED
    BY <1>6, <1>15, <2>1, <2>2 DEF SpanOK, Place, Border, TodoMax
<1> QED
  BY <1>11, <1>12, <1>13, <1>14, <1>17, <1>19, CallersStep DEF ArrayOK

-----------------------------------------------------------------------------
(* buffer_queue: the invariant and what it shows *)

LEMMA BufferInit ==
  ASSUME Init
  PROVE  BufferInv
<1>1. /\ counter = ARRAY_SIZE /\ closed = "CLOSED" /\ index = 0 /\ todo = 0 /\ last = FALSE
      /\ fun = [i \in Place |-> 0] /\ buf = [i \in Place |-> NoOp]
      /\ pc = [t \in Thread |-> "idle"] /\ op = [t \in Thread |-> NoOp]
      /\ claim = [t \in Thread |-> 0]
      /\ sizes = {} /\ functions = [k \in 1..MaxIdx |-> NoFunction]
      /\ rev_functions = [w \in Function |-> 0] /\ function_idx = 1
      /\ number = [t \in Thread |-> 0]
  BY DEF Init, QueueInit, Place
<1>2. ArrayTypes /\ RegistryTypes
  <2>1. ArrayTypes
    BY <1>1, Ranges DEF ArrayTypes, Places
  <2>2. RegistryTypes
    BY <1>1, Constants DEF RegistryTypes
  <2> QED
    BY <2>1, <2>2
<1>3. RegistryOK
  BY <1>1 DEF RegistryOK, NumberOK, Registered, Numbering
<1>4. NumbersLeft
  <2>1. IsFiniteSet(Function \X Thread) /\ Cardinality(Function \X Thread) = MaxIdx
    BY FS_Product, FiniteAssumption DEF FiniteAssumption, MaxIdx
  <2>2. IsFiniteSet(MayDraw) /\ Cardinality(MayDraw) <= MaxIdx
    BY <2>1, FS_Subset DEF MayDraw
  <2>3. Cardinality(MayDraw) \in Nat
    BY <2>2, FS_CardinalityType
  <2> QED
    BY <1>1, <2>2, <2>3, Constants DEF NumbersLeft
<1>5. ~Session /\ ~Closing /\ Limit = TodoMax
  BY <1>1, Constants DEF Session, InSession, SessionPc, Closing, Limit
<1>6. \A i \in Place, e \in Border : ~Tile(i, e)
  BY <1>1 DEF Tile, Storing, Writing, Marker
<1>7. Disjoint /\ Covered /\ EntriesOK /\ SpanOK
  BY <1>1, <1>5, <1>6 DEF Disjoint, Covered, EntriesOK, EntryOK, SpanOK
<1>8. CallersOK /\ WritersOK
  BY <1>1 DEF CallersOK, CallerOK, WritersOK, WriterOK, EnqueuePc, Writing
<1>9. HelperOK
  BY <1>1, <1>5, Constants DEF HelperOK, InSession, SessionPc
<1> QED
  BY <1>2, <1>3, <1>4, <1>7, <1>8, <1>9, Types DEF BufferInv, ArrayOK

LEMMA BufferStep ==
  ASSUME BufferInv, HaveParameters, Next
  PROVE  BufferInv'
<1> PICK t \in Thread : \/ Register(t) \/ Quiet(t) \/ Enqueues(t)
                        \/ Stores(t) \/ Begins(t) \/ Takes(t)
  BY KindsOfSteps
<1>1. ArrayOK'
  <2>1. CASE Register(t) \/ Quiet(t) \/ Enqueues(t)
    BY <2>1, ArrayQuiet
  <2>2. CASE Stores(t)
    BY <2>2, ArrayClaim, ArrayFill DEF Stores, registry
  <2>3. CASE Begins(t)
    BY <2>3, ArrayBegins
  <2>4. CASE Takes(t)
    BY <2>4, ArrayRun, ArrayFindMarker, ArrayFlushEnd DEF Takes
  <2> QED
    BY <2>1, <2>2, <2>3, <2>4
<1> QED
  BY <1>1, TypeStep, RegistryStep, LeftStep DEF BufferInv

LEMMA BufferStutter ==
  ASSUME BufferInv, UNCHANGED <<queueVars, registry>>
  PROVE  BufferInv'
<1>1. /\ UNCHANGED <<counter, closed, fun, buf, pc, op, claim, index, todo, last>>
      /\ UNCHANGED <<sizes, functions, rev_functions, function_idx, number>>
  BY DEF queueVars, registry, enqueuer, flusher
<1>2. ArrayTypes' /\ RegistryTypes'
  BY <1>1, Types DEF BufferInv, ArrayTypes, RegistryTypes
<1>3. RegistryOK' /\ NumbersLeft'
  BY <1>1 DEF BufferInv, RegistryOK, NumberOK, Of, NumbersLeft, MayDraw, Draws
<1>4. Still /\ NoHelper
  BY <1>1 DEF Still, NoHelper
<1>5. Disjoint' /\ Covered' /\ WritersOK' /\ HelperOK' /\ SpanOK'
  BY <1>1, <1>4, StillOK, StillTiles, NoHelperOK, SpanSame DEF BufferInv, ArrayOK
<1>6. EntriesOK' /\ CallersOK'
  BY <1>1 DEF BufferInv, ArrayOK, EntriesOK, EntryOK, CallersOK, CallerOK
<1> QED
  BY <1>2, <1>3, <1>5, <1>6, TypesNext DEF BufferInv, ArrayOK

-----------------------------------------------------------------------------
(* entry_queue: the inductive invariant.  An entry is a single place, so     *)
(* that nothing overlaps; what must hold is that a place between the helper  *)
(* and the limit belongs to one enqueuer or holds one operation.             *)

Slot == 0 .. ENTRIES - 1
Count == 0..ENTRIES
Storers == {"write", "publish"}
Top == IF Closing THEN todo ELSE counter

SlotTypes ==
  /\ counter \in Count /\ closed \in {"OPEN", "FULL", "CLOSED"}
  /\ fun \in [Slot -> {0, 1}] /\ buf \in [Slot -> Op \cup {NoOp}]
  /\ pc \in [Thread -> Places]
  /\ op \in [Thread -> Op \cup {NoOp}] /\ claim \in [Thread -> Count]
  /\ index \in Count /\ todo \in Count /\ last \in BOOLEAN

\* One helper at a time; a queue that is being closed is full.
HelperAlone ==
  /\ \A t, u \in Thread : InSession(t) /\ InSession(u) => t = u
  /\ last => \E t \in Thread : pc[t] = "scan"
  /\ index <= Top
  /\ \A t \in Thread : pc[t] = "scan" /\ ~last => todo <= Top
  /\ Closing => counter = ENTRIES
  /\ ~Session => counter = ENTRIES /\ index = 0

\* Enqueuers that store an entry, and entries that can be run.
StorerOK(t) ==
  pc[t] \in Storers =>
    /\ Session /\ index <= claim[t] /\ claim[t] < Top /\ fun[claim[t]] = 0
    /\ \A u \in Thread : pc[u] \in Storers /\ claim[u] = claim[t] => u = t
    /\ pc[t] = "publish" => buf[claim[t]] = op[t]
SlotOK(i) ==
  fun[i] > 0 =>
    /\ Session /\ index <= i /\ i < Top /\ buf[i] \in Op
    /\ \A t \in Thread : op[t] # buf[i]
    /\ \A j \in Slot : fun[j] > 0 /\ buf[j] = buf[i] => j = i

EntryInv ==
  /\ SlotTypes /\ CallersOK /\ HelperAlone
  /\ \A t \in Thread : StorerOK(t)
  /\ \A i \in Slot : SlotOK(i)

LEMMA SlotTypesMeaning == SlotTypes <=> E!TypeOK
  BY DEF SlotTypes, E!TypeOK, E!QueueTypeOK, Slot, Count, Places, EnqueuePc, SessionPc, E!EnqueuePc, E!SessionPc

LEMMA Counts == 0 \in Count /\ ENTRIES \in Count /\ ENTRIES \in Nat
  BY EntriesAssumption DEF EntriesAssumption, Count

LEMMA EntryInit ==
  ASSUME E!Init
  PROVE  EntryInv
<1>1. /\ counter = ENTRIES /\ closed = "CLOSED" /\ index = 0 /\ todo = 0 /\ last = FALSE
      /\ fun = [i \in Slot |-> 0] /\ buf = [i \in Slot |-> NoOp]
      /\ pc = [t \in Thread |-> "idle"] /\ op = [t \in Thread |-> NoOp]
      /\ claim = [t \in Thread |-> 0]
  BY DEF E!Init, E!QueueInit, Slot
<1>2. ~Session /\ ~Closing /\ Top = ENTRIES
  BY <1>1 DEF Session, InSession, SessionPc, Closing, Top
<1>3. SlotTypes
  BY <1>1, Counts DEF SlotTypes, Places
<1>4. CallersOK
  BY <1>1 DEF CallersOK, CallerOK, EnqueuePc
<1>5. HelperAlone
  BY <1>1, <1>2, Counts DEF HelperAlone, InSession, SessionPc
<1> QED
  BY <1>1, <1>3, <1>4, <1>5 DEF EntryInv, StorerOK, SlotOK, Storers

LEMMA EntryKinds ==
  ASSUME E!Next
  PROVE  \E t \in Thread :
           \/ \E o \in Op : E!Enqueue(t, o)
           \/ E!LookAtFlag(t) \/ E!Full(t) \/ E!OpenFlag(t) \/ E!NextRound(t)
           \/ E!Claim(t) \/ E!Write(t) \/ E!Publish(t)
           \/ E!OpenCounter(t) \/ E!Load(t) \/ E!Close(t) \/ E!CloseFlag(t)
           \/ E!Run(t) \/ E!FlushEnd(t)
  BY DEF E!Next, E!Step

LEMMA SlotTypesStep ==
  ASSUME EntryInv, E!Next
  PROVE  SlotTypes'
<1> PICK t \in Thread :
      \/ \E o \in Op : E!Enqueue(t, o)
      \/ E!LookAtFlag(t) \/ E!Full(t) \/ E!OpenFlag(t) \/ E!NextRound(t)
      \/ E!Claim(t) \/ E!Write(t) \/ E!Publish(t)
      \/ E!OpenCounter(t) \/ E!Load(t) \/ E!Close(t) \/ E!CloseFlag(t)
      \/ E!Run(t) \/ E!FlushEnd(t)
  BY EntryKinds
<1>a. SlotTypes
  BY DEF EntryInv
<1> USE <1>a, Counts
    DEF SlotTypes, Places, EnqueuePc, SessionPc, E!Go, E!enqueuer, E!flusher
<1>1. CASE \E o \in Op : E!Enqueue(t, o)
  BY <1>1 DEF E!Enqueue
<1>2. CASE E!LookAtFlag(t) \/ E!Full(t)
  BY <1>2 DEF E!LookAtFlag, E!Full, E!Finish
<1>3. CASE E!OpenFlag(t) \/ E!NextRound(t)
  BY <1>3 DEF E!OpenFlag, E!NextRound
<1>4. CASE E!Claim(t)
  BY <1>4 DEF E!Claim, E!ClaimSpace, Count
<1>5. CASE E!Write(t)
  BY <1>5 DEF E!Write, E!WriteParameters
<1>6. CASE E!Publish(t)
  BY <1>6 DEF E!Publish, E!StoreFunction, E!Finish
<1>7. CASE E!OpenCounter(t) \/ E!CloseFlag(t)
  BY <1>7 DEF E!OpenCounter, E!CloseFlag
<1>8. CASE E!Load(t)
  BY <1>8 DEF E!Load, E!LoadCounter
<1>9. CASE E!Close(t)
  BY <1>9 DEF E!Close, E!CloseCounter
<1>10. CASE E!Run(t)
  <2>1. index + 1 \in Count
    BY <1>10 DEF E!Run, E!RunEntry, Count
  <2> QED
    BY <1>10, <2>1 DEF E!Run, E!RunEntry
<1>11. CASE E!FlushEnd(t)
  BY <1>11 DEF E!FlushEnd, E!FlushReturns
<1> QED
  BY <1>1, <1>2, <1>3, <1>4, <1>5, <1>6, <1>7, <1>8, <1>9, <1>10, <1>11

LEMMA EntryCallers ==
  ASSUME EntryInv, E!Next
  PROVE  /\ CallersOK'
         /\ \A i \in Slot : fun[i] > 0 => \A u \in Thread : op'[u] # buf[i]
<1> PICK t \in Thread :
      \/ \E o \in Op : E!Enqueue(t, o)
      \/ E!LookAtFlag(t) \/ E!Full(t) \/ E!OpenFlag(t) \/ E!NextRound(t)
      \/ E!Claim(t) \/ E!Write(t) \/ E!Publish(t)
      \/ E!OpenCounter(t) \/ E!Load(t) \/ E!Close(t) \/ E!CloseFlag(t)
      \/ E!Run(t) \/ E!FlushEnd(t)
  BY EntryKinds
<1>a. /\ SlotTypes /\ CallersOK
      /\ \A i \in Slot : fun[i] > 0 => buf[i] \in Op /\ buf[i] \in Stored /\ \A u \in Thread : op[u] # buf[i]
  BY DEF EntryInv, SlotOK, SlotTypes, Stored
<1>b. pc \in [Thread -> Places] /\ op \in [Thread -> Op \cup {NoOp}]
  BY <1>a DEF SlotTypes
<1>1. \/ SameCallers
      \/ EndsCall(t) \/ \E o \in Op : BeginsCall(t, o)
  <2> USE <1>b DEF E!Go, E!enqueuer
  <2>1. CASE \E o \in Op : E!Enqueue(t, o)
    BY <2>1 DEF E!Enqueue, BeginsCall, E!Stored, Stored
  <2>2. CASE E!Full(t) \/ E!Publish(t)
    BY <2>2 DEF E!Full, E!Publish, E!StoreFunction, E!Finish, EndsCall
  <2>3. CASE E!LookAtFlag(t)
    BY <2>3 DEF E!LookAtFlag, E!Finish, EndsCall, SameCallers, EnqueuePc
  <2> USE DEF SameCallers, EnqueuePc
  <2>4. CASE E!OpenFlag(t) \/ E!NextRound(t) \/ E!Claim(t) \/ E!Write(t)
    BY <2>4 DEF E!OpenFlag, E!NextRound, E!Claim, E!ClaimSpace, E!Write, E!WriteParameters
  <2>5. CASE E!OpenCounter(t) \/ E!Load(t) \/ E!Close(t) \/ E!CloseFlag(t)
    BY <2>5 DEF E!OpenCounter, E!Load, E!LoadCounter, E!Close, E!CloseCounter, E!CloseFlag
  <2>6. CASE E!Run(t) \/ E!FlushEnd(t)
    BY <2>6 DEF E!Run, E!RunEntry, E!FlushEnd, E!FlushReturns
  <2> QED
    BY <2>1, <2>2, <2>3, <2>4, <2>5, <2>6
<1>2. CASE SameCallers
  BY <1>a, <1>2 DEF SameCallers, CallersOK, CallerOK
<1>3. CASE EndsCall(t)
  BY <1>a, <1>b, <1>3, OpAssumption DEF EndsCall, CallersOK, CallerOK, EnqueuePc, OpAssumption
<1>4. ASSUME NEW o \in Op, BeginsCall(t, o)
      PROVE  CallersOK' /\ \A i \in Slot : fun[i] > 0 => \A u \in Thread : op'[u] # buf[i]
  BY <1>a, <1>b, <1>4, OpAssumption DEF BeginsCall, CallersOK, CallerOK, EnqueuePc, OpAssumption
<1> QED
  BY <1>1, <1>2, <1>3, <1>4

\* No enqueuer claims a place or leaves one.
SlotsStill ==
  /\ UNCHANGED <<fun, buf>>
  /\ \A t \in Thread : /\ pc'[t] \in Storers <=> pc[t] \in Storers
                       /\ pc[t] \in Storers => /\ pc'[t] = pc[t]
                                               /\ claim'[t] = claim[t] /\ op'[t] = op[t]

LEMMA SlotsKept ==
  ASSUME EntryInv, E!Next, SlotsStill, Session => Session', index' = index, Top' = Top
  PROVE  (\A t \in Thread : StorerOK(t)') /\ (\A i \in Slot : SlotOK(i)')
<1>1. (\A t \in Thread : StorerOK(t)) /\ (\A i \in Slot : SlotOK(i))
  BY DEF EntryInv
<1>2. ASSUME NEW t \in Thread PROVE StorerOK(t)'
  <2>1. StorerOK(t)
    BY <1>1
  <2> QED
    BY <2>1 DEF SlotsStill, StorerOK, Storers
<1>3. ASSUME NEW i \in Slot PROVE SlotOK(i)'
  <2>1. SlotOK(i)
    BY <1>1
  <2> QED
    BY <2>1, EntryCallers DEF SlotsStill, SlotOK, Slot
<1> QED
  BY <1>2, <1>3

LEMMA HelperStays ==
  ASSUME HelperAlone, NoHelper
  PROVE  HelperAlone' /\ Top' = Top /\ (Session' <=> Session) /\ index' = index
<1>1. (Session' <=> Session) /\ (Closing' <=> Closing)
  BY DEF NoHelper, Session, InSession, Closing
<1>2. Top' = Top
  BY <1>1 DEF NoHelper, Top
<1> QED
  BY <1>1, <1>2 DEF HelperAlone, NoHelper, InSession

LEMMA StorerSlot ==
  ASSUME EntryInv, NEW t \in Thread, pc[t] \in Storers
  PROVE  claim[t] \in Slot /\ fun[claim[t]] = 0
<1>1. SlotTypes /\ StorerOK(t)
  BY DEF EntryInv
<1>2. Top \in 0..ENTRIES /\ claim[t] \in 0..ENTRIES
  BY <1>1 DEF SlotTypes, Count, Top
<1>3. claim[t] < Top /\ fun[claim[t]] = 0
  BY <1>1 DEF StorerOK
<1> QED
  BY <1>2, <1>3, Counts DEF Slot

LEMMA EntryQuiet ==
  ASSUME EntryInv, E!Next, NEW t \in Thread,
         \/ \E o \in Op : E!Enqueue(t, o)
         \/ E!LookAtFlag(t) \/ E!Full(t) \/ E!OpenFlag(t) \/ E!NextRound(t)
  PROVE  EntryInv'
<1>1. SlotTypes /\ HelperAlone /\ pc \in [Thread -> Places]
  BY DEF EntryInv, SlotTypes
<1>2. NoHelper /\ SlotsStill
  <2> USE <1>1 DEF NoHelper, SlotsStill, Storers, SessionPc, SlotTypes, E!Go, E!enqueuer, E!flusher
  <2>1. CASE \E o \in Op : E!Enqueue(t, o)
    BY <2>1 DEF E!Enqueue
  <2>2. CASE E!LookAtFlag(t)
    BY <2>2 DEF E!LookAtFlag, E!Finish
  <2>3. CASE E!Full(t)
    BY <2>3 DEF E!Full, E!Finish
  <2>4. CASE E!OpenFlag(t) \/ E!NextRound(t)
    BY <2>4 DEF E!OpenFlag, E!NextRound
  <2> QED
    BY <2>1, <2>2, <2>3, <2>4
<1> QED
  BY <1>1, <1>2, SlotTypesStep, EntryCallers, HelperStays, SlotsKept DEF EntryInv

LEMMA EntryWrite ==
  ASSUME EntryInv, E!Next, NEW t \in Thread, E!Write(t)
  PROVE  EntryInv'
<1>1. /\ SlotTypes /\ HelperAlone /\ (\A u \in Thread : StorerOK(u)) /\ (\A i \in Slot : SlotOK(i))
      /\ index \in Int /\ Top \in Int
  BY DEF EntryInv, SlotTypes, Count, Top
<1>2. /\ pc[t] = "write" /\ pc' = [pc EXCEPT ![t] = "publish"]
      /\ buf' = [buf EXCEPT ![claim[t]] = op[t]]
      /\ UNCHANGED <<counter, fun, op, claim, index, todo, last>>
  BY <1>1 DEF E!Write, E!WriteParameters, E!Go, E!enqueuer, E!flusher, SlotTypes
<1>3. NoHelper
  BY <1>1, <1>2 DEF NoHelper, SessionPc, SlotTypes
<1>4. HelperAlone' /\ Top' = Top /\ (Session' <=> Session)
  BY <1>1, <1>3, HelperStays
<1>5. claim[t] \in Slot /\ fun[claim[t]] = 0
  BY <1>2, StorerSlot DEF Storers
<1>6. ASSUME NEW u \in Thread PROVE StorerOK(u)'
  <2>1. StorerOK(u) /\ StorerOK(t)
    BY <1>1
  <2>2. CASE u = t
    BY <1>1, <1>2, <1>4, <1>5, <2>1, <2>2 DEF StorerOK, Storers, SlotTypes
  <2>3. CASE u # t
    <3>1. pc'[u] = pc[u] /\ \A v \in Thread : pc'[v] \in Storers <=> pc[v] \in Storers
      BY <1>1, <1>2, <2>3 DEF SlotTypes, Storers
    <3>2. pc[u] \in Storers => claim[u] # claim[t] /\ claim[u] \in Slot
      BY <1>2, <2>1, <2>3, StorerSlot DEF StorerOK, Storers
    <3> QED
      BY <1>1, <1>2, <1>4, <2>1, <3>1, <3>2 DEF StorerOK, Storers, SlotTypes
  <2> QED
    BY <2>2, <2>3
<1>7. ASSUME NEW i \in Slot PROVE SlotOK(i)'
  <2>1. \A j \in Slot : fun[j] > 0 => buf'[j] = buf[j]
    BY <1>1, <1>2, <1>5 DEF SlotTypes
  <2>2. SlotOK(i)
    BY <1>1
  <2> QED
    BY <1>2, <1>4, <2>1, <2>2 DEF SlotOK, Slot
<1> QED
  BY <1>4, <1>6, <1>7, SlotTypesStep, EntryCallers DEF EntryInv

LEMMA EntryPublish ==
  ASSUME EntryInv, E!Next, NEW t \in Thread, E!Publish(t)
  PROVE  EntryInv'
<1>1. /\ SlotTypes /\ HelperAlone /\ CallersOK
      /\ (\A u \in Thread : StorerOK(u)) /\ (\A i \in Slot : SlotOK(i))
  BY DEF EntryInv
<1>2. /\ pc[t] = "publish" /\ pc' = [pc EXCEPT ![t] = "idle"]
      /\ op' = [op EXCEPT ![t] = NoOp] /\ claim' = [claim EXCEPT ![t] = 0]
      /\ fun' = [fun EXCEPT ![claim[t]] = 1]
      /\ UNCHANGED <<counter, buf, index, todo, last>>
  BY DEF E!Publish, E!StoreFunction, E!Finish, E!Go, E!flusher
<1>3. NoHelper
  BY <1>1, <1>2 DEF NoHelper, SessionPc, SlotTypes
<1>4. HelperAlone' /\ Top' = Top /\ (Session' <=> Session)
  BY <1>1, <1>3, HelperStays
<1>5. PICK i0 \in Slot : i0 = claim[t]
  BY <1>2, StorerSlot DEF Storers
<1>6. fun[i0] = 0 /\ buf[i0] = op[t] /\ Session /\ index <= i0 /\ i0 < Top /\ op[t] \in Op
  BY <1>1, <1>2, <1>5 DEF StorerOK, Storers, SlotTypes, CallersOK, CallerOK, EnqueuePc
<1>7. ASSUME NEW u \in Thread PROVE StorerOK(u)'
  <2>1. CASE u = t
    BY <1>1, <1>2, <2>1 DEF StorerOK, Storers, SlotTypes
  <2>2. CASE u # t
    <3>1. StorerOK(u) /\ pc'[u] = pc[u] /\ claim'[u] = claim[u] /\ op'[u] = op[u]
      BY <1>1, <1>2, <2>2 DEF SlotTypes
    <3>2. pc[u] \in Storers => claim[u] # i0
      BY <1>2, <1>5, <2>2, <3>1 DEF StorerOK, Storers
    <3>3. \A v \in Thread : pc'[v] \in Storers => v # t /\ pc[v] \in Storers /\ claim'[v] = claim[v]
      BY <1>1, <1>2 DEF SlotTypes, Storers
    <3>4. pc[u] \in Storers => fun'[claim[u]] = fun[claim[u]]
      BY <1>1, <1>2, <1>5, <3>2 DEF SlotTypes
    <3> QED
      BY <1>2, <1>4, <3>1, <3>3, <3>4 DEF StorerOK
  <2> QED
    BY <2>1, <2>2
<1>8. \A i \in Slot : fun'[i] = IF i = i0 THEN 1 ELSE fun[i]
  BY <1>1, <1>2, <1>5 DEF SlotTypes
<1>9. ASSUME NEW i \in Slot, fun'[i] > 0 PROVE SlotOK(i)'
  <2>1. \A u \in Thread : op'[u] # buf[i]
    <3>1. CASE i = i0
      BY <1>1, <1>2, <1>6, <3>1, OpAssumption DEF SlotTypes, CallersOK, CallerOK, OpAssumption
    <3>2. CASE i # i0
      BY <1>8, <1>9, <3>2, EntryCallers
    <3> QED
      BY <3>1, <3>2
  <2>2. \A j \in Slot : fun'[j] > 0 /\ buf[j] = buf[i] => j = i
    BY <1>1, <1>6, <1>8, <1>9 DEF SlotOK
  <2>3. Session /\ index <= i /\ i < Top /\ buf[i] \in Op
    BY <1>1, <1>6, <1>8, <1>9 DEF SlotOK
  <2> QED
    BY <1>2, <1>4, <2>1, <2>2, <2>3 DEF SlotOK, Slot
<1>10. \A i \in Slot : SlotOK(i)'
  BY <1>9 DEF SlotOK
<1> QED
  BY <1>4, <1>7, <1>10, SlotTypesStep, EntryCallers DEF EntryInv

\* The place that is claimed lies at the limit, which moves beyond it.
LEMMA EntryClaim ==
  ASSUME EntryInv, E!Next, NEW t \in Thread, E!Claim(t)
  PROVE  EntryInv'
<1>1. /\ SlotTypes /\ HelperAlone
      /\ (\A u \in Thread : StorerOK(u)) /\ (\A i \in Slot : SlotOK(i))
      /\ pc \in [Thread -> Places]
  BY DEF EntryInv, SlotTypes
<1>2. /\ pc[t] = "claim" /\ pc' = [pc EXCEPT ![t] = "write"]
      /\ claim' = [claim EXCEPT ![t] = counter]
      /\ counter < ENTRIES /\ counter' = IF counter + 1 < ENTRIES THEN counter + 1 ELSE ENTRIES
      /\ UNCHANGED <<fun, buf, op, index, todo, last>>
  BY DEF E!Claim, E!ClaimSpace, E!Go, E!flusher
<1>3. counter \in Nat /\ counter \in Slot /\ counter' = counter + 1
  <2>1. counter \in Nat
    BY <1>1 DEF SlotTypes, Count
  <2>2. counter \in Slot
    BY <1>2, <2>1, Counts DEF Slot
  <2>3. counter' = counter + 1
    BY <1>2, <2>1, Counts
  <2> QED
    BY <2>1, <2>2, <2>3
<1>4. Session /\ ~Closing /\ Top = counter
  BY <1>1, <1>2, <1>3, Counts DEF HelperAlone, Top
<1>5. /\ \A u \in Thread : InSession(u)' <=> InSession(u)
      /\ \A u \in Thread : pc'[u] = "scan" <=> pc[u] = "scan"
      /\ (Session' <=> Session) /\ (Closing' <=> Closing)
  BY <1>1, <1>2 DEF InSession, SessionPc, Session, Closing
<1>6. Top' = counter + 1
  BY <1>3, <1>4, <1>5 DEF Top
<1>7. HelperAlone'
  <2>1. \A u \in Thread : pc'[u] = "scan" => todo <= Top'
    BY <1>1, <1>3, <1>4, <1>5, <1>6 DEF HelperAlone, Closing, SlotTypes, Count
  <2>2. index <= Top'
    BY <1>1, <1>3, <1>4, <1>6 DEF HelperAlone, SlotTypes, Count
  <2> QED
    BY <1>1, <1>2, <1>4, <1>5, <2>1, <2>2 DEF HelperAlone
<1>8. fun[counter] = 0 /\ \A u \in Thread : pc[u] \in Storers => claim[u] # counter
  <2>1. ~(fun[counter] > 0)
    BY <1>3, <1>1, <1>4 DEF SlotOK
  <2>2. fun[counter] \in {0, 1}
    BY <1>3, <1>1 DEF SlotTypes
  <2>3. ASSUME NEW u \in Thread, pc[u] \in Storers PROVE claim[u] # counter
    BY <1>3, <1>1, <1>4, <2>3 DEF StorerOK
  <2> QED
    BY <2>1, <2>2, <2>3
<1>9. ASSUME NEW u \in Thread PROVE StorerOK(u)'
  <2>1. StorerOK(u) /\ \A v \in Thread \ {t} : pc'[v] = pc[v] /\ claim'[v] = claim[v]
    BY <1>1, <1>2 DEF SlotTypes
  <2>2. claim'[t] = counter /\ pc'[t] = "write" /\ pc[t] \notin Storers
    BY <1>1, <1>2 DEF SlotTypes, Storers
  <2>3. index <= counter
    BY <1>1, <1>4 DEF HelperAlone
  <2>4. CASE u = t
    BY <1>2, <1>3, <1>4, <1>5, <1>6, <1>8, <2>1, <2>2, <2>3, <2>4 DEF StorerOK
  <2>5. CASE u # t
    <3>1. pc[u] \in Storers => claim[u] < Top'
      BY <1>1, <1>3, <1>4, <1>6, <2>1 DEF StorerOK, SlotTypes, Count
    <3> QED
      BY <1>2, <1>4, <1>5, <1>8, <2>1, <2>2, <2>5, <3>1 DEF StorerOK
  <2> QED
    BY <2>4, <2>5
<1>10. ASSUME NEW i \in Slot, fun[i] > 0 PROVE SlotOK(i)'
  <2>1. SlotOK(i) /\ i < Top'
    BY <1>1, <1>3, <1>4, <1>6, <1>10 DEF SlotOK, Slot
  <2> QED
    BY <1>2, <1>4, <1>5, <1>10, <2>1, EntryCallers DEF SlotOK, Slot
<1>11. \A i \in Slot : SlotOK(i)'
  BY <1>2, <1>10 DEF SlotOK
<1> QED
  BY <1>7, <1>9, <1>11, SlotTypesStep, EntryCallers DEF EntryInv

\* The steps of the helper that store nothing.
LEMMA EntryHelper ==
  ASSUME EntryInv, E!Next, NEW t \in Thread,
         E!OpenCounter(t) \/ E!Load(t) \/ E!Close(t) \/ E!CloseFlag(t)
  PROVE  EntryInv'
<1>1. /\ SlotTypes /\ HelperAlone
      /\ (\A u \in Thread : StorerOK(u)) /\ (\A i \in Slot : SlotOK(i))
  BY DEF EntryInv
<1>2. /\ counter \in Nat /\ counter <= ENTRIES /\ index \in Nat /\ todo \in Nat /\ last \in BOOLEAN
      /\ pc \in [Thread -> Places] /\ ENTRIES \in Nat /\ Top \in Nat
  BY <1>1, Counts DEF SlotTypes, Count, Top
<1>3. SlotsStill
  BY <1>2 DEF SlotsStill, Storers, E!OpenCounter, E!Load, E!LoadCounter, E!Close, E!CloseCounter,
     E!CloseFlag, E!Go, E!enqueuer
<1>4. CASE E!OpenCounter(t)
  <2>1. /\ ~Session /\ ~last /\ pc' = [pc EXCEPT ![t] = "openFlag"] /\ counter' = 0
        /\ UNCHANGED <<fun, buf, index, todo, last>>
    BY <1>1, <1>4 DEF E!OpenCounter, E!Go, Session, InSession, E!InSession, HelperAlone,
       SessionPc, E!SessionPc, E!enqueuer, E!flusher
  <2>2. Session' /\ ~Closing' /\ \A u \in Thread : InSession(u)' => u = t
    BY <1>2, <2>1 DEF Session, InSession, SessionPc, Closing
  <2>3. Top' = 0 /\ index = 0
    BY <1>1, <2>1, <2>2 DEF Top, HelperAlone
  <2>4. HelperAlone'
    BY <1>2, <2>1, <2>2, <2>3 DEF HelperAlone, InSession, SessionPc
  <2>5. (\A u \in Thread : StorerOK(u)') /\ (\A i \in Slot : SlotOK(i)')
    BY <1>1, <1>3, <2>1 DEF StorerOK, SlotOK, SlotsStill, Slot
  <2> QED
    BY <2>4, <2>5, SlotTypesStep, EntryCallers DEF EntryInv
<1>5. CASE E!Load(t) \/ E!Close(t) \/ E!CloseFlag(t)
  <2>1. /\ pc[t] \in {"load", "close", "closeFlag"} /\ pc'[t] \in {"close", "closeFlag", "scan"}
        /\ \A u \in Thread \ {t} : pc'[u] = pc[u]
        /\ index' = index
    BY <1>2, <1>5 DEF E!Load, E!LoadCounter, E!Close, E!CloseCounter, E!CloseFlag, E!Go
  <2>2. ~last /\ \A u \in Thread : InSession(u) => u = t
    BY <1>1, <2>1 DEF HelperAlone, InSession, SessionPc
  <2>3. Session /\ Session' /\ \A u \in Thread : InSession(u)' => u = t
    BY <2>1, <2>2 DEF Session, InSession, SessionPc
  <2>4. /\ Closing <=> pc[t] = "closeFlag"
        /\ Closing' <=> last' \/ pc'[t] = "closeFlag"
    BY <2>1, <2>2 DEF Closing, InSession, SessionPc
  <2>5. /\ Top' = Top
        /\ last' => pc'[t] = "scan"
        /\ pc'[t] = "scan" /\ ~last' => todo' <= Top
        /\ Closing' => counter' = ENTRIES
    <3>1. CASE E!Load(t)
      <4>1. /\ pc[t] = "load" /\ UNCHANGED <<counter, last>>
            /\ pc' = [pc EXCEPT ![t] = IF counter = index THEN "close"
                                       ELSE IF counter >= ENTRIES THEN "closeFlag" ELSE "scan"]
            /\ todo' = IF counter >= ENTRIES THEN ENTRIES ELSE counter
        BY <3>1 DEF E!Load, E!LoadCounter, E!Go
      <4>2. todo' = counter /\ Top = counter
        BY <1>2, <2>4, <4>1 DEF Top
      <4>3. pc'[t] = "closeFlag" => counter = ENTRIES
        BY <1>2, <4>1
      <4>4. Top' = counter
        BY <4>1, <4>2 DEF Top
      <4> QED
        BY <1>2, <2>2, <2>4, <4>1, <4>2, <4>3, <4>4
    <3>2. CASE E!Close(t)
      <4>1. /\ pc[t] = "close" /\ last' = last /\ counter' = ENTRIES
            /\ pc' = [pc EXCEPT ![t] = "closeFlag"]
            /\ todo' = IF counter >= ENTRIES THEN ENTRIES ELSE counter
        BY <3>2 DEF E!Close, E!CloseCounter, E!Go
      <4>2. todo' = Top /\ pc'[t] = "closeFlag" /\ Closing'
        BY <1>2, <2>4, <4>1 DEF Top
      <4> QED
        BY <2>2, <4>1, <4>2 DEF Top
    <3>3. CASE E!CloseFlag(t)
      <4>1. /\ pc[t] = "closeFlag" /\ last' /\ UNCHANGED <<counter, todo>>
            /\ pc' = [pc EXCEPT ![t] = "scan"]
        BY <3>3 DEF E!CloseFlag, E!Go, E!enqueuer
      <4>2. Closing /\ Closing' /\ pc'[t] = "scan"
        BY <1>2, <2>4, <4>1
      <4> QED
        BY <1>1, <4>1, <4>2 DEF Top, HelperAlone
    <3> QED
      BY <1>5, <3>1, <3>2, <3>3
  <2>6. HelperAlone'
    BY <1>1, <2>1, <2>3, <2>5 DEF HelperAlone, InSession, SessionPc
  <2>7. (\A u \in Thread : StorerOK(u)') /\ (\A i \in Slot : SlotOK(i)')
    BY <1>3, <2>1, <2>3, <2>5, SlotsKept
  <2> QED
    BY <2>6, <2>7, SlotTypesStep, EntryCallers DEF EntryInv
<1> QED
  BY <1>4, <1>5

LEMMA EntryRun ==
  ASSUME EntryInv, E!Next, NEW t \in Thread, E!Run(t)
  PROVE  /\ EntryInv' /\ index \in Slot /\ fun[index] > 0 /\ buf[index] \in Op /\ Session /\ Session'
         /\ buf' = [buf EXCEPT ![index] = NoOp]
         /\ \A i \in Slot : fun'[i] = IF i = index THEN 0 ELSE fun[i]
<1>1. /\ SlotTypes /\ HelperAlone
      /\ (\A u \in Thread : StorerOK(u)) /\ (\A i \in Slot : SlotOK(i))
  BY DEF EntryInv
<1>2. /\ pc[t] = "scan" /\ pc' = pc /\ index < todo /\ fun[index] # 0
      /\ fun' = [i \in Slot |-> IF i \in index .. index + 1 - 1 THEN 0 ELSE fun[i]]
      /\ buf' = [buf EXCEPT ![index] = NoOp] /\ index' = index + 1
      /\ UNCHANGED <<counter, op, claim, todo, last>>
  BY <1>1 DEF E!Run, E!RunEntry, E!Go, E!enqueuer, SlotTypes
<1>3. PICK i0 \in Slot : i0 = index
  BY <1>1, <1>2, Counts DEF SlotTypes, Count, Slot
<1>4. \A i \in Slot : fun'[i] = IF i = i0 THEN 0 ELSE fun[i]
  BY <1>2, <1>3 DEF Slot
<1>5. fun[i0] > 0 /\ buf[i0] \in Op
  BY <1>1, <1>2, <1>3 DEF SlotTypes, SlotOK
<1>6. Session /\ Session' /\ (Closing' <=> Closing) /\ Top' = Top
  BY <1>2 DEF Session, InSession, SessionPc, Closing, Top
<1>7. Top \in Nat /\ index + 1 <= Top
  <2>1. todo <= Top /\ Top \in Nat /\ todo \in Nat /\ index \in Nat
    BY <1>1, <1>2 DEF HelperAlone, Closing, Top, SlotTypes, Count
  <2> QED
    BY <1>2, <2>1
<1>8. HelperAlone'
  BY <1>1, <1>2, <1>6, <1>7 DEF HelperAlone, InSession, SessionPc
<1>9. ASSUME NEW u \in Thread PROVE StorerOK(u)'
  <2>1. StorerOK(u)
    BY <1>1
  <2>2. pc[u] \in Storers => /\ claim[u] \in Slot /\ claim[u] # i0
                            /\ fun'[claim[u]] = 0 /\ buf'[claim[u]] = buf[claim[u]]
    BY <1>1, <1>2, <1>3, <1>4, <1>5, StorerSlot DEF SlotTypes
  <2>3. pc[u] \in Storers => index' <= claim[u]
    BY <1>2, <1>3, <2>1, <2>2 DEF StorerOK, Slot
  <2> QED
    BY <1>2, <1>6, <2>1, <2>2, <2>3 DEF StorerOK, Storers
<1>10. ASSUME NEW i \in Slot, fun'[i] > 0 PROVE SlotOK(i)'
  <2>1. i # i0 /\ fun'[i] = fun[i] /\ SlotOK(i) /\ fun[i] > 0
    BY <1>1, <1>4, <1>10
  <2>2. index' <= i
    BY <1>2, <1>3, <2>1 DEF SlotOK, Slot
  <2>3. \A j \in Slot : fun'[j] > 0 => fun[j] > 0 /\ buf'[j] = buf[j]
    BY <1>1, <1>2, <1>3, <1>4 DEF SlotTypes
  <2> QED
    BY <1>2, <1>6, <1>10, <2>1, <2>2, <2>3 DEF SlotOK, Slot
<1>11. \A i \in Slot : SlotOK(i)'
  BY <1>10 DEF SlotOK
<1>12. EntryInv'
  BY <1>8, <1>9, <1>11, SlotTypesStep, EntryCallers DEF EntryInv
<1> QED
  BY <1>2, <1>3, <1>4, <1>5, <1>6, <1>12

LEMMA EntryFlushEnd ==
  ASSUME EntryInv, E!Next, NEW t \in Thread, E!FlushEnd(t)
  PROVE  /\ EntryInv' /\ Session /\ ~Session' /\ UNCHANGED <<fun, buf>>
         /\ \A i \in Slot : fun[i] = 0
<1>1. /\ SlotTypes /\ HelperAlone
      /\ (\A u \in Thread : StorerOK(u)) /\ (\A i \in Slot : SlotOK(i))
  BY DEF EntryInv
<1>2. /\ pc[t] = "scan" /\ pc' = [pc EXCEPT ![t] = "idle"] /\ pc \in [Thread -> Places]
      /\ index >= todo /\ last /\ index' = 0 /\ last' = FALSE
      /\ UNCHANGED <<counter, fun, buf, op, claim>>
  BY <1>1 DEF E!FlushEnd, E!FlushReturns, E!Go, E!enqueuer, SlotTypes
<1>3. Session /\ Closing /\ Top = todo /\ counter = ENTRIES
  BY <1>1, <1>2 DEF Session, InSession, SessionPc, Closing, Top, HelperAlone
<1>4. \A i \in Slot : fun[i] = 0
  BY <1>1, <1>2, <1>3 DEF SlotOK, SlotTypes, Count, Slot
<1>5. \A u \in Thread : pc[u] \notin Storers
  BY <1>1, <1>2, <1>3 DEF StorerOK, SlotTypes, Count
<1>6. \A u \in Thread : pc'[u] \notin SessionPc /\ pc'[u] \notin Storers
  BY <1>1, <1>2, <1>5 DEF HelperAlone, InSession, SessionPc, Storers
<1>7. ~Session' /\ ~Closing' /\ Top' = ENTRIES
  BY <1>2, <1>3, <1>6 DEF Session, InSession, Closing, SessionPc, Top
<1>8. HelperAlone'
  BY <1>2, <1>3, <1>6, <1>7, Counts DEF HelperAlone, InSession, SessionPc
<1>9. (\A u \in Thread : StorerOK(u)') /\ (\A i \in Slot : SlotOK(i)')
  BY <1>2, <1>4, <1>6 DEF StorerOK, SlotOK, Slot
<1> QED
  BY <1>2, <1>3, <1>4, <1>7, <1>8, <1>9, SlotTypesStep, EntryCallers DEF EntryInv

LEMMA EntryStep ==
  ASSUME EntryInv, E!Next
  PROVE  EntryInv'
<1> PICK t \in Thread :
      \/ \E o \in Op : E!Enqueue(t, o)
      \/ E!LookAtFlag(t) \/ E!Full(t) \/ E!OpenFlag(t) \/ E!NextRound(t)
      \/ E!Claim(t) \/ E!Write(t) \/ E!Publish(t)
      \/ E!OpenCounter(t) \/ E!Load(t) \/ E!Close(t) \/ E!CloseFlag(t)
      \/ E!Run(t) \/ E!FlushEnd(t)
  BY EntryKinds
<1> QED
  BY EntryQuiet, EntryClaim, EntryWrite, EntryPublish, EntryHelper, EntryRun, EntryFlushEnd

LEMMA EntryStutter ==
  ASSUME EntryInv, UNCHANGED queueVars
  PROVE  EntryInv'
<1>1. UNCHANGED <<counter, closed, fun, buf, pc, op, claim, index, todo, last>>
  BY DEF queueVars, enqueuer, flusher
<1>2. SlotTypes'
  BY <1>1 DEF EntryInv, SlotTypes
<1>3. CallersOK' /\ HelperAlone'
  BY <1>1 DEF EntryInv, CallersOK, CallerOK, HelperAlone, InSession, Session, Closing, Top
<1>4. (\A u \in Thread : StorerOK(u)') /\ (\A i \in Slot : SlotOK(i)')
  BY <1>1 DEF EntryInv, StorerOK, SlotOK, Slot, InSession, Session, Closing, Top
<1> QED
  BY <1>2, <1>3, <1>4 DEF EntryInv

-----------------------------------------------------------------------------
(* What the steps mean for the promise of TantrumQueue *)

\* The steps of the promise and the stutter, in terms of the mapping.
Promise ==
  \/ ~Session /\ Session' /\ Stored' = Stored
  \/ \E o \in Op : Session /\ o \notin Stored /\ Stored' = Stored \cup {o} /\ (Session' <=> Session)
  \/ \E o \in Op : Session /\ o \in Stored /\ Stored' = Stored \ {o} /\ (Session' <=> Session)
  \/ Session /\ Stored = {} /\ ~Session' /\ Stored' = Stored
  \/ (Session' <=> Session) /\ Stored' = Stored

LEMMA PromiseMeaning == Promise => [Tantrum!Next]_<<\E t \in Thread : InSession(t), Stored>>
<1> SUFFICES ASSUME Promise
             PROVE  Tantrum!Next \/ UNCHANGED <<\E t \in Thread : InSession(t), Stored>>
  OBVIOUS
<1> USE DEF Session
<1>1. CASE ~Session /\ Session' /\ Stored' = Stored
  BY <1>1 DEF Tantrum!Next, Tantrum!Open
<1>2. CASE \E o \in Op : Session /\ o \notin Stored /\ Stored' = Stored \cup {o} /\ (Session' <=> Session)
  BY <1>2 DEF Tantrum!Next, Tantrum!Accept
<1>3. CASE \E o \in Op : Session /\ o \in Stored /\ Stored' = Stored \ {o} /\ (Session' <=> Session)
  BY <1>3 DEF Tantrum!Next, Tantrum!Run
<1>4. CASE Session /\ Stored = {} /\ ~Session' /\ Stored' = Stored
  BY <1>4 DEF Tantrum!Next, Tantrum!Close
<1>5. CASE (Session' <=> Session) /\ Stored' = Stored
  BY <1>5
<1> QED
  BY <1>1, <1>2, <1>3, <1>4, <1>5 DEF Promise

\* What is stored, place by place.
LEMMA StoredSame ==
  ASSUME DOMAIN fun' = DOMAIN fun,
         \A i \in DOMAIN fun : (fun'[i] > 0 <=> fun[i] > 0) /\ (fun[i] > 0 => buf'[i] = buf[i])
  PROVE  Stored' = Stored
  BY DEF Stored

LEMMA StoredMore ==
  ASSUME DOMAIN fun' = DOMAIN fun, NEW i \in DOMAIN fun, ~(fun[i] > 0), fun'[i] > 0, buf' = buf,
         \A j \in DOMAIN fun : j # i => fun'[j] = fun[j]
  PROVE  Stored' = Stored \cup {buf[i]}
  BY DEF Stored

LEMMA StoredLess ==
  ASSUME DOMAIN fun' = DOMAIN fun, NEW i \in DOMAIN fun, fun[i] > 0, ~(fun'[i] > 0),
         \A j \in DOMAIN fun : j # i => /\ fun'[j] > 0 <=> fun[j] > 0
                                        /\ fun[j] > 0 => buf'[j] = buf[j] /\ buf[j] # buf[i]
  PROVE  Stored' = Stored \ {buf[i]} /\ buf[i] \in Stored
  BY DEF Stored

LEMMA BufferPromise ==
  ASSUME BufferInv, HaveParameters, Next
  PROVE  Promise
<1> PICK t \in Thread : \/ Register(t) \/ Quiet(t) \/ Enqueues(t)
                        \/ Stores(t) \/ Begins(t) \/ Takes(t)
  BY KindsOfSteps
<1>1. /\ ArrayTypes /\ TypeOK /\ DOMAIN fun = Place /\ Disjoint /\ EntriesOK /\ WritersOK /\ CallersOK
      /\ HelperOK /\ SpanOK /\ pc \in [Thread -> Places]
  BY Types DEF BufferInv, ArrayOK, ArrayTypes
<1>2. ArrayTypes' /\ DOMAIN fun' = Place
  BY BufferStep, TypesNext DEF BufferInv, ArrayTypes, Place
<1>3. CASE Register(t) \/ Quiet(t) \/ Enqueues(t)
  <2>1. (Session' <=> Session)
    BY <1>1, <1>3, NoHelperSteps, NoHelperOK
  <2>2. Still
    BY <1>1, <1>3, StillSteps
  <2> QED
    BY <2>1, <2>2, StoredSame DEF Still, Promise
<1>4. CASE Begins(t)
  <2>1. Stored' = Stored
    BY <1>1, <1>4, StillSteps, StoredSame DEF Still
  <2>2. CASE OpenCounter(t)
    <3>1. ~Session /\ Session'
      BY <1>1, <2>2 DEF OpenCounter, Go, Session, InSession, SessionPc
    <3> QED
      BY <2>1, <3>1 DEF Promise
  <2>3. CASE Load(t) \/ Close(t) \/ CloseFlag(t)
    <3>1. Session /\ Session'
      <4>1. pc[t] \in SessionPc /\ pc'[t] \in SessionPc
        BY <1>1, <2>3 DEF Load, LoadCounter, Close, CloseCounter, CloseFlag, Go, SessionPc
      <4> QED
        BY <4>1 DEF Session, InSession
    <3> QED
      BY <2>1, <3>1 DEF Promise
  <2> QED
    BY <1>4, <2>2, <2>3 DEF Begins
<1>5. CASE Claim(t)
  <2>1. UNCHANGED <<fun, buf>> /\ (Session' <=> Session)
    BY <1>1, <1>5 DEF Claim, ClaimSpace, Go, Session, InSession, SessionPc
  <2> QED
    BY <2>1, StoredSame DEF Promise
<1>6. CASE Write(t)
  <2>1. Session' <=> Session
    BY <1>1, <1>6, NoHelperSteps, NoHelperOK
  <2>2. /\ pc[t] = "write" /\ buf' = [buf EXCEPT ![claim[t]] = op[t]]
        /\ fun' = [i \in Place |-> IF i \in claim[t] + WORD .. claim[t] + SizeOf[Of(t)] - 1
                                   THEN Parameters ELSE fun[i]]
    BY <1>1, <1>6 DEF Write, WriteParameters, Go
  <2>3. /\ claim[t] \in Place /\ fun[claim[t]] = 0 /\ End(t) = claim[t] + SizeOf[Of(t)]
        /\ SizeOf[Of(t)] \in Nat
    BY <2>2, WriterTile, Constants DEF Writing, End
  <2>4. ASSUME NEW i \in Place
        PROVE  (fun'[i] > 0 <=> fun[i] > 0) /\ (fun[i] > 0 => buf'[i] = buf[i])
    <3>1. CASE i \in claim[t] + WORD .. claim[t] + SizeOf[Of(t)] - 1
      <4>1. i > claim[t] /\ i < End(t)
        BY <2>3, <3>1, Constants DEF Place
      <4>2. ~(fun[i] > 0)
        BY <2>2, <2>3, <4>1, WriterAlone DEF Writing, Place
      <4> QED
        BY <2>2, <3>1, <4>2 DEF Parameters
    <3>2. CASE i \notin claim[t] + WORD .. claim[t] + SizeOf[Of(t)] - 1
      BY <1>1, <2>2, <2>3, <3>2 DEF ArrayTypes
    <3> QED
      BY <3>1, <3>2
  <2> QED
    BY <1>1, <1>2, <2>1, <2>4, StoredSame DEF Promise
<1>7. CASE Mark(t)
  <2>1. Session' <=> Session
    BY <1>1, <1>7, NoHelperSteps, NoHelperOK
  <2>2. pc[t] \in Writing /\ fun' = [fun EXCEPT ![claim[t]] = Marker] /\ buf' = buf
    BY <1>7 DEF Mark, Go, Writing
  <2>3. \A i \in Place : (fun'[i] > 0 <=> fun[i] > 0)
    BY <1>1, <2>2, WriterTile DEF ArrayTypes, Marker
  <2> QED
    BY <1>1, <1>2, <2>1, <2>2, <2>3, StoredSame DEF Promise
<1>8. CASE Publish(t)
  <2>1. Session' <=> Session
    BY <1>1, <1>8, NoHelperSteps, NoHelperOK
  <2>2. pc[t] = "publish" /\ fun' = [fun EXCEPT ![claim[t]] = rev_functions[Of(t)]] /\ buf' = buf
    BY <1>8 DEF Publish, StoreFunction, Finish, Go
  <2>3. /\ claim[t] \in Place /\ fun[claim[t]] = 0 /\ op[t] \in Op /\ Of(t) \in Function
        /\ Tile(claim[t], End(t)) /\ End(t) \in Border
    BY <2>2, WriterTile DEF Writing
  <2>4. rev_functions[Of(t)] > 0
    BY <2>2, <2>3, Types, Constants DEF BufferInv, RegistryOK, NumberOK, Registered, RegistryTypes
  <2>5. buf[claim[t]] = op[t]
    BY <1>1, <2>2 DEF WritersOK, WriterOK
  <2>6. Stored' = Stored \cup {op[t]}
    <3>1. /\ fun'[claim[t]] > 0 /\ ~(fun[claim[t]] > 0)
          /\ \A j \in DOMAIN fun : j # claim[t] => fun'[j] = fun[j]
      BY <1>1, <2>2, <2>3, <2>4 DEF ArrayTypes
    <3> QED
      BY <1>1, <1>2, <2>2, <2>3, <2>5, <3>1, StoredMore
  <2>7. op[t] \notin Stored
    BY <1>1 DEF Stored, EntriesOK, EntryOK
  <2>8. Session
    BY <1>1, <2>3 DEF SpanOK
  <2> QED
    BY <2>1, <2>3, <2>6, <2>7, <2>8 DEF Promise
<1>9. CASE Run(t)
  <2>1. pc[t] = "scan" /\ index < todo /\ fun[index] \notin {0, Marker}
    BY <1>9 DEF Run, RunEntry, Go
  <2>2. PICK i0 \in Place : i0 = index
    BY <2>1, AtEntry
  <2>3. PICK e0 \in Border : e0 = index + SizeOf[FunctionOf[buf[index]]]
    BY <2>1, AtEntry
  <2>4. /\ Tile(i0, e0) /\ fun[i0] > 0 /\ SizeCalled(fun[index]) = e0 - i0 /\ i0 < e0
        /\ buf[i0] \in Op
    BY <2>1, <2>2, <2>3, AtEntry, Constants DEF Place, Border
  <2>5. buf' = [buf EXCEPT ![i0] = NoOp] /\ (Session' <=> Session) /\ Session
    BY <1>1, <1>9, <2>1, <2>2 DEF Run, RunEntry, Go, Session, InSession, SessionPc
  <2>6. \A i \in Place : fun'[i] = IF i \in i0 .. e0 - 1 THEN 0 ELSE fun[i]
    <3>1. index .. index + SizeCalled(fun[index]) - 1 = i0 .. e0 - 1
      BY <2>2, <2>4 DEF Place, Border
    <3> QED
      BY <1>1, <1>9, <3>1 DEF Run, RunEntry
  <2>7. ~(fun'[i0] > 0)
    BY <2>4, <2>6 DEF Place, Border
  <2>8. ASSUME NEW j \in Place, j # i0
        PROVE  /\ fun'[j] > 0 <=> fun[j] > 0
               /\ fun[j] > 0 => buf'[j] = buf[j] /\ buf[j] # buf[i0]
    <3>1. CASE fun[j] > 0
      <4>1. buf[j] \in Op /\ j + SizeOf[FunctionOf[buf[j]]] <= ARRAY_SIZE
        BY <1>1, <3>1 DEF EntriesOK, EntryOK
      <4>2. j + SizeOf[FunctionOf[buf[j]]] \in Border
        BY <4>1, Constants DEF Place, Border
      <4>3. Tile(j, j + SizeOf[FunctionOf[buf[j]]])
        BY <3>1 DEF Tile
      <4>4. index <= j
        BY <1>1, <4>2, <4>3 DEF SpanOK
      <4>5. j >= e0
        BY <1>1, <2>2, <2>4, <2>8, <4>2, <4>3, <4>4 DEF Disjoint, Place
      <4>6. buf[j] # buf[i0]
        BY <1>1, <2>4, <2>8, <3>1 DEF EntriesOK, EntryOK
      <4> QED
        BY <1>1, <2>5, <2>6, <2>8, <4>5, <4>6 DEF ArrayTypes, Place, Border
    <3>2. CASE ~(fun[j] > 0)
      BY <2>6, <3>2
    <3> QED
      BY <3>1, <3>2
  <2>9. Stored' = Stored \ {buf[i0]} /\ buf[i0] \in Stored
    BY <1>1, <1>2, <2>4, <2>7, <2>8, StoredLess
  <2> QED
    BY <2>4, <2>5, <2>9 DEF Promise
<1>10. CASE FindMarker(t) \/ FlushEnd(t)
  <2>1. /\ pc[t] = "scan" /\ pc' = [pc EXCEPT ![t] = "idle"]
        /\ \A i \in Place : fun'[i] > 0 => fun[i] > 0
    BY <1>1, <1>10 DEF FindMarker, FlushEnd, FlushReturns, Go, ArrayTypes
  <2>2. Session /\ ~Session'
    BY <1>1, <2>1 DEF HelperOK, Session, InSession, SessionPc
  <2>3. \A i \in Place : ~(fun[i] > 0)
    BY <1>10, ArrayFindMarker, ArrayFlushEnd
  <2>4. Stored = {} /\ Stored' = {}
    BY <1>1, <1>2, <2>1, <2>3 DEF Stored
  <2> QED
    BY <2>2, <2>4 DEF Promise
<1> QED
  BY <1>3, <1>4, <1>5, <1>6, <1>7, <1>8, <1>9, <1>10 DEF Stores, Takes

LEMMA EntryPromise ==
  ASSUME EntryInv, E!Next
  PROVE  Promise
<1> PICK t \in Thread :
      \/ \E o \in Op : E!Enqueue(t, o)
      \/ E!LookAtFlag(t) \/ E!Full(t) \/ E!OpenFlag(t) \/ E!NextRound(t)
      \/ E!Claim(t) \/ E!Write(t) \/ E!Publish(t)
      \/ E!OpenCounter(t) \/ E!Load(t) \/ E!Close(t) \/ E!CloseFlag(t)
      \/ E!Run(t) \/ E!FlushEnd(t)
  BY EntryKinds
<1>1. /\ SlotTypes /\ DOMAIN fun = Slot /\ pc \in [Thread -> Places] /\ HelperAlone
      /\ (\A u \in Thread : StorerOK(u)) /\ (\A i \in Slot : SlotOK(i)) /\ CallersOK
  BY DEF EntryInv, SlotTypes
<1>2. DOMAIN fun' = Slot
  BY SlotTypesStep DEF SlotTypes, Slot
<1>3. CASE \/ \E o \in Op : E!Enqueue(t, o)
           \/ E!LookAtFlag(t) \/ E!Full(t) \/ E!OpenFlag(t) \/ E!NextRound(t) \/ E!Claim(t)
  <2>1. UNCHANGED <<fun, buf>>
    BY <1>3 DEF E!Enqueue, E!LookAtFlag, E!Full, E!OpenFlag, E!NextRound, E!Claim, E!ClaimSpace
  <2>2. Session' <=> Session
    <3> USE <1>1 DEF Session, InSession, SessionPc, E!Go
    <3>1. CASE \E o \in Op : E!Enqueue(t, o)
      BY <3>1 DEF E!Enqueue
    <3>2. CASE E!LookAtFlag(t) \/ E!Full(t) \/ E!Claim(t)
      BY <3>2 DEF E!LookAtFlag, E!Full, E!Finish, E!Claim, E!ClaimSpace
    <3>3. CASE E!OpenFlag(t) \/ E!NextRound(t)
      BY <3>3 DEF E!OpenFlag, E!NextRound
    <3> QED
      BY <1>3, <3>1, <3>2, <3>3
  <2> QED
    BY <2>1, <2>2, StoredSame DEF Promise
<1>4. CASE E!OpenCounter(t) \/ E!Load(t) \/ E!Close(t) \/ E!CloseFlag(t)
  <2>1. UNCHANGED <<fun, buf>> /\ Session'
    <3>1. pc'[t] \in SessionPc
      BY <1>1, <1>4 DEF E!OpenCounter, E!Load, E!LoadCounter, E!Close, E!CloseCounter, E!CloseFlag,
         E!Go, SessionPc
    <3> QED
      BY <1>4, <3>1 DEF E!OpenCounter, E!Load, E!LoadCounter, E!Close, E!CloseCounter, E!CloseFlag,
         Session, InSession
  <2> QED
    BY <2>1, StoredSame DEF Promise
<1>5. CASE E!Write(t)
  <2>1. /\ pc[t] = "write" /\ pc' = [pc EXCEPT ![t] = "publish"]
        /\ fun' = fun /\ buf' = [buf EXCEPT ![claim[t]] = op[t]]
    BY <1>1, <1>5 DEF E!Write, E!WriteParameters, E!Go, SlotTypes
  <2>2. Session' <=> Session
    BY <1>1, <2>1 DEF Session, InSession, SessionPc
  <2>3. \A i \in Slot : fun[i] > 0 => buf'[i] = buf[i]
    BY <1>1, <2>1, StorerSlot DEF Storers, SlotTypes
  <2> QED
    BY <1>1, <2>1, <2>2, <2>3, StoredSame DEF Promise
<1>6. CASE E!Publish(t)
  <2>1. /\ pc[t] = "publish" /\ pc' = [pc EXCEPT ![t] = "idle"] /\ buf' = buf
        /\ fun' = [fun EXCEPT ![claim[t]] = 1]
    BY <1>6 DEF E!Publish, E!StoreFunction, E!Finish, E!Go
  <2>2. /\ claim[t] \in Slot /\ fun[claim[t]] = 0 /\ Session /\ buf[claim[t]] = op[t]
        /\ op[t] \in Op
    BY <1>1, <2>1, StorerSlot DEF Storers, StorerOK, CallersOK, CallerOK, EnqueuePc, SlotTypes
  <2>3. Session' <=> Session
    BY <1>1, <2>1 DEF Session, InSession, SessionPc
  <2>4. /\ fun'[claim[t]] > 0 /\ ~(fun[claim[t]] > 0)
        /\ \A j \in DOMAIN fun : j # claim[t] => fun'[j] = fun[j]
    BY <1>1, <2>1, <2>2 DEF SlotTypes
  <2>5. Stored' = Stored \cup {op[t]}
    BY <1>1, <1>2, <2>1, <2>2, <2>4, StoredMore
  <2>6. op[t] \notin Stored
    BY <1>1 DEF Stored, SlotOK
  <2> QED
    BY <2>2, <2>3, <2>5, <2>6 DEF Promise
<1>7. CASE E!Run(t)
  <2>1. /\ index \in Slot /\ fun[index] > 0 /\ buf[index] \in Op /\ Session /\ Session'
        /\ buf' = [buf EXCEPT ![index] = NoOp]
        /\ \A i \in Slot : fun'[i] = IF i = index THEN 0 ELSE fun[i]
    BY <1>7, EntryRun
  <2>2. \A j \in Slot : j # index => /\ fun'[j] > 0 <=> fun[j] > 0
                                     /\ fun[j] > 0 => buf'[j] = buf[j] /\ buf[j] # buf[index]
    BY <1>1, <2>1 DEF SlotOK, SlotTypes
  <2>3. Stored' = Stored \ {buf[index]} /\ buf[index] \in Stored
    BY <1>1, <1>2, <2>1, <2>2, StoredLess
  <2> QED
    BY <2>1, <2>3 DEF Promise
<1>8. CASE E!FlushEnd(t)
  <2>1. Session /\ ~Session' /\ UNCHANGED <<fun, buf>> /\ \A i \in Slot : fun[i] = 0
    BY <1>8, EntryFlushEnd
  <2>2. Stored = {} /\ Stored' = Stored
    BY <1>1, <2>1 DEF Stored
  <2> QED
    BY <2>1, <2>2 DEF Promise
<1> QED
  BY <1>3, <1>4, <1>5, <1>6, <1>7, <1>8

-----------------------------------------------------------------------------
(* The theorems *)

QueuesInv == \/ kind = "buffer" /\ BufferInv
             \/ kind = "entry" /\ EntryInv

LEMMA QueuesInitially ==
  ASSUME QueuesInit
  PROVE  QueuesInv
  BY BufferInit, EntryInit DEF QueuesInit, QueuesInv

LEMMA QueuesStep ==
  ASSUME HaveParameters, QueuesInv, [QueuesNext]_allVars
  PROVE  QueuesInv'
<1>1. CASE QueuesNext
  BY <1>1, BufferStep, EntryStep DEF QueuesNext, QueuesInv
<1>2. CASE UNCHANGED allVars
  BY <1>2, BufferStutter, EntryStutter DEF allVars, QueuesInv
<1> QED
  BY <1>1, <1>2

\* The invariants of both queues hold in every interleaving.
THEOREM QueuesInvCorrect ==
  ASSUME HaveParameters
  PROVE  QueuesSpec => []QueuesInv
<1>1. QueuesInv /\ [QueuesNext]_allVars => QueuesInv'
  BY QueuesStep
<1> QED
  BY <1>1, QueuesInitially, PTL DEF QueuesSpec

\* Claims and the scan of flush() stay in the array, and the numbers of the
\* functions suffice.
THEOREM QueuesTypeOKCorrect ==
  ASSUME HaveParameters
  PROVE  QueuesSpec => []QueuesTypeOK
<1>1. QueuesInv => QueuesTypeOK
  BY SlotTypesMeaning DEF QueuesInv, QueuesTypeOK, BufferInv, EntryInv
<1> QED
  BY <1>1, QueuesInvCorrect, PTL

\* What flush() of the buffer_queue calls is an entry that was stored, with
\* the function that its operation was enqueued with.
THEOREM RunsWhatWasStoredCorrect ==
  ASSUME HaveParameters
  PROVE  QueuesSpec => []RunsWhatWasStored
<1>1. ASSUME QueuesInv, NEW t \in Thread, kind = "buffer", pc[t] = "scan", index < todo,
             fun[index] \notin {0, Marker}
      PROVE  /\ buf[index] # NoOp
             /\ Called(fun[index]) = FunctionOf[buf[index]]
             /\ Called(fun[index]) \in sizes
  BY <1>1, AtEntry, Constants DEF QueuesInv
<1>2. QueuesInv => RunsWhatWasStored
  BY <1>1 DEF RunsWhatWasStored
<1> QED
  BY <1>2, QueuesInvCorrect, PTL

\* Both queues keep the promise: operations are accepted in a session only,
\* each is run once, and none is left when flush() returns.
THEOREM ImplementsTantrumQueueCorrect ==
  ASSUME HaveParameters
  PROVE  QueuesSpec => ImplementsTantrumQueue
<1>1. QueuesInit => Tantrum!Init
  <2>1. Init => ~Session /\ Stored = {}
    BY DEF Init, QueueInit, Session, InSession, SessionPc, Stored
  <2>2. E!Init => ~Session /\ Stored = {}
    BY DEF E!Init, E!QueueInit, Session, InSession, SessionPc, Stored
  <2> QED
    BY <2>1, <2>2 DEF QueuesInit, Tantrum!Init, Session
<1>2. QueuesInv /\ [QueuesNext]_allVars
        => [Tantrum!Next]_<<\E t \in Thread : InSession(t), Stored>>
  <2>1. ASSUME QueuesInv, QueuesNext PROVE Promise
    BY <2>1, BufferPromise, EntryPromise DEF QueuesNext, QueuesInv
  <2>2. ASSUME UNCHANGED allVars PROVE Promise
    BY <2>2 DEF allVars, queueVars, Promise, Session, InSession, Stored
  <2> QED
    BY <2>1, <2>2, PromiseMeaning
<1> QED
  BY <1>1, <1>2, QueuesInvCorrect, PTL DEF QueuesSpec, ImplementsTantrumQueue, Tantrum!Spec

=============================================================================
