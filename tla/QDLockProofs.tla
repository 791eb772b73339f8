---------------------------- MODULE QDLockProofs ----------------------------
(***************************************************************************)
(* Type correctness, mutual exclusion and the bound of the counter of      *)
(* QDLock, for every number of threads, operations and entries, and both   *)
(* policies.                                                               *)
(***************************************************************************)
EXTENDS QDLockInvariants, TLAPS, FiniteSetTheorems

-----------------------------------------------------------------------------
(* The lock *)

\* The initial lock is well typed.
LEMMA LockInitType == LockInit => LockTypeOK
<1> SUFFICES ASSUME LockInit PROVE LockTypeOK
  OBVIOUS
<1>1. lqueue \in Seq(Thread)
  BY DEF LockInit
<1>2. holder \in Thread \cup {NoThread} /\ flagged \in BOOLEAN /\ sleepers \in SUBSET Thread
  BY DEF LockInit
<1>3. seen \in [Thread -> Thread \cup {NoThread}]
  BY DEF LockInit
<1> QED
  BY <1>1, <1>2, <1>3 DEF LockTypeOK

\* The lock word names a thread or nobody.
LEMMA LastNodeType == LockTypeOK => LastNode \in Thread \cup {NoThread}
  BY DEF LockTypeOK, LastNode

LockStep(t) ==
  \/ TakeFree(t) \/ WaitFlag(t) \/ WaitSleep(t) \/ WaitMiss(t) \/ LockEnqueue(t)
  \/ UnlockFree(t) \/ UnlockFlagged(t) \/ NotifyAll(t) \/ HandOver(t)

\* Every operation on the lock keeps it well typed.
LEMMA LockStepType ==
  ASSUME LockTypeOK, NEW t \in Thread, LockStep(t)
  PROVE  LockTypeOK'
<1>1. CASE TakeFree(t)
  BY <1>1 DEF LockTypeOK, TakeFree
<1>2. CASE WaitFlag(t)
  BY <1>2, LastNodeType DEF LockTypeOK, WaitFlag
<1>3. CASE WaitSleep(t)
  BY <1>3 DEF LockTypeOK, WaitSleep
<1>4. CASE WaitMiss(t)
  BY <1>4 DEF LockTypeOK, WaitMiss
<1>5. CASE LockEnqueue(t)
  BY <1>5 DEF LockTypeOK, LockEnqueue
<1>6. CASE UnlockFree(t) \/ UnlockFlagged(t)
  BY <1>6 DEF LockTypeOK, UnlockFree, UnlockFlagged
<1>7. CASE NotifyAll(t)
  BY <1>7 DEF LockTypeOK, NotifyAll
<1>8. CASE HandOver(t)
  <2>1. Head(lqueue) \in Thread /\ Tail(lqueue) \in Seq(Thread)
    BY <1>8 DEF LockTypeOK, HandOver
  <2> QED
    BY <1>8, <2>1 DEF LockTypeOK, HandOver
<1> QED
  BY <1>1, <1>2, <1>3, <1>4, <1>5, <1>6, <1>7, <1>8 DEF LockStep

-----------------------------------------------------------------------------
(* The queue *)

\* The initial queue is well typed.
LEMMA QueueInitType == QueueInit => QueueTypeOK
  BY QueueAssumption DEF QueueAssumption, QueueInit, QueueTypeOK, Slot

EnqueueMove(t) ==
  \/ EnqueueLoad(t) \/ CasRetry(t) \/ ClaimEntry(t) \/ ClaimTail(t) \/ ClaimNothing(t)
  \/ WriteEntry(t) \/ Publish(t) \/ WriteNoOp(t) \/ PublishNoOp(t)

SessionMove(t) ==
  \/ OpenQueue(t) \/ FlushEnter(t) \/ FlushLoad(t) \/ FlushLoadSame(t) \/ FlushClose(t)
  \/ FlushPoll(t) \/ FlushRun(t) \/ FlushClear(t)

\* Every step of enqueue() keeps the queue well typed.
LEMMA EnqueueMoveType ==
  ASSUME QueueTypeOK, NEW t \in Thread, EnqueueMove(t),
         op[t] \in Op, qpc[t] \in WriterPc => index[t] < ENTRIES,
         op' \in [Thread -> Op \cup {NoOp}]
  PROVE  QueueTypeOK'
<1> USE QueueAssumption DEF QueueAssumption, QueueTypeOK, Slot, EnqueuePc, WriterPc
<1>1. CASE EnqueueLoad(t)
  BY <1>1 DEF EnqueueLoad
<1>2. CASE CasRetry(t)
  BY <1>2 DEF CasRetry
<1>3. CASE ClaimEntry(t)
  <2>0. ReqEntries[op[t]] \in 1..ENTRIES
    OBVIOUS
  <2>1. counter' \in Nat
    BY <1>3, <2>0 DEF ClaimEntry, Claim
  <2>2. slot' = [slot EXCEPT ![counter] = ReqEntries[op[t]]]
    BY <1>3 DEF ClaimEntry
  <2>3. slot' \in [Slot -> 0..ENTRIES]
    <3>1. slot \in [Slot -> 0..ENTRIES] /\ ReqEntries[op[t]] \in 0..ENTRIES
      BY <2>0
    <3> HIDE DEF QueueTypeOK, Slot
    <3> QED
      BY ONLY <2>2, <3>1
  <2> QED
    BY <1>3, <2>1, <2>3 DEF ClaimEntry
<1>4. CASE ClaimTail(t)
  <2>1. counter' \in Nat /\ counter < ENTRIES
    BY <1>4 DEF ClaimTail, Claim
  <2>2. slot' \in [Slot -> 0..ENTRIES]
    BY <1>4, <2>1 DEF ClaimTail
  <2> QED
    BY <1>4, <2>1, <2>2 DEF ClaimTail
<1>5. CASE ClaimNothing(t)
  BY <1>5 DEF ClaimNothing, Claim
<1>6. CASE WriteEntry(t)
  BY <1>6 DEF WriteEntry
<1>7. CASE Publish(t)
  BY <1>7 DEF Publish
<1>8. CASE WriteNoOp(t)
  BY <1>8 DEF WriteNoOp
<1>9. CASE PublishNoOp(t)
  BY <1>9 DEF PublishNoOp
<1> QED
  BY <1>1, <1>2, <1>3, <1>4, <1>5, <1>6, <1>7, <1>8, <1>9 DEF EnqueueMove

\* Every step of open() and flush() keeps the queue well typed.
LEMMA SessionMoveType ==
  ASSUME QueueTypeOK, NEW t \in Thread, SessionMove(t), op' = op,
         qpc[t] \in {"poll", "run"} => index[t] < todo[t]
  PROVE  QueueTypeOK'
<1> USE QueueAssumption DEF QueueAssumption, QueueTypeOK, Slot, FlushPc, SessionPc
<1>1. CASE OpenQueue(t)
  BY <1>1 DEF OpenQueue
<1>2. CASE FlushEnter(t)
  BY <1>2 DEF FlushEnter
<1>3. CASE FlushLoad(t)
  BY <1>3 DEF FlushLoad, StartScan, ScanNext
<1>4. CASE FlushLoadSame(t)
  BY <1>4 DEF FlushLoadSame
<1>5. CASE FlushClose(t)
  BY <1>5 DEF FlushClose, StartScan, ScanNext
<1>6. CASE FlushPoll(t)
  BY <1>6 DEF FlushPoll
<1>7. CASE FlushRun(t)
  <2>1. index[t] \in Slot /\ header[index[t]] \in 0..ENTRIES
    BY <1>7 DEF FlushRun
  <2>2. index[t] + header[index[t]] \in Nat
    BY <2>1
  <2>3. index' \in [Thread -> Nat]
    BY <1>7, <2>2 DEF FlushRun
  <2>4. accepted' \in SUBSET Op /\ argument' \in [Slot -> Op \cup {NoOp}]
    BY <1>7 DEF FlushRun
  <2>5. qpc' \in [Thread -> EnqueuePc \cup SessionPc \cup {"idle"}]
    BY <1>7 DEF FlushRun, ScanNext
  <2> QED
    BY <1>7, <2>3, <2>4, <2>5 DEF FlushRun
<1>8. CASE FlushClear(t)
  <2>1. entries' \in [Slot -> {"null", "wrapper", "no_op", "garbage"}]
    BY <1>8 DEF FlushClear
  <2>2. slot' \in [Slot -> 0..ENTRIES]
    BY <1>8 DEF FlushClear
  <2> QED
    BY <1>8, <2>1, <2>2 DEF FlushClear
<1> QED
  BY <1>1, <1>2, <1>3, <1>4, <1>5, <1>6, <1>7, <1>8 DEF SessionMove

-----------------------------------------------------------------------------
(* The composition *)

\* Every initial state is well typed.
LEMMA TypeInvInit == Init => TypeInv
<1> SUFFICES ASSUME Init PROVE TypeInv
  OBVIOUS
<1>1. TypeOK
  <2>1. retries \in [Thread -> 0 .. (IF StarvationFree THEN RETRY_LIMIT ELSE WAIT_PERIOD)]
    BY QDLockAssumption DEF QDLockAssumption, Init
  <2> QED
    BY <2>1, QueueInitType, LockInitType DEF Init, TypeOK
<1>2. \A t \in Thread : LocalsOK(t)
  BY DEF Init, QueueInit, LocalsOK, WriterPc, EnqueuePc, FlushPc
<1> QED
  BY <1>1, <1>2 DEF TypeInv

ThreadMove(t) == Call(t) \/ Step(t) \/ FutureDiscard(t)

\* What a move of t is for the queue, together with the program counters.
LEMMA QueuePart ==
  ASSUME NEW t \in Thread, ThreadMove(t)
  PROVE  \/ pc[t] = "enqueue" /\ EnqueueMove(t)
         \/ pc[t] \in HoldingPc /\ SessionMove(t) /\ op' = op
         \/ UNCHANGED queueVars
<1>1. CASE Call(t)
  BY <1>1 DEF Call, UserLock, Delegate
<1>2. CASE FutureDiscard(t)
  BY <1>2 DEF FutureDiscard
<1>3. CASE EnqueueStep(t) \/ EnqueueRefused(t) \/ EnqueueAccepted(t)
  BY <1>3 DEF EnqueueStep, EnqueueRefused, EnqueueAccepted, EnqueueMove, EnqueueClosed
<1>4. CASE HelperOpen(t) \/ HelperExecute(t) \/ FlushStep(t) \/ FlushRunEntry(t) \/ FlushEnd(t)
  BY <1>4 DEF HelperOpen, HelperExecute, FlushStep, FlushRunEntry, FlushEnd,
              SessionMove, HoldingPc
<1>5. CASE \/ TryLock(t) \/ TryLockBusy(t) \/ AcquireLock(t) \/ AcquireFails(t)
           \/ AcquireOrWait(t) \/ GoToSleep(t) \/ StayAwake(t) \/ WakeUp(t)
           \/ LockNow(t) \/ LockQueue(t) \/ LockGranted(t) \/ Execute(t)
           \/ Unlock(t) \/ UnlockAndWake(t) \/ Notify(t) \/ FutureWait(t)
  BY <1>5 DEF TryLock, TryLockBusy, AcquireLock, AcquireFails, AcquireOrWait, GoToSleep,
              StayAwake, WakeUp, LockNow, LockQueue, LockGranted, Execute, Unlock,
              UnlockAndWake, Notify, FutureWait
<1> QED
  BY <1>1, <1>2, <1>3, <1>4, <1>5 DEF ThreadMove, Step

\* What a move of t is for the lock.
LEMMA LockPart ==
  ASSUME NEW t \in Thread, ThreadMove(t)
  PROVE  LockStep(t) \/ UNCHANGED lockVars
<1>1. CASE Call(t)
  BY <1>1 DEF Call, UserLock, Delegate
<1>2. CASE FutureDiscard(t)
  BY <1>2 DEF FutureDiscard
<1>3. CASE \/ EnqueueStep(t) \/ EnqueueRefused(t) \/ EnqueueAccepted(t)
           \/ HelperOpen(t) \/ HelperExecute(t) \/ FlushStep(t) \/ FlushRunEntry(t)
           \/ FlushEnd(t) \/ Execute(t) \/ FutureWait(t)
  BY <1>3 DEF EnqueueStep, EnqueueRefused, EnqueueAccepted, HelperOpen, HelperExecute,
              FlushStep, FlushRunEntry, FlushEnd, Execute, FutureWait
<1>4. CASE \/ TryLock(t) \/ TryLockBusy(t) \/ AcquireLock(t) \/ AcquireFails(t)
           \/ AcquireOrWait(t) \/ GoToSleep(t) \/ StayAwake(t) \/ WakeUp(t)
           \/ LockNow(t) \/ LockQueue(t) \/ LockGranted(t)
           \/ Unlock(t) \/ UnlockAndWake(t) \/ Notify(t)
  BY <1>4 DEF TryLock, TryLockBusy, AcquireLock, AcquireFails, AcquireOrWait, GoToSleep,
              StayAwake, WakeUp, LockNow, LockQueue, LockGranted, Unlock, UnlockAndWake,
              Notify, LockStep, TryLockFails, Awake, Granted
<1> QED
  BY <1>1, <1>2, <1>3, <1>4 DEF ThreadMove, Step

\* A move of t leaves the locals of the other threads alone.
LEMMA Frame ==
  ASSUME TypeInv, NEW t \in Thread, ThreadMove(t), NEW u \in Thread, u # t
  PROVE  /\ pc'[u] = pc[u] /\ retries'[u] = retries[u] /\ op'[u] = op[u]
         /\ qpc'[u] = qpc[u] /\ index'[u] = index[u]
         /\ todo'[u] = todo[u] /\ open'[u] = open[u]
<1>1. qpc'[u] = qpc[u] /\ index'[u] = index[u] /\ todo'[u] = todo[u] /\ open'[u] = open[u]
  <2>1. CASE EnqueueMove(t)
    BY <2>1 DEF EnqueueMove, EnqueueLoad, CasRetry, ClaimEntry, ClaimTail, ClaimNothing,
                WriteEntry, Publish, WriteNoOp, PublishNoOp, TypeInv, TypeOK, QueueTypeOK
  <2>2. CASE SessionMove(t)
    BY <2>2 DEF SessionMove, OpenQueue, FlushEnter, FlushLoad, FlushLoadSame, FlushClose,
                FlushPoll, FlushRun, FlushClear, StartScan, TypeInv, TypeOK, QueueTypeOK
  <2>3. CASE UNCHANGED queueVars
    BY <2>3 DEF queueVars
  <2> QED
    BY <2>1, <2>2, <2>3, QueuePart
<1>2. pc'[u] = pc[u] /\ retries'[u] = retries[u] /\ op'[u] = op[u]
  <2> USE DEF Goto, Finish, NextRound, TypeInv, TypeOK, QueueTypeOK
  <2>1. CASE Call(t)
    BY <2>1 DEF Call, UserLock, Delegate
  <2>2. CASE Step(t)
    BY <2>2 DEF Step, TryLock, TryLockBusy, EnqueueStep, EnqueueRefused, EnqueueAccepted,
                AcquireLock, AcquireFails, AcquireOrWait, GoToSleep, StayAwake, WakeUp,
                LockNow, LockQueue, LockGranted, Execute, HelperOpen, HelperExecute,
                FlushStep, FlushRunEntry, FlushEnd, Unlock, UnlockAndWake, Notify, FutureWait
  <2>3. CASE FutureDiscard(t)
    BY <2>3 DEF FutureDiscard
  <2> QED
    BY <2>1, <2>2, <2>3 DEF ThreadMove
<1> QED
  BY <1>1, <1>2

\* A move of t keeps the locals of t where the code can have them.
LEMMA LocalsStep ==
  ASSUME TypeInv, NEW t \in Thread, ThreadMove(t)
  PROVE  LocalsOK(t)'
<1> USE DEF Goto, Finish, NextRound, TypeInv, TypeOK, QueueTypeOK, LocalsOK, WriterPc,
            EnqueuePc, SessionPc, FlushPc
<1>1. CASE Call(t)
  BY <1>1, QueueAssumption DEF QueueAssumption, Call, UserLock, Delegate, queueVars
<1>2. CASE FutureDiscard(t)
  BY <1>2 DEF FutureDiscard, queueVars
<1>3. CASE TryLock(t) \/ TryLockBusy(t) \/ AcquireLock(t)
  BY <1>3, QDLockAssumption DEF QDLockAssumption, TryLock, TryLockBusy, AcquireLock, queueVars
<1>4. CASE EnqueueStep(t)
  <2>1. pc[t] = "enqueue" /\ UNCHANGED <<pc, op, retries>>
    BY <1>4 DEF EnqueueStep
  <2>2. ReqEntries[op[t]] \in 1..ENTRIES
    BY <2>1, QueueAssumption DEF QueueAssumption
  <2>3. CASE EnqueueLoad(t) \/ CasRetry(t)
    BY <2>1, <2>3 DEF EnqueueLoad, CasRetry
  <2>4. CASE ClaimEntry(t)
    <3>1. counter < ENTRIES
      BY <2>2, <2>4, QueueAssumption DEF QueueAssumption, ClaimEntry, Fits
    <3> QED
      BY <2>1, <2>4, <3>1 DEF ClaimEntry
  <2>5. CASE ClaimTail(t)
    BY <2>1, <2>5 DEF ClaimTail
  <2>6. CASE WriteEntry(t) \/ WriteNoOp(t)
    BY <2>1, <2>6 DEF WriteEntry, WriteNoOp
  <2> QED
    BY <1>4, <2>3, <2>4, <2>5, <2>6 DEF EnqueueStep
<1>5. CASE EnqueueRefused(t)
  BY <1>5 DEF EnqueueRefused, EnqueueClosed, ClaimNothing, PublishNoOp, queueVars
<1>6. CASE EnqueueAccepted(t)
  BY <1>6 DEF EnqueueAccepted, Publish
<1>7. CASE AcquireFails(t) \/ StayAwake(t) \/ WakeUp(t)
  BY <1>7 DEF AcquireFails, StayAwake, WakeUp, queueVars
<1>8. CASE AcquireOrWait(t) \/ GoToSleep(t)
  BY <1>8 DEF AcquireOrWait, GoToSleep, queueVars
<1>9. CASE LockNow(t) \/ LockQueue(t) \/ LockGranted(t) \/ Execute(t)
  BY <1>9 DEF LockNow, LockQueue, LockGranted, Execute, queueVars
<1>10. CASE HelperOpen(t) \/ HelperExecute(t)
  BY <1>10 DEF HelperOpen, HelperExecute, OpenQueue, FlushEnter
<1>11. CASE FlushStep(t)
  BY <1>11 DEF FlushStep, FlushLoad, FlushLoadSame, FlushClose, FlushPoll, StartScan, ScanNext
<1>12. CASE FlushRunEntry(t)
  BY <1>12 DEF FlushRunEntry, FlushRun, ScanNext
<1>13. CASE FlushEnd(t)
  BY <1>13 DEF FlushEnd, FlushClear
<1>14. CASE Unlock(t) \/ UnlockAndWake(t) \/ Notify(t) \/ FutureWait(t)
  BY <1>14 DEF Unlock, UnlockAndWake, Notify, FutureWait, queueVars
<1> QED
  BY <1>1, <1>2, <1>3, <1>4, <1>5, <1>6, <1>7, <1>8, <1>9, <1>10, <1>11, <1>12,
     <1>13, <1>14 DEF ThreadMove, Step

\* Every move keeps the state well typed.
LEMMA TypeStep ==
  ASSUME TypeInv, NEW t \in Thread, ThreadMove(t)
  PROVE  TypeOK'
<1>1. op' \in [Thread -> Op \cup {NoOp}]
  BY DEF ThreadMove, Call, UserLock, Delegate, FutureDiscard, Finish, Step, TryLock, TryLockBusy,
         EnqueueStep, EnqueueRefused, EnqueueAccepted, AcquireLock, AcquireFails, AcquireOrWait,
         GoToSleep, StayAwake, WakeUp, LockNow, LockQueue, LockGranted, Execute, HelperOpen,
         HelperExecute, FlushStep, FlushRunEntry, FlushEnd, Unlock, UnlockAndWake, Notify,
         FutureWait, TypeInv, TypeOK, QueueTypeOK
<1>2. QueueTypeOK'
  <2>1. CASE pc[t] = "enqueue" /\ EnqueueMove(t)
    <3>1. op[t] \in Op /\ (qpc[t] \in WriterPc => index[t] < ENTRIES)
      BY <2>1 DEF TypeInv, TypeOK, QueueTypeOK, LocalsOK
    <3> QED
      BY <1>1, <2>1, <3>1, EnqueueMoveType DEF TypeInv, TypeOK
  <2>2. CASE SessionMove(t) /\ op' = op
    BY <2>2, SessionMoveType DEF TypeInv, TypeOK, LocalsOK
  <2>3. CASE UNCHANGED queueVars
    BY <1>1, <2>3 DEF TypeInv, TypeOK, QueueTypeOK, queueVars
  <2> QED
    BY <2>1, <2>2, <2>3, QueuePart
<1>3. LockTypeOK'
  <2>1. CASE UNCHANGED lockVars
    BY <2>1 DEF TypeInv, TypeOK, LockTypeOK, lockVars
  <2> QED
    BY <2>1, LockPart, LockStepType DEF TypeInv, TypeOK
<1>4. pc' \in [Thread -> HoldingPc \cup WaitingPc \cup {"idle", "notify", "future"}]
  <2> USE DEF Goto, Finish, NextRound, HoldingPc, WaitingPc, TypeInv, TypeOK
  <2>1. CASE Call(t) \/ FutureDiscard(t)
    BY <2>1 DEF Call, UserLock, Delegate, FutureDiscard
  <2>2. CASE Step(t)
    BY <2>2 DEF Step, TryLock, TryLockBusy, EnqueueStep, EnqueueRefused, EnqueueAccepted,
                AcquireLock, AcquireFails, AcquireOrWait, GoToSleep, StayAwake, WakeUp,
                LockNow, LockQueue, LockGranted, Execute, HelperOpen, HelperExecute,
                FlushStep, FlushRunEntry, FlushEnd, Unlock, UnlockAndWake, Notify, FutureWait
  <2> QED
    BY <2>1, <2>2 DEF ThreadMove
<1>5. retries' \in [Thread -> 0 .. (IF StarvationFree THEN RETRY_LIMIT ELSE WAIT_PERIOD)]
  <2> USE QDLockAssumption DEF QDLockAssumption, TypeInv, TypeOK
  <2>1. CASE retries' = [retries EXCEPT ![t] = 0] \/ retries' = [retries EXCEPT ![t] = 1]
    BY <2>1
  <2>2. CASE UNCHANGED retries
    BY <2>2
  <2>3. CASE AcquireFails(t) \/ StayAwake(t) \/ WakeUp(t)
    BY <2>3 DEF AcquireFails, StayAwake, WakeUp, NextRound, LocalsOK
  <2> QED
    BY <2>1, <2>2, <2>3
       DEF ThreadMove, Call, UserLock, Delegate, FutureDiscard, Finish, Step, TryLock,
           TryLockBusy, EnqueueStep, EnqueueRefused, EnqueueAccepted, AcquireLock,
           AcquireOrWait, GoToSleep, LockNow, LockQueue, LockGranted, Execute, HelperOpen,
           HelperExecute, FlushStep, FlushRunEntry, FlushEnd, Unlock, UnlockAndWake, Notify,
           FutureWait
<1>6. owed' \in [Op -> SUBSET Op]
  BY DEF ThreadMove, Call, UserLock, Delegate, FutureDiscard, Step, TryLock, TryLockBusy,
         EnqueueStep, EnqueueRefused, EnqueueAccepted, AcquireLock, AcquireFails, AcquireOrWait,
         GoToSleep, StayAwake, WakeUp, LockNow, LockQueue, LockGranted, Execute, HelperOpen,
         HelperExecute, FlushStep, FlushRunEntry, FlushEnd, Unlock, UnlockAndWake, Notify,
         FutureWait, TypeInv, TypeOK, QueueTypeOK
<1> QED
  BY <1>2, <1>3, <1>4, <1>5, <1>6 DEF TypeOK

\* The strengthened type invariant is inductive.
LEMMA TypeInvNext == TypeInv /\ [Next]_vars => TypeInv'
<1> SUFFICES ASSUME TypeInv, [Next]_vars PROVE TypeInv'
  OBVIOUS
<1>1. CASE Next
  <2>1. PICK t \in Thread : ThreadMove(t)
    BY <1>1 DEF Next, ThreadMove
  <2>2. ASSUME NEW u \in Thread PROVE LocalsOK(u)'
    <3>1. CASE u = t
      BY <2>1, <3>1, LocalsStep
    <3>2. CASE u # t
      BY <2>1, <3>2, Frame DEF LocalsOK, TypeInv
    <3> QED
      BY <3>1, <3>2
  <2> QED
    BY <2>1, <2>2, TypeStep DEF TypeInv
<1>2. CASE UNCHANGED vars
  BY <1>2 DEF vars, queueVars, lockVars, TypeInv, TypeOK, QueueTypeOK, LockTypeOK, LocalsOK
<1> QED
  BY <1>1, <1>2

\* The state is well typed in every behaviour, and a scan or a claim that is
\* under way stays inside the array of the queue.
THEOREM TypeInvCorrect == Spec => []TypeInv
<1>1. Init => TypeInv
  BY TypeInvInit
<1>2. TypeInv /\ [Next]_vars => TypeInv'
  BY TypeInvNext
<1> QED
  BY <1>1, <1>2, PTL DEF Spec

\* In particular counter never goes below zero, no flush() looks beyond the
\* array, and the loop of delegate() ends after RETRY_LIMIT - 1 rounds.
THEOREM TypeCorrect == Spec => []TypeOK
<1>1. TypeInv => TypeOK
  BY DEF TypeInv
<1> QED
  BY <1>1, TypeInvCorrect, PTL

-----------------------------------------------------------------------------
(* Mutual exclusion *)

\* Only the lock step of a move changes the holder, and it takes the lock
\* when it is free or gives up the lock that the moving thread holds.
LEMMA HolderNext == TypeInv /\ HolderOK /\ [Next]_vars => HolderOK'
<1> SUFFICES ASSUME TypeInv, HolderOK, [Next]_vars PROVE HolderOK'
  OBVIOUS
<1> USE DEF HolderOK, HoldingPc
<1>1. CASE Next
  <2>1. PICK t \in Thread : ThreadMove(t)
    BY <1>1 DEF Next, ThreadMove
  <2>2. \A u \in Thread : u # t => pc'[u] = pc[u]
    BY <2>1, Frame
  <2> USE DEF Goto, Finish, TypeInv, TypeOK, LockTypeOK
  <2>3. CASE Call(t) \/ FutureDiscard(t)
    BY <2>2, <2>3 DEF Call, UserLock, Delegate, FutureDiscard, lockVars
  <2>4. CASE TryLock(t) \/ AcquireLock(t) \/ LockNow(t)
    <3>1. holder = NoThread /\ holder' = t
      BY <2>4 DEF TryLock, AcquireLock, LockNow, TakeFree
    <3>2. \A u \in Thread : pc[u] \notin HoldingPc
      BY <3>1, ThreadAssumption DEF ThreadAssumption
    <3> QED
      BY <2>2, <3>1, <3>2
  <2>5. CASE \/ TryLockBusy(t) \/ EnqueueRefused(t) \/ EnqueueAccepted(t) \/ AcquireFails(t)
             \/ AcquireOrWait(t) \/ GoToSleep(t) \/ StayAwake(t) \/ WakeUp(t) \/ LockQueue(t)
             \/ Notify(t) \/ FutureWait(t)
    <3>1. pc'[t] \notin HoldingPc
      BY <2>5 DEF TryLockBusy, EnqueueRefused, EnqueueAccepted, AcquireFails, AcquireOrWait,
                  GoToSleep, StayAwake, WakeUp, LockQueue, Notify, FutureWait, NextRound
    <3>2. holder' = holder
      BY <2>5 DEF TryLockBusy, EnqueueRefused, EnqueueAccepted, AcquireFails, AcquireOrWait,
                  GoToSleep, StayAwake, WakeUp, LockQueue, Notify, FutureWait, lockVars,
                  TryLockFails, WaitFlag, WaitSleep, WaitMiss, Awake, LockEnqueue, NotifyAll
    <3> QED
      BY <2>2, <3>1, <3>2
  <2>6. CASE LockGranted(t)
    BY <2>2, <2>6 DEF LockGranted, Granted, lockVars
  <2>7. CASE \/ EnqueueStep(t) \/ Execute(t) \/ HelperOpen(t) \/ HelperExecute(t)
             \/ FlushStep(t) \/ FlushRunEntry(t) \/ FlushEnd(t)
    <3>1. holder' = holder
      BY <2>7 DEF EnqueueStep, Execute, HelperOpen, HelperExecute, FlushStep, FlushRunEntry,
                  FlushEnd, lockVars
    <3>2. pc'[t] \in HoldingPc => pc[t] \in HoldingPc
      BY <2>7 DEF EnqueueStep, Execute, HelperOpen, HelperExecute, FlushStep, FlushRunEntry,
                  FlushEnd
    <3> QED
      BY <2>2, <3>1, <3>2
  <2>8. CASE Unlock(t) \/ UnlockAndWake(t)
    <3>1. pc'[t] \notin HoldingPc /\ holder = t
      BY <2>8 DEF Unlock, UnlockAndWake, UnlockFree, UnlockFlagged, HandOver
    <3> QED
      BY <2>2, <3>1
  <2> QED
    BY <2>1, <2>3, <2>4, <2>5, <2>6, <2>7, <2>8 DEF ThreadMove, Step
<1>2. CASE UNCHANGED vars
  BY <1>2 DEF vars, lockVars
<1> QED
  BY <1>1, <1>2

\* Whoever is at a program counter between taking and releasing the lock
\* holds it.
THEOREM HolderCorrect == Spec => []HolderOK
<1>1. Init => HolderOK
  BY DEF Init, HolderOK, HoldingPc
<1>2. TypeInv /\ TypeInv' /\ HolderOK /\ [Next]_vars => HolderOK'
  BY HolderNext
<1> QED
  BY <1>1, <1>2, TypeInvCorrect, PTL DEF Spec

\* No two threads are in critical sections: the operations delegated to the
\* lock, run by whichever thread, and the code between lock() and unlock().
THEOREM MutualExclusionCorrect == Spec => []MutualExclusion
<1>1. HolderOK => MutualExclusion
  BY DEF HolderOK, HoldingPc, MutualExclusion, InCriticalSection
<1> QED
  BY <1>1, HolderCorrect, PTL

-----------------------------------------------------------------------------
(* The counter stays far from wrapping round *)

\* The threads that are not about to claim entries.
Settled == {t \in Thread : qpc[t] # "claim"}

\* The bound of CounterBounded when m is the size of the largest operation.
Overshoot(m) == ENTRIES + m * Cardinality(Settled)

\* A sum of the size of the array and of claims is at least that size.
LEMMA ClaimsAdd ==
  ASSUME NEW S, IsFiniteSet(S), NEW m \in Nat
  PROVE  /\ ENTRIES + m * Cardinality(S) \in Nat
         /\ ENTRIES <= ENTRIES + m * Cardinality(S)
<1>1. Cardinality(S) \in Nat
  BY FS_CardinalityType
<1>2. \A c, k \in Nat : k * c \in Nat
  BY SMT
<1> DEFINE product == m * Cardinality(S)
<1>3. product \in Nat /\ ENTRIES \in Nat
  BY <1>1, <1>2, QueueAssumption DEF QueueAssumption
<1> HIDE DEF product
<1>4. ENTRIES + product \in Nat /\ ENTRIES <= ENTRIES + product
  BY <1>3
<1> QED
  BY <1>4 DEF product

\* The bound is never below the size of the array, before or after a step.
LEMMA OvershootBound ==
  ASSUME IsFiniteSet(Thread), NEW m \in 1..ENTRIES
  PROVE  /\ Overshoot(m) \in Nat /\ ENTRIES <= Overshoot(m)
         /\ Overshoot(m)' \in Nat /\ ENTRIES <= Overshoot(m)'
<1>1. IsFiniteSet(Settled) /\ IsFiniteSet(Settled')
  BY FS_Subset DEF Settled
<1>2. m \in Nat
  BY QueueAssumption DEF QueueAssumption
<1> QED
  BY <1>1, <1>2, ClaimsAdd DEF Overshoot

\* A claim moves one thread to the settled ones, which raises the bound by m.
LEMMA ClaimRaisesBound ==
  ASSUME IsFiniteSet(Thread), TypeInv, NEW t \in Thread, NEW m \in 1..ENTRIES,
         qpc[t] = "claim", NEW place, place # "claim", qpc' = [qpc EXCEPT ![t] = place]
  PROVE  Overshoot(m)' = Overshoot(m) + m
<1>1. Settled' = Settled \cup {t} /\ t \notin Settled
  BY DEF Settled, TypeInv, TypeOK, QueueTypeOK
<1>2. IsFiniteSet(Settled)
  BY FS_Subset DEF Settled
<1>3. Cardinality(Settled') = Cardinality(Settled) + 1
  BY <1>1, <1>2, FS_AddElement
<1>4. Cardinality(Settled) \in Nat /\ m \in Nat /\ ENTRIES \in Nat
  BY <1>2, FS_CardinalityType, QueueAssumption DEF QueueAssumption
<1>5. \A a, c, k \in Nat : a + k * (c + 1) = (a + k * c) + k
  BY SMT
<1> QED
  BY <1>3, <1>4, <1>5 DEF Overshoot

\* Whatever t does, the counter stays within the bound.
LEMMA CounterStep ==
  ASSUME IsFiniteSet(Thread), TypeInv, TypeInv', NEW t \in Thread, ThreadMove(t),
         NEW m \in 1..ENTRIES, \A o \in Op : ReqEntries[o] <= m,
         counter <= Overshoot(m)
  PROVE  counter' <= Overshoot(m)'
<1>1. /\ Overshoot(m) \in Nat /\ ENTRIES <= Overshoot(m)
      /\ Overshoot(m)' \in Nat /\ ENTRIES <= Overshoot(m)'
  BY OvershootBound
<1>2. /\ counter \in Nat /\ counter' \in Nat /\ ENTRIES \in Nat /\ m \in Nat
      /\ qpc \in [Thread -> EnqueuePc \cup SessionPc \cup {"idle"}]
  BY QueueAssumption DEF QueueAssumption, TypeInv, TypeOK, QueueTypeOK
<1>3. CASE counter' <= ENTRIES
  BY <1>1, <1>2, <1>3
<1>4. CASE UNCHANGED counter /\ Settled' = Settled
  BY <1>1, <1>2, <1>4 DEF Overshoot
<1>5. CASE pc[t] = "enqueue" /\ EnqueueMove(t)
  <2>1. op[t] \in Op /\ ReqEntries[op[t]] \in 1..ENTRIES /\ ReqEntries[op[t]] <= m
    BY <1>5, QueueAssumption DEF QueueAssumption, TypeInv, TypeOK, QueueTypeOK, LocalsOK
  <2>2. CASE EnqueueLoad(t)
    BY <1>2, <1>3, <2>1, <2>2 DEF EnqueueLoad, Fits
  <2>3. CASE ClaimEntry(t) \/ ClaimTail(t) \/ ClaimNothing(t)
    <3>1. qpc[t] = "claim" /\ counter' = counter + ReqEntries[op[t]]
      BY <2>3 DEF ClaimEntry, ClaimTail, ClaimNothing, Claim
    <3>2. \E place \in {"write", "writeNoOp", "idle"} : qpc' = [qpc EXCEPT ![t] = place]
      BY <2>3 DEF ClaimEntry, ClaimTail, ClaimNothing
    <3>3. Overshoot(m)' = Overshoot(m) + m
      BY <3>1, <3>2, ClaimRaisesBound
    <3>4. \A c, k, n, r \in Nat : c <= n /\ r <= k => c + r <= n + k
      BY SMT
    <3> QED
      BY <1>1, <1>2, <2>1, <3>1, <3>3, <3>4
  <2>4. CASE CasRetry(t) \/ WriteEntry(t) \/ Publish(t) \/ WriteNoOp(t) \/ PublishNoOp(t)
    <3>1. UNCHANGED counter
      BY <2>4 DEF CasRetry, WriteEntry, Publish, WriteNoOp, PublishNoOp
    <3>2. Settled' = Settled
      BY <1>2, <2>4 DEF Settled, CasRetry, WriteEntry, Publish, WriteNoOp, PublishNoOp
    <3> QED
      BY <1>4, <3>1, <3>2
  <2> QED
    BY <1>5, <2>2, <2>3, <2>4 DEF EnqueueMove
<1>6. CASE SessionMove(t)
  <2>1. CASE OpenQueue(t) \/ FlushClose(t)
    <3>1. counter' = 0 \/ counter' = ENTRIES
      BY <2>1 DEF OpenQueue, FlushClose
    <3> QED
      BY <1>2, <1>3, <3>1
  <2>2. CASE \/ FlushEnter(t) \/ FlushLoad(t) \/ FlushLoadSame(t) \/ FlushPoll(t)
             \/ FlushRun(t) \/ FlushClear(t)
    <3>1. UNCHANGED counter
      BY <2>2 DEF FlushEnter, FlushLoad, FlushLoadSame, FlushPoll, FlushRun, FlushClear
    <3>2. Settled' = Settled
      BY <1>2, <2>2 DEF Settled, FlushEnter, FlushLoad, FlushLoadSame, FlushPoll, FlushRun,
                        FlushClear, StartScan, ScanNext
    <3> QED
      BY <1>4, <3>1, <3>2
  <2> QED
    BY <1>6, <2>1, <2>2 DEF SessionMove
<1>7. CASE UNCHANGED queueVars
  BY <1>4, <1>7 DEF queueVars, Settled
<1> QED
  BY <1>5, <1>6, <1>7, QueuePart

\* The counter overshoots the array by at most one claim per thread: with any
\* finite number of threads it stays far below the size of its word, so that a
\* closed queue is never taken for an open one.
THEOREM CounterBoundedCorrect == IsFiniteSet(Thread) => (Spec => []CounterBounded)
<1> SUFFICES ASSUME IsFiniteSet(Thread) PROVE Spec => []CounterBounded
  OBVIOUS
<1>1. CounterBounded = \A m \in 1..ENTRIES :
        (\A o \in Op : ReqEntries[o] <= m) => counter <= Overshoot(m)
  BY DEF CounterBounded, Overshoot, Settled
<1>2. Init => CounterBounded
  BY <1>1, OvershootBound DEF Init, QueueInit
<1>3. TypeInv /\ TypeInv' /\ CounterBounded /\ [Next]_vars => CounterBounded'
  <2> SUFFICES ASSUME TypeInv, TypeInv', CounterBounded, [Next]_vars,
                      NEW m \in 1..ENTRIES, \A o \in Op : ReqEntries[o] <= m
               PROVE  counter' <= Overshoot(m)'
    BY DEF CounterBounded, Overshoot, Settled
  <2>1. CASE Next
    BY <1>1, <2>1, CounterStep DEF Next, ThreadMove
  <2>2. CASE UNCHANGED vars
    BY <1>1, <2>2 DEF vars, queueVars, Overshoot, Settled
  <2> QED
    BY <2>1, <2>2
<1> QED
  BY <1>2, <1>3, TypeInvCorrect, PTL DEF Spec

=============================================================================
