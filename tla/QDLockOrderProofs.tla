-------------------------- MODULE QDLockOrderProofs --------------------------
(***************************************************************************)
(* An operation runs after every operation that had been accepted when it  *)
(* was delegated.  Claims are handed out in the order of the slots, and    *)
(* the scan of the helper follows it; the lock is won only between two     *)
(* sessions, when nothing is waiting.                                      *)
(***************************************************************************)
EXTENDS QDLockSessionProofs

-----------------------------------------------------------------------------
(* What the steps do to the history variables *)

\* Only the delegation of an operation and the run of an entry change what
\* is owed.
LEMMA OwedStep ==
  ASSUME NEW t \in Thread, ThreadMove(t)
  PROVE  UNCHANGED owed \/ FlushRunEntry(t) \/ \E o \in Op : Delegate(t, o)
  BY DEF ThreadMove, Call, UserLock, FutureDiscard, Step, TryLock, TryLockBusy, EnqueueStep,
         EnqueueRefused, EnqueueAccepted, AcquireLock, AcquireFails, AcquireOrWait, GoToSleep,
         StayAwake, WakeUp, LockNow, LockQueue, LockGranted, Execute, HelperOpen, HelperExecute,
         FlushStep, FlushEnd, Unlock, UnlockAndWake, Notify, FutureWait

\* What is owed to an operation that is under way only shrinks.
LEMMA OwedShrinks ==
  ASSUME TypeInv, TypeInv', NEW t \in Thread, ThreadMove(t), NEW o \in Op, ~Unused(o)
  PROVE  owed'[o] \subseteq owed[o]
<1>1. CASE FlushRunEntry(t)
  BY <1>1 DEF FlushRunEntry
<1>2. CASE \E p \in Op : Delegate(t, p)
  BY <1>2 DEF Delegate, TypeInv, TypeOK
<1> QED
  BY <1>1, <1>2, OwedStep

\* Only the run of an entry takes from the accepted operations.
LEMMA AcceptedGrows ==
  ASSUME NEW t \in Thread, ThreadMove(t), ~FlushRunEntry(t)
  PROVE  accepted \subseteq accepted'
<1>1. CASE EnqueueStep(t) \/ EnqueueRefused(t) \/ EnqueueAccepted(t)
  BY <1>1 DEF EnqueueStep, EnqueueRefused, EnqueueAccepted, EnqueueLoad, CasRetry, ClaimEntry,
              WriteEntry, ClaimTail, WriteNoOp, EnqueueClosed, ClaimNothing, PublishNoOp,
              Publish, queueVars
<1>2. CASE HelperOpen(t) \/ HelperExecute(t) \/ FlushStep(t) \/ FlushEnd(t)
  BY <1>2 DEF HelperOpen, HelperExecute, FlushStep, FlushEnd, OpenQueue, FlushEnter, FlushLoad,
              FlushLoadSame, FlushClose, FlushPoll, FlushClear
<1>3. CASE UNCHANGED queueVars
  BY <1>3 DEF queueVars
<1> QED
  BY <1>1, <1>2, <1>3
     DEF ThreadMove, Call, UserLock, Delegate, FutureDiscard, Step, TryLock, TryLockBusy,
         AcquireLock, AcquireFails, AcquireOrWait, GoToSleep, StayAwake, WakeUp, LockNow,
         LockQueue, LockGranted, Execute, Unlock, UnlockAndWake, Notify, FutureWait

\* What is owed stays within what has been accepted.
LEMMA OwedAccepted ==
  ASSUME TypeInv, TypeInv', NEW t \in Thread, ThreadMove(t),
         \A o \in Op : owed[o] \subseteq accepted
  PROVE  \A o \in Op : owed'[o] \subseteq accepted'
<1>1. CASE FlushRunEntry(t)
  BY <1>1 DEF FlushRunEntry
<1>2. CASE ~FlushRunEntry(t) /\ UNCHANGED owed
  BY <1>2, AcceptedGrows
<1>3. CASE \E p \in Op : Delegate(t, p)
  BY <1>3 DEF Delegate, queueVars, TypeInv, TypeOK
<1> QED
  BY <1>1, <1>2, <1>3, OwedStep

\* A thread that is in enqueue() keeps its operation until enqueue() returns.
LEMMA OpUnchangedInQueue ==
  ASSUME TypeInv, NEW t \in Thread, ThreadMove(t), UNCHANGED queueVars
  PROVE  \A u \in Thread : qpc[u] \in WriterPc => op'[u] = op[u]
<1>1. qpc[t] \in WriterPc => op'[t] = op[t]
  <2> SUFFICES ASSUME qpc[t] \in WriterPc PROVE op'[t] = op[t]
    OBVIOUS
  <2>1. pc[t] = "enqueue"
    BY DEF TypeInv, LocalsOK, WriterPc, EnqueuePc
  <2> QED
    BY <2>1
       DEF ThreadMove, Call, UserLock, Delegate, FutureDiscard, Step, TryLock, TryLockBusy,
           EnqueueStep, EnqueueRefused, EnqueueAccepted, Publish, AcquireLock, AcquireFails,
           AcquireOrWait, GoToSleep, StayAwake, WakeUp, LockNow, LockQueue, LockGranted,
           Execute, HelperOpen, HelperExecute, FlushStep, FlushRunEntry, FlushEnd, Unlock,
           UnlockAndWake, Notify, FutureWait, queueVars, WriterPc, TypeInv, TypeOK, QueueTypeOK
<1> QED
  BY <1>1, Frame

-----------------------------------------------------------------------------
(* Winning the lock *)

\* The lock is won only when nothing is waiting in the queue.
LEMMA NothingWaits ==
  ASSUME SafetyInv, NEW t \in Thread, holder = NoThread \/ holder = t,
         pc[t] \notin {"helperExec", "flush"}
  PROVE  accepted = {}
<1>1. ASSUME NEW u \in Thread, InSession(u) PROVE FALSE
  <2>1. pc[u] \in {"helperExec", "flush"}
    BY <1>1 DEF SafetyInv, TypeInv, LocalsOK, InSession, SessionPc
  <2>2. holder = u
    BY <2>1 DEF SafetyInv, HolderOK, HoldingPc
  <2> QED
    BY <2>1, <2>2, ThreadAssumption DEF ThreadAssumption
<1> QED
  BY <1>1 DEF SafetyInv, SessionInv, BetweenSessionsOK

\* How a thread comes to be at a program counter that holds the lock.
LEMMA WinOrHold ==
  ASSUME TypeInv, NEW t \in Thread, ThreadMove(t), pc'[t] \in HoldingPc
  PROVE  /\ op'[t] = op[t]
         /\ \/ pc[t] \in HoldingPc
            \/ pc[t] \notin HoldingPc /\ (holder = NoThread \/ holder = t)
<1> USE DEF Goto, Finish, NextRound, HoldingPc, TypeInv, TypeOK, QueueTypeOK
<1>1. CASE Call(t) \/ FutureDiscard(t)
  BY <1>1 DEF Call, UserLock, Delegate, FutureDiscard
<1>2. CASE TryLock(t) \/ AcquireLock(t) \/ LockNow(t) \/ LockGranted(t)
  BY <1>2 DEF TryLock, AcquireLock, LockNow, LockGranted, TakeFree, Granted
<1>3. CASE \/ TryLockBusy(t) \/ EnqueueStep(t) \/ EnqueueRefused(t) \/ EnqueueAccepted(t)
           \/ AcquireFails(t) \/ AcquireOrWait(t) \/ GoToSleep(t) \/ StayAwake(t)
           \/ WakeUp(t) \/ LockQueue(t) \/ Unlock(t) \/ UnlockAndWake(t) \/ Notify(t)
           \/ FutureWait(t)
  BY <1>3 DEF TryLockBusy, EnqueueStep, EnqueueRefused, EnqueueAccepted, AcquireFails,
              AcquireOrWait, GoToSleep, StayAwake, WakeUp, LockQueue, Unlock, UnlockAndWake,
              Notify, FutureWait
<1>4. CASE \/ Execute(t) \/ HelperOpen(t) \/ HelperExecute(t) \/ FlushStep(t)
           \/ FlushRunEntry(t) \/ FlushEnd(t)
  BY <1>4 DEF Execute, HelperOpen, HelperExecute, FlushStep, FlushRunEntry, FlushEnd
<1> QED
  BY <1>1, <1>2, <1>3, <1>4 DEF ThreadMove, Step

\* Nothing is owed to the operation of a thread that holds the lock.
LEMMA HolderIsOwedNothing ==
  ASSUME SafetyInv, TypeInv', OrderOK, NEW t \in Thread, ThreadMove(t),
         NEW u \in Thread, pc'[u] \in HoldingPc, op'[u] # NoOp
  PROVE  owed'[op'[u]] = {}
<1>0. TypeInv /\ op'[u] \in Op
  BY DEF SafetyInv, TypeInv, TypeOK, QueueTypeOK
<1>1. op'[u] = op[u]
  BY <1>0, WinOrHold, Frame
<1>2. owed'[op[u]] \subseteq owed[op[u]]
  BY <1>0, <1>1, OwedShrinks DEF Unused
<1>3. CASE pc[u] \in HoldingPc
  BY <1>1, <1>2, <1>3 DEF OrderOK
<1>4. CASE pc[u] \notin HoldingPc
  <2>1. u = t
    BY <1>0, <1>4, Frame
  <2>2. accepted = {}
    BY <1>0, <1>4, <2>1, WinOrHold, NothingWaits DEF HoldingPc
  <2> QED
    BY <1>0, <1>1, <1>2, <2>2 DEF OrderOK
<1> QED
  BY <1>3, <1>4

-----------------------------------------------------------------------------
(* The order of the slots *)

\* The helper never goes back, and passes the entry that it runs.
LEMMA PositionGrows ==
  ASSUME TypeInv, SessionInv, NEW t \in Thread, InSession(t), InSession(t)', SessionMove(t)
  PROVE  /\ Position(t) \in Nat /\ Position(t)' \in Nat
         /\ Position(t) <= Position(t)'
         /\ FlushRun(t) => Position(t) = index[t] /\ index[t] < Position(t)'
<1>0. /\ Position(t) \in Nat /\ todo[t] \in Nat /\ index[t] \in Nat /\ counter \in Nat
      /\ ENTRIES \in Nat /\ Limit(t) \in Nat
  BY SessionTypes, SlotFacts DEF TypeInv, TypeOK, QueueTypeOK
<1>1. CASE FlushEnter(t)
  BY <1>0, <1>1, PositionFacts DEF FlushEnter, Position, TypeInv, TypeOK, QueueTypeOK, FlushRun
<1>2. CASE FlushLoad(t) \/ FlushClose(t)
  <2> DEFINE limit == IF counter >= ENTRIES THEN ENTRIES ELSE counter
  <2>1. /\ qpc[t] \in {"load", "close"} /\ todo'[t] = limit /\ index'[t] = todo[t]
        /\ \E goOn \in BOOLEAN : qpc'[t] = ScanNext(todo[t], limit, goOn)
    BY <1>2 DEF FlushLoad, FlushClose, StartScan, TypeInv, TypeOK, QueueTypeOK
  <2>2. ScanOK(t) /\ Position(t) = todo[t]
    BY <2>1, PositionFacts
  <2>3. limit = Limit(t) /\ todo[t] <= limit
    BY <2>1, <2>2 DEF ScanOK, Limit
  <2>4. Position(t)' = todo[t] \/ Position(t)' = limit
    BY <2>1 DEF Position, ScanNext
  <2> QED
    BY <1>0, <2>1, <2>2, <2>3, <2>4 DEF FlushRun
<1>3. CASE FlushLoadSame(t) \/ FlushPoll(t)
  BY <1>0, <1>3 DEF FlushLoadSame, FlushPoll, Position, TypeInv, TypeOK, QueueTypeOK, FlushRun
<1>4. CASE FlushRun(t)
  <2> DEFINE next == index[t] + header[index[t]]
  <2>1. /\ qpc[t] = "run" /\ index'[t] = next /\ todo'[t] = todo[t]
        /\ qpc'[t] = ScanNext(next, todo[t], open[t]) /\ entries[index[t]] # "null"
    BY <1>4 DEF FlushRun, TypeInv, TypeOK, QueueTypeOK
  <2>2. Position(t) = index[t] /\ index[t] \in Slot /\ PublishedOK /\ index[t] < todo[t]
    BY <2>1, PositionFacts DEF TypeInv, LocalsOK
  <2>3. header[index[t]] \in Nat /\ header[index[t]] > 0
    BY <2>1, <2>2 DEF PublishedOK, TypeInv, TypeOK, QueueTypeOK
  <2>4. next \in Nat /\ index[t] < next
    BY <1>0, <2>3
  <2>5. Position(t)' = next \/ Position(t)' = todo[t]
    BY <2>1 DEF Position, ScanNext
  <2> QED
    BY <1>0, <2>2, <2>4, <2>5
<1>5. CASE OpenQueue(t) \/ FlushClear(t)
  BY <1>5 DEF OpenQueue, FlushClear, InSession, SessionPc, FlushPc, TypeInv, TypeOK, QueueTypeOK
<1> QED
  BY <1>1, <1>2, <1>3, <1>4, <1>5 DEF SessionMove

\* A step that adds neither a waiting entry nor a claim keeps the order.
LEMMA QuietKeepsOrder ==
  ASSUME TypeInv, SessionInv, NEW h \in Thread, InSession(h), OrderedSlots(h),
         \A i \in Slot : Waits(h, i)' => Waits(h, i) /\ argument'[i] = argument[i],
         \A o \in accepted : owed'[o] \subseteq owed[o],
         \A u \in Thread : qpc'[u] \in WriterPc =>
            /\ qpc[u] \in WriterPc /\ index'[u] = index[u] /\ op'[u] = op[u]
            /\ owed'[op[u]] \subseteq owed[op[u]]
  PROVE  OrderedSlots(h)'
<1>1. \A j \in Slot : Waits(h, j) => argument[j] \in accepted
  BY PositionFacts DEF Waits, AcceptedOK
<1> SUFFICES ASSUME NEW i \in Slot, Waits(h, i)'
             PROVE  /\ \A j \in Slot :
                         Waits(h, j)' /\ argument'[i] \in owed'[argument'[j]] => i < j
                    /\ \A u \in Thread :
                         qpc'[u] \in WriterPc /\ argument'[i] \in owed'[op'[u]] => i < index'[u]
  BY DEF OrderedSlots
<1> QED
  BY <1>1 DEF OrderedSlots

\* A claim lies after everything that waits.
LEMMA ClaimKeepsOrder ==
  ASSUME TypeInv, SessionInv, NEW t \in Thread, ClaimEntry(t) \/ ClaimTail(t),
         NEW h \in Thread, InSession(h), OrderedSlots(h), op[t] \in Op,
         UNCHANGED <<op, owed>>
  PROVE  OrderedSlots(h)'
<1>1. /\ counter < ENTRIES /\ index'[t] = counter
      /\ UNCHANGED <<entries, argument, todo, accepted>>
      /\ \A u \in Thread : u # t => SameLocals(u)
      /\ qpc[t] = "claim"
  <2>1. ReqEntries[op[t]] \in 1..ENTRIES
    BY QueueAssumption DEF QueueAssumption
  <2>2. counter < ENTRIES
    BY <2>1, SlotFacts DEF ClaimEntry, ClaimTail, Fits, TypeInv, TypeOK, QueueTypeOK
  <2> QED
    BY <2>2 DEF ClaimEntry, ClaimTail, Claim, SameLocals, TypeInv, TypeOK, QueueTypeOK
<1>2. h # t /\ Position(h)' = Position(h)
  BY <1>1 DEF InSession, SessionPc, FlushPc, SameLocals, Position
<1>3. TilingOK(h) /\ ScanOK(h) /\ PublishedOK
  BY PositionFacts
<1>4. Limit(h) = counter
  BY <1>1, <1>3, SlotFacts DEF Limit, ScanOK, TypeInv, TypeOK, QueueTypeOK
<1>5. ASSUME NEW i \in Slot, Waits(h, i) PROVE i < counter
  <2>1. slot[i] > 0 /\ i + slot[i] <= counter
    BY <1>3, <1>4, <1>5 DEF Waits, PublishedOK, TilingOK
  <2> QED
    BY <2>1, SlotFacts DEF TypeInv, TypeOK, QueueTypeOK
<1>6. \A i \in Slot : Waits(h, i)' <=> Waits(h, i)
  BY <1>1, <1>2 DEF Waits
<1> SUFFICES ASSUME NEW i \in Slot, Waits(h, i)
             PROVE  /\ \A j \in Slot :
                         Waits(h, j) /\ argument[i] \in owed[argument[j]] => i < j
                    /\ \A u \in Thread :
                         qpc'[u] \in WriterPc /\ argument[i] \in owed[op[u]] => i < index'[u]
  BY <1>1, <1>6 DEF OrderedSlots
<1> QED
  BY <1>1, <1>5 DEF OrderedSlots, SameLocals

\* An entry that is published waits after what its operation is owed.
LEMMA PublishKeepsOrder ==
  ASSUME TypeInv, SessionInv, NEW t \in Thread, Publish(t), NEW h \in Thread,
         InSession(h), OrderedSlots(h), op[t] \in Op, op[t] \notin accepted,
         UNCHANGED owed, \A o \in Op : owed[o] \subseteq accepted,
         \A u \in Thread : u # t => op'[u] = op[u] /\ SameLocals(u)
  PROVE  OrderedSlots(h)'
<1> DEFINE c == index[t]
<1>1. /\ qpc[t] = "publish" /\ qpc'[t] = "idle" /\ UNCHANGED argument
      /\ c \in Slot /\ argument[c] = op[t]
      /\ \A i \in Slot : i # c => entries'[i] = entries[i]
  BY WriterInSession DEF Publish, SessionInv, WriterOK, WriterPc, TypeInv, TypeOK, QueueTypeOK
<1>2. h # t /\ Position(h)' = Position(h)
  BY <1>1 DEF InSession, SessionPc, FlushPc, SameLocals, Position
<1>3. \A i \in Slot : Waits(h, i)' => i = c \/ Waits(h, i)
  BY <1>1, <1>2 DEF Waits
<1>4. ASSUME NEW i \in Slot, Waits(h, i) PROVE argument[i] \in accepted
  BY <1>4, PositionFacts DEF Waits, AcceptedOK
<1>5. \A u \in Thread : qpc'[u] \in WriterPc =>
        qpc[u] \in WriterPc /\ u # t /\ op[u] \in Op /\ op'[u] = op[u] /\ index'[u] = index[u]
  BY <1>1 DEF SameLocals, WriterPc, EnqueuePc, TypeInv, TypeOK, QueueTypeOK, LocalsOK
<1> SUFFICES ASSUME NEW i \in Slot, Waits(h, i)'
             PROVE  /\ \A j \in Slot :
                         Waits(h, j)' /\ argument[i] \in owed[argument[j]] => i < j
                    /\ \A u \in Thread :
                         qpc'[u] \in WriterPc /\ argument[i] \in owed[op'[u]] => i < index'[u]
  BY <1>1 DEF OrderedSlots
<1>6. CASE i = c
  <2>1. \A o \in Op : argument[i] \notin owed[o]
    BY <1>1, <1>6
  <2>2. \A j \in Slot : Waits(h, j)' => argument[j] \in Op
    BY <1>1, <1>3, <1>4 DEF TypeInv, TypeOK, QueueTypeOK
  <2> QED
    BY <1>5, <2>1, <2>2
<1>7. CASE i # c
  <2>1. Waits(h, i)
    BY <1>3, <1>7
  <2>2. argument[i] \in owed[argument[c]] => i < c
    BY <1>1, <2>1 DEF OrderedSlots, WriterPc
  <2> QED
    BY <1>3, <1>5, <2>1, <2>2 DEF OrderedSlots
<1> QED
  BY <1>6, <1>7

-----------------------------------------------------------------------------
(* The composition *)

\* The slots stay in order in every step of the session of h.
LEMMA OrderStep ==
  ASSUME SafetyInv, SafetyInv', OrderOK, NEW t \in Thread, ThreadMove(t),
         NEW h \in Thread, InSession(h)'
  PROVE  OrderedSlots(h)'
<1>1. TypeInv /\ TypeInv' /\ SessionInv /\ OwnersOK /\ OneSession
  BY SessionUnique DEF SafetyInv
<1>2. \A u \in Thread : InSession(u)' => u = h
  BY DEF SafetyInv, TypeInv, LocalsOK, HolderOK, HoldingPc, InSession, SessionPc
<1>3. CASE ~InSession(h)
  <2>1. h = t /\ qpc'[t] \in SessionPc /\ qpc[t] \notin SessionPc
    BY <1>1, <1>3, Frame DEF InSession
  <2>2. OpenQueue(t)
    <3>1. ~EnqueueMove(t)
      BY <1>1, <2>1
         DEF EnqueueMove, EnqueueLoad, CasRetry, ClaimEntry, ClaimTail, ClaimNothing, WriteEntry,
             Publish, WriteNoOp, PublishNoOp, SessionPc, FlushPc, TypeInv, TypeOK, QueueTypeOK
    <3>2. SessionMove(t)
      BY <2>1, <3>1, QueuePart DEF queueVars
    <3> QED
      BY <2>1, <3>2 DEF SessionMove, FlushEnter, FlushLoad, FlushLoadSame, FlushClose, FlushPoll,
                        FlushRun, FlushClear, SessionPc, FlushPc
  <2>3. \A u \in Thread : ~InSession(u)
    <3>1. \A u \in Thread : InSession(u) => InSession(u)'
      BY <1>1, <1>3, <2>1, Frame DEF InSession
    <3> QED
      BY <1>2, <1>3, <3>1
  <2>4. \A i \in Slot : entries'[i] = "null"
    BY <1>1, <2>2, <2>3 DEF OpenQueue, SessionInv, BetweenSessionsOK
  <2> QED
    BY <2>4 DEF OrderedSlots, Waits
<1>4. CASE InSession(h)
  <2>0. OrderedSlots(h)
    BY <1>4 DEF OrderOK
  <2>1. \A u \in Thread : u # t => SameLocals(u) /\ op'[u] = op[u]
    BY <1>1, Frame DEF SameLocals
  <2>2. \A o \in accepted : owed'[o] \subseteq owed[o]
    BY <1>1, OwedShrinks DEF Unused, TypeInv, TypeOK, QueueTypeOK
  <2>3. \A u \in Thread : op[u] \in Op => owed'[op[u]] \subseteq owed[op[u]]
    BY <1>1, OwedShrinks DEF Unused
  <2>4. \A u \in Thread : qpc[u] \in WriterPc => op[u] \in Op
    BY <1>1 DEF WriterPc, EnqueuePc, TypeInv, TypeOK, QueueTypeOK, LocalsOK
  <2>5. CASE pc[t] = "enqueue" /\ EnqueueMove(t)
    <3>1. h # t
      BY <1>1, <1>4, <2>5 DEF InSession, SessionPc, TypeInv, LocalsOK
    <3>2. Position(h)' = Position(h)
      BY <2>1, <3>1 DEF SameLocals, Position
    <3>3. op[t] \in Op /\ op[t] \notin accepted /\ UNCHANGED owed
      <4>1. UNCHANGED owed
        BY <2>5, OwedStep DEF FlushRunEntry, Delegate
      <4> QED
        BY <1>1, <2>5, <4>1 DEF TypeInv, TypeOK, QueueTypeOK, LocalsOK, OwnersOK
    <3>4. CASE ClaimEntry(t) \/ ClaimTail(t)
      <4>1. UNCHANGED op
        BY <1>1, <2>5, <3>4
           DEF ThreadMove, Call, UserLock, Delegate, FutureDiscard, Step, TryLock, TryLockBusy,
               EnqueueStep, EnqueueRefused, EnqueueAccepted, EnqueueClosed, ClaimNothing,
               ClaimEntry, ClaimTail, Publish, PublishNoOp, Claim, AcquireLock, AcquireFails,
               AcquireOrWait, GoToSleep, StayAwake, WakeUp, LockNow, LockQueue, LockGranted,
               Execute, HelperOpen, HelperExecute, FlushStep, FlushRunEntry, FlushEnd, Unlock,
               UnlockAndWake, Notify, FutureWait
      <4> QED
        BY <1>1, <1>4, <2>0, <3>3, <3>4, <4>1, ClaimKeepsOrder
    <3>5. CASE Publish(t)
      BY <1>1, <1>4, <2>0, <2>1, <3>3, <3>5, PublishKeepsOrder DEF OrderOK
    <3>6. CASE EnqueueLoad(t) \/ CasRetry(t) \/ ClaimNothing(t) \/ PublishNoOp(t)
      <4>1. UNCHANGED argument /\ qpc'[t] \notin WriterPc
        BY <1>1, <3>6 DEF EnqueueLoad, CasRetry, ClaimNothing, PublishNoOp, WriterPc, TypeInv,
                          TypeOK, QueueTypeOK
      <4>2. \A i \in Slot : entries'[i] = "wrapper" => entries[i] = "wrapper"
        BY <1>1, <3>6 DEF EnqueueLoad, CasRetry, ClaimNothing, PublishNoOp, TypeInv,
                          TypeOK, QueueTypeOK
      <4>3. \A i \in Slot : Waits(h, i)' => Waits(h, i)
        BY <3>2, <4>2 DEF Waits
      <4> QED
        BY <1>1, <1>4, <2>0, <2>1, <2>2, <2>3, <2>4, <4>1, <4>3, QuietKeepsOrder
           DEF SameLocals
    <3>7. CASE WriteEntry(t) \/ WriteNoOp(t)
      <4>1. /\ qpc[t] \in WriterPc /\ UNCHANGED <<entries, index>>
            /\ \A i \in Slot : i # index[t] => argument'[i] = argument[i]
        BY <1>1, <3>7 DEF WriteEntry, WriteNoOp, WriterPc, TypeInv, TypeOK, QueueTypeOK
      <4>2. index[t] \in Slot /\ entries[index[t]] = "null"
        BY <1>1, <4>1, WriterInSession
      <4>3. \A i \in Slot : Waits(h, i)' => Waits(h, i) /\ argument'[i] = argument[i]
        BY <3>2, <4>1, <4>2 DEF Waits
      <4>4. op'[t] = op[t]
        BY <1>1, <2>5, <3>7
           DEF ThreadMove, Call, UserLock, Delegate, FutureDiscard, Step, TryLock, TryLockBusy,
               EnqueueStep, EnqueueRefused, EnqueueAccepted, EnqueueClosed, ClaimNothing,
               WriteEntry, WriteNoOp, Publish, PublishNoOp, Claim, AcquireLock, AcquireFails,
               AcquireOrWait, GoToSleep, StayAwake, WakeUp, LockNow, LockQueue, LockGranted,
               Execute, HelperOpen, HelperExecute, FlushStep, FlushRunEntry, FlushEnd, Unlock,
               UnlockAndWake, Notify, FutureWait
      <4> QED
        BY <1>1, <1>4, <2>0, <2>1, <2>2, <2>3, <2>4, <4>1, <4>3, <4>4, QuietKeepsOrder
           DEF SameLocals
    <3> QED
      BY <2>5, <3>4, <3>5, <3>6, <3>7 DEF EnqueueMove
  <2>6. CASE SessionMove(t) /\ op' = op
    <3>1. h = t
      <4>1. InSession(t) \/ OpenQueue(t)
        BY <2>6 DEF SessionMove, FlushEnter, FlushLoad, FlushLoadSame, FlushClose, FlushPoll,
                    FlushRun, FlushClear, InSession, SessionPc, FlushPc
      <4>2. OpenQueue(t) => InSession(t)'
        BY <1>1 DEF OpenQueue, InSession, SessionPc, TypeInv, TypeOK, QueueTypeOK
      <4> QED
        BY <1>1, <1>2, <1>4, <4>1, <4>2 DEF OneSession
    <3>2. /\ Position(t) \in Nat /\ Position(t)' \in Nat /\ Position(t) <= Position(t)'
          /\ FlushRun(t) => Position(t) = index[t] /\ index[t] < Position(t)'
      BY <1>1, <1>4, <2>6, <3>1, PositionGrows
    <3>3. \A i \in Slot : entries'[i] = "wrapper" => entries[i] = "wrapper"
      BY <2>6 DEF SessionMove, OpenQueue, FlushEnter, FlushLoad, FlushLoadSame, FlushClose,
                  FlushPoll, FlushRun, FlushClear
    <3>4. \A i \in Slot : argument'[i] = argument[i] \/ (FlushRun(t) /\ i = index[t])
      BY <1>1, <2>6 DEF SessionMove, OpenQueue, FlushEnter, FlushLoad, FlushLoadSame, FlushClose,
                  FlushPoll, FlushRun, FlushClear, TypeInv, TypeOK, QueueTypeOK
    <3>5. ASSUME NEW i \in Slot, Waits(h, i)' PROVE Waits(h, i) /\ argument'[i] = argument[i]
      BY <3>1, <3>2, <3>3, <3>4, <3>5, SlotFacts DEF Waits
    <3>6. qpc[t] \notin WriterPc /\ qpc'[t] \notin WriterPc
      BY <1>1, <1>4, <3>1 DEF InSession, SessionPc, FlushPc, WriterPc
    <3> QED
      BY <1>1, <1>4, <2>0, <2>1, <2>2, <2>3, <2>4, <2>6, <3>5, <3>6, QuietKeepsOrder
         DEF SameLocals
  <2>7. CASE UNCHANGED queueVars
    <3>1. \A i \in Slot : Waits(h, i)' => Waits(h, i) /\ argument'[i] = argument[i]
      BY <2>7 DEF queueVars, Waits, Position
    <3>2. \A u \in Thread : qpc[u] \in WriterPc => op'[u] = op[u]
      BY <1>1, <2>7, OpUnchangedInQueue
    <3> QED
      BY <1>1, <1>4, <2>0, <2>2, <2>3, <2>4, <2>7, <3>1, <3>2, QuietKeepsOrder DEF queueVars
  <2> QED
    BY <2>5, <2>6, <2>7, QueuePart
<1> QED
  BY <1>3, <1>4

\* The order is inductive together with the safety invariant.
LEMMA OrderNext == SafetyInv /\ SafetyInv' /\ OrderOK /\ [Next]_vars => OrderOK'
<1> SUFFICES ASSUME SafetyInv, SafetyInv', OrderOK, [Next]_vars PROVE OrderOK'
  OBVIOUS
<1>1. CASE Next
  <2>1. PICK t \in Thread : ThreadMove(t)
    BY <1>1 DEF Next, ThreadMove
  <2>2. \A o \in Op : owed'[o] \subseteq accepted'
    BY <2>1, OwedAccepted DEF SafetyInv, OrderOK
  <2>3. \A u \in Thread : pc'[u] \in HoldingPc /\ op'[u] # NoOp => owed'[op'[u]] = {}
    BY <2>1, HolderIsOwedNothing DEF SafetyInv
  <2>4. \A h \in Thread : InSession(h)' => OrderedSlots(h)'
    BY <2>1, OrderStep
  <2> QED
    BY <2>2, <2>3, <2>4 DEF OrderOK
<1>2. CASE UNCHANGED vars
  BY <1>2 DEF vars, queueVars, OrderOK, OrderedSlots, Waits, Position, InSession
<1> QED
  BY <1>1, <1>2

\* What an operation is owed waits in slots before its own, and whoever has
\* won the lock is owed nothing.
THEOREM OrderCorrect == ZeroedStorage => (Spec => []OrderOK)
<1> SUFFICES ASSUME ZeroedStorage PROVE Spec => []OrderOK
  OBVIOUS
<1>1. Init => OrderOK
  BY DEF Init, QueueInit, OrderOK, HoldingPc, InSession, SessionPc, FlushPc
<1>2. SafetyInv /\ SafetyInv' /\ OrderOK /\ [Next]_vars => OrderOK'
  BY OrderNext
<1> QED
  BY <1>1, <1>2, SafetyInvCorrect, PTL DEF Spec

\* The operation that starts to run is owed nothing.
LEMMA OrderMeans == SafetyInv /\ OrderOK => RealTimeOrder
<1> SUFFICES ASSUME SafetyInv, OrderOK, NEW t \in Thread, NEW o \in Op, Runs(t, o)
             PROVE  owed[o] = {}
  BY DEF RealTimeOrder
<1>1. CASE pc[t] \in {"exec", "helperExec"} /\ op[t] = o
  BY <1>1, QueueAssumption DEF QueueAssumption, OrderOK, HoldingPc
<1>2. CASE qpc[t] = "run" /\ entries[index[t]] = "wrapper" /\ argument[index[t]] = o
  <2>1. InSession(t) /\ TypeInv /\ SessionInv
    BY <1>2 DEF InSession, SessionPc, FlushPc, SafetyInv
  <2>2. AcceptedOK(t) /\ Position(t) = index[t] /\ index[t] \in Slot /\ OrderedSlots(t)
    BY <1>2, <2>1, PositionFacts DEF OrderOK
  <2>3. Waits(t, index[t])
    BY <1>2, <2>2, SlotFacts DEF Waits
  <2>4. ASSUME NEW p \in owed[o] PROVE FALSE
    <3>1. p \in accepted
      BY <2>4 DEF OrderOK
    <3>2. PICK i \in Slot : Waits(t, i) /\ argument[i] = p
      BY <2>2, <3>1 DEF AcceptedOK, Waits
    <3>3. i < index[t]
      BY <1>2, <2>2, <2>3, <2>4, <3>2 DEF OrderedSlots
    <3> QED
      BY <2>2, <3>2, <3>3, SlotFacts DEF Waits
  <2> QED
    BY <2>4
<1> QED
  BY <1>1, <1>2 DEF Runs

\* An operation runs after every operation that had been accepted when it was
\* delegated, whichever threads run them.
THEOREM RealTimeOrderCorrect == ZeroedStorage => (Spec => []RealTimeOrder)
  BY OrderMeans, OrderCorrect, SafetyInvCorrect, PTL

=============================================================================
