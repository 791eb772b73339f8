----------------------- MODULE QDLockRefinementProofs -----------------------
(***************************************************************************)
(* QDLock implements Delegation, and its queue TantrumQueue: every step of *)
(* a thread is a step of the abstract specification or leaves its          *)
(* variables alone.                                                        *)
(***************************************************************************)
EXTENDS QDLockOrderProofs, QDLockRefinement

Good == SafetyInv /\ OrderOK

Running(o) == \E t \in Thread : Runs(t, o)

\* The phase of an operation that its caller still delegates, from the
\* program counter of the caller.
OwnPhase(place) ==
  IF place \in {"exec", "helperExec"} THEN "running"
  ELSE IF place \in WaitingPc \cup {"open"} THEN "pending"
  ELSE IF place \in {"flush", "unlock", "notify"} THEN "done"
  ELSE "free"

\* The phase of an operation that delegate() has left to the helper.
StoredPhase(o) ==
  IF Running(o) THEN "running"
  ELSE IF o \in accepted THEN "pending"
  ELSE IF Attached(o) THEN "done"
  ELSE "free"

Left(o) == \A t \in Thread : op[t] = o => pc[t] = "future"

OwnPhases ==
  \A t \in Thread : op[t] \in Op /\ pc[t] # "future" =>
    /\ PhaseOf(op[t]) = OwnPhase(pc[t])
    /\ CallerOf(op[t]) = "in"

StoredPhases ==
  \A o \in Op : Left(o) =>
    /\ PhaseOf(o) = StoredPhase(o)
    /\ CallerOf(o) = IF Attached(o) THEN "future" ELSE "gone"

\* Only the thread that holds the lock runs an operation.
LEMMA HolderRuns ==
  Good => \A t \in Thread, o \in Op :
    Runs(t, o) => pc[t] \in HoldingPc /\ holder = t
  BY DEF Good, SafetyInv, HolderOK, HoldingPc, Runs

\* What flush() runs has been accepted.
LEMMA RunsAccepted ==
  Good => \A t \in Thread, o \in Op :
    pc[t] = "flush" /\ Runs(t, o) => o \in accepted
<1> SUFFICES ASSUME Good, NEW t \in Thread, NEW o \in Op, pc[t] = "flush", Runs(t, o)
             PROVE  o \in accepted
  OBVIOUS
<1>1. qpc[t] = "run" /\ entries[index[t]] = "wrapper" /\ argument[index[t]] = o
  BY DEF Runs
<1>2. TypeInv /\ SessionInv /\ InSession(t)
  BY <1>1 DEF Good, SafetyInv, InSession, SessionPc, FlushPc
<1>3. AcceptedOK(t) /\ Position(t) = index[t] /\ index[t] \in Slot
  BY <1>1, <1>2, PositionFacts
<1> QED
  BY <1>1, <1>3, SlotFacts DEF AcceptedOK

\* The phase of an operation whose caller is still in delegate().
LEMMA OwnPhasesHold == Good => OwnPhases
<1> SUFFICES ASSUME Good, NEW t \in Thread, op[t] \in Op, pc[t] # "future"
             PROVE  PhaseOf(op[t]) = OwnPhase(pc[t]) /\ CallerOf(op[t]) = "in"
  BY DEF OwnPhases
<1>1. op[t] \notin accepted /\ \A u \in Thread : op[u] = op[t] => u = t
  BY QueueAssumption DEF QueueAssumption, Good, SafetyInv, OwnersOK
<1>2. (\E u \in Thread : Runs(u, op[t])) <=> pc[t] \in {"exec", "helperExec"}
  <2>1. ASSUME NEW u \in Thread, Runs(u, op[t]) PROVE pc[t] \in {"exec", "helperExec"}
    BY <1>1, <2>1, RunsAccepted DEF Runs
  <2>2. pc[t] \in {"exec", "helperExec"} => Runs(t, op[t])
    BY DEF Runs
  <2> QED
    BY <2>1, <2>2
<1>3. \A places : At(op[t], places) <=> pc[t] \in places
  BY <1>1 DEF At
<1>4. CallerOf(op[t]) = "in"
  BY <1>3 DEF CallerOf, Attached
<1>5. PhaseOf(op[t]) = OwnPhase(pc[t])
  BY <1>1, <1>2, <1>3 DEF PhaseOf, OwnPhase, WaitingPc
<1> QED
  BY <1>4, <1>5

\* The phase of an operation whose caller has left delegate(), or that nobody
\* delegates.
LEMMA StoredPhasesHold == Good => StoredPhases
<1> SUFFICES ASSUME Good, NEW o \in Op, Left(o)
             PROVE  /\ PhaseOf(o) = StoredPhase(o)
                    /\ CallerOf(o) = IF Attached(o) THEN "future" ELSE "gone"
  BY DEF StoredPhases
<1>1. At(o, {"future"}) <=> Attached(o)
  BY DEF At, Attached, Left
<1>2. ~At(o, WaitingPc \cup {"open"})
  BY DEF At, Left, WaitingPc
<1>3. At(o, {"flush", "unlock", "notify", "future"}) <=> Attached(o)
  BY DEF At, Attached, Left
<1>4. CallerOf(o) = IF Attached(o) THEN "future" ELSE "gone"
  BY <1>1 DEF CallerOf
<1>5. PhaseOf(o) = StoredPhase(o)
  BY <1>2, <1>3 DEF PhaseOf, StoredPhase, Running
<1> QED
  BY <1>4, <1>5

\* Both hold after a step as well.
LEMMA PhasesAfter == Good' => OwnPhases' /\ StoredPhases'
  BY OwnPhasesHold, StoredPhasesHold, PTL

\* So does the order.
LEMMA OrderAfter == Good' => RealTimeOrder'
<1>1. Good => RealTimeOrder
  BY OrderMeans DEF Good
<1> QED
  BY <1>1, PTL

-----------------------------------------------------------------------------
(* What a step of t leaves alone *)

\* The operations of the other threads stay where they are.
LEMMA AtOthers ==
  ASSUME TypeInv, NEW t \in Thread, ThreadMove(t), NEW o \in Op, op[t] # o, op'[t] # o
  PROVE  /\ \A places : At(o, places)' <=> At(o, places)
         /\ Attached(o)' <=> Attached(o)
  BY Frame DEF At, Attached

\* What another thread runs is not disturbed.
LEMMA RunsOthers ==
  ASSUME Good, NEW t \in Thread, ThreadMove(t), NEW u \in Thread, u # t, NEW o \in Op
  PROVE  Runs(u, o)' <=> Runs(u, o)
<1>0. TypeInv /\ SessionInv /\ OneSession
  BY SessionUnique DEF Good, SafetyInv
<1>1. pc'[u] = pc[u] /\ op'[u] = op[u] /\ qpc'[u] = qpc[u] /\ index'[u] = index[u]
  BY <1>0, Frame
<1>2. CASE qpc[u] # "run"
  BY <1>1, <1>2 DEF Runs
<1>3. CASE qpc[u] = "run"
  <2>1. InSession(u) /\ index[u] \in Slot /\ entries[index[u]] # "null"
    BY <1>0, <1>3, PositionFacts DEF InSession, SessionPc, FlushPc, ScanOK
  <2>2. entries'[index[u]] = entries[index[u]] /\ argument'[index[u]] = argument[index[u]]
    <3>1. CASE EnqueueMove(t)
      <4>1. CASE WriteEntry(t) \/ WriteNoOp(t) \/ Publish(t) \/ PublishNoOp(t)
        <5>1. index[t] # index[u]
          BY <1>0, <2>1, <4>1, WriterInSession
             DEF WriteEntry, WriteNoOp, Publish, PublishNoOp, WriterPc
        <5> QED
          BY <1>0, <2>1, <4>1, <5>1 DEF WriteEntry, WriteNoOp, Publish, PublishNoOp, TypeInv, TypeOK, QueueTypeOK
      <4>2. CASE \/ EnqueueLoad(t) \/ CasRetry(t) \/ ClaimEntry(t) \/ ClaimTail(t)
                 \/ ClaimNothing(t)
        BY <4>2 DEF EnqueueLoad, CasRetry, ClaimEntry, ClaimTail, ClaimNothing, Claim
      <4> QED
        BY <3>1, <4>1, <4>2 DEF EnqueueMove
    <3>2. CASE SessionMove(t)
      <4>1. ~InSession(t)
        BY <1>0, <2>1 DEF OneSession
      <4>2. OpenQueue(t)
        BY <3>2, <4>1 DEF SessionMove, FlushEnter, FlushLoad, FlushLoadSame, FlushClose,
                          FlushPoll, FlushRun, FlushClear, InSession, SessionPc, FlushPc
      <4> QED
        BY <4>2 DEF OpenQueue
    <3>3. CASE UNCHANGED queueVars
      BY <3>3 DEF queueVars
    <3> QED
      BY <3>1, <3>2, <3>3, QueuePart
  <2> QED
    BY <1>1, <2>2 DEF Runs
<1> QED
  BY <1>2, <1>3

\* An operation that t neither delegates nor runs, accepts or drops keeps its
\* phase and its caller.
LEMMA OtherOps ==
  ASSUME Good, NEW t \in Thread, ThreadMove(t), NEW o \in Op, op[t] # o, op'[t] # o,
         o \in accepted' <=> o \in accepted, Runs(t, o)' <=> Runs(t, o)
  PROVE  PhaseOf(o)' = PhaseOf(o) /\ CallerOf(o)' = CallerOf(o)
<1>1. /\ \A places : At(o, places)' <=> At(o, places)
      /\ Attached(o)' <=> Attached(o)
  BY AtOthers DEF Good, SafetyInv
<1>2. (\E u \in Thread : Runs(u, o))' <=> (\E u \in Thread : Runs(u, o))
  BY RunsOthers
<1> QED
  BY <1>1, <1>2 DEF PhaseOf, CallerOf

\* A thread that holds the lock is alone in running operations.
LEMMA Alone ==
  ASSUME Good, NEW t \in Thread, holder = NoThread \/ holder = t
  PROVE  /\ \A u \in Thread, o \in Op : Runs(u, o) => u = t
         /\ \A u \in Thread : pc[u] \in HoldingPc => u = t
  BY HolderRuns, ThreadAssumption DEF ThreadAssumption, Good, SafetyInv, HolderOK

-----------------------------------------------------------------------------
(* The steps of a thread as steps of Delegation *)

LockedNow == \E t \in Thread : pc[t] = "exec" /\ op[t] = NoOp

\* Whether some thread is between lock() and unlock() is up to t alone.
LEMMA LockedStep ==
  ASSUME TypeInv, NEW t \in Thread, ThreadMove(t),
         pc'[t] = "exec" /\ op'[t] = NoOp <=> pc[t] = "exec" /\ op[t] = NoOp
  PROVE  LockedNow' = LockedNow
  BY Frame DEF LockedNow

\* Whatever leaves the operation of t in its phase and runs, accepts or drops
\* no other is invisible to the callers.
LEMMA Invisible ==
  ASSUME Good, Good', NEW t \in Thread, ThreadMove(t), op'[t] = op[t],
         UNCHANGED <<owed, accepted>>, \A o \in Op : Runs(t, o)' <=> Runs(t, o),
         op[t] \in Op => /\ pc[t] # "future" /\ pc'[t] # "future"
                        /\ OwnPhase(pc'[t]) = OwnPhase(pc[t]),
         pc'[t] = "exec" /\ op[t] = NoOp <=> pc[t] = "exec" /\ op[t] = NoOp
  PROVE  UNCHANGED Abstract!absVars
<1>1. ASSUME NEW o \in Op PROVE PhaseOf(o)' = PhaseOf(o) /\ CallerOf(o)' = CallerOf(o)
  <2>1. CASE op[t] = o
    <3>1. PhaseOf(op[t])' = OwnPhase(pc'[t]) /\ CallerOf(op[t])' = "in"
      BY <2>1, PhasesAfter DEF OwnPhases, OwnPhase
    <3>2. PhaseOf(op[t]) = OwnPhase(pc[t]) /\ CallerOf(op[t]) = "in"
      BY <2>1, OwnPhasesHold DEF OwnPhases
    <3> QED
      BY <2>1, <3>1, <3>2
  <2>2. CASE op[t] # o
    BY <2>2, OtherOps
  <2> QED
    BY <2>1, <2>2
<1>2. LockedNow' = LockedNow
  BY LockedStep DEF Good, SafetyInv
<1> QED
  BY <1>1, <1>2 DEF Abstract!absVars, LockedNow

\* Steps on the way to the lock, and from the end of a run to the return.
LEMMA QuietMoves ==
  ASSUME Good, Good', NEW t \in Thread, ThreadMove(t),
         \/ TryLockBusy(t) \/ EnqueueStep(t) \/ EnqueueRefused(t)
         \/ AcquireLock(t) \/ AcquireFails(t) \/ AcquireOrWait(t)
         \/ GoToSleep(t) \/ StayAwake(t) \/ WakeUp(t) \/ LockQueue(t)
         \/ FlushEnd(t) \/ UnlockAndWake(t)
  PROVE  UNCHANGED Abstract!absVars
<1> USE DEF Goto, NextRound, WaitingPc
<1>0. TypeInv /\ pc \in [Thread -> HoldingPc \cup WaitingPc \cup {"idle", "notify", "future"}]
  BY DEF Good, SafetyInv, TypeInv, TypeOK
<1>1. op' = op /\ UNCHANGED owed
  BY DEF TryLockBusy, EnqueueStep, EnqueueRefused, AcquireLock, AcquireFails, AcquireOrWait,
         GoToSleep, StayAwake, WakeUp, LockQueue, FlushEnd, UnlockAndWake
<1>2. UNCHANGED accepted
  BY DEF TryLockBusy, EnqueueStep, EnqueueRefused, AcquireLock, AcquireFails, AcquireOrWait,
         GoToSleep, StayAwake, WakeUp, LockQueue, FlushEnd, UnlockAndWake, queueVars,
         EnqueueLoad, CasRetry, ClaimEntry, WriteEntry, ClaimTail, WriteNoOp, EnqueueClosed,
         ClaimNothing, PublishNoOp, FlushClear
<1>3. \/ pc[t] \in WaitingPc /\ pc'[t] \in WaitingPc \cup {"open"}
      \/ pc[t] \in {"flush", "unlock"} /\ pc'[t] \in {"unlock", "notify"}
  BY <1>0 DEF TryLockBusy, EnqueueStep, EnqueueRefused, AcquireLock, AcquireFails,
         AcquireOrWait, GoToSleep, StayAwake, WakeUp, LockQueue, FlushEnd, UnlockAndWake
<1>4. pc[t] = "flush" => qpc[t] # "run"
  BY DEF TryLockBusy, EnqueueStep, EnqueueRefused, AcquireLock, AcquireFails, AcquireOrWait,
         GoToSleep, StayAwake, WakeUp, LockQueue, FlushEnd, FlushClear, UnlockAndWake
<1>5. \A o \in Op : Runs(t, o)' <=> Runs(t, o)
  BY <1>3, <1>4 DEF Runs
<1> QED
  BY <1>1, <1>2, <1>3, <1>5, Invisible DEF OwnPhase

\* A call of lock(), and the return of unlock(), are no business of the
\* operations.
LEMMA UserMoves ==
  ASSUME Good, Good', NEW t \in Thread, ThreadMove(t),
         UserLock(t) \/ ((Unlock(t) \/ Notify(t)) /\ op[t] = NoOp)
  PROVE  UNCHANGED Abstract!absVars
<1>0. TypeInv /\ pc \in [Thread -> HoldingPc \cup WaitingPc \cup {"idle", "notify", "future"}]
      /\ op \in [Thread -> Op \cup {NoOp}]
  BY DEF Good, SafetyInv, TypeInv, TypeOK, QueueTypeOK
<1>1. op[t] = NoOp /\ op'[t] = NoOp /\ NoOp \notin Op /\ UNCHANGED <<owed, accepted>>
  BY <1>0, QueueAssumption
     DEF QueueAssumption, UserLock, Unlock, Notify, Finish, queueVars, TypeInv, LocalsOK
<1>2. pc[t] \in {"idle", "unlock", "notify"} /\ pc'[t] \in {"lock", "idle"}
  BY <1>0 DEF UserLock, Unlock, Notify, Finish, Goto
<1>3. \A o \in Op : Runs(t, o)' <=> Runs(t, o)
  BY <1>2 DEF Runs
<1> QED
  BY <1>1, <1>2, <1>3, Invisible

\* The thread that wins the lock to run its own operation, or its own code.
LEMMA WinMoves ==
  ASSUME Good, Good', NEW t \in Thread, ThreadMove(t),
         TryLock(t) \/ LockNow(t) \/ LockGranted(t) \/ HelperOpen(t)
  PROVE  IF op[t] = NoOp THEN Abstract!AbsLock ELSE Abstract!AbsStart(op[t])
<1>0. TypeInv /\ pc \in [Thread -> HoldingPc \cup WaitingPc \cup {"idle", "notify", "future"}]
      /\ op[t] \in Op \cup {NoOp} /\ NoOp \notin Op
  BY QueueAssumption DEF QueueAssumption, Good, SafetyInv, TypeInv, TypeOK, QueueTypeOK
<1>1. /\ op' = op /\ UNCHANGED <<owed, accepted>>
      /\ pc[t] \in WaitingPc \cup {"open"} /\ pc'[t] \in {"exec", "helperExec"}
      /\ holder = NoThread \/ holder = t
      /\ op[t] = NoOp => pc'[t] = "exec"
  <2>1. CASE TryLock(t) \/ LockNow(t) \/ LockGranted(t)
    BY <1>0, <2>1 DEF TryLock, LockNow, LockGranted, TakeFree, Granted, Goto, queueVars, WaitingPc
  <2>2. CASE HelperOpen(t)
    BY <1>0, <2>2 DEF HelperOpen, OpenQueue, Goto, Good, SafetyInv, HolderOK, HoldingPc,
                      TypeInv, LocalsOK
  <2> QED
    BY <2>1, <2>2
<1>2. \A u \in Thread, o \in Op : ~Runs(u, o)
  BY <1>1, Alone DEF Runs, WaitingPc
<1>3. ~LockedNow
  BY <1>1, Alone DEF LockedNow, HoldingPc, WaitingPc
<1>4. \A o \in Op : PhaseOf(o) # "running"
  BY <1>2 DEF PhaseOf
<1>5. ~Abstract!Busy
  BY <1>3, <1>4 DEF Abstract!Busy, LockedNow
<1>6. \A o \in Op : op[t] # o => PhaseOf(o)' = PhaseOf(o) /\ CallerOf(o)' = CallerOf(o)
  <2>1. \A o \in Op : op[t] # o => ~Runs(t, o)'
    BY <1>1 DEF Runs
  <2> QED
    BY <1>1, <1>2, <2>1, OtherOps
<1>7. CASE op[t] = NoOp
  <2>1. LockedNow'
    BY <1>1, <1>7 DEF LockedNow
  <2>2. \A o \in Op : PhaseOf(o)' = PhaseOf(o) /\ CallerOf(o)' = CallerOf(o)
    BY <1>0, <1>6, <1>7
  <2> QED
    BY <1>1, <1>5, <1>7, <2>1, <2>2 DEF Abstract!AbsLock, LockedNow
<1>8. CASE op[t] \in Op
  <2>1. PhaseOf(op[t]) = "pending" /\ CallerOf(op[t]) = "in"
    BY <1>1, <1>8, OwnPhasesHold DEF OwnPhases, OwnPhase, WaitingPc
  <2>2. PhaseOf(op[t])' = "running" /\ CallerOf(op[t])' = "in"
    BY <1>1, <1>8, PhasesAfter DEF OwnPhases, OwnPhase
  <2>3. owed[op[t]] = {}
    BY <1>0, <1>1, <1>8 DEF Good, OrderOK, HoldingPc
  <2>4. LockedNow' = LockedNow
    BY <1>0, <1>1, <1>8, LockedStep
  <2> QED
    BY <1>0, <1>1, <1>5, <1>6, <1>8, <2>1, <2>2, <2>3, <2>4
       DEF Abstract!AbsStart, LockedNow
<1> QED
  BY <1>0, <1>7, <1>8

\* The end of the thread's own operation, or of its own code under the lock.
LEMMA EndMoves ==
  ASSUME Good, Good', NEW t \in Thread, ThreadMove(t), Execute(t) \/ HelperExecute(t)
  PROVE  IF op[t] = NoOp THEN Abstract!AbsUnlock ELSE Abstract!AbsFinish(op[t])
<1>0. TypeInv /\ pc \in [Thread -> HoldingPc \cup WaitingPc \cup {"idle", "notify", "future"}]
      /\ op[t] \in Op \cup {NoOp} /\ NoOp \notin Op
  BY QueueAssumption DEF QueueAssumption, Good, SafetyInv, TypeInv, TypeOK, QueueTypeOK
<1>1. /\ op' = op /\ UNCHANGED <<owed, accepted>>
      /\ pc[t] \in {"exec", "helperExec"} /\ pc'[t] \in {"unlock", "flush"}
      /\ op[t] = NoOp => pc[t] = "exec"
      /\ pc'[t] = "flush" => qpc'[t] = "load"
  <2>1. CASE Execute(t)
    BY <1>0, <2>1 DEF Execute, Goto, queueVars
  <2>2. CASE HelperExecute(t)
    BY <1>0, <2>2 DEF HelperExecute, FlushEnter, Goto, TypeInv, TypeOK, QueueTypeOK, LocalsOK
  <2> QED
    BY <2>1, <2>2
<1>2. \A o \in Op : op[t] # o => ~Runs(t, o) /\ ~Runs(t, o)'
  BY <1>1 DEF Runs
<1>3. \A o \in Op : op[t] # o => PhaseOf(o)' = PhaseOf(o) /\ CallerOf(o)' = CallerOf(o)
  BY <1>1, <1>2, OtherOps
<1>4. CASE op[t] = NoOp
  <2>1. LockedNow
    BY <1>1, <1>4 DEF LockedNow
  <2>2. ~LockedNow'
    <3>1. holder = t
      BY <1>1 DEF Good, SafetyInv, HolderOK, HoldingPc
    <3>2. \A u \in Thread : u # t => pc'[u] # "exec"
      BY <1>0, <3>1, Alone, Frame DEF HoldingPc
    <3> QED
      BY <1>1, <3>2 DEF LockedNow
  <2>3. \A o \in Op : PhaseOf(o)' = PhaseOf(o) /\ CallerOf(o)' = CallerOf(o)
    BY <1>0, <1>3, <1>4
  <2> QED
    BY <1>1, <1>4, <2>1, <2>2, <2>3 DEF Abstract!AbsUnlock, LockedNow
<1>5. CASE op[t] \in Op
  <2>1. PhaseOf(op[t]) = "running" /\ CallerOf(op[t]) = "in"
    BY <1>1, <1>5, OwnPhasesHold DEF OwnPhases, OwnPhase
  <2>2. PhaseOf(op[t])' = "done" /\ CallerOf(op[t])' = "in"
    BY <1>1, <1>5, PhasesAfter DEF OwnPhases, OwnPhase, WaitingPc
  <2>3. \A o \in Op : owed[o] \ {op[t]} = owed[o]
    BY <1>1, <1>5, QueueAssumption
       DEF QueueAssumption, Good, OrderOK, SafetyInv, OwnersOK
  <2>4. owed \in [Op -> SUBSET Op]
    BY <1>0 DEF TypeInv, TypeOK
  <2>5. owed' = [o \in Op |-> owed[o] \ {op[t]}]
    BY <1>1, <2>3, <2>4
  <2>6. LockedNow' = LockedNow
    BY <1>0, <1>1, <1>5, LockedStep
  <2> QED
    BY <1>0, <1>1, <1>3, <1>5, <2>1, <2>2, <2>5, <2>6 DEF Abstract!AbsFinish, LockedNow
<1> QED
  BY <1>0, <1>4, <1>5

\* delegate() is called: what the new operation is owed is what the others
\* have left to the helper.
LEMMA CallMoves ==
  ASSUME Good, Good', NEW t \in Thread, ThreadMove(t), NEW o \in Op, Delegate(t, o)
  PROVE  Abstract!AbsCall(o)
<1>0. TypeInv /\ OwnersOK /\ NoOp \notin Op
  BY QueueAssumption DEF QueueAssumption, Good, SafetyInv
<1>1. /\ op[t] = NoOp /\ op'[t] = o /\ pc[t] = "idle" /\ pc'[t] = "try"
      /\ UNCHANGED accepted /\ owed' = [owed EXCEPT ![o] = accepted]
      /\ o \notin accepted /\ ~Attached(o)
  BY <1>0 DEF Delegate, Goto, queueVars, Unused, Attached, TypeInv, TypeOK, QueueTypeOK, LocalsOK
<1>2. \A p \in Op : ~Runs(t, p) /\ ~Runs(t, p)'
  BY <1>1 DEF Runs
<1>3. \A p \in Op : p # o => PhaseOf(p)' = PhaseOf(p) /\ CallerOf(p)' = CallerOf(p)
  BY <1>0, <1>1, <1>2, OtherOps
<1>4. PhaseOf(o)' = "pending" /\ CallerOf(o)' = "in"
  BY <1>1, PhasesAfter DEF OwnPhases, OwnPhase, WaitingPc
<1>5. PhaseOf(o) = "free"
  <2>1. ~Running(o)
    BY <1>1, RunsAccepted DEF Running, Runs, Attached
  <2>2. Left(o)
    BY <1>1 DEF Left, Attached
  <2> QED
    BY <1>1, <2>1, <2>2, StoredPhasesHold DEF StoredPhases, StoredPhase
<1>6. {p \in Op : PhaseOf(p) \in {"pending", "running"} /\ CallerOf(p) # "in"} = accepted
  <2>1. accepted \subseteq Op
    BY <1>0 DEF TypeInv, TypeOK, QueueTypeOK
  <2>2. ASSUME NEW p \in accepted
        PROVE  PhaseOf(p) \in {"pending", "running"} /\ CallerOf(p) # "in"
    <3>1. Left(p)
      BY <1>0, <2>1 DEF OwnersOK, Left
    <3> QED
      BY <2>1, <3>1, StoredPhasesHold DEF StoredPhases, StoredPhase
  <2>3. ASSUME NEW p \in Op, PhaseOf(p) \in {"pending", "running"}, CallerOf(p) # "in"
        PROVE  p \in accepted
    <3>1. Left(p)
      BY <2>3, OwnPhasesHold DEF OwnPhases, Left
    <3>2. Running(p) \/ p \in accepted
      BY <2>3, <3>1, StoredPhasesHold DEF StoredPhases, StoredPhase
    <3>3. Running(p) => p \in accepted
      BY <3>1, RunsAccepted DEF Running, Runs, Left
    <3> QED
      BY <3>2, <3>3
  <2> QED
    BY <2>1, <2>2, <2>3
<1>7. LockedNow' = LockedNow
  BY <1>0, <1>1, LockedStep
<1> QED
  BY <1>1, <1>3, <1>4, <1>5, <1>6, <1>7 DEF Abstract!AbsCall, Abstract!Accepted, LockedNow

\* enqueue() has stored the operation and delegate() returns.
LEMMA AcceptMoves ==
  ASSUME Good, Good', NEW t \in Thread, ThreadMove(t), EnqueueAccepted(t)
  PROVE  op[t] \in Op /\ Abstract!AbsAccept(op[t])
<1>0. TypeInv /\ OwnersOK /\ TypeInv' /\ NoOp \notin Op
  BY QueueAssumption DEF QueueAssumption, Good, SafetyInv
<1>1. /\ op[t] \in Op /\ pc[t] = "enqueue" /\ accepted' = accepted \cup {op[t]}
      /\ UNCHANGED owed /\ qpc'[t] = "idle"
      /\ \/ op'[t] = op[t] /\ pc'[t] = "future"
         \/ op'[t] = NoOp /\ pc'[t] = "idle"
  BY <1>0 DEF EnqueueAccepted, Publish, Finish, Goto, TypeInv, TypeOK, QueueTypeOK, LocalsOK
<1>2. \A o \in Op : ~Runs(t, o) /\ ~Runs(t, o)'
  BY <1>1 DEF Runs
<1>3. \A o \in Op : op[t] # o => PhaseOf(o)' = PhaseOf(o) /\ CallerOf(o)' = CallerOf(o)
  BY <1>0, <1>1, <1>2, OtherOps
<1>4. PhaseOf(op[t]) = "pending" /\ CallerOf(op[t]) = "in"
  BY <1>1, OwnPhasesHold DEF OwnPhases, OwnPhase, WaitingPc
<1>5. PICK x \in Op : x = op[t]
  BY <1>1
<1>6. PhaseOf(x)' = "pending" /\ CallerOf(x)' \in {"future", "gone"}
  <2>1. \A u \in Thread : u # t => op'[u] # x
    BY <1>0, <1>1, <1>5, Frame DEF OwnersOK
  <2>2. Left(x)'
    BY <1>0, <1>1, <1>5, <2>1 DEF Left
  <2>3. ~Running(x)
    BY <1>4, <1>5 DEF PhaseOf, Running
  <2>4. ~Running(x)'
    BY <1>2, <2>3, RunsOthers DEF Running
  <2>5. x \in accepted'
    BY <1>1, <1>5
  <2> QED
    BY <2>2, <2>4, <2>5, PhasesAfter DEF StoredPhases, StoredPhase
<1>7. LockedNow' = LockedNow
  BY <1>0, <1>1, LockedStep
<1>8. Abstract!AbsAccept(x)
  BY <1>1, <1>3, <1>4, <1>5, <1>6, <1>7 DEF Abstract!AbsAccept, LockedNow
<1> QED
  BY <1>5, <1>8

\* The scan of flush(): an operation starts when the helper sees its entry.
LEMMA ScanMoves ==
  ASSUME Good, Good', NEW t \in Thread, ThreadMove(t), FlushStep(t)
  PROVE  UNCHANGED Abstract!absVars \/ \E x \in Op : Abstract!AbsStart(x)
<1>0. TypeInv /\ SessionInv /\ NoOp \notin Op
  BY QueueAssumption DEF QueueAssumption, Good, SafetyInv
<1>1. /\ op' = op /\ pc' = pc /\ UNCHANGED <<owed, accepted, entries, argument>>
      /\ pc[t] = "flush" /\ qpc[t] # "run" /\ holder = t
  BY DEF FlushStep, FlushLoad, FlushLoadSame, FlushClose, FlushPoll, Good, SafetyInv,
         HolderOK, HoldingPc
<1>2. \A u \in Thread, o \in Op : ~Runs(u, o)
  BY <1>1, Alone DEF Runs
<1>3. CASE \A o \in Op : ~Runs(t, o)'
  BY <1>1, <1>2, <1>3, Invisible
<1>4. CASE \E o \in Op : Runs(t, o)'
  <2>1. PICK x \in Op : Runs(t, x)'
    BY <1>4
  <2>2. \A o \in Op : o # x => ~Runs(t, o)'
    BY <1>1, <2>1 DEF Runs
  <2>3. x \in accepted /\ Left(x)
    <3>1. InSession(t) /\ qpc[t] = "poll" /\ index'[t] = index[t]
          /\ entries[index[t]] = "wrapper" /\ argument[index[t]] = x
      BY <1>0, <1>1, <2>1
         DEF Runs, FlushStep, FlushLoad, FlushLoadSame, FlushClose, FlushPoll, StartScan, ScanNext,
             InSession, SessionPc, FlushPc, TypeInv, TypeOK, QueueTypeOK
    <3>2. AcceptedOK(t) /\ Position(t) = index[t] /\ index[t] \in Slot
      BY <1>0, <3>1, PositionFacts
    <3>3. x \in accepted
      BY <3>1, <3>2, SlotFacts DEF AcceptedOK
    <3> QED
      BY <3>3 DEF Good, SafetyInv, OwnersOK, Left
  <2>4. ASSUME NEW o \in Op, o # x PROVE PhaseOf(o)' = PhaseOf(o) /\ CallerOf(o)' = CallerOf(o)
    <3>1. CASE op[t] = o
      <4>1. PhaseOf(op[t])' = "done" /\ CallerOf(op[t])' = "in"
        BY <1>1, <3>1, PhasesAfter DEF OwnPhases, OwnPhase, WaitingPc
      <4>2. PhaseOf(op[t]) = "done" /\ CallerOf(op[t]) = "in"
        BY <1>1, <3>1, OwnPhasesHold DEF OwnPhases, OwnPhase, WaitingPc
      <4> QED
        BY <1>1, <3>1, <4>1, <4>2
    <3>2. CASE op[t] # o
      BY <1>1, <1>2, <2>2, <2>4, <3>2, OtherOps
    <3> QED
      BY <3>1, <3>2
  <2>5. PhaseOf(x) = "pending"
    BY <1>2, <2>3, StoredPhasesHold DEF StoredPhases, StoredPhase, Running
  <2>6. PhaseOf(x)' = "running"
    BY <2>1 DEF PhaseOf
  <2>7. CallerOf(x)' = CallerOf(x)
    BY <1>1 DEF CallerOf, At, Attached
  <2>8. owed[x] = {}
    BY <1>1, <2>1, OrderAfter DEF RealTimeOrder
  <2>9. ~LockedNow /\ LockedNow' = LockedNow
    BY <1>0, <1>1, Alone, LockedStep DEF LockedNow, HoldingPc
  <2>10. ~Abstract!Busy
    BY <1>2, <2>9 DEF Abstract!Busy, LockedNow, PhaseOf
  <2>11. Abstract!AbsStart(x)
    BY <1>1, <2>4, <2>5, <2>6, <2>7, <2>8, <2>9, <2>10 DEF Abstract!AbsStart, LockedNow
  <2> QED
    BY <2>11
<1> QED
  BY <1>3, <1>4

\* flush() has run an entry: the operation that was stored there is over.
LEMMA RunMoves ==
  ASSUME Good, Good', NEW t \in Thread, ThreadMove(t), FlushRunEntry(t)
  PROVE  UNCHANGED Abstract!absVars \/ \E x \in Op : Abstract!AbsFinish(x)
<1>0. TypeInv /\ SessionInv /\ NoOp \notin Op
  BY QueueAssumption DEF QueueAssumption, Good, SafetyInv
<1> DEFINE i == index[t]
<1>1. /\ op' = op /\ pc' = pc /\ owed' = [o \in Op |-> owed[o] \cap accepted']
      /\ pc[t] = "flush" /\ qpc[t] = "run" /\ qpc'[t] # "run" /\ holder = t
      /\ entries[i] \in {"wrapper", "no_op"}
      /\ accepted' = IF entries[i] = "wrapper" THEN accepted \ {argument[i]} ELSE accepted
  BY <1>0 DEF FlushRunEntry, FlushRun, ScanNext, Good, SafetyInv, HolderOK, HoldingPc,
              TypeInv, TypeOK, QueueTypeOK
<1>2. \A o \in Op : ~Runs(t, o)'
  BY <1>1 DEF Runs
<1>3. owed \in [Op -> SUBSET Op] /\ \A o \in Op : owed[o] \subseteq accepted
  BY <1>0 DEF TypeInv, TypeOK, Good, OrderOK
<1>4. CASE entries[i] = "no_op"
  <2>1. accepted' = accepted /\ \A o \in Op : ~Runs(t, o)
    BY <1>1, <1>4 DEF Runs
  <2>2. owed' = owed
    BY <1>1, <1>3, <2>1
  <2> QED
    BY <1>1, <1>2, <2>1, <2>2, Invisible
<1>5. CASE entries[i] = "wrapper"
  <2>1. PICK x \in Op : x = argument[i] /\ x \in accepted
    <3>1. InSession(t) /\ AcceptedOK(t) /\ Position(t) = i /\ i \in Slot
      BY <1>0, <1>1, PositionFacts DEF InSession, SessionPc, FlushPc
    <3> QED
      BY <1>0, <1>5, <3>1, SlotFacts DEF AcceptedOK, TypeInv, TypeOK, QueueTypeOK
  <2>2. Left(x) /\ Left(x)'
    BY <1>1, <2>1 DEF Good, SafetyInv, OwnersOK, Left
  <2>3. Runs(t, x) /\ \A o \in Op : o # x => ~Runs(t, o)
    BY <1>1, <1>5, <2>1 DEF Runs
  <2>4. accepted' = accepted \ {x}
    BY <1>1, <1>5, <2>1
  <2>5. ASSUME NEW o \in Op, o # x PROVE PhaseOf(o)' = PhaseOf(o) /\ CallerOf(o)' = CallerOf(o)
    <3>1. CASE op[t] = o
      <4>1. PhaseOf(op[t])' = "done" /\ CallerOf(op[t])' = "in"
        BY <1>1, <3>1, PhasesAfter DEF OwnPhases, OwnPhase, WaitingPc
      <4>2. PhaseOf(op[t]) = "done" /\ CallerOf(op[t]) = "in"
        BY <1>1, <3>1, OwnPhasesHold DEF OwnPhases, OwnPhase, WaitingPc
      <4> QED
        BY <1>1, <3>1, <4>1, <4>2
    <3>2. CASE op[t] # o
      BY <1>1, <1>2, <2>3, <2>4, <2>5, <3>2, OtherOps
    <3> QED
      BY <3>1, <3>2
  <2>6. PhaseOf(x) = "running"
    BY <2>3 DEF PhaseOf
  <2>7. ~Running(x)'
    BY <1>1, <1>2, Alone, RunsOthers DEF Running
  <2>8. /\ PhaseOf(x)' = IF Attached(x)' THEN "done" ELSE "free"
        /\ CallerOf(x) = IF Attached(x) THEN "future" ELSE "gone"
    BY <2>2, <2>4, <2>7, PhasesAfter, StoredPhasesHold DEF StoredPhases, StoredPhase
  <2>9. Attached(x)' = Attached(x) /\ CallerOf(x)' = CallerOf(x)
    BY <1>1 DEF CallerOf, At, Attached
  <2>10. owed' = [o \in Op |-> owed[o] \ {x}]
    BY <1>1, <1>3, <2>4
  <2>11. LockedNow' = LockedNow
    BY <1>0, <1>1, LockedStep
  <2>12. Abstract!AbsFinish(x)
    BY <2>5, <2>6, <2>8, <2>9, <2>10, <2>11 DEF Abstract!AbsFinish, LockedNow
  <2> QED
    BY <2>12
<1> QED
  BY <1>1, <1>4, <1>5

\* delegate() returns after its operation has run, or a future is done.
LEMMA ReturnMoves ==
  ASSUME Good, Good', NEW t \in Thread, ThreadMove(t), op[t] \in Op,
         Unlock(t) \/ Notify(t) \/ FutureWait(t)
  PROVE  Abstract!AbsReturn(op[t])
<1>0. TypeInv /\ OwnersOK /\ NoOp \notin Op
  BY QueueAssumption DEF QueueAssumption, Good, SafetyInv
<1>1. /\ UNCHANGED <<owed, accepted>> /\ op'[t] = NoOp /\ pc'[t] = "idle"
      /\ pc[t] \in {"unlock", "notify", "future"} /\ op[t] \notin accepted
  BY <1>0 DEF Unlock, Notify, FutureWait, Finish, Goto, queueVars, TypeInv, TypeOK, QueueTypeOK,
              OwnersOK
<1>2. \A o \in Op : ~Runs(t, o) /\ ~Runs(t, o)'
  BY <1>1 DEF Runs
<1>3. \A o \in Op : op[t] # o => PhaseOf(o)' = PhaseOf(o) /\ CallerOf(o)' = CallerOf(o)
  BY <1>0, <1>1, <1>2, OtherOps
<1>4. PICK x \in Op : x = op[t]
  OBVIOUS
<1>5. PhaseOf(x) = "done"
  <2>1. CASE pc[t] # "future"
    BY <1>1, <1>4, <2>1, OwnPhasesHold DEF OwnPhases, OwnPhase, WaitingPc
  <2>2. CASE pc[t] = "future"
    <3>1. Left(x) /\ Attached(x)
      BY <1>0, <1>4, <2>2 DEF OwnersOK, Left, Attached
    <3>2. ~Running(x)
      BY <1>1, <1>4, <3>1, RunsAccepted DEF Running, Runs, Left
    <3> QED
      BY <1>1, <1>4, <3>1, <3>2, StoredPhasesHold DEF StoredPhases, StoredPhase
  <2> QED
    BY <2>1, <2>2
<1>6. PhaseOf(x)' = "free" /\ CallerOf(x)' = "gone"
  <2>1. \A u \in Thread : op'[u] # x
    BY <1>0, <1>1, <1>4, Frame DEF OwnersOK
  <2>2. Left(x)' /\ ~Attached(x)'
    BY <2>1 DEF Left, Attached
  <2>3. ~Running(x)'
    <3>1. ~Running(x)
      BY <1>5 DEF PhaseOf, Running
    <3> QED
      BY <1>2, <3>1, RunsOthers DEF Running
  <2> QED
    BY <1>1, <1>4, <2>2, <2>3, PhasesAfter DEF StoredPhases, StoredPhase
<1>7. LockedNow' = LockedNow
  BY <1>0, <1>1, LockedStep
<1>8. Abstract!AbsReturn(x)
  BY <1>1, <1>3, <1>4, <1>5, <1>6, <1>7 DEF Abstract!AbsReturn, LockedNow
<1> QED
  BY <1>4, <1>8

\* A future is dropped while its operation is still to run.
LEMMA DiscardMoves ==
  ASSUME Good, Good', NEW t \in Thread, ThreadMove(t), FutureDiscard(t)
  PROVE  op[t] \in Op /\ Abstract!AbsDiscard(op[t])
<1>0. TypeInv /\ OwnersOK /\ NoOp \notin Op
  BY QueueAssumption DEF QueueAssumption, Good, SafetyInv
<1>1. /\ UNCHANGED <<owed, accepted>> /\ op'[t] = NoOp /\ pc'[t] = "idle"
      /\ pc[t] = "future" /\ op[t] \in accepted /\ op[t] \in Op
  BY <1>0 DEF FutureDiscard, Finish, Goto, queueVars, TypeInv, TypeOK, QueueTypeOK
<1>2. \A o \in Op : ~Runs(t, o) /\ ~Runs(t, o)'
  BY <1>1 DEF Runs
<1>3. \A o \in Op : op[t] # o => PhaseOf(o)' = PhaseOf(o) /\ CallerOf(o)' = CallerOf(o)
  BY <1>0, <1>1, <1>2, OtherOps
<1>4. PICK x \in Op : x = op[t]
  BY <1>1
<1>5. Left(x) /\ Attached(x) /\ Left(x)' /\ ~Attached(x)'
  BY <1>0, <1>1, <1>4, Frame DEF OwnersOK, Left, Attached
<1>6. Running(x)' <=> Running(x)
  BY <1>2, RunsOthers DEF Running
<1>7. PhaseOf(x)' = PhaseOf(x) /\ PhaseOf(x) \in {"pending", "running"}
      /\ CallerOf(x) = "future" /\ CallerOf(x)' = "gone"
  BY <1>1, <1>4, <1>5, <1>6, StoredPhasesHold, PhasesAfter DEF StoredPhases, StoredPhase
<1>8. LockedNow' = LockedNow
  BY <1>0, <1>1, LockedStep
<1>9. Abstract!AbsDiscard(x)
  BY <1>1, <1>3, <1>4, <1>7, <1>8 DEF Abstract!AbsDiscard, LockedNow
<1> QED
  BY <1>1, <1>4, <1>9

-----------------------------------------------------------------------------
(* The refinement *)

\* Nothing is delegated, and nothing runs, at first.
LEMMA InitMaps == Init => Abstract!AbsInit
<1> SUFFICES ASSUME Init PROVE Abstract!AbsInit
  OBVIOUS
<1>1. \A t \in Thread : op[t] = NoOp /\ pc[t] = "idle"
  BY DEF Init, QueueInit
<1>2. accepted = {} /\ owed = [o \in Op |-> {}] /\ NoOp \notin Op
  BY QueueAssumption DEF QueueAssumption, Init, QueueInit
<1>3. \A o \in Op : PhaseOf(o) = "free" /\ CallerOf(o) = "gone"
  BY <1>1, <1>2 DEF PhaseOf, CallerOf, Runs, At, Attached, WaitingPc
<1> QED
  BY <1>1, <1>2, <1>3 DEF Abstract!AbsInit

\* Every step is a step of Delegation, or nothing that a caller can see.
LEMMA NextMaps ==
  Good /\ Good' /\ [Next]_vars => [Abstract!AbsNext]_Abstract!absVars
<1> SUFFICES ASSUME Good, Good', [Next]_vars
             PROVE  Abstract!AbsNext \/ UNCHANGED Abstract!absVars
  OBVIOUS
<1>1. CASE Next
  <2>1. PICK t \in Thread : ThreadMove(t)
    BY <1>1 DEF Next, ThreadMove
  <2>2. op[t] \in Op \cup {NoOp}
    BY DEF Good, SafetyInv, TypeInv, TypeOK, QueueTypeOK
  <2>3. CASE \E o \in Op : Delegate(t, o)
    BY <2>1, <2>3, CallMoves DEF Abstract!AbsNext
  <2>4. CASE UserLock(t)
    BY <2>1, <2>4, UserMoves
  <2>5. CASE FutureDiscard(t)
    BY <2>1, <2>5, DiscardMoves DEF Abstract!AbsNext
  <2>6. CASE TryLock(t) \/ LockNow(t) \/ LockGranted(t) \/ HelperOpen(t)
    BY <2>1, <2>2, <2>6, WinMoves DEF Abstract!AbsNext
  <2>7. CASE Execute(t) \/ HelperExecute(t)
    BY <2>1, <2>2, <2>7, EndMoves DEF Abstract!AbsNext
  <2>8. CASE FlushStep(t) \/ FlushRunEntry(t)
    BY <2>1, <2>8, ScanMoves, RunMoves DEF Abstract!AbsNext
  <2>9. CASE EnqueueAccepted(t)
    BY <2>1, <2>9, AcceptMoves DEF Abstract!AbsNext
  <2>10. CASE Unlock(t) \/ Notify(t) \/ FutureWait(t)
    <3>1. FutureWait(t) => op[t] # NoOp
      BY DEF FutureWait, Good, SafetyInv, TypeInv, LocalsOK
    <3> QED
      BY <2>1, <2>2, <2>10, <3>1, ReturnMoves, UserMoves DEF Abstract!AbsNext
  <2>11. CASE \/ TryLockBusy(t) \/ EnqueueStep(t) \/ EnqueueRefused(t)
              \/ AcquireLock(t) \/ AcquireFails(t) \/ AcquireOrWait(t)
              \/ GoToSleep(t) \/ StayAwake(t) \/ WakeUp(t) \/ LockQueue(t)
              \/ FlushEnd(t) \/ UnlockAndWake(t)
    BY <2>1, <2>11, QuietMoves
  <2> QED
    BY <2>1, <2>3, <2>4, <2>5, <2>6, <2>7, <2>8, <2>9, <2>10, <2>11
       DEF ThreadMove, Call, Step
<1>2. CASE UNCHANGED vars
  BY <1>2 DEF vars, queueVars, lockVars, Abstract!absVars, PhaseOf, CallerOf, At, Attached, Runs
<1> QED
  BY <1>1, <1>2

\* The queue delegation lock does what Delegation promises: an operation runs
\* exactly once, alone, after what it is owed, and before its caller hears of
\* its end.
THEOREM ImplementsDelegationCorrect == ZeroedStorage => (Spec => ImplementsDelegation)
<1> SUFFICES ASSUME ZeroedStorage PROVE Spec => ImplementsDelegation
  OBVIOUS
<1>1. Init => Abstract!AbsInit
  BY InitMaps
<1>2. Good /\ Good' /\ [Next]_vars => [Abstract!AbsNext]_Abstract!absVars
  BY NextMaps
<1>3. Spec => []Good
  BY SafetyInvCorrect, OrderCorrect, PTL DEF Good
<1> QED
  BY <1>1, <1>2, <1>3, PTL DEF Spec, ImplementsDelegation, Abstract!AbsSpec

-----------------------------------------------------------------------------
(* The queue of the lock *)

Session == \E t \in Thread : qpc[t] \in SessionPc
TantrumStep == Tantrum!Next \/ UNCHANGED <<Session, accepted>>

\* A step of t that leaves t inside or outside a session neither begins nor
\* ends one.
LEMMA SessionFrame ==
  ASSUME TypeInv, NEW t \in Thread, ThreadMove(t), InSession(t)' <=> InSession(t)
  PROVE  Session' = Session
<1>1. \A u \in Thread : u # t => (InSession(u)' <=> InSession(u))
  BY Frame DEF InSession
<1> QED
  BY <1>1 DEF Session, InSession

\* The holder of the lock is the only one that can be in a session.
LEMMA HolderAlone ==
  ASSUME SafetyInv, NEW t \in Thread, pc[t] \in HoldingPc, ~InSession(t)
  PROVE  ~Session
<1>1. ASSUME NEW u \in Thread, InSession(u) PROVE FALSE
  <2>1. pc[u] \in HoldingPc
    BY <1>1 DEF SafetyInv, TypeInv, LocalsOK, InSession, SessionPc, HoldingPc
  <2>2. u = t
    BY <2>1 DEF SafetyInv, HolderOK
  <2> QED
    BY <1>1, <2>2
<1> QED
  BY <1>1 DEF Session, InSession

\* An enqueuer is accepted while a helper is in its session, and its
\* operation is not in the queue yet.
LEMMA AcceptsInSession ==
  ASSUME SafetyInv, NEW t \in Thread, ThreadMove(t), EnqueueAccepted(t)
  PROVE  TantrumStep
<1>0. TypeInv /\ SessionInv /\ OwnersOK /\ op[t] \in Op
  BY DEF SafetyInv, EnqueueAccepted, TypeInv, TypeOK, QueueTypeOK, LocalsOK
<1>1. /\ qpc[t] = "publish" /\ qpc'[t] = "idle" /\ pc[t] = "enqueue"
      /\ accepted' = accepted \cup {op[t]}
  BY <1>0 DEF EnqueueAccepted, Publish, TypeInv, TypeOK, QueueTypeOK
<1>2. Session
  <2>1. index[t] \in Slot /\ slot[index[t]] > 0
    BY <1>0, <1>1, WriterInSession DEF WriterPc
  <2> QED
    BY <1>0, <2>1 DEF SessionInv, BetweenSessionsOK, InSession, Session
<1>3. Session'
  BY <1>0, <1>1, <1>2, SessionFrame DEF InSession, SessionPc, FlushPc
<1>4. op[t] \notin accepted
  BY <1>0, <1>1 DEF OwnersOK
<1>5. Tantrum!Accept(op[t])
  BY <1>1, <1>2, <1>3, <1>4 DEF Tantrum!Accept, Session
<1> QED
  BY <1>0, <1>5 DEF TantrumStep, Tantrum!Next

\* The call of a stored function takes its operation off the queue.
LEMMA RunsInSession ==
  ASSUME SafetyInv, NEW t \in Thread, ThreadMove(t), FlushRunEntry(t)
  PROVE  TantrumStep
<1>0. TypeInv /\ SessionInv
  BY DEF SafetyInv
<1> DEFINE i == index[t]
<1>1. /\ qpc[t] = "run" /\ InSession(t) /\ InSession(t)'
      /\ entries[i] \in {"wrapper", "no_op"}
      /\ accepted' = IF entries[i] = "wrapper" THEN accepted \ {argument[i]} ELSE accepted
  BY <1>0 DEF FlushRunEntry, FlushRun, ScanNext, InSession, SessionPc, FlushPc,
              TypeInv, TypeOK, QueueTypeOK
<1>2. Session /\ Session' = Session
  BY <1>0, <1>1, SessionFrame DEF Session, InSession
<1>3. CASE entries[i] = "no_op"
  BY <1>1, <1>2, <1>3 DEF TantrumStep
<1>4. CASE entries[i] = "wrapper"
  <2>1. AcceptedOK(t) /\ Position(t) = i /\ i \in Slot
    BY <1>0, <1>1, PositionFacts
  <2>2. argument[i] \in accepted /\ argument[i] \in Op
    BY <1>0, <1>4, <2>1, SlotFacts DEF AcceptedOK, TypeInv, TypeOK, QueueTypeOK
  <2>3. Tantrum!Run(argument[i])
    BY <1>1, <1>2, <1>4, <2>2 DEF Tantrum!Run, Session
  <2> QED
    BY <2>2, <2>3 DEF TantrumStep, Tantrum!Next
<1> QED
  BY <1>1, <1>3, <1>4

\* flush() ends at the limit: no tile is left, so nothing is.
LEMMA ClosesEmpty ==
  ASSUME SafetyInv, NEW t \in Thread, ThreadMove(t), FlushEnd(t)
  PROVE  TantrumStep
<1>0. TypeInv /\ SessionInv /\ OneSession
  BY SessionUnique DEF SafetyInv
<1>1. /\ qpc[t] = "clear" /\ InSession(t) /\ qpc'[t] = "idle" /\ UNCHANGED accepted
  BY <1>0 DEF FlushEnd, FlushClear, InSession, SessionPc, FlushPc, TypeInv, TypeOK, QueueTypeOK
<1>2. accepted = {}
  <2> SUFFICES ASSUME NEW o \in accepted PROVE FALSE
    OBVIOUS
  <2>1. /\ TilingOK(t) /\ ScanOK(t) /\ AcceptedOK(t) /\ PublishedOK
        /\ Position(t) = todo[t] /\ Limit(t) = todo[t] /\ todo[t] \in Nat
    BY <1>0, <1>1, PositionFacts, QueueAssumption
       DEF QueueAssumption, Limit, ScanOK, TypeInv, TypeOK, QueueTypeOK
  <2>2. PICK i \in Slot : i >= todo[t] /\ entries[i] = "wrapper"
    BY <2>1 DEF AcceptedOK
  <2>3. slot[i] \in Nat /\ slot[i] > 0 /\ i \in Nat
    BY <1>0, <2>1, <2>2, SlotFacts DEF PublishedOK, TypeInv, TypeOK, QueueTypeOK
  <2>4. i + slot[i] <= todo[t]
    BY <2>1, <2>2, <2>3 DEF TilingOK
  <2> QED
    BY <2>1, <2>2, <2>3, <2>4
<1>3. Session
  BY <1>1 DEF Session, InSession
<1>4. ~Session'
  <2>1. ASSUME NEW u \in Thread, u # t PROVE qpc'[u] \notin SessionPc
    BY <1>0, <1>1, <2>1, Frame DEF OneSession, InSession
  <2> QED
    BY <1>1, <2>1 DEF Session, SessionPc, FlushPc
<1>5. Tantrum!Close
  BY <1>1, <1>2, <1>3, <1>4 DEF Tantrum!Close, Session
<1> QED
  BY <1>5 DEF TantrumStep, Tantrum!Next

\* open() begins a session when there is none: the helper has the lock.
LEMMA OpensAlone ==
  ASSUME SafetyInv, NEW t \in Thread, ThreadMove(t), HelperOpen(t)
  PROVE  TantrumStep
<1>0. TypeInv
  BY DEF SafetyInv
<1>1. /\ pc[t] = "open" /\ qpc[t] = "idle" /\ qpc'[t] = "opened" /\ UNCHANGED accepted
  BY <1>0 DEF HelperOpen, OpenQueue, TypeInv, TypeOK, QueueTypeOK
<1>2. ~Session
  BY <1>1, HolderAlone DEF HoldingPc, InSession, SessionPc, FlushPc
<1>3. Session'
  BY <1>1 DEF Session, SessionPc
<1>4. Tantrum!Open
  BY <1>1, <1>2, <1>3 DEF Tantrum!Open, Session
<1> QED
  BY <1>4 DEF TantrumStep, Tantrum!Next

\* All other steps neither begin nor end a session, and accept and run nothing.
LEMMA QueueStutters ==
  ASSUME SafetyInv, NEW t \in Thread, ThreadMove(t), ~EnqueueAccepted(t),
         ~FlushRunEntry(t), ~FlushEnd(t), ~HelperOpen(t)
  PROVE  TantrumStep
<1>0. TypeInv /\ qpc \in [Thread -> EnqueuePc \cup SessionPc \cup {"idle"}]
  BY DEF SafetyInv, TypeInv, TypeOK, QueueTypeOK
<1>1. CASE EnqueueStep(t)
  <2>1. UNCHANGED accepted /\ qpc[t] \in EnqueuePc \cup {"idle"} /\ qpc'[t] \in EnqueuePc
    BY <1>0, <1>1 DEF EnqueueStep, EnqueueLoad, CasRetry, ClaimEntry, WriteEntry, ClaimTail,
                      WriteNoOp, Claim, EnqueuePc
  <2> QED
    BY <1>0, <2>1, SessionFrame DEF TantrumStep, InSession, EnqueuePc, SessionPc, FlushPc
<1>2. CASE EnqueueRefused(t)
  <2>1. UNCHANGED accepted /\ qpc[t] \in EnqueuePc \cup {"idle"} /\ qpc'[t] = "idle"
    BY <1>0, <1>2 DEF EnqueueRefused, EnqueueClosed, ClaimNothing, PublishNoOp, Claim, EnqueuePc,
                      queueVars
  <2> QED
    BY <1>0, <2>1, SessionFrame DEF TantrumStep, InSession, EnqueuePc, SessionPc, FlushPc
<1>3. CASE HelperExecute(t) \/ FlushStep(t)
  <2>1. UNCHANGED accepted /\ qpc[t] \in SessionPc /\ qpc'[t] \in SessionPc
    BY <1>0, <1>3 DEF HelperExecute, FlushEnter, FlushStep, FlushLoad, FlushLoadSame, FlushClose,
                      FlushPoll, StartScan, ScanNext, SessionPc, FlushPc
  <2> QED
    BY <1>0, <2>1, SessionFrame DEF TantrumStep, InSession
<1>4. CASE UNCHANGED queueVars
  BY <1>4 DEF queueVars, TantrumStep, Session
<1>5. \/ EnqueueStep(t) \/ EnqueueRefused(t) \/ HelperExecute(t) \/ FlushStep(t)
      \/ UNCHANGED queueVars
  BY DEF ThreadMove, Call, Step, Delegate, UserLock, FutureDiscard, TryLock, TryLockBusy,
         AcquireLock, AcquireFails, AcquireOrWait, GoToSleep, StayAwake, WakeUp, LockNow,
         LockQueue, LockGranted, Execute, Unlock, UnlockAndWake, Notify, FutureWait
<1> QED
  BY <1>1, <1>2, <1>3, <1>4, <1>5

\* The dual buffer queue keeps the promise of a delegation queue: sessions do
\* not overlap, operations are accepted in one only, each is run once, and
\* none is left when flush() returns.
THEOREM ImplementsTantrumQueueCorrect == ZeroedStorage => (Spec => ImplementsTantrumQueue)
<1> SUFFICES ASSUME ZeroedStorage PROVE Spec => ImplementsTantrumQueue
  OBVIOUS
<1>1. Init => Tantrum!Init
  BY DEF Init, QueueInit, Tantrum!Init, SessionPc, FlushPc
<1>2. SafetyInv /\ [Next]_vars
        => [Tantrum!Next]_<<\E t \in Thread : qpc[t] \in SessionPc, accepted>>
  <2>1. ASSUME SafetyInv, NEW t \in Thread, ThreadMove(t) PROVE TantrumStep
    BY <2>1, AcceptsInSession, RunsInSession, ClosesEmpty, OpensAlone, QueueStutters
  <2>2. UNCHANGED vars => UNCHANGED <<Session, accepted>>
    BY DEF vars, queueVars, Session
  <2> QED
    BY <2>1, <2>2 DEF Next, ThreadMove, TantrumStep, Session
<1>3. Spec => []SafetyInv
  BY SafetyInvCorrect
<1> QED
  BY <1>1, <1>2, <1>3, PTL DEF Spec, ImplementsTantrumQueue, Tantrum!Spec

=============================================================================
