------------------------------- MODULE QDLock -------------------------------
(***************************************************************************)
(* The queue delegation lock of qdlock_base.hpp and qdlock.hpp: delegate() *)
(* over a hand-off lock and a dual buffer queue, together with the future  *)
(* that delegate_f() returns and the plain lock() and unlock().            *)
(*                                                                         *)
(* A thread that finds the lock free runs its operation itself (executor). *)
(* Otherwise it alternates between storing its operation in the queue and  *)
(* taking the lock; if it gets the lock after a failed attempt to store,   *)
(* it becomes the helper: it opens the queue, runs its own operation and   *)
(* flushes the queue before it unlocks.  After RETRY_LIMIT - 1 rounds the  *)
(* starvation free variant queues for the lock with lock().                *)
(*                                                                         *)
(* The steps of the lock and of the queue are those of HandoffLock and     *)
(* DualBufferQueue; an action here is one of them at the program counter   *)
(* where delegate() makes it.                                              *)
(***************************************************************************)
EXTENDS DualBufferQueue, HandoffLock, FiniteSets

CONSTANTS
  Future,          \* operations delegated with a promise (delegate_f)
  LockUsers,       \* threads that also call lock() and unlock() directly
  StarvationFree,  \* the starvation policy: TRUE for starvation_free
  RETRY_LIMIT,     \* rounds before lock() is called; 512 in the code
  WAIT_PERIOD      \* try_lock_or_wait() is called every so many rounds; 128

ASSUME QDLockAssumption ==
  /\ Future \subseteq Op
  /\ LockUsers \subseteq Thread
  /\ StarvationFree \in BOOLEAN
  /\ RETRY_LIMIT \in Nat \ {0, 1}
  /\ WAIT_PERIOD \in Nat \ {0}

VARIABLES
  pc,         \* pc[t]: where t is in delegate(), lock() or unlock()
  retries,    \* retries[t]: the loop counter of delegate()
  owed        \* history: owed[o] is what was accepted before o was delegated
              \* and has not run yet

vars == <<queueVars, op, lockVars, pc, retries, owed>>

\* From winning the lock to the unlocking instruction.
HoldingPc == {"exec", "open", "helperExec", "flush", "unlock"}
WaitingPc == {"try", "enqueue", "acquire", "wait", "sleep", "lock", "lockWait"}

(***************************************************************************)
(* Type correctness.  The loop counter stays below RETRY_LIMIT or, where   *)
(* the loop has no limit and only its remainder matters, within a period.  *)
(***************************************************************************)
TypeOK ==
  /\ QueueTypeOK
  /\ LockTypeOK
  /\ pc \in [Thread -> HoldingPc \cup WaitingPc \cup {"idle", "notify", "future"}]
  /\ retries \in [Thread -> 0 .. (IF StarvationFree THEN RETRY_LIMIT ELSE WAIT_PERIOD)]
  /\ owed \in [Op -> SUBSET Op]

Init ==
  /\ QueueInit
  /\ LockInit
  /\ pc = [t \in Thread |-> "idle"]
  /\ retries = [t \in Thread |-> 0]
  /\ owed = [o \in Op |-> {}]

Goto(t, place) == pc' = [pc EXCEPT ![t] = place]

\* The call returns, and its locals go out of scope.
Finish(t) ==
  /\ Goto(t, "idle")
  /\ op' = [op EXCEPT ![t] = NoOp]
  /\ retries' = [retries EXCEPT ![t] = 0]

-----------------------------------------------------------------------------
(* delegate(): the call, and the attempt to run the operation directly *)

Unused(o) == o \notin accepted /\ \A t \in Thread : op[t] # o

Delegate(t, o) ==
  /\ pc[t] = "idle"
  /\ Unused(o)
  /\ op' = [op EXCEPT ![t] = o]
  /\ owed' = [owed EXCEPT ![o] = accepted]
  /\ Goto(t, "try")
  /\ UNCHANGED <<queueVars, lockVars, retries>>

TryLock(t) ==
  /\ pc[t] = "try"
  /\ TakeFree(t)
  /\ Goto(t, "exec")
  /\ UNCHANGED <<queueVars, op, retries, owed>>

TryLockBusy(t) ==
  /\ pc[t] = "try"
  /\ TryLockFails(t)
  /\ Goto(t, "enqueue")
  /\ retries' = [retries EXCEPT ![t] = 1]
  /\ UNCHANGED <<queueVars, op, owed>>

-----------------------------------------------------------------------------
(* The loop of delegate(): try_enqueue(1, ...), then one try at the lock *)

EnqueueStep(t) ==
  /\ pc[t] = "enqueue"
  /\ \/ EnqueueLoad(t) \/ CasRetry(t)
     \/ ClaimEntry(t) \/ WriteEntry(t)
     \/ ClaimTail(t) \/ WriteNoOp(t)
  /\ UNCHANGED <<op, lockVars, pc, retries, owed>>

\* CLOSED or FULL: delegate() treats both alike and tries to get the lock.
EnqueueRefused(t) ==
  /\ pc[t] = "enqueue"
  /\ EnqueueClosed(t) \/ ClaimNothing(t) \/ PublishNoOp(t)
  /\ Goto(t, "acquire")
  /\ UNCHANGED <<op, lockVars, retries, owed>>

\* Variant for sensitivity: FULL is taken for SUCCESS (OPEN, too, is 0).
EnqueueAcceptedFull(t) ==
  /\ pc[t] = "enqueue"
  /\ Publish(t) \/ PublishNoOp(t)
  /\ Finish(t)
  /\ UNCHANGED <<lockVars, owed>>

\* SUCCESS: delegate() returns; a caller with a future goes on to use it.
EnqueueAccepted(t) ==
  /\ pc[t] = "enqueue"
  /\ Publish(t)
  /\ IF op[t] \in Future
       THEN /\ Goto(t, "future")
            /\ retries' = [retries EXCEPT ![t] = 0]
            /\ UNCHANGED op
       ELSE Finish(t)
  /\ UNCHANGED <<lockVars, owed>>

WaitsThisRound(t) == retries[t] % WAIT_PERIOD = 0

\* The end of a round.  Without a limit only the remainder of the counter
\* by WAIT_PERIOD matters: it is kept in 1..WAIT_PERIOD.
NextRound(t) ==
  IF StarvationFree
    THEN /\ retries' = [retries EXCEPT ![t] = @ + 1]
         /\ Goto(t, IF retries[t] + 1 < RETRY_LIMIT THEN "enqueue" ELSE "lock")
    ELSE /\ retries' = [retries EXCEPT ![t] = (@ % WAIT_PERIOD) + 1]
         /\ Goto(t, "enqueue")

AcquireLock(t) ==
  /\ pc[t] = "acquire"
  /\ TakeFree(t)
  /\ Goto(t, "open")
  /\ UNCHANGED <<queueVars, op, retries, owed>>

AcquireFails(t) ==
  /\ pc[t] = "acquire"
  /\ ~WaitsThisRound(t)
  /\ TryLockFails(t)
  /\ NextRound(t)
  /\ UNCHANGED <<queueVars, op, owed>>

AcquireOrWait(t) ==
  /\ pc[t] = "acquire"
  /\ WaitsThisRound(t)
  /\ WaitFlag(t)
  /\ Goto(t, "wait")
  /\ UNCHANGED <<queueVars, op, retries, owed>>

GoToSleep(t) ==
  /\ pc[t] = "wait"
  /\ WaitSleep(t)
  /\ Goto(t, "sleep")
  /\ UNCHANGED <<queueVars, op, retries, owed>>

StayAwake(t) ==
  /\ pc[t] = "wait"
  /\ WaitMiss(t)
  /\ NextRound(t)
  /\ UNCHANGED <<queueVars, op, owed>>

WakeUp(t) ==
  /\ pc[t] = "sleep"
  /\ Awake(t)
  /\ NextRound(t)
  /\ UNCHANGED <<queueVars, op, owed>>

-----------------------------------------------------------------------------
(* lock(): the end of the loop of delegate(), and the function of the API *)

UserLock(t) ==
  /\ t \in LockUsers
  /\ pc[t] = "idle"
  /\ Goto(t, "lock")
  /\ UNCHANGED <<queueVars, op, lockVars, retries, owed>>

LockNow(t) ==
  /\ pc[t] = "lock"
  /\ TakeFree(t)
  /\ Goto(t, "exec")
  /\ UNCHANGED <<queueVars, op, retries, owed>>

LockQueue(t) ==
  /\ pc[t] = "lock"
  /\ LockEnqueue(t)
  /\ Goto(t, "lockWait")
  /\ UNCHANGED <<queueVars, op, retries, owed>>

LockGranted(t) ==
  /\ pc[t] = "lockWait"
  /\ Granted(t)
  /\ Goto(t, "exec")
  /\ UNCHANGED <<queueVars, op, retries, owed>>

-----------------------------------------------------------------------------
(* executor(), helper(), unlock() and the future *)

\* The body of the operation that t runs under the lock without opening the
\* queue; with op[t] = NoOp it is the code between lock() and unlock().
Execute(t) ==
  /\ pc[t] = "exec"
  /\ Goto(t, "unlock")
  /\ UNCHANGED <<queueVars, op, lockVars, retries, owed>>

HelperOpen(t) ==
  /\ pc[t] = "open"
  /\ OpenQueue(t)
  /\ Goto(t, "helperExec")
  /\ UNCHANGED <<op, lockVars, retries, owed>>

\* The helper has run its own operation and calls flush().
HelperExecute(t) ==
  /\ pc[t] = "helperExec"
  /\ FlushEnter(t)
  /\ Goto(t, "flush")
  /\ UNCHANGED <<op, lockVars, retries, owed>>

FlushStep(t) ==
  /\ pc[t] = "flush"
  /\ FlushLoad(t) \/ FlushLoadSame(t) \/ FlushClose(t) \/ FlushPoll(t)
  /\ UNCHANGED <<op, lockVars, pc, retries, owed>>

FlushRunEntry(t) ==
  /\ pc[t] = "flush"
  /\ FlushRun(t)
  /\ owed' = [o \in Op |-> owed[o] \cap accepted']
  /\ UNCHANGED <<op, lockVars, pc, retries>>

FlushEnd(t) ==
  /\ pc[t] = "flush"
  /\ FlushClear(t)
  /\ Goto(t, "unlock")
  /\ UNCHANGED <<op, lockVars, retries, owed>>

Unlock(t) ==
  /\ pc[t] = "unlock"
  /\ UnlockFree(t) \/ HandOver(t)
  /\ Finish(t)
  /\ UNCHANGED <<queueVars, owed>>

UnlockAndWake(t) ==
  /\ pc[t] = "unlock"
  /\ UnlockFlagged(t)
  /\ Goto(t, "notify")
  /\ UNCHANGED <<queueVars, op, retries, owed>>

Notify(t) ==
  /\ pc[t] = "notify"
  /\ NotifyAll(t)
  /\ Finish(t)
  /\ UNCHANGED <<queueVars, owed>>

\* get(), wait() or the destructor of a waiting_future: the promise is set
\* by the wrapper that runs the operation.
FutureWait(t) ==
  /\ pc[t] = "future"
  /\ op[t] \notin accepted
  /\ Finish(t)
  /\ UNCHANGED <<queueVars, lockVars, owed>>

\* discard() of a waiting_future, and an assignment to it, drop what it stands
\* for: the caller goes on without waiting.
FutureDiscard(t) ==
  /\ pc[t] = "future"
  /\ op[t] \in accepted
  /\ Finish(t)
  /\ UNCHANGED <<queueVars, lockVars, owed>>

-----------------------------------------------------------------------------
(* The program: threads call the lock whenever they like; a call goes on. *)

Call(t) == UserLock(t) \/ \E o \in Op : Delegate(t, o)

Step(t) ==
  \/ TryLock(t) \/ TryLockBusy(t)
  \/ EnqueueStep(t) \/ EnqueueRefused(t) \/ EnqueueAccepted(t)
  \/ AcquireLock(t) \/ AcquireFails(t) \/ AcquireOrWait(t)
  \/ GoToSleep(t) \/ StayAwake(t) \/ WakeUp(t)
  \/ LockNow(t) \/ LockQueue(t) \/ LockGranted(t)
  \/ Execute(t) \/ HelperOpen(t) \/ HelperExecute(t)
  \/ FlushStep(t) \/ FlushRunEntry(t) \/ FlushEnd(t)
  \/ Unlock(t) \/ UnlockAndWake(t) \/ Notify(t)
  \/ FutureWait(t)

Next == \E t \in Thread : Call(t) \/ Step(t) \/ FutureDiscard(t)

Spec == Init /\ [][Next]_vars

\* A thread inside a call is scheduled again and again, and delegated
\* operations return.  No thread has to call the lock or to drop a future.
FairSpec == Spec /\ \A t \in Thread : WF_vars(Step(t))

\* The same without the exchange of the word in lock(), a loop that other
\* threads can make fail again and again, however t is scheduled.
ExchangeMayFail == \A t \in Thread : WF_vars(pc[t] # "lock" /\ Step(t))

-----------------------------------------------------------------------------
(* Properties *)

Helping(t) == pc[t] \in {"helperExec", "flush"}

\* t runs the body of an operation, or user code between lock and unlock.
InCriticalSection(t) ==
  \/ pc[t] \in {"exec", "helperExec"}
  \/ pc[t] = "flush" /\ qpc[t] = "run"

\* Delegated operations and locked sections run one at a time, whichever
\* threads run them: the executor, the helper for itself or for others.
MutualExclusion ==
  \A t, u \in Thread : InCriticalSection(t) /\ InCriticalSection(u) => t = u

\* What flush() calls is an entry that an enqueuer stored in this session
\* and that has not run yet, with the size it was stored with: no operation
\* runs twice, and the scan cannot run off the entry boundaries.
RunsWhatWasStored ==
  \A t \in Thread : qpc[t] = "run" =>
    LET i == index[t]
    IN  /\ entries[i] \in {"wrapper", "no_op"}
        /\ entries[i] = "wrapper" =>
             /\ argument[i] \in accepted
             /\ header[i] = ReqEntries[argument[i]]

\* An accepted operation never waits for a call yet to come: while there is
\* one, the thread that will run it is helping.
NoLostOperation ==
  accepted # {} => \E t \in Thread : Helping(t)

\* The operation whose body t runs, if any.
Runs(t, o) ==
  \/ pc[t] \in {"exec", "helperExec"} /\ op[t] = o
  \/ pc[t] = "flush" /\ qpc[t] = "run" /\ entries[index[t]] = "wrapper"
       /\ argument[index[t]] = o

\* An operation runs after every operation that had been accepted when it
\* was delegated: "everything preceding it is also done".
RealTimeOrder ==
  \A t \in Thread, o \in Op : Runs(t, o) => owed[o] = {}

\* What flush() calls has become available: the poll of the entry waits for
\* a function that an enqueuer stores ("0 until entry available",
\* queues/dual_buffer_queue.hpp l. 103).
WaitsUntilAvailable ==
  \A t \in Thread : qpc[t] = "run" => entries[index[t]] # "garbage"

\* The counter overshoots ENTRIES by at most one claim per thread, so that
\* the unsigned counter is far from wrapping round to an open queue.
CounterBounded ==
  \A m \in 1..ENTRIES : (\A o \in Op : ReqEntries[o] <= m) =>
    counter <= ENTRIES + m * Cardinality({t \in Thread : qpc[t] # "claim"})

\* Every call of delegate(), lock() and unlock() returns: what the starvation
\* free policy is for (qdlock_base.hpp l. 653).
CallsReturn == \A t \in Thread : pc[t] # "idle" ~> pc[t] = "idle"

\* A thread at the exchange of lock(), or asleep while the lock is taken.
HeldUp(t) == pc[t] = "lock" \/ (pc[t] = "sleep" /\ holder # NoThread)

\* No call hangs anywhere else: not in enqueue(), not in flush(), which spins
\* on entries that others are to publish, not in the queue of the lock, not
\* on a future, and not asleep beside a free lock.
CallsGoOn ==
  \A t \in Thread : pc[t] # "idle" /\ ~HeldUp(t) ~> pc[t] = "idle" \/ HeldUp(t)

\* Every accepted operation is run.
AcceptedRuns == \A o \in Op : o \in accepted ~> o \notin accepted

=============================================================================
