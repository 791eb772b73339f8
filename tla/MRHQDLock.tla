----------------------------- MODULE MRHQDLock ------------------------------
(***************************************************************************)
(* The queue delegation locks with readers, with a hierarchy, and with     *)
(* both: mrqdlock_impl (mrqdlock.hpp), hqdlock_impl and mrhqdlock_impl     *)
(* (hqdlock.hpp).  All of them call delegate() of qdlock_base with hooks   *)
(* that wait for readers and that take a global lock.                      *)
(*                                                                         *)
(* Top is the lock that excludes readers: the mutex_lock of the only       *)
(* qdlock_base in mrqdlock, the global_lock of the other two, which have a *)
(* qdlock_base for each NUMA node as well.                                 *)
(*                                                                         *)
(* A lock is its holder here, and the queue of a qdlock_base is a session  *)
(* and the number of operations accepted in it and not run, which is what  *)
(* QDLock and TantrumQueue show of them.                                   *)
(***************************************************************************)
EXTENDS ReaderGroups

CONSTANTS
  Node, NoNode,   \* NUMA nodes
  Top,            \* the lock that readers look at
  Templates,      \* the instantiations of the templates that are checked
  Readers,        \* threads that call rlock(), or delegate if there is none
  Delegators,     \* threads that delegate
  LockUsers,      \* threads that call lock() and unlock()
  PATIENCE,       \* READ_PATIENCE_LIMIT
  CAPACITY        \* bound on the operations stored in a queue

\* The class; the type of Top, a "word" that one instruction takes and that
\* is_locked() reads, or a "flag" beside a mutex (mutex_lock, pthreads_lock);
\* the type of the nodes' locks, a "word" that unlock() stores to, whoever
\* calls it (futex_lock), or a "list" (mcs_futex_lock); and the pinning policy.
\* mrqdlock_impl has neither of the last two.
Template == [variant: {"mr", "h", "mrh"}, lockKind: {"word", "flag"},
             nodeLock: {"word", "list"}, pinned: BOOLEAN]

ASSUME MRHAssumption ==
  /\ NoNode \notin Node /\ Top \notin Node /\ NoNode # Top
  /\ Templates \subseteq Template
  /\ Readers \cup Delegators \cup LockUsers \subseteq Thread
  /\ PATIENCE \in Nat /\ CAPACITY \in Nat

VARIABLES
  template,      \* the instantiation of the template; it never changes
  holder,        \* holder[l]: the thread that has lock l
  flag,          \* `locked' of a "flag" lock, as other processors see it
  buffered,      \* the holder's store of true to it is not yet visible
  session,       \* session[l]: the queue of l is open
  stored,        \* stored[l]: operations accepted and not run
  writeBarrier,  \* readers that keep new writers out
  pc,            \* where t is in its call
  role,          \* role[t]: what t is once it has the lock
  node,          \* node[t]: the qdlock_base of t; with pinned threads for good
  patience,      \* patience[t]: readPatience
  raised         \* raised[t]: bRaised

topFlag == <<flag, buffered>>
queues == <<session, stored>>
reader == <<patience, raised>>
vars == <<idVars, groupVars, template, holder, topFlag, queues, writeBarrier,
          pc, role, node, reader>>

Lock == Node \cup {Top}
HasReaders == template.variant \in {"mr", "mrh"}
HasNodes == template.variant \in {"h", "mrh"}

ReaderPc == {"arrive", "look", "depart", "spin", "raise", "lower", "reading"}
WriterPc == {"barrier", "try", "enqueue", "acquire", "lock", "global", "open",
             "readers", "run", "flush", "globalUnlock", "nodeUnlock", "stuck"}

TypeOK ==
  /\ IdTypeOK /\ GroupsTypeOK
  /\ holder \in [Lock -> Thread \cup {NoThread}]
  /\ flag \in BOOLEAN /\ buffered \in BOOLEAN
  /\ session \in [Lock -> BOOLEAN]
  /\ stored \in [Lock -> 0..CAPACITY]
  /\ writeBarrier \in 0 .. Cardinality(Thread)
  /\ pc \in [Thread -> {"idle"} \cup ReaderPc \cup WriterPc]
  /\ role \in [Thread -> {"executor", "helper", "user"}]
  /\ node \in [Thread -> Lock \cup {NoNode}]
  /\ patience \in [Thread -> 0 .. PATIENCE + 1]
  /\ raised \in [Thread -> BOOLEAN]

Init ==
  /\ IdInit /\ GroupsInit
  /\ template \in Templates
  /\ holder = [l \in Lock |-> NoThread]
  /\ flag = FALSE /\ buffered = FALSE
  /\ session = [l \in Lock |-> FALSE]
  /\ stored = [l \in Lock |-> 0]
  /\ writeBarrier = 0
  /\ pc = [t \in Thread |-> "idle"]
  /\ role = [t \in Thread |-> "executor"]
  /\ node = [t \in Thread |-> NoNode]
  /\ patience = [t \in Thread |-> 0]
  /\ raised = [t \in Thread |-> FALSE]

Go(t, from, to) == pc[t] = from /\ pc' = [pc EXCEPT ![t] = to]

-----------------------------------------------------------------------------
(* The locks, and get_qd() *)

\* Variant for sensitivity: every call looks up the node of its processor.
QdAlways(t) == IF HasNodes THEN Node ELSE {Top}

\* get_qd(): the qdlock_base for t is that of the node it runs on or, with
\* pinned threads, the one of its first call.
Qd(t) ==
  IF ~HasNodes THEN {Top} ELSE
  IF template.pinned /\ node[t] # NoNode THEN {node[t]} ELSE Node

\* The call of a writer returns; only pinned threads remember their node.
Return(t) ==
  /\ node' = [node EXCEPT ![t] = IF HasNodes /\ template.pinned THEN @ ELSE NoNode]
  /\ role' = [role EXCEPT ![t] = "executor"]

\* lock() or try_lock() of lock l.  A "flag" lock takes a mutex and then
\* stores to `locked'; the store waits in the processor's store buffer.
Take(t, l) ==
  /\ holder[l] = NoThread
  /\ holder' = [holder EXCEPT ![l] = t]
  /\ buffered' = (buffered \/ (l = Top /\ template.lockKind = "flag"))
  /\ UNCHANGED flag

\* unlock(): the instruction that releases the mutex empties the buffer.
Release(l) ==
  /\ holder' = [holder EXCEPT ![l] = NoThread]
  /\ IF l = Top THEN flag' = FALSE /\ buffered' = FALSE ELSE UNCHANGED topFlag

\* The store becomes visible.
Drain ==
  /\ buffered
  /\ flag' = TRUE /\ buffered' = FALSE
  /\ UNCHANGED <<idVars, groupVars, template, holder, queues, writeBarrier, pc, role, node, reader>>

\* unlock() of a "flag" lock stores false before it releases the mutex.
LowerFlag(t) ==
  /\ pc[t] = IF HasNodes THEN "globalUnlock" ELSE "nodeUnlock"
  /\ flag /\ flag' = FALSE
  /\ UNCHANGED <<idVars, groupVars, template, holder, buffered, queues, writeBarrier, pc, role, node, reader>>

\* is_locked() of the lock that excludes readers
IsLocked == IF template.lockKind = "flag" THEN flag ELSE holder[Top] # NoThread

-----------------------------------------------------------------------------
(* delegate() and lock(): up to the point where the thread has the lock *)

\* A call of delegate() of the qdlock_base l: its first hook is wait_writers().
BeginDelegate(t, l, place) ==
  /\ Go(t, "idle", place)
  /\ node' = [node EXCEPT ![t] = l]
  /\ UNCHANGED <<idVars, groupVars, template, holder, topFlag, queues, writeBarrier, role, reader>>

\* delegate_n(), delegate_f(), delegate_p() and delegate_fp() of the classes;
\* without rlock() the readers delegate what they would read.
DelegateMR(t) ==
  template.variant = "mr" /\ t \in Delegators /\ BeginDelegate(t, Top, "barrier")

DelegateH(t) ==
  /\ template.variant = "h" /\ t \in Delegators \cup Readers
  /\ \E l \in Qd(t) : BeginDelegate(t, l, "try")

DelegateMRH(t) ==
  /\ template.variant = "mrh" /\ t \in Delegators
  /\ \E l \in Qd(t) : BeginDelegate(t, l, "barrier")

\* A call of lock().  mrhqdlock_impl looks up the node behind the barrier;
\* others cannot tell, and what it may find is the same.
BeginLock(t, place) ==
  /\ t \in LockUsers
  /\ Go(t, "idle", place)
  /\ role' = [role EXCEPT ![t] = "user"]
  /\ \E l \in Qd(t) : node' = [node EXCEPT ![t] = l]
  /\ UNCHANGED <<idVars, groupVars, template, holder, topFlag, queues, writeBarrier, reader>>

LockMR(t) == template.variant = "mr" /\ BeginLock(t, "barrier")
LockH(t) == template.variant = "h" /\ BeginLock(t, "lock")
LockMRH(t) == template.variant = "mrh" /\ BeginLock(t, "barrier")

\* Variant for sensitivity: the barrier is ignored.
PassBarrierAnyway(t) ==
  /\ Go(t, "barrier", IF role[t] = "user" THEN "lock" ELSE "try")
  /\ UNCHANGED <<idVars, groupVars, template, holder, topFlag, queues, writeBarrier, role, node, reader>>

\* wait_writers(), and the loop at the start of lock()
PassBarrier(t) ==
  /\ Go(t, "barrier", IF role[t] = "user" THEN "lock" ELSE "try")
  /\ writeBarrier = 0
  /\ UNCHANGED <<idVars, groupVars, template, holder, topFlag, queues, writeBarrier, role, node, reader>>

\* What follows the lock of the qdlock_base: HSync::lock or the next hook.
AfterNode(inRole) ==
  IF HasNodes THEN "global" ELSE IF inRole = "helper" THEN "open" ELSE "readers"

TryLock(t) ==
  /\ Go(t, "try", AfterNode(role[t]))
  /\ Take(t, node[t])
  /\ UNCHANGED <<idVars, groupVars, template, queues, writeBarrier, role, node, reader>>

TryLockBusy(t) ==
  /\ Go(t, "try", "enqueue")
  /\ holder[node[t]] # NoThread
  /\ UNCHANGED <<idVars, groupVars, template, holder, topFlag, queues, writeBarrier, role, node, reader>>

EnqueueAccepted(t) ==
  /\ Go(t, "enqueue", "idle")
  /\ session[node[t]]
  /\ stored[node[t]] < CAPACITY
  /\ stored' = [stored EXCEPT ![node[t]] = @ + 1]
  /\ Return(t)
  /\ UNCHANGED <<idVars, groupVars, template, holder, topFlag, session, writeBarrier, reader>>

\* CLOSED or FULL
EnqueueRefused(t) ==
  /\ Go(t, "enqueue", "acquire")
  /\ UNCHANGED <<idVars, groupVars, template, holder, topFlag, queues, writeBarrier, role, node, reader>>

\* try_lock() or try_lock_or_wait() in the loop
Acquire(t) ==
  /\ Go(t, "acquire", AfterNode("helper"))
  /\ Take(t, node[t])
  /\ role' = [role EXCEPT ![t] = "helper"]
  /\ UNCHANGED <<idVars, groupVars, template, queues, writeBarrier, node, reader>>

\* The next round, or lock() after the last one.
AcquireFails(t) ==
  /\ Go(t, "acquire", "enqueue") \/ Go(t, "acquire", "lock")
  /\ holder[node[t]] # NoThread
  /\ UNCHANGED <<idVars, groupVars, template, holder, topFlag, queues, writeBarrier, role, node, reader>>

\* mutex_lock.lock()
LockNode(t) ==
  /\ Go(t, "lock", AfterNode(role[t]))
  /\ Take(t, node[t])
  /\ UNCHANGED <<idVars, groupVars, template, queues, writeBarrier, role, node, reader>>

\* Variant for sensitivity: hierarchy_sync is left out of the executor.
LockGlobalHelper(t) ==
  /\ Go(t, "global", IF role[t] = "helper" THEN "open" ELSE
                     IF HasReaders THEN "readers" ELSE "run")
  /\ IF role[t] = "executor" THEN UNCHANGED <<holder, topFlag>> ELSE Take(t, Top)
  /\ UNCHANGED <<idVars, groupVars, template, queues, writeBarrier, role, node, reader>>

LockGlobal(t) ==
  /\ Go(t, "global", IF role[t] = "helper" THEN "open" ELSE
                     IF HasReaders THEN "readers" ELSE "run")
  /\ Take(t, Top)
  /\ UNCHANGED <<idVars, groupVars, template, queues, writeBarrier, role, node, reader>>

-----------------------------------------------------------------------------
(* helper(), executor() and unlock() *)

Open(t) ==
  /\ Go(t, "open", IF HasReaders THEN "readers" ELSE "run")
  /\ session' = [session EXCEPT ![node[t]] = TRUE]
  /\ UNCHANGED <<idVars, groupVars, template, holder, topFlag, stored, writeBarrier, role, node, reader>>

\* wait_readers(), and the loop at the end of lock()
WaitReaders(t) ==
  /\ \/ (SeeReader(t) \/ SeeEmpty(t)) /\ Go(t, "readers", "readers")
     \/ SeeNobody(t) /\ Go(t, "readers", "run")
  /\ UNCHANGED <<idVars, template, holder, topFlag, queues, writeBarrier, role, node, reader>>

\* The thread's own operation, or the code between lock() and unlock().
Run(t) ==
  /\ Go(t, "run", IF role[t] = "helper" THEN "flush" ELSE
                  IF HasNodes THEN "globalUnlock" ELSE "nodeUnlock")
  /\ UNCHANGED <<idVars, groupVars, template, holder, topFlag, queues, writeBarrier, role, node, reader>>

FlushRun(t) ==
  /\ Go(t, "flush", "flush")
  /\ stored[node[t]] > 0
  /\ stored' = [stored EXCEPT ![node[t]] = @ - 1]
  /\ UNCHANGED <<idVars, groupVars, template, holder, topFlag, session, writeBarrier, role, node, reader>>

\* Variant for sensitivity: flush() leaves the queue open.
FlushOpen(t) ==
  /\ Go(t, "flush", IF HasNodes THEN "globalUnlock" ELSE "nodeUnlock")
  /\ stored[node[t]] = 0
  /\ UNCHANGED <<idVars, groupVars, template, holder, topFlag, queues, writeBarrier, role, node, reader>>

FlushClose(t) ==
  /\ Go(t, "flush", IF HasNodes THEN "globalUnlock" ELSE "nodeUnlock")
  /\ stored[node[t]] = 0
  /\ session' = [session EXCEPT ![node[t]] = FALSE]
  /\ UNCHANGED <<idVars, groupVars, template, holder, topFlag, stored, writeBarrier, role, node, reader>>

UnlockGlobal(t) ==
  /\ Go(t, "globalUnlock", "nodeUnlock")
  /\ Release(Top)
  /\ UNCHANGED <<idVars, groupVars, template, queues, writeBarrier, role, node, reader>>

\* delegate() unlocks the qdlock_base it is a call of; unlock() of the API
\* looks it up again, and may find another one than lock() did.
Unlocked(t) == IF role[t] = "user" THEN Qd(t) ELSE {node[t]}

UnlockNode(t) ==
  /\ Go(t, "nodeUnlock", "idle")
  /\ \E l \in Unlocked(t) : (template.nodeLock = "list" => holder[l] = t) /\ Release(l)
  /\ Return(t)
  /\ UNCHANGED <<idVars, groupVars, template, queues, writeBarrier, reader>>

\* unlock() of an mcs_futex_lock that t does not have: the node of t is not in
\* its list, and unlock() waits for ever for a next one.
UnlockHangs(t) ==
  /\ Go(t, "nodeUnlock", "stuck")
  /\ template.nodeLock = "list" /\ \E l \in Unlocked(t) : holder[l] # t
  /\ UNCHANGED <<idVars, groupVars, template, holder, topFlag, queues, writeBarrier, role, node, reader>>

-----------------------------------------------------------------------------
(* rlock() and runlock() *)

CallRLock(t) ==
  /\ t \in Readers /\ HasReaders
  /\ Go(t, "idle", "arrive")
  /\ UNCHANGED <<idVars, groupVars, template, holder, topFlag, queues, writeBarrier, role, node, reader>>

\* The first use of thread_id makes the thread's identifier.
FirstUse(t) ==
  /\ pc[t] = "arrive"
  /\ GetId(t)
  /\ UNCHANGED <<groupVars, template, holder, topFlag, queues, writeBarrier, pc, role, node, reader>>

RArrive(t) ==
  /\ Go(t, "arrive", "look")
  /\ Arrive(t)
  /\ UNCHANGED <<idVars, template, holder, topFlag, queues, writeBarrier, role, node, reader>>

Look(t) ==
  /\ Go(t, "look", IF IsLocked THEN "depart" ELSE
                   IF raised[t] THEN "lower" ELSE "reading")
  /\ patience' = IF IsLocked THEN patience ELSE [patience EXCEPT ![t] = 0]
  /\ UNCHANGED <<idVars, groupVars, template, holder, topFlag, queues, writeBarrier, role, node, raised>>

\* Variant for sensitivity: the reader tries again without waiting.
BackOffRetry(t) ==
  /\ Go(t, "depart", "arrive")
  /\ Depart(t)
  /\ UNCHANGED <<idVars, template, holder, topFlag, queues, writeBarrier, role, node, reader>>

BackOff(t) ==
  /\ Go(t, "depart", "spin")
  /\ Depart(t)
  /\ UNCHANGED <<idVars, template, holder, topFlag, queues, writeBarrier, role, node, reader>>

\* One look at the lock in the inner loop.  patience stops counting beyond
\* the limit, where its value no longer matters.
Spin(t) ==
  /\ IF ~IsLocked
       THEN Go(t, "spin", "arrive") /\ UNCHANGED patience
       ELSE /\ Go(t, "spin", IF patience[t] = PATIENCE /\ ~raised[t] THEN "raise" ELSE "spin")
            /\ patience' = [patience EXCEPT ![t] = IF @ <= PATIENCE THEN @ + 1 ELSE @]
  /\ UNCHANGED <<idVars, groupVars, template, holder, topFlag, queues, writeBarrier, role, node, raised>>

Raise(t) ==
  /\ Go(t, "raise", "spin")
  /\ writeBarrier' = writeBarrier + 1
  /\ raised' = [raised EXCEPT ![t] = TRUE]
  /\ UNCHANGED <<idVars, groupVars, template, holder, topFlag, queues, role, node, patience>>

Lower(t) ==
  /\ Go(t, "lower", "reading")
  /\ writeBarrier' = writeBarrier - 1
  /\ raised' = [raised EXCEPT ![t] = FALSE]
  /\ UNCHANGED <<idVars, groupVars, template, holder, topFlag, queues, role, node, patience>>

RUnlock(t) ==
  /\ Go(t, "reading", "idle")
  /\ Depart(t)
  /\ UNCHANGED <<idVars, template, holder, topFlag, queues, writeBarrier, role, node, reader>>

\* The end of a thread, and the thread-locals of the next one.
ThreadEnd(t) ==
  /\ pc[t] = "idle"
  /\ IF thread_id[t] = 0 THEN node[t] # NoNode /\ UNCHANGED idVars ELSE FreeId(t)
  /\ node' = [node EXCEPT ![t] = NoNode]
  /\ UNCHANGED <<groupVars, template, holder, topFlag, queues, writeBarrier, pc, role, reader>>

-----------------------------------------------------------------------------
(* The program *)

Begin(t) ==
  \/ DelegateMR(t) \/ DelegateH(t) \/ DelegateMRH(t)
  \/ LockMR(t) \/ LockH(t) \/ LockMRH(t)
  \/ CallRLock(t)

WriterStep(t) ==
  \/ PassBarrier(t) \/ TryLock(t) \/ TryLockBusy(t)
  \/ EnqueueAccepted(t) \/ EnqueueRefused(t) \/ Acquire(t) \/ AcquireFails(t)
  \/ LockNode(t) \/ LockGlobal(t) \/ Open(t) \/ WaitReaders(t) \/ Run(t)
  \/ FlushRun(t) \/ FlushClose(t) \/ UnlockGlobal(t)
  \/ UnlockNode(t) \/ UnlockHangs(t)

ReaderStep(t) ==
  \/ FirstUse(t) \/ RArrive(t) \/ Look(t) \/ BackOff(t) \/ Spin(t)
  \/ Raise(t) \/ Lower(t) \/ RUnlock(t)

Step(t) == WriterStep(t) \/ ReaderStep(t)

Next ==
  \/ Drain
  \/ \E t \in Thread : Begin(t) \/ ThreadEnd(t) \/ LowerFlag(t) \/ Step(t)

Spec == Init /\ [][Next]_vars

\* Threads inside a call, and those that hold the lock, go on.
FairSpec == Spec /\ WF_vars(Drain) /\ \A t \in Thread : WF_vars(Step(t))

-----------------------------------------------------------------------------
(* Properties *)

\* t runs an operation of its own or of others, or the code of a lock user.
Writing(t) == pc[t] \in {"run", "flush"}

\* A reader that has decided to go in, or is in.
Reading(t) == pc[t] \in {"lower", "reading"}

\* Operations run one at a time, whichever node's queue they are in.
MutualExclusion == \A t, u \in Thread : Writing(t) /\ Writing(u) => t = u

\* No reader is in while an operation runs, with a lock that is_locked()
\* sees as soon as it is taken: either the reader sees the lock or the
\* writer sees the reader, also when it looks at the groups one by one.
ReaderExclusion ==
  template.lockKind = "word" => \A t, u \in Thread : ~(Reading(t) /\ Writing(u))

\* The same for every type of lock: "This may sometimes return false when
\* the lock is already acquired. This is safe, because the locking call that
\* acquired the lock in that case has not yet returned"
\* (locks/mutex_lock.hpp l. 27-29).
NoReaderBesideWriter == \A t, u \in Thread : ~(Reading(t) /\ Writing(u))

\* Every call of lock() and unlock() finds the same qdlock_base.  delegate()
\* looks it up once.
NodeIsKept == HasNodes /\ LockUsers # {} => template.pinned

\* Accepted operations wait only while their helper has both locks: no
\* operation delegated later, on whichever node, can run before them.
StoredIsHelped ==
  \A l \in Lock : stored[l] > 0 =>
    \E t \in Thread : /\ node[t] = l /\ role[t] = "helper"
                      /\ holder[Top] = t /\ (NodeIsKept => holder[l] = t)
                      /\ pc[t] \in {"readers", "run", "flush"}

\* The barrier and the groups count the readers there are: none is left
\* behind by a retry, by threads that share a group, or by the reuse of an
\* identifier.
ReadersAccounted ==
  /\ writeBarrier = Cardinality({t \in Thread : raised[t]})
  /\ \A g \in Group : cnt[g] = Cardinality({t \in Thread :
       pc[t] \in {"look", "depart", "lower", "reading"} /\ GroupOf(t) = g})

\* If t unlocks in this step, it has the lock.
ReleasesOwn(t) ==
  pc[t] \in {"globalUnlock", "nodeUnlock"} /\ pc'[t] # pc[t] =>
    \E l \in Lock : holder[l] = t /\ holder' = [holder EXCEPT ![l] = NoThread]

\* With pinned threads, unlock() releases a lock that the calling thread has,
\* although it looks up the node a second time; so does delegate(), unless an
\* unlock() of a free thread has released the lock before.
UnlocksOwn == [][NodeIsKept => \A t \in Thread : ReleasesOwn(t)]_vars

\* The same for free threads, which mcs_futex_lock relies on: in unlock()
\* "thread_local mynode is set while locked" (locks/mcs_futex_lock.hpp l. 84).
UnlocksWhileLocked == [][\A t \in Thread : ReleasesOwn(t)]_vars

\* A reader that has raised the barrier gets in.
RaisedReaderGetsIn == \A t \in Readers : raised[t] ~> pc[t] = "reading"

\* Readers that retry do not hold up a writer that waits for them.
WriterProceeds == \A t \in Delegators \cup LockUsers : pc[t] = "readers" ~> pc[t] = "run"

=============================================================================
