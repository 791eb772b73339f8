----------------------------- MODULE HandoffLock -----------------------------
(***************************************************************************)
(* What the delegation layer sees of its mutex_lock, an mcs_futex_lock     *)
(* (locks/mcs_futex_lock.hpp): one word that names the last thread that    *)
(* queued and carries a flag bit.  lock() waits in a FIFO queue and gets   *)
(* the lock handed over; try_lock() only takes a free lock;                *)
(* try_lock_or_wait() sets the flag and sleeps on the word, and only the   *)
(* unlock that empties the queue clears the flag and wakes the sleepers.   *)
(*                                                                         *)
(* An action here is the atomic instruction of the code at which the       *)
(* operation takes effect; the caller's program counter is the caller's.   *)
(***************************************************************************)
EXTENDS Threads, Sequences, Naturals

VARIABLES
  holder,      \* the thread that holds the lock, or NoThread
  lqueue,      \* threads inside lock(), in the order of their exchange
  flagged,     \* the flag bit of the lock word
  sleepers,    \* threads in the futex wait of try_lock_or_wait()
  seen         \* seen[t]: the node in the word that t is about to wait on

lockVars == <<holder, lqueue, flagged, sleepers, seen>>

(***************************************************************************)
(* Type correctness of the lock: the wait queue holds threads, and a       *)
(* thread remembers a node of the lock word.                               *)
(***************************************************************************)
LockTypeOK ==
  /\ holder \in Thread \cup {NoThread}
  /\ lqueue \in Seq(Thread)
  /\ flagged \in BOOLEAN
  /\ sleepers \in SUBSET Thread
  /\ seen \in [Thread -> Thread \cup {NoThread}]

LockInit ==
  /\ holder = NoThread
  /\ lqueue = <<>>
  /\ flagged = FALSE
  /\ sleepers = {}
  /\ seen = [t \in Thread |-> NoThread]

\* The node in the lock word: the last thread that queued.
LastNode == IF lqueue = <<>> THEN holder ELSE lqueue[Len(lqueue)]

-----------------------------------------------------------------------------
(* try_lock() and the CAS from free of lock() and try_lock_or_wait() *)

\* Variant for sensitivity: an exchange where compare_exchange is meant.
TakeAnyway(t) ==
  /\ holder' = t
  /\ UNCHANGED <<lqueue, flagged, sleepers, seen>>

TakeFree(t) ==
  /\ holder = NoThread
  /\ holder' = t
  /\ UNCHANGED <<lqueue, flagged, sleepers, seen>>

TryLockFails(t) ==
  /\ holder # NoThread
  /\ UNCHANGED lockVars

-----------------------------------------------------------------------------
(* try_lock_or_wait() on a lock that is taken *)

\* The flag is set on the word that t has read.  If another thread sets it
\* first, t goes to wait on a word that it has read before.
WaitFlag(t) ==
  /\ holder # NoThread
  /\ flagged' = TRUE
  /\ \E last \in IF flagged THEN Thread \cup {NoThread} ELSE {LastNode} :
       seen' = [seen EXCEPT ![t] = last]
  /\ UNCHANGED <<holder, lqueue, sleepers>>

SeenWord(t) == flagged /\ LastNode = seen[t]

\* futex_wait: the kernel puts t to sleep only if the word is still that one.
WaitSleep(t) ==
  /\ SeenWord(t)
  /\ sleepers' = sleepers \cup {t}
  /\ seen' = [seen EXCEPT ![t] = NoThread]
  /\ UNCHANGED <<holder, lqueue, flagged>>

WaitMiss(t) ==
  /\ ~SeenWord(t)
  /\ seen' = [seen EXCEPT ![t] = NoThread]
  /\ UNCHANGED <<holder, lqueue, flagged, sleepers>>

Awake(t) == t \notin sleepers /\ UNCHANGED lockVars

-----------------------------------------------------------------------------
(* lock() on a lock that is taken *)

\* The exchange of the word keeps the flag and appends t to the queue.
LockEnqueue(t) ==
  /\ holder # NoThread
  /\ lqueue' = Append(lqueue, t)
  /\ UNCHANGED <<holder, flagged, sleepers, seen>>

\* Variant for sensitivity: a contended node is taken for a free one.
GrantedEarly(t) == holder # NoThread /\ UNCHANGED lockVars

Granted(t) == holder = t /\ UNCHANGED lockVars

-----------------------------------------------------------------------------
(* unlock() *)

\* Nobody queued and no flag: the CAS to free is the whole unlock.
UnlockFree(t) ==
  /\ holder = t /\ lqueue = <<>> /\ ~flagged
  /\ holder' = NoThread
  /\ UNCHANGED <<lqueue, flagged, sleepers, seen>>

\* Nobody queued and the flag set: the CAS to free clears it; see NotifyAll.
UnlockFlagged(t) ==
  /\ holder = t /\ lqueue = <<>> /\ flagged
  /\ holder' = NoThread
  /\ flagged' = FALSE
  /\ UNCHANGED <<lqueue, sleepers, seen>>

\* The system call that wakes every thread asleep on the word.
NotifyAll(t) ==
  /\ sleepers' = {}
  /\ UNCHANGED <<holder, lqueue, flagged, seen>>

\* The lock goes to the next of the queue.  The flag stays, nobody wakes.
HandOver(t) ==
  /\ holder = t /\ lqueue # <<>>
  /\ holder' = Head(lqueue)
  /\ lqueue' = Tail(lqueue)
  /\ UNCHANGED <<flagged, sleepers, seen>>

-----------------------------------------------------------------------------
(* The lock by itself, whoever calls it *)

LockNext == \E t \in Thread :
  \/ TakeFree(t) \/ LockEnqueue(t)
  \/ WaitFlag(t) \/ WaitSleep(t) \/ WaitMiss(t)
  \/ UnlockFree(t) \/ UnlockFlagged(t) \/ NotifyAll(t) \/ HandOver(t)

LockSpec == LockInit /\ [][LockNext]_lockVars

=============================================================================
