------------------------------- MODULE MCLocks ------------------------------
(***************************************************************************)
(* The mutual exclusion locks that a queue delegation lock can be built    *)
(* on, side by side: kind is the MLock of the template.  What they promise *)
(* their callers is stated once for all of them.                           *)
(***************************************************************************)
EXTENDS TicketFutexLock, Sequences

CONSTANTS
  LockKinds,     \* the kinds to check: "futex", "ticket", "mcs", "mcs_futex"
  NodeGarbage    \* what is_locked of an mcs_futex node may hold when it is made

ASSUME KindAssumption ==
  /\ LockKinds \subseteq {"futex", "ticket", "mcs", "mcs_futex"}
  /\ NodeGarbage \subseteq {"free", "taken", "contended"}

VARIABLES
  kind,          \* it never changes
  locked, is_locked, next, found, flagged, nodeSleepers, owner, order

ticketOnly == <<ticket, serving, mynum>>
listOnly == <<is_locked, next, found, owner, order>>
mcsFutexOnly == <<flagged, nodeSleepers>>
allVars == <<kind, pc, current, sleepers, locked, ticketOnly, listOnly, mcsFutexOnly>>

F == INSTANCE FutexLock
L == INSTANCE McsLock
M == INSTANCE McsFutexLock

\* The variables of the other kinds keep a value that nobody looks at.
NoTicket == ticket = 0 /\ serving = 0 /\ mynum = 0
NoList == is_locked = 0 /\ next = 0 /\ found = 0 /\ owner = 0 /\ order = 0
NoMcsFutex == flagged = 0 /\ nodeSleepers = 0

AllInit ==
  /\ kind \in LockKinds
  /\ \/ kind = "futex" /\ F!Init /\ current = 0 /\ NoTicket /\ NoList /\ NoMcsFutex
     \/ kind = "ticket" /\ Init /\ locked = 0 /\ NoList /\ NoMcsFutex
     \/ kind = "mcs" /\ L!Init /\ current = 0 /\ sleepers = {} /\ NoTicket /\ NoMcsFutex
     \/ kind = "mcs_futex" /\ M!Init /\ NoTicket

AllNext ==
  /\ UNCHANGED kind
  /\ \/ kind = "futex" /\ F!Next /\ UNCHANGED <<current, ticketOnly, listOnly, mcsFutexOnly>>
     \/ kind = "ticket" /\ Next /\ UNCHANGED <<locked, listOnly, mcsFutexOnly>>
     \/ kind = "mcs" /\ L!Next /\ UNCHANGED <<current, sleepers, ticketOnly, mcsFutexOnly>>
     \/ kind = "mcs_futex" /\ M!Next /\ UNCHANGED ticketOnly

AllSpec == AllInit /\ [][AllNext]_allVars

\* Threads inside a call, and those that hold the lock, go on.
Goes(t) ==
  \/ kind = "futex" /\ F!Step(t) /\ UNCHANGED <<kind, current, ticketOnly, listOnly, mcsFutexOnly>>
  \/ kind = "ticket" /\ Step(t) /\ UNCHANGED <<kind, locked, listOnly, mcsFutexOnly>>
  \/ kind = "mcs" /\ L!Step(t) /\ UNCHANGED <<kind, current, sleepers, ticketOnly, mcsFutexOnly>>
  \/ kind = "mcs_futex" /\ M!Step(t) /\ UNCHANGED <<kind, ticketOnly>>

AllFairSpec == AllSpec /\ \A t \in Thread : WF_allVars(Goes(t))

-----------------------------------------------------------------------------
(* Properties *)

\* The words, the nodes and the places of the threads keep their types.
AllTypeOK ==
  CASE kind = "futex" -> F!TypeOK [] kind = "ticket" -> TypeOK
    [] kind = "mcs" -> L!TypeOK [] kind = "mcs_futex" -> M!TypeOK

Owns(t) ==
  CASE kind = "futex" -> pc[t] = "held" [] kind = "ticket" -> Holding(t)
    [] OTHER -> pc[t] \in {"held", "unlock", "readFlag", "release", "waitNext", "passOn"}

\* One thread at a time has the lock, however lock(), try_lock() and
\* try_lock_or_wait() race with each other and with unlock().
MutualExclusion == \A t, u \in Thread : Owns(t) /\ Owns(u) => t = u

\* A thread that sleeps in the kernel is never forgotten: the word says so,
\* or an unlock is about to wake everyone.
SleepersRemembered ==
  CASE kind = "futex" -> F!WakeNotLost [] kind = "ticket" -> WakeNotLost
    [] kind = "mcs_futex" -> M!SleeperHasFlag [] OTHER -> TRUE

\* Tickets drawn and served keep count of the threads, at the wrap too.
TicketOrder == kind = "ticket" => TicketsAccounted

\* The nodes of mcs_lock are in the order in which lock() was called.
ListOrder == kind = "mcs" => L!ListIsOrder

InLock(t) ==
  pc[t] \in CASE kind = "ticket" -> LockPc [] kind = "mcs" -> L!LockPc
              [] kind = "mcs_futex" -> M!LockPc \ {"exchange"} [] OTHER -> {}

InUnlock(t) ==
  pc[t] \in CASE kind = "futex" -> F!UnlockPc [] kind = "ticket" -> UnlockPc
              [] kind = "mcs" -> L!UnlockPc [] OTHER -> M!UnlockPc

\* lock() returns once the thread is in the order in which the lock serves: it
\* has a ticket, or its exchange of the word has queued it.  A futex_lock has
\* no order, and others may take it again and again; so they may change the
\* word of an mcs_futex_lock between the load and the compare_exchange of t.
LockReturns == \A t \in Thread : InLock(t) ~> pc[t] = "held"

\* unlock() returns: where it waits for the node behind its own, that node
\* is about to be linked.
UnlockReturns == \A t \in Thread : InUnlock(t) ~> pc[t] = "idle"

\* With a futex_lock, whoever sleeps is woken by the next unlock().
FutexWakes == \A t \in Thread : kind = "futex" /\ t \in sleepers ~> t \notin sleepers

=============================================================================
