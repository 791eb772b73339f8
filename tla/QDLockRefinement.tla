-------------------------- MODULE QDLockRefinement --------------------------
(***************************************************************************)
(* QDLock implements Delegation: the mapping from the state of the lock,   *)
(* the queue and the threads to the phases of the operations.  Its queue   *)
(* implements TantrumQueue, for one helper after the other.                *)
(***************************************************************************)
EXTENDS QDLock

Attached(o) == \E t \in Thread : op[t] = o

At(o, places) == \E t \in Thread : op[t] = o /\ pc[t] \in places

PhaseOf(o) ==
  IF \E t \in Thread : Runs(t, o) THEN "running"
  ELSE IF o \in accepted \/ At(o, WaitingPc \cup {"open"}) THEN "pending"
  ELSE IF At(o, {"flush", "unlock", "notify", "future"}) THEN "done"
  ELSE "free"

CallerOf(o) ==
  IF At(o, {"future"}) THEN "future"
  ELSE IF Attached(o) THEN "in"
  ELSE "gone"

Abstract == INSTANCE Delegation WITH
  phase <- [o \in Op |-> PhaseOf(o)],
  caller <- [o \in Op |-> CallerOf(o)],
  before <- owed,
  locked <- \E t \in Thread : pc[t] = "exec" /\ op[t] = NoOp

\* The delegation lock keeps what Delegation promises: every step of a
\* thread in delegate(), flush(), lock() or a future is a step of it.
ImplementsDelegation == Abstract!AbsSpec

Tantrum == INSTANCE TantrumQueue WITH
  session <- \E t \in Thread : qpc[t] \in SessionPc,
  stored <- accepted

\* The dual buffer queue, as delegate() uses it, is open to one helper at a
\* time, accepts operations only from its open() to the end of its flush(),
\* runs each of them once, and leaves none behind.
ImplementsTantrumQueue == Tantrum!Spec

=============================================================================
