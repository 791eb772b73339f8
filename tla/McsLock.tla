------------------------------ MODULE McsLock -------------------------------
(***************************************************************************)
(* The mutual exclusion lock of locks/mcs_lock.hpp: lock() puts the node   *)
(* of its thread at the end of a list and spins on it; unlock() frees the  *)
(* next node.  A node is named by its thread.  try_lock_or_wait() is       *)
(* try_lock().  Every action is one atomic access with the local           *)
(* computation after it.                                                   *)
(***************************************************************************)
EXTENDS Threads, Sequences, Naturals

VARIABLES
  locked,      \* the last node of the list; NoThread if the lock is free
  is_locked,   \* is_locked[t]: t's node waits
  next,        \* next[t]: the node behind t's
  found,       \* found[t]: the node that t found in locked and links to
  pc,
  owner,       \* history: the thread that has the lock
  order        \* history: the threads in lock(), in order of their exchange

LockPc == {"setTaken", "link", "spin"}
UnlockPc == {"release", "waitNext", "passOn", "reset"}

TypeOK ==
  /\ locked \in Thread \cup {NoThread}
  /\ is_locked \in [Thread -> BOOLEAN]
  /\ next \in [Thread -> Thread \cup {NoThread}]
  /\ found \in [Thread -> Thread \cup {NoThread}]
  /\ pc \in [Thread -> {"idle", "held", "tryTake"} \cup LockPc \cup UnlockPc]
  /\ owner \in Thread \cup {NoThread}
  /\ order \in Seq(Thread)

\* The constructor of a node leaves is_locked uninitialised.
Init ==
  /\ locked = NoThread
  /\ \E garbage \in BOOLEAN : is_locked = [t \in Thread |-> garbage]
  /\ next = [t \in Thread |-> NoThread]
  /\ found = [t \in Thread |-> NoThread]
  /\ pc = [t \in Thread |-> "idle"]
  /\ owner = NoThread /\ order = <<>>

Go(t, from, to) == pc[t] = from /\ pc' = [pc EXCEPT ![t] = to]

-----------------------------------------------------------------------------
(* lock() and try_lock() *)

Exchange(t) ==
  /\ Go(t, "idle", IF locked = NoThread THEN "held" ELSE "setTaken")
  /\ locked' = t
  /\ found' = [found EXCEPT ![t] = locked]
  /\ IF locked = NoThread THEN owner' = t /\ UNCHANGED order
     ELSE order' = Append(order, t) /\ UNCHANGED owner
  /\ UNCHANGED <<is_locked, next>>

SetTaken(t) ==
  /\ Go(t, "setTaken", "link")
  /\ is_locked' = [is_locked EXCEPT ![t] = TRUE]
  /\ UNCHANGED <<locked, next, found, owner, order>>

Link(t) ==
  /\ Go(t, "link", "spin")
  /\ next' = [next EXCEPT ![found[t]] = t]
  /\ found' = [found EXCEPT ![t] = NoThread]
  /\ UNCHANGED <<locked, is_locked, owner, order>>

SeeFree(t) ==
  /\ Go(t, "spin", "held")
  /\ ~is_locked[t]
  /\ UNCHANGED <<locked, is_locked, next, found, owner, order>>

TryLook(t) ==
  /\ Go(t, "idle", "tryTake")
  /\ locked = NoThread
  /\ UNCHANGED <<locked, is_locked, next, found, owner, order>>

TryTake(t) ==
  /\ Go(t, "tryTake", IF locked = NoThread THEN "held" ELSE "idle")
  /\ IF locked = NoThread THEN locked' = t /\ owner' = t ELSE UNCHANGED <<locked, owner>>
  /\ UNCHANGED <<is_locked, next, found, order>>

-----------------------------------------------------------------------------
(* unlock() *)

LookForNext(t) ==
  /\ Go(t, "held", IF next[t] = NoThread THEN "release" ELSE "passOn")
  /\ UNCHANGED <<locked, is_locked, next, found, owner, order>>

\* The compare_exchange fails if another thread has queued meanwhile.
Release(t) ==
  /\ Go(t, "release", IF locked = t THEN "idle" ELSE "waitNext")
  /\ IF locked = t THEN locked' = NoThread /\ owner' = NoThread ELSE UNCHANGED <<locked, owner>>
  /\ UNCHANGED <<is_locked, next, found, order>>

SeeNext(t) ==
  /\ Go(t, "waitNext", "passOn")
  /\ next[t] # NoThread
  /\ UNCHANGED <<locked, is_locked, next, found, owner, order>>

PassOn(t) ==
  /\ Go(t, "passOn", "reset")
  /\ is_locked' = [is_locked EXCEPT ![next[t]] = FALSE]
  /\ owner' = next[t]
  /\ order' = Tail(order)
  /\ UNCHANGED <<locked, next, found>>

\* Variant for sensitivity: next keeps the node that got the lock.
ResetNothing(t) ==
  /\ Go(t, "reset", "idle")
  /\ UNCHANGED <<locked, is_locked, next, found, owner, order>>

Reset(t) ==
  /\ Go(t, "reset", "idle")
  /\ next' = [next EXCEPT ![t] = NoThread]
  /\ UNCHANGED <<locked, is_locked, found, owner, order>>

Step(t) ==
  \/ SetTaken(t) \/ Link(t) \/ SeeFree(t) \/ TryTake(t)
  \/ LookForNext(t) \/ Release(t) \/ SeeNext(t) \/ PassOn(t) \/ Reset(t)

Next == \E t \in Thread : Exchange(t) \/ TryLook(t) \/ Step(t)

Spec == Init /\ [][Next]_<<locked, is_locked, next, found, pc, owner, order>>

\* The list of nodes is the order of the exchanges, while lock() links a
\* node one step after it has put it at the end, and unlock() looks for the
\* next node in between.
ListIsOrder ==
  LET all == <<owner>> \o order
  IN  \A i \in 1..Len(order) :
        \/ next[all[i]] = all[i + 1] /\ found[all[i + 1]] = NoThread
        \/ next[all[i]] = NoThread /\ found[all[i + 1]] = all[i]

-----------------------------------------------------------------------------
(* The inductive invariant behind it *)

\* The threads in the order in which they have or get the lock.
Chain(i) == IF i = 0 THEN owner ELSE order[i]

Holding == {"held", "release", "waitNext", "passOn"}
UnlinkedPc == {"setTaken", "link"}

\* The word names the end of the chain, in which nobody is twice.
ChainOK ==
  /\ locked = Chain(Len(order))
  /\ owner = NoThread => order = <<>>
  /\ \A i, j \in 0..Len(order) : Chain(i) = Chain(j) => i = j

\* Where the threads of the chain are, and what they know.
PlaceOK(t) ==
  /\ pc[t] \in Holding => owner = t
  /\ owner = t => pc[t] \in Holding \cup {"spin"}
  /\ pc[t] \in LockPc => \E i \in 0..Len(order) : Chain(i) = t
  /\ \A i \in 1..Len(order) : Chain(i) = t => pc[t] \in LockPc
  /\ pc[t] \in {"link", "spin"} => (is_locked[t] <=> owner # t)
  /\ pc[t] = "waitNext" => order # <<>>
  /\ pc[t] = "passOn" => next[t] # NoThread

\* A node is linked to the one behind it once that thread has been at "link",
\* and to no other; next is null when the node is not in use.
LinksOK ==
  /\ \A i \in 1..Len(order) :
       IF pc[Chain(i)] \in UnlinkedPc
         THEN next[Chain(i - 1)] = NoThread /\ found[Chain(i)] = Chain(i - 1)
         ELSE next[Chain(i - 1)] = Chain(i) /\ found[Chain(i)] = NoThread
  /\ owner # NoThread => next[Chain(Len(order))] = NoThread
  /\ \A t \in Thread : (\A i \in 0..Len(order) : Chain(i) # t) =>
       next[t] = NoThread \/ pc[t] = "reset"

ListInv == TypeOK /\ ChainOK /\ (\A t \in Thread : PlaceOK(t)) /\ LinksOK

=============================================================================
