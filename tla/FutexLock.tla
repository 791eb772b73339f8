----------------------------- MODULE FutexLock ------------------------------
(***************************************************************************)
(* The mutual exclusion lock of locks/futex_lock.hpp: one word, which says *)
(* whether threads may be asleep on it.  Every action is one atomic access *)
(* or system call with the local computation after it.  A try_lock() that  *)
(* sees the lock taken returns and is no step.                             *)
(***************************************************************************)
EXTENDS Threads

VARIABLES
  locked,      \* the word: "free", "taken" or "contended"
  pc,          \* pc[t]: where t is; "held" between lock() and unlock()
  sleepers     \* threads that the kernel has put to sleep on the word

LockPc == {"exchange", "lockWait", "lockAsleep"}
TryPc == {"tryTake", "waitTake", "waitExchange", "wait", "asleep"}
UnlockPc == {"notify"}

TypeOK ==
  /\ locked \in {"free", "taken", "contended"}
  /\ pc \in [Thread -> {"idle", "held"} \cup LockPc \cup TryPc \cup UnlockPc]
  /\ sleepers \in SUBSET Thread

Init ==
  /\ locked = "free"
  /\ pc = [t \in Thread |-> "idle"]
  /\ sleepers = {}

Go(t, from, to) == pc[t] = from /\ pc' = [pc EXCEPT ![t] = to]

-----------------------------------------------------------------------------
(* lock() *)

LockCas(t) ==
  /\ Go(t, "idle", CASE locked = "free" -> "held"
                     [] locked = "taken" -> "exchange"
                     [] locked = "contended" -> "lockWait")
  /\ locked' = IF locked = "free" THEN "taken" ELSE locked
  /\ UNCHANGED sleepers

\* Variant for sensitivity: the lock is marked as taken, not as contended.
LockExchangeTaken(t) ==
  /\ Go(t, "exchange", IF locked = "free" THEN "held" ELSE "lockWait")
  /\ locked' = "taken"
  /\ UNCHANGED sleepers

LockExchange(t) ==
  /\ Go(t, "exchange", IF locked = "free" THEN "held" ELSE "lockWait")
  /\ locked' = "contended"
  /\ UNCHANGED sleepers

\* futex_wait: the kernel compares the word with contended.
Wait(t, from, asleep, awake) ==
  /\ Go(t, from, IF locked = "contended" THEN asleep ELSE awake)
  /\ sleepers' = IF locked = "contended" THEN sleepers \cup {t} ELSE sleepers
  /\ UNCHANGED locked

LockWait(t) == Wait(t, "lockWait", "lockAsleep", "exchange")

Woken(t) ==
  /\ Go(t, "lockAsleep", "exchange") \/ Go(t, "asleep", "idle")
  /\ t \notin sleepers
  /\ UNCHANGED <<locked, sleepers>>

-----------------------------------------------------------------------------
(* try_lock() and try_lock_or_wait() *)

TryLook(t) ==
  /\ Go(t, "idle", "tryTake")
  /\ locked = "free"
  /\ UNCHANGED <<locked, sleepers>>

TryTake(t) ==
  /\ Go(t, "tryTake", IF locked = "free" THEN "held" ELSE "idle")
  /\ locked' = IF locked = "free" THEN "taken" ELSE locked
  /\ UNCHANGED sleepers

\* What try_lock_or_wait() does with a word that is not free.
NotFree == IF locked = "contended" THEN "wait" ELSE "waitExchange"

WaitLoad(t) ==
  /\ Go(t, "idle", IF locked = "free" THEN "waitTake" ELSE NotFree)
  /\ UNCHANGED <<locked, sleepers>>

WaitTake(t) ==
  /\ Go(t, "waitTake", IF locked = "free" THEN "held" ELSE NotFree)
  /\ locked' = IF locked = "free" THEN "taken" ELSE locked
  /\ UNCHANGED sleepers

\* A lock that was freed meanwhile is t's now, though marked as contended.
WaitExchange(t) ==
  /\ Go(t, "waitExchange", IF locked = "free" THEN "held" ELSE "wait")
  /\ locked' = "contended"
  /\ UNCHANGED sleepers

WaitOnce(t) == Wait(t, "wait", "asleep", "idle")

-----------------------------------------------------------------------------
(* unlock() *)

Unlock(t) ==
  /\ Go(t, "held", IF locked = "contended" THEN "notify" ELSE "idle")
  /\ locked' = "free"
  /\ UNCHANGED sleepers

\* Variant for sensitivity: "notify_one instead?" (l. 50)
NotifyOne(t) ==
  /\ Go(t, "notify", "idle")
  /\ \E u \in Thread : (sleepers = {} \/ u \in sleepers) /\ sleepers' = sleepers \ {u}
  /\ UNCHANGED locked

NotifyAll(t) ==
  /\ Go(t, "notify", "idle")
  /\ sleepers' = {}
  /\ UNCHANGED locked

Step(t) ==
  \/ LockExchange(t) \/ LockWait(t) \/ Woken(t) \/ TryTake(t)
  \/ WaitTake(t) \/ WaitExchange(t) \/ WaitOnce(t) \/ Unlock(t) \/ NotifyAll(t)

Call(t) == LockCas(t) \/ TryLook(t) \/ WaitLoad(t)

Next == \E t \in Thread : Call(t) \/ Step(t)

Spec == Init /\ [][Next]_<<locked, pc, sleepers>>

\* Whoever sleeps on the word finds it contended, or the unlock that has
\* freed it is about to wake everyone: a sleeper is never forgotten.
WakeNotLost ==
  sleepers # {} => locked = "contended" \/ \E t \in Thread : pc[t] = "notify"

-----------------------------------------------------------------------------
(* The inductive invariant behind it *)

\* The word says whether somebody has the lock, and only one does.
WordOK ==
  /\ \A t \in Thread : pc[t] = "held" => locked # "free"
  /\ \A t, u \in Thread : pc[t] = "held" /\ pc[u] = "held" => t = u

FutexInv == TypeOK /\ WordOK /\ WakeNotLost

=============================================================================
