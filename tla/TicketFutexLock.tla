-------------------------- MODULE TicketFutexLock ---------------------------
(***************************************************************************)
(* The mutual exclusion lock of locks/ticket_futex_lock.hpp: lock() draws  *)
(* a ticket and waits until it is served; the lowest bit of `serving' says *)
(* that threads may be asleep on it.  Tickets are drawn in steps of two,   *)
(* and both words wrap round at W (2^32 in the code).  Every action is one *)
(* atomic access or system call with the local computation after it.       *)
(***************************************************************************)
EXTENDS Threads, Integers, FiniteSets

CONSTANTS
  W,             \* the words count modulo W
  FirstTicket,   \* the ticket to draw first: the lock has been in use before
  MaxTickets     \* bound on the tickets drawn while a call remembers a number

\* Fewer than W/2 tickets: the lock is not taken 2^31 times while a call is
\* between the load of a number and the last use it makes of it.
ASSUME TicketAssumption ==
  /\ W \in Nat /\ W % 2 = 0
  /\ FirstTicket \in 0 .. W - 1 /\ FirstTicket % 2 = 0
  /\ MaxTickets \in Nat /\ 2 * MaxTickets < W

VARIABLES
  ticket,      \* the next ticket to draw
  serving,     \* the ticket served, and the flag
  pc,
  mynum,       \* mynum[t]: mynum of lock(), current_ticket of the others
  current,     \* current[t]: the value of serving that t has loaded
  sleepers

locals == <<mynum, current>>

LockPc == {"load", "lockFlag", "lockWait", "lockAsleep"}
TryPc == {"tryServing", "tryTake", "waitServing", "waitTake", "waitFlag", "wait", "asleep"}
UnlockPc == {"serveNext", "notify"}
Value == 0 .. W - 1

TypeOK ==
  /\ ticket \in {v \in Value : v % 2 = 0}
  /\ serving \in Value
  /\ pc \in [Thread -> {"idle", "held"} \cup LockPc \cup TryPc \cup UnlockPc]
  /\ mynum \in [Thread -> Value]
  /\ current \in [Thread -> Value]
  /\ sleepers \in SUBSET Thread

Init ==
  /\ ticket = FirstTicket
  /\ serving = FirstTicket
  /\ pc = [t \in Thread |-> "idle"]
  /\ mynum = [t \in Thread |-> 0]
  /\ current = [t \in Thread |-> 0]
  /\ sleepers = {}

Go(t, from, to) == pc[t] = from /\ pc' = [pc EXCEPT ![t] = to]

Flag(value) == value % 2
Number(value) == value - Flag(value)   \* value & ~1

Set(var, t, value) == var' = [var EXCEPT ![t] = value]

\* The call returns, or the lock is held: what it has loaded is forgotten.
Forget(t) == Set(mynum, t, 0) /\ Set(current, t, 0)

\* Threads that are inside a call or have the lock.
Busy == {t \in Thread : pc[t] \notin {"idle", "asleep"}}

\* The bound: a call begins while there are tickets left for all of them.
MayCall == ((ticket - FirstTicket) % W) \div 2 + Cardinality(Busy) < MaxTickets

\* Where a number that t has loaded is still to be used.
UsesNumber(t) ==
  pc[t] \in LockPc \cup {"tryServing", "tryTake", "waitServing", "waitTake"}
UsesServing(t) ==
  pc[t] \in {"lockFlag", "lockWait", "waitTake", "waitFlag", "wait", "serveNext"}

Back(number) == (number - 2) % W

\* Not code: all numbers turn back by one ticket.  Only their differences
\* matter, so that this renames the state and undoes what MayCall counts, as
\* soon as nobody remembers the number FirstTicket any more.
Renumber ==
  /\ Number(serving) # FirstTicket
  /\ \A t \in Thread : /\ UsesNumber(t) => mynum[t] # FirstTicket
                       /\ UsesServing(t) => Number(current[t]) # FirstTicket
  /\ ticket' = Back(ticket) /\ serving' = Back(serving)
  /\ mynum' = [t \in Thread |-> IF UsesNumber(t) THEN Back(mynum[t]) ELSE mynum[t]]
  /\ current' = [t \in Thread |-> IF UsesServing(t) THEN Back(current[t]) ELSE current[t]]
  /\ UNCHANGED <<pc, sleepers>>

-----------------------------------------------------------------------------
(* lock() *)

\* Variant for sensitivity: tickets are drawn in steps of one.
LockDrawOne(t) ==
  /\ Go(t, "idle", "load")
  /\ MayCall
  /\ Set(mynum, t, ticket)
  /\ ticket' = (ticket + 1) % W
  /\ UNCHANGED <<serving, current, sleepers>>

LockDraw(t) ==
  /\ Go(t, "idle", "load")
  /\ MayCall
  /\ Set(mynum, t, ticket)
  /\ ticket' = (ticket + 2) % W
  /\ UNCHANGED <<serving, current, sleepers>>

\* t has loaded serving and goes round the loop.
LockSee(t, from) ==
  /\ Go(t, from, IF Number(serving) = mynum[t] THEN "held"
                 ELSE IF Flag(serving) = 1 THEN "lockWait" ELSE "lockFlag")
  /\ IF Number(serving) = mynum[t] THEN Forget(t)
     ELSE Set(current, t, serving) /\ UNCHANGED mynum
  /\ UNCHANGED <<ticket, serving, sleepers>>

LockLoad(t) == LockSee(t, "load")

LockFlag(t) ==
  \/ /\ Go(t, "lockFlag", "lockWait")
     /\ serving = current[t]
     /\ serving' = serving + 1
     /\ Set(current, t, serving + 1)
     /\ UNCHANGED <<ticket, mynum, sleepers>>
  \/ serving # current[t] /\ LockSee(t, "lockFlag")

\* futex_wait: the kernel compares serving with the value t expects.
LockWait(t) ==
  /\ Go(t, "lockWait", IF serving = current[t] THEN "lockAsleep" ELSE "load")
  /\ sleepers' = IF serving = current[t] THEN sleepers \cup {t} ELSE sleepers
  /\ Set(current, t, 0)
  /\ UNCHANGED <<ticket, serving, mynum>>

Woken(t) ==
  /\ Go(t, "lockAsleep", "load") \/ Go(t, "asleep", "idle")
  /\ t \notin sleepers
  /\ UNCHANGED <<ticket, serving, locals, sleepers>>

-----------------------------------------------------------------------------
(* try_lock() and try_lock_or_wait() *)

TicketLoad(t) ==
  /\ Go(t, "idle", "tryServing") \/ Go(t, "idle", "waitServing")
  /\ MayCall
  /\ Set(mynum, t, ticket)
  /\ UNCHANGED <<ticket, serving, current, sleepers>>

TryServing(t) ==
  /\ Go(t, "tryServing", IF serving = mynum[t] THEN "tryTake" ELSE "idle")
  /\ IF serving = mynum[t] THEN UNCHANGED locals ELSE Forget(t)
  /\ UNCHANGED <<ticket, serving, sleepers>>

\* Variant for sensitivity: the ticket is drawn whether it is the one or not.
TryTakeAdd(t) ==
  /\ Go(t, "tryTake", IF ticket = mynum[t] THEN "held" ELSE "idle")
  /\ ticket' = (ticket + 2) % W
  /\ Forget(t)
  /\ UNCHANGED <<serving, sleepers>>

\* compare_exchange of the ticket: the lock is free as long as nobody has
\* drawn the ticket that is served.
TryTake(t) ==
  /\ Go(t, "tryTake", IF ticket = mynum[t] THEN "held" ELSE "idle")
  /\ ticket' = IF ticket = mynum[t] THEN (ticket + 2) % W ELSE ticket
  /\ Forget(t)
  /\ UNCHANGED <<serving, sleepers>>

\* What try_lock_or_wait() does when it cannot have the lock.
NotFree(value) == IF Flag(value) = 1 THEN "wait" ELSE "waitFlag"

WaitServing(t) ==
  /\ Go(t, "waitServing", IF mynum[t] + Flag(serving) = serving THEN "waitTake" ELSE NotFree(serving))
  /\ Set(current, t, serving)
  /\ UNCHANGED <<ticket, serving, mynum, sleepers>>

\* Variant for sensitivity: the ticket is not compared again.
WaitTakeAnyway(t) ==
  /\ Go(t, "waitTake", "held")
  /\ ticket' = (ticket + 2) % W
  /\ Forget(t)
  /\ UNCHANGED <<serving, sleepers>>

WaitTake(t) ==
  /\ Go(t, "waitTake", IF ticket = mynum[t] THEN "held" ELSE NotFree(current[t]))
  /\ IF ticket = mynum[t]
       THEN ticket' = (ticket + 2) % W /\ Forget(t)
       ELSE UNCHANGED <<ticket, locals>>
  /\ UNCHANGED <<serving, sleepers>>

\* The flag is set if serving has not changed, whoever has the lock.
WaitFlag(t) ==
  /\ Go(t, "waitFlag", IF serving = current[t] THEN "wait" ELSE "idle")
  /\ IF serving = current[t]
       THEN serving' = serving + 1 /\ Set(current, t, serving + 1) /\ UNCHANGED mynum
       ELSE Forget(t) /\ UNCHANGED serving
  /\ UNCHANGED <<ticket, sleepers>>

WaitOnce(t) ==
  /\ Go(t, "wait", IF serving = current[t] THEN "asleep" ELSE "idle")
  /\ sleepers' = IF serving = current[t] THEN sleepers \cup {t} ELSE sleepers
  /\ Forget(t)
  /\ UNCHANGED <<ticket, serving>>

-----------------------------------------------------------------------------
(* unlock() *)

UnlockLoad(t) ==
  /\ Go(t, "held", "serveNext")
  /\ Set(current, t, serving)
  /\ UNCHANGED <<ticket, serving, mynum, sleepers>>

ServeNext(t) ==
  /\ Go(t, "serveNext", IF Flag(serving) = 1 THEN "notify" ELSE "idle")
  /\ serving' = (Number(current[t]) + 2) % W
  /\ Set(current, t, 0)
  /\ UNCHANGED <<ticket, mynum, sleepers>>

NotifyAll(t) ==
  /\ Go(t, "notify", "idle")
  /\ sleepers' = {}
  /\ UNCHANGED <<ticket, serving, locals>>

Step(t) ==
  \/ LockLoad(t) \/ LockFlag(t) \/ LockWait(t) \/ Woken(t)
  \/ TryServing(t) \/ TryTake(t) \/ WaitServing(t) \/ WaitTake(t) \/ WaitFlag(t) \/ WaitOnce(t)
  \/ UnlockLoad(t) \/ ServeNext(t) \/ NotifyAll(t)

Next == Renumber \/ \E t \in Thread : LockDraw(t) \/ TicketLoad(t) \/ Step(t)

Spec == Init /\ [][Next]_<<ticket, serving, pc, locals, sleepers>>

-----------------------------------------------------------------------------
(* Properties *)

Holding(t) == pc[t] \in {"held", "serveNext"}

\* The distance of the words is the number of threads that hold the lock or
\* wait in lock(), also where the words wrap round.
TicketsAccounted ==
  (ticket - Number(serving)) % W =
    2 * Cardinality({t \in Thread : Holding(t) \/ pc[t] \in LockPc})

\* Whoever sleeps finds the flag set, or the unlock that has cleared it is
\* about to wake everyone.
WakeNotLost ==
  sleepers # {} => Flag(serving) = 1 \/ \E t \in Thread : pc[t] = "notify"

-----------------------------------------------------------------------------
(* The inductive invariant behind these properties *)

\* How far a ticket is from the first one.
Past(number) ==
  IF number >= FirstTicket THEN number - FirstTicket ELSE number - FirstTicket + W

Drawn == Past(ticket)
Served == Past(Number(serving))

\* Threads that have drawn a ticket, and threads that may still draw one.
Users == {t \in Thread : Holding(t) \/ pc[t] \in LockPc}
PendingPc == {"tryServing", "tryTake", "waitServing", "waitTake"}
Pending == {t \in Thread : pc[t] \in PendingPc}

\* Every user has one of the tickets between the two words, and there are
\* enough left for those who may draw.
CountOK ==
  /\ IsFiniteSet(Busy)
  /\ Drawn = Served + 2 * Cardinality(Users)
  /\ Drawn + 2 * Cardinality(Pending) <= 2 * MaxTickets

\* What t knows of the words.
KnowsOK(t) ==
  /\ pc[t] \in LockPc \cup PendingPc => mynum[t] % 2 = 0
  /\ pc[t] \in LockPc => Served <= Past(mynum[t]) /\ Past(mynum[t]) < Drawn
  /\ pc[t] \in PendingPc => Past(mynum[t]) <= Drawn
  /\ pc[t] \in {"tryTake", "waitTake"} => Past(mynum[t]) <= Served
  /\ pc[t] = "serveNext" => Number(current[t]) = Number(serving)
  /\ pc[t] \in {"lockFlag", "waitFlag"} => Flag(current[t]) = 0
  /\ pc[t] \in {"lockWait", "wait"} => Flag(current[t]) = 1

\* No two users have the same ticket; a holder has the one that is served.
DistinctOK ==
  \A t, u \in Thread : t # u =>
    /\ pc[t] \in LockPc /\ pc[u] \in LockPc => mynum[t] # mynum[u]
    /\ Holding(t) => ~Holding(u) /\ (pc[u] \in LockPc => mynum[u] # Number(serving))

TicketInv == TypeOK /\ CountOK /\ (\A t \in Thread : KnowsOK(t)) /\ DistinctOK

=============================================================================
