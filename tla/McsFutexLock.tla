---------------------------- MODULE McsFutexLock ----------------------------
(***************************************************************************)
(* The mutual exclusion lock of locks/mcs_futex_lock.hpp, step by step.    *)
(* One word names the node of the last thread that queued and carries a    *)
(* flag bit; lock() queues behind that node and waits on its own node      *)
(* (spinning first, then in the kernel), try_lock_or_wait() sets the flag  *)
(* and waits in the kernel on the word.                                    *)
(*                                                                         *)
(* Every action is one atomic access or system call, together with the     *)
(* local computation after it; a call begins with its first access.  A     *)
(* node is named by its thread: mcs_node_store has one node per thread and *)
(* lock.  Threads call the operations as they like, unlock() when they     *)
(* hold the lock.                                                          *)
(***************************************************************************)
EXTENDS Threads, Sequences, Naturals

CONSTANT NodeGarbage   \* what is_locked of a node may hold when it is made

NodeStatus == {"free", "taken", "contended"}

ASSUME NodeAssumption == NodeGarbage \subseteq NodeStatus

VARIABLES
  locked,         \* the lock word: the node of the last thread, and the flag
  is_locked,      \* is_locked[t] of the node of t
  next,           \* next[t] of the node of t
  pc,             \* where t is in an operation
  current,        \* current[t]: the word that t expects in compare_exchange;
                  \* in unlock() its flag is the local `sleep'
  found,          \* found[t]: the node that t queues behind in lock()
  flagged,        \* flagged[t]: the node in the (flagged) word that
                  \* try_lock_or_wait() is going to wait on
  sleepers,       \* threads in the kernel that wait on the word
  nodeSleepers,   \* threads in the kernel that wait on their node
  owner,          \* history: the thread that has the lock, or NoThread
  order           \* history: threads queued behind it, in their order

node == <<is_locked, next>>
locals == <<current, found, flagged>>
kernel == <<sleepers, nodeSleepers>>
history == <<owner, order>>
vars == <<locked, node, pc, locals, kernel, history>>

Word == [node : Thread \cup {NoThread}, flag : BOOLEAN]
free == [node |-> NoThread, flag |-> FALSE]

LockPc == {"exchange", "setTaken", "link", "spin", "contend", "check", "nodeWait", "nodeAsleep"}
TryPc == {"tryTake", "waitTake", "wait", "asleep"}
UnlockPc == {"unlock", "readFlag", "release", "wakeAll", "waitNext", "passOn", "wakeNext", "reset"}

(***************************************************************************)
(* Type correctness; in particular the flag never outlives the node in the *)
(* word, so that the lock never looks taken when nobody has it.            *)
(***************************************************************************)
TypeOK ==
  /\ locked \in Word /\ (locked.flag => locked.node # NoThread)
  /\ is_locked \in [Thread -> NodeStatus]
  /\ next \in [Thread -> Thread \cup {NoThread}]
  /\ pc \in [Thread -> LockPc \cup TryPc \cup UnlockPc \cup {"idle", "held"}]
  /\ current \in [Thread -> Word]
  /\ found \in [Thread -> Thread \cup {NoThread}]
  /\ flagged \in [Thread -> Thread \cup {NoThread}]
  /\ sleepers \in SUBSET Thread
  /\ nodeSleepers \in SUBSET Thread
  /\ owner \in Thread \cup {NoThread}
  /\ order \in Seq(Thread)

\* The constructor of a node leaves is_locked uninitialised.
Init ==
  /\ locked = free
  /\ is_locked \in [Thread -> NodeGarbage]
  /\ next = [t \in Thread |-> NoThread]
  /\ pc = [t \in Thread |-> "idle"]
  /\ current = [t \in Thread |-> free]
  /\ found = [t \in Thread |-> NoThread]
  /\ flagged = [t \in Thread |-> NoThread]
  /\ sleepers = {} /\ nodeSleepers = {}
  /\ owner = NoThread /\ order = <<>>

\* Thread t goes on from one place in the code to another.
Go(t, from, to) == pc[t] = from /\ pc' = [pc EXCEPT ![t] = to]

Expect(t, word) ==
  current' = [current EXCEPT ![t] = word] /\ UNCHANGED <<found, flagged>>

\* compare_exchange of the word by t, which then has the lock.
TakeFree(t) ==
  /\ locked = free
  /\ locked' = [node |-> t, flag |-> FALSE]
  /\ owner' = t
  /\ UNCHANGED <<node, kernel, order>>

-----------------------------------------------------------------------------
(* lock() *)

LoadWord(t) ==
  /\ Go(t, "idle", "exchange")
  /\ Expect(t, locked)
  /\ UNCHANGED <<locked, node, kernel, history>>

ExchangeFree(t) ==
  /\ Go(t, "exchange", "held")
  /\ current[t] = free
  /\ TakeFree(t)
  /\ UNCHANGED locals

\* Variant for sensitivity: the exchange drops the flag.
ExchangeUnflagged(t) ==
  /\ Go(t, "exchange", "setTaken")
  /\ locked = current[t] /\ locked # free
  /\ locked' = [node |-> t, flag |-> FALSE]
  /\ found' = [found EXCEPT ![t] = locked.node]
  /\ current' = [current EXCEPT ![t] = free]
  /\ order' = Append(order, t)
  /\ UNCHANGED <<node, flagged, kernel, owner>>

\* t queues behind the node in the word, and keeps the flag.
ExchangeTaken(t) ==
  /\ Go(t, "exchange", "setTaken")
  /\ locked = current[t] /\ locked # free
  /\ locked' = [locked EXCEPT !.node = t]
  /\ found' = [found EXCEPT ![t] = locked.node]
  /\ current' = [current EXCEPT ![t] = free]
  /\ order' = Append(order, t)
  /\ UNCHANGED <<node, flagged, kernel, owner>>

\* A failed compare_exchange loads the word.
ExchangeRetry(t) ==
  /\ Go(t, "exchange", "exchange")
  /\ locked # current[t]
  /\ Expect(t, locked)
  /\ UNCHANGED <<locked, node, kernel, history>>

SetTaken(t) ==
  /\ Go(t, "setTaken", "link")
  /\ is_locked' = [is_locked EXCEPT ![t] = "taken"]
  /\ UNCHANGED <<locked, next, locals, kernel, history>>

Link(t) ==
  /\ Go(t, "link", "spin")
  /\ next' = [next EXCEPT ![found[t]] = t]
  /\ found' = [found EXCEPT ![t] = NoThread]
  /\ UNCHANGED <<locked, is_locked, current, flagged, kernel, history>>

\* Variant for sensitivity: a contended node is taken for a free one.
LookAtNodeNotTaken(t) ==
  /\ \/ is_locked[t] # "taken" /\ (Go(t, "spin", "held") \/ Go(t, "check", "held"))
     \/ is_locked[t] # "free" /\ (Go(t, "spin", "contend") \/ Go(t, "check", "nodeWait"))
  /\ UNCHANGED <<locked, node, locals, kernel, history>>

\* A load of is_locked in the spin, in the last loop, or the spin is over
\* after 512 loads.
LookAtNode(t) ==
  /\ \/ is_locked[t] = "free" /\ (Go(t, "spin", "held") \/ Go(t, "check", "held"))
     \/ is_locked[t] # "free" /\ (Go(t, "spin", "contend") \/ Go(t, "check", "nodeWait"))
  /\ UNCHANGED <<locked, node, locals, kernel, history>>

\* Variant for sensitivity: contended is stored, whatever unlock() has done.
ContendStore(t) ==
  /\ Go(t, "contend", "check")
  /\ is_locked' = [is_locked EXCEPT ![t] = "contended"]
  /\ UNCHANGED <<locked, next, locals, kernel, history>>

\* The compare_exchange from taken to contended, or its loss against unlock.
Contend(t) ==
  /\ Go(t, "contend", IF is_locked[t] = "free" THEN "held" ELSE "check")
  /\ is_locked' = [is_locked EXCEPT ![t] = IF @ = "taken" THEN "contended" ELSE @]
  /\ UNCHANGED <<locked, next, locals, kernel, history>>

\* futex_wait on the node: the kernel compares it with contended.
NodeWait(t) ==
  /\ IF is_locked[t] = "contended"
       THEN Go(t, "nodeWait", "nodeAsleep") /\ nodeSleepers' = nodeSleepers \cup {t}
       ELSE Go(t, "nodeWait", "check") /\ UNCHANGED nodeSleepers
  /\ UNCHANGED <<locked, node, locals, sleepers, history>>

NodeWoken(t) ==
  /\ Go(t, "nodeAsleep", "check")
  /\ t \notin nodeSleepers
  /\ UNCHANGED <<locked, node, locals, kernel, history>>

-----------------------------------------------------------------------------
(* try_lock() and try_lock_or_wait() *)

\* is_locked() of the lock: a lock that is taken makes try_lock() return.
TryLook(t) ==
  /\ locked = free
  /\ Go(t, "idle", "tryTake")
  /\ UNCHANGED <<locked, node, locals, kernel, history>>

TryTake(t) ==
  /\ IF locked = free
       THEN Go(t, "tryTake", "held") /\ TakeFree(t)
       ELSE Go(t, "tryTake", "idle") /\ UNCHANGED <<locked, node, kernel, history>>
  /\ UNCHANGED locals

\* t has read the word; a word with the flag ends the loop.
Consider(t, from, word, waitOn) ==
  /\ Go(t, from, IF word.flag THEN "wait" ELSE "waitTake")
  /\ current' = [current EXCEPT ![t] = IF word.flag THEN free ELSE word]
  /\ flagged' = [flagged EXCEPT ![t] = waitOn]
  /\ UNCHANGED <<locked, node, found, kernel, history>>

WaitLoad(t) == Consider(t, "idle", locked, locked.node)

WaitTake(t) ==
  /\ Go(t, "waitTake", "held")
  /\ current[t] = free
  /\ TakeFree(t)
  /\ flagged' = [flagged EXCEPT ![t] = NoThread]
  /\ UNCHANGED <<current, found>>

WaitFlag(t) ==
  /\ Go(t, "waitTake", "wait")
  /\ locked = current[t] /\ locked # free
  /\ locked' = [locked EXCEPT !.flag = TRUE]
  /\ current' = [current EXCEPT ![t] = free]
  /\ flagged' = [flagged EXCEPT ![t] = locked.node]
  /\ UNCHANGED <<node, found, kernel, history>>

\* A failed compare_exchange loads the word; if the word it loads carries
\* the flag, t goes to wait on the word that it had expected before.
WaitRetry(t) ==
  /\ locked # current[t]
  /\ Consider(t, "waitTake", locked,
              IF current[t] = free THEN flagged[t] ELSE current[t].node)

\* Variant for sensitivity: to sleep on the word without comparing it.
WaitAnyway(t) ==
  /\ Go(t, "wait", "asleep")
  /\ sleepers' = sleepers \cup {t}
  /\ flagged' = [flagged EXCEPT ![t] = NoThread]
  /\ UNCHANGED <<locked, node, current, found, nodeSleepers, history>>

\* futex_wait on the word: the kernel compares it with the flagged one.
Wait(t) ==
  /\ IF locked = [node |-> flagged[t], flag |-> TRUE]
       THEN Go(t, "wait", "asleep") /\ sleepers' = sleepers \cup {t}
       ELSE Go(t, "wait", "idle") /\ UNCHANGED sleepers
  /\ flagged' = [flagged EXCEPT ![t] = NoThread]
  /\ UNCHANGED <<locked, node, current, found, nodeSleepers, history>>

Woken(t) ==
  /\ Go(t, "asleep", "idle")
  /\ t \notin sleepers
  /\ UNCHANGED <<locked, node, locals, kernel, history>>

-----------------------------------------------------------------------------
(* unlock() *)

LookForNext(t) ==
  /\ \E place \in {"held", "unlock"} :
       Go(t, place, IF next[t] = NoThread THEN "readFlag" ELSE "passOn")
  /\ UNCHANGED <<locked, node, locals, kernel, history>>

\* Variant for sensitivity: the flag is left out of the expected word.
ReadFlagNever(t) ==
  /\ Go(t, "readFlag", "release")
  /\ Expect(t, [node |-> t, flag |-> FALSE])
  /\ UNCHANGED <<locked, node, kernel, history>>

\* The local `sleep', and with it the word expected by compare_exchange.
ReadFlag(t) ==
  /\ Go(t, "readFlag", "release")
  /\ Expect(t, [node |-> t, flag |-> locked.flag])
  /\ UNCHANGED <<locked, node, kernel, history>>

\* Variant for sensitivity: the flag is not cleared with the node.
ReleaseFlagged(t) ==
  /\ Go(t, "release", IF current[t].flag THEN "wakeAll" ELSE "idle")
  /\ locked = current[t]
  /\ locked' = [locked EXCEPT !.node = NoThread]
  /\ Expect(t, free)
  /\ owner' = NoThread
  /\ UNCHANGED <<node, kernel, order>>

Release(t) ==
  /\ Go(t, "release", IF current[t].flag THEN "wakeAll" ELSE "idle")
  /\ locked = current[t]
  /\ locked' = free
  /\ Expect(t, free)
  /\ owner' = NoThread
  /\ UNCHANGED <<node, kernel, order>>

\* The flag has been set meanwhile, or another thread has queued.
ReleaseFails(t) ==
  /\ Go(t, "release", IF locked.node = t THEN "unlock" ELSE "waitNext")
  /\ locked # current[t]
  /\ Expect(t, free)
  /\ UNCHANGED <<locked, node, kernel, history>>

\* notify_all on the word.
WakeAll(t) ==
  /\ Go(t, "wakeAll", "idle")
  /\ sleepers' = {}
  /\ UNCHANGED <<locked, node, locals, nodeSleepers, history>>

SeeNext(t) ==
  /\ Go(t, "waitNext", "passOn")
  /\ next[t] # NoThread
  /\ UNCHANGED <<locked, node, locals, kernel, history>>

\* The exchange of is_locked in the next node gives the lock away.
PassOn(t) ==
  /\ Go(t, "passOn", IF is_locked[next[t]] = "contended" THEN "wakeNext" ELSE "reset")
  /\ is_locked' = [is_locked EXCEPT ![next[t]] = "free"]
  /\ owner' = next[t]
  /\ order' = Tail(order)
  /\ UNCHANGED <<locked, next, locals, kernel>>

\* notify_one on the next node.
WakeNext(t) ==
  /\ Go(t, "wakeNext", "reset")
  /\ nodeSleepers' = nodeSleepers \ {next[t]}
  /\ UNCHANGED <<locked, node, locals, sleepers, history>>

\* Variant for sensitivity: next keeps the node that got the lock.
ResetNothing(t) ==
  /\ Go(t, "reset", "idle")
  /\ UNCHANGED <<locked, node, locals, kernel, history>>

Reset(t) ==
  /\ Go(t, "reset", "idle")
  /\ next' = [next EXCEPT ![t] = NoThread]
  /\ UNCHANGED <<locked, is_locked, locals, kernel, history>>

-----------------------------------------------------------------------------
(* The program *)

Exchange(t) == ExchangeFree(t) \/ ExchangeTaken(t)

Step(t) ==
  \/ Exchange(t) \/ ExchangeRetry(t) \/ SetTaken(t) \/ Link(t)
  \/ LookAtNode(t) \/ Contend(t) \/ NodeWait(t) \/ NodeWoken(t)
  \/ TryTake(t) \/ WaitTake(t) \/ WaitFlag(t) \/ WaitRetry(t) \/ Wait(t) \/ Woken(t)
  \/ LookForNext(t) \/ ReadFlag(t) \/ Release(t) \/ ReleaseFails(t) \/ WakeAll(t)
  \/ SeeNext(t) \/ PassOn(t) \/ WakeNext(t) \/ Reset(t)

Next == \E t \in Thread : LoadWord(t) \/ TryLook(t) \/ WaitLoad(t) \/ Step(t)

Spec == Init /\ [][Next]_vars

-----------------------------------------------------------------------------
(* Properties *)

Holding == {"held", "unlock", "readFlag", "release", "waitNext", "passOn"}

\* The lock has one holder, the one that the word and the nodes say, in all
\* interleavings of exchange, link, release and hand-over.
OwnerHolds == \A t \in Thread : pc[t] \in Holding => owner = t

\* The list of nodes is the order of the exchanges: next of a node, once
\* linked, is the thread that queued directly behind it.
ListIsOrder ==
  LET all == <<owner>> \o order
  IN  \A i \in 1..Len(order) :
        \/ next[all[i]] = all[i + 1] /\ found[all[i + 1]] = NoThread
        \/ next[all[i]] = NoThread /\ found[all[i + 1]] = all[i]

\* A thread that sleeps on the word finds the flag set in it, or the unlock
\* that has cleared it is about to wake everyone: the wake is never lost.
SleeperHasFlag ==
  sleepers # {} => locked.flag \/ \E t \in Thread : pc[t] = "wakeAll"

-----------------------------------------------------------------------------
(* The inductive invariant behind these properties *)

\* The threads in the order in which they have or get the lock.
Chain(i) == IF i = 0 THEN owner ELSE order[i]

UnlinkedPc == {"setTaken", "link"}
SpinPc == {"spin", "contend", "check", "nodeWait", "nodeAsleep"}

\* The word names the end of the chain, in which nobody is twice.
ChainOK ==
  /\ locked.node = Chain(Len(order))
  /\ owner = NoThread => order = <<>>
  /\ \A i, j \in 0..Len(order) : Chain(i) = Chain(j) => i = j

\* Where the threads of the chain are, and what they know.
PlaceOK(t) ==
  /\ pc[t] \in Holding => owner = t
  /\ owner = t => pc[t] \in Holding \cup SpinPc
  /\ pc[t] \in UnlinkedPc \cup SpinPc => \E i \in 0..Len(order) : Chain(i) = t
  /\ \A i \in 1..Len(order) : Chain(i) = t => pc[t] \in UnlinkedPc \cup SpinPc
  /\ pc[t] \in {"link"} \cup SpinPc => (is_locked[t] = "free" <=> owner = t)
  /\ pc[t] = "release" => current[t].node = t
  /\ pc[t] = "waitNext" => order # <<>>
  /\ pc[t] = "passOn" => next[t] # NoThread
  /\ pc[t] = "waitTake" => ~current[t].flag

\* A node is linked to the one behind it once that thread has been at "link",
\* and to no other; next is null when the node is not in use.
LinksOK ==
  /\ \A i \in 1..Len(order) :
       IF pc[Chain(i)] \in UnlinkedPc
         THEN next[Chain(i - 1)] = NoThread /\ found[Chain(i)] = Chain(i - 1)
         ELSE next[Chain(i - 1)] = Chain(i) /\ found[Chain(i)] = NoThread
  /\ owner # NoThread => next[Chain(Len(order))] = NoThread
  /\ \A t \in Thread : (\A i \in 0..Len(order) : Chain(i) # t) =>
       next[t] = NoThread \/ pc[t] \in {"wakeNext", "reset"}

ListInv == TypeOK /\ ChainOK /\ (\A t \in Thread : PlaceOK(t)) /\ LinksOK

-----------------------------------------------------------------------------
(* The refinement *)

Handoff == INSTANCE HandoffLock WITH
  holder <- owner, lqueue <- order, flagged <- locked.flag, sleepers <- sleepers,
  seen <- [t \in Thread |-> IF pc[t] = "wait" THEN flagged[t] ELSE NoThread]

\* What the delegation lock builds on: HandoffLock is what the code does.
ImplementsHandoff == Handoff!LockSpec

=============================================================================
