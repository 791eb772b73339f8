---------------------------- MODULE FlaggedQueue ----------------------------
(***************************************************************************)
(* What queues/entry_queue.hpp and queues/buffer_queue.hpp have in common: *)
(* a counter that enqueuers claim space with, and beside it a flag that    *)
(* says whether the queue is open.  One thread at a time, the helper,      *)
(* opens the queue and flushes it (it has the lock meanwhile); the others  *)
(* enqueue whenever they like.  A counter beyond the capacity is kept at   *)
(* the capacity: the code only asks whether it is that large.              *)
(***************************************************************************)
EXTENDS Threads, Integers, FiniteSets

CONSTANTS Op, NoOp   \* delegated operations, with their parameters

ASSUME OpAssumption == NoOp \notin Op

VARIABLES
  counter,   \* how much of the array is claimed
  closed,    \* status flag: "OPEN", "FULL" or "CLOSED"
  fun,       \* fun[i]: the function of the entry at i, 0 until it is stored;
             \* or what else the word at i holds
  buf,       \* buf[i]: the operation whose parameters are in that entry
  pc,
  op,        \* op[t]: the operation that t enqueues
  claim,     \* claim[t]: the index that t has claimed
  index,     \* where the helper is in the array,
  todo,      \* up to where it is going to run entries,
  last       \* and whether this is its last round

enqueuer == <<op, claim>>
flusher == <<index, todo, last>>
queueVars == <<counter, closed, fun, buf, pc, enqueuer, flusher>>

EnqueuePc == {"look", "newIndex", "addSize", "addFunction", "addReverse",
              "claim", "write", "publish", "mark", "full"}
SessionPc == {"openFlag", "load", "close", "closeFlag", "scan"}

InSession(t) == pc[t] \in SessionPc

QueueTypeOK(capacity, value) ==
  /\ counter \in 0..capacity
  /\ closed \in {"OPEN", "FULL", "CLOSED"}
  /\ fun \in [0 .. capacity - 1 -> value]
  /\ buf \in [0 .. capacity - 1 -> Op \cup {NoOp}]
  /\ pc \in [Thread -> {"idle"} \cup EnqueuePc \cup SessionPc]
  /\ op \in [Thread -> Op \cup {NoOp}]
  /\ claim \in [Thread -> 0..capacity]
  /\ index \in 0..capacity /\ todo \in 0..capacity /\ last \in BOOLEAN

QueueInit(capacity) ==
  /\ counter = capacity
  /\ closed = "CLOSED"
  /\ fun = [i \in 0 .. capacity - 1 |-> 0]
  /\ buf = [i \in 0 .. capacity - 1 |-> NoOp]
  /\ pc = [t \in Thread |-> "idle"]
  /\ op = [t \in Thread |-> NoOp]
  /\ claim = [t \in Thread |-> 0]
  /\ index = 0 /\ todo = 0 /\ last = FALSE

Go(t, from, to) == pc[t] = from /\ pc' = [pc EXCEPT ![t] = to]

\* Operations that have been stored and not yet run.
Stored == {buf[i] : i \in {j \in DOMAIN fun : fun[j] > 0}}

-----------------------------------------------------------------------------
(* enqueue() *)

\* A call with an operation that is not on its way already.
Enqueue(t, o) ==
  /\ Go(t, "idle", "look")
  /\ o \notin Stored /\ \A u \in Thread : op[u] # o
  /\ op' = [op EXCEPT ![t] = o]
  /\ UNCHANGED <<counter, closed, fun, buf, claim, flusher>>

\* enqueue() returns.
Finish(t, from) ==
  /\ Go(t, from, "idle")
  /\ op' = [op EXCEPT ![t] = NoOp]
  /\ claim' = [claim EXCEPT ![t] = 0]

LookAtFlag(t) ==
  /\ \/ closed = "OPEN" /\ Go(t, "look", "claim") /\ UNCHANGED enqueuer
     \/ closed # "OPEN" /\ Finish(t, "look")
  /\ UNCHANGED <<counter, closed, fun, buf, flusher>>

\* fetch_add of the counter; the rest of the call is at `place'.
ClaimSpace(t, size, capacity, place) ==
  /\ Go(t, "claim", place)
  /\ claim' = [claim EXCEPT ![t] = counter]
  /\ counter' = IF counter + size < capacity THEN counter + size ELSE capacity
  /\ UNCHANGED <<closed, fun, buf, op, flusher>>

\* What a poll finds in the middle of an entry: neither 0 nor a marker.
Parameters == -2

\* forwardall() moves the parameters into the entry, over the words at span.
WriteParameters(t, span) ==
  /\ Go(t, "write", "publish")
  /\ buf' = [buf EXCEPT ![claim[t]] = op[t]]
  /\ fun' = [i \in DOMAIN fun |-> IF i \in span THEN Parameters ELSE fun[i]]
  /\ UNCHANGED <<counter, closed, enqueuer, flusher>>

StoreFunction(t, value) ==
  /\ Finish(t, "publish")
  /\ fun' = [fun EXCEPT ![claim[t]] = value]
  /\ UNCHANGED <<counter, closed, buf, flusher>>

-----------------------------------------------------------------------------
(* open() and flush() *)

OpenCounter(t) ==
  /\ \A u \in Thread : ~InSession(u)
  /\ Go(t, "idle", "openFlag")
  /\ counter' = 0
  /\ UNCHANGED <<closed, fun, buf, enqueuer, flusher>>

OpenFlag(t) ==
  /\ Go(t, "openFlag", "load")
  /\ closed' = "OPEN"
  /\ UNCHANGED <<counter, fun, buf, enqueuer, flusher>>

\* A round of flush(): nothing new, a full array, or some entries to run.
LoadCounter(t, limit) ==
  /\ Go(t, "load", IF counter = index THEN "close"
                   ELSE IF counter >= limit THEN "closeFlag" ELSE "scan")
  /\ todo' = IF counter >= limit THEN limit ELSE counter
  /\ UNCHANGED <<counter, closed, fun, buf, enqueuer, index, last>>

\* Variant for sensitivity: the counter is stored, not exchanged.
CloseStore(t, limit, capacity) ==
  /\ Go(t, "close", "closeFlag")
  /\ counter' = capacity
  /\ UNCHANGED <<closed, fun, buf, enqueuer, index, todo, last>>

\* The exchange of the counter: what was claimed since is still run.
CloseCounter(t, limit, capacity) ==
  /\ Go(t, "close", "closeFlag")
  /\ todo' = IF counter >= limit THEN limit ELSE counter
  /\ counter' = capacity
  /\ UNCHANGED <<closed, fun, buf, enqueuer, index, last>>

CloseFlag(t) ==
  /\ Go(t, "closeFlag", "scan")
  /\ closed' = "CLOSED"
  /\ last' = TRUE
  /\ UNCHANGED <<counter, fun, buf, enqueuer, index, todo>>

\* Variant for sensitivity: only the function of the entry is cleared.
RunAndUnset(t, size) ==
  /\ Go(t, "scan", "scan")
  /\ fun' = [fun EXCEPT ![index] = 0]
  /\ buf' = [buf EXCEPT ![index] = NoOp]
  /\ index' = index + size
  /\ UNCHANGED <<counter, closed, enqueuer, todo, last>>

\* The entry at index has a function: it runs, which moves the parameters
\* out, and the entry is cleared.
RunEntry(t, size) ==
  /\ Go(t, "scan", "scan")
  /\ fun' = [i \in DOMAIN fun |-> IF i \in index .. index + size - 1 THEN 0 ELSE fun[i]]
  /\ buf' = [buf EXCEPT ![index] = NoOp]
  /\ index' = index + size
  /\ UNCHANGED <<counter, closed, enqueuer, todo, last>>

NextRound(t) ==
  /\ Go(t, "scan", "load")
  /\ index >= todo /\ ~last
  /\ UNCHANGED <<counter, closed, fun, buf, enqueuer, flusher>>

\* flush() returns, and its locals go out of scope.
FlushReturns(t) ==
  /\ Go(t, "scan", "idle")
  /\ index' = 0 /\ todo' = 0 /\ last' = FALSE
  /\ UNCHANGED <<counter, closed, buf, enqueuer>>

FlushEnd(t) ==
  /\ index >= todo /\ last
  /\ FlushReturns(t)
  /\ UNCHANGED fun

=============================================================================
