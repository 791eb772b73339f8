-------------------------- MODULE QDLockInvariants --------------------------
(***************************************************************************)
(* The inductive invariant behind the safety properties of QDLock, in the  *)
(* parts the proofs use.  A session is the time between the helper's       *)
(* open() and the end of its flush(); the invariant says how the slots     *)
(* claimed in a session lie in the array, which of them have been          *)
(* published and how far the helper has got.                               *)
(***************************************************************************)
EXTENDS QDLock

WriterPc == {"write", "publish", "writeNoOp", "publishNoOp"}

\* Where the locals of enqueue(), flush() and delegate() can be.
LocalsOK(t) ==
  /\ qpc[t] \in WriterPc => index[t] < ENTRIES
  /\ qpc[t] \in {"poll", "run"} => index[t] < todo[t]
  /\ qpc[t] \in EnqueuePc => pc[t] = "enqueue"
  /\ pc[t] = "flush" <=> qpc[t] \in FlushPc
  /\ pc[t] = "helperExec" <=> qpc[t] = "opened"
  /\ pc[t] \in {"try", "enqueue", "acquire", "wait", "sleep", "open", "helperExec", "future"} =>
       op[t] # NoOp
  /\ pc[t] = "idle" => op[t] = NoOp
  /\ pc[t] \in {"enqueue", "acquire", "wait", "sleep"} /\ StarvationFree =>
       retries[t] < RETRY_LIMIT

TypeInv == TypeOK /\ \A t \in Thread : LocalsOK(t)

\* The lock is held by whoever is at a program counter that needs it.
HolderOK == \A t \in Thread : pc[t] \in HoldingPc => holder = t

\* An operation is delegated by one thread at a time, and is not accepted
\* before its caller has left the loop of delegate().
OwnersOK ==
  /\ \A t, u \in Thread : op[t] = op[u] /\ op[t] # NoOp => t = u
  /\ \A t \in Thread : pc[t] # "future" => op[t] \notin accepted

InSession(t) == qpc[t] \in SessionPc

\* The end of what can be claimed (before the queue is closed) or has been
\* claimed (after that) in the session of t.
Limit(t) ==
  IF qpc[t] = "opened" \/ open[t]
    THEN IF counter >= ENTRIES THEN ENTRIES ELSE counter
    ELSE todo[t]

\* The slot that the helper t runs next.
Position(t) ==
  CASE qpc[t] = "opened" -> 0
    [] qpc[t] \in {"load", "close", "clear"} -> todo[t]
    [] OTHER -> index[t]

\* The claims of a session tile the array from 0 to the limit.
TilingOK(t) ==
  /\ \A i \in Slot : slot[i] > 0 => i + slot[i] <= Limit(t)
  /\ \A i, j \in Slot : slot[i] > 0 /\ i < j /\ j < i + slot[i] => slot[j] = 0
  /\ \A i \in Slot : slot[i] > 0 /\ i + slot[i] < Limit(t) => slot[i + slot[i]] > 0
  /\ Limit(t) > 0 => slot[0] > 0

\* The scan of the helper stays on the tiles and within what it has seen.
ScanOK(t) ==
  /\ Position(t) <= Limit(t)
  /\ Position(t) < Limit(t) => slot[Position(t)] > 0
  /\ qpc[t] # "opened" => todo[t] <= Limit(t)
  /\ qpc[t] # "opened" => \A i \in Slot : slot[i] > 0 /\ i < todo[t] => i + slot[i] <= todo[t]
  /\ qpc[t] \in {"load", "close"} => open[t]
  /\ qpc[t] = "clear" => ~open[t]
  /\ qpc[t] # "opened" /\ ~open[t] => counter >= ENTRIES
  /\ qpc[t] = "run" => entries[index[t]] # "null"
  /\ \A i \in Slot : slot[i] > 0 /\ i < Position(t) => entries[i] # "null"

\* The accepted operations are those in published slots not run yet.
AcceptedOK(t) ==
  /\ \A o \in accepted : \E i \in Slot :
       i >= Position(t) /\ entries[i] = "wrapper" /\ argument[i] = o
  /\ \A i \in Slot : i >= Position(t) /\ entries[i] = "wrapper" =>
       argument[i] \in accepted /\ ReqEntries[argument[i]] = slot[i]
  /\ \A i, j \in Slot :
       /\ i >= Position(t) /\ entries[i] = "wrapper"
       /\ j >= Position(t) /\ entries[j] = "wrapper"
       /\ argument[i] = argument[j]
       => i = j

\* A published slot was claimed and carries its size.
PublishedOK ==
  \A i \in Slot : /\ entries[i] # "garbage"
                  /\ entries[i] # "null" => slot[i] > 0 /\ header[i] = slot[i]

\* A thread that has claimed a slot is the only one there, and what it has
\* written so far stays until it publishes the slot.
WriterOK(u) ==
  qpc[u] \in WriterPc =>
    /\ slot[index[u]] > 0
    /\ entries[index[u]] = "null"
    /\ qpc[u] \in {"write", "publish"} => slot[index[u]] = ReqEntries[op[u]]
    /\ qpc[u] \in {"writeNoOp", "publishNoOp"} => slot[index[u]] = ENTRIES - index[u]
    /\ qpc[u] \in {"publish", "publishNoOp"} => header[index[u]] = slot[index[u]]
    /\ qpc[u] = "publish" => argument[index[u]] = op[u]
    /\ \A v \in Thread : qpc[v] \in WriterPc /\ index[v] = index[u] => u = v

\* Between sessions the queue is closed, clean and empty.
BetweenSessionsOK ==
  (\A t \in Thread : ~InSession(t)) =>
    /\ counter >= ENTRIES
    /\ accepted = {}
    /\ \A i \in Slot : slot[i] = 0 /\ entries[i] = "null"

SessionInv ==
  /\ PublishedOK
  /\ \A u \in Thread : WriterOK(u)
  /\ BetweenSessionsOK
  /\ \A t \in Thread : InSession(t) => TilingOK(t) /\ ScanOK(t) /\ AcceptedOK(t)

\* The helper keeps its entries, its position and every claim consistent in
\* all interleavings with enqueuers; it implies RunsWhatWasStored and
\* NoLostOperation.
SafetyInv == TypeInv /\ HolderOK /\ OwnersOK /\ SessionInv

\* A slot that holds an operation the helper h has still to run.
Waits(h, i) == i >= Position(h) /\ entries[i] = "wrapper"

\* What waits lies before every later operation that is owed it.
OrderedSlots(h) ==
  \A i \in Slot : Waits(h, i) =>
    /\ \A j \in Slot : Waits(h, j) /\ argument[i] \in owed[argument[j]] => i < j
    /\ \A u \in Thread :
         qpc[u] \in WriterPc /\ argument[i] \in owed[op[u]] => i < index[u]

\* What an operation is owed has been accepted, and nothing is owed to whoever
\* has won the lock: together with the order of the slots it implies
\* RealTimeOrder.
OrderOK ==
  /\ \A o \in Op : owed[o] \subseteq accepted
  /\ \A t \in Thread : pc[t] \in HoldingPc /\ op[t] # NoOp => owed[op[t]] = {}
  /\ \A h \in Thread : InSession(h) => OrderedSlots(h)

=============================================================================
