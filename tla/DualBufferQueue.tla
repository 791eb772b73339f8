-------------------------- MODULE DualBufferQueue --------------------------
(***************************************************************************)
(* The tantrum queue of queues/dual_buffer_queue.hpp, the delegation queue *)
(* of the shipped qdlock and mrqdlock.  Enqueuers claim consecutive slots  *)
(* of a fixed array with one atomic instruction on `counter', write the    *)
(* entry and then publish its function pointer.  The helper (the thread    *)
(* that holds the lock) opens the queue, runs what has been published and  *)
(* closes the queue when it sees no new claims.                            *)
(*                                                                         *)
(* Every action is one atomic access of the code together with the local   *)
(* computation that follows it.  The actions leave `op' alone: it is the   *)
(* argument of a thread's enqueue call and belongs to the caller, the      *)
(* module that composes the queue with a lock (QDLock).                    *)
(***************************************************************************)
EXTENDS Threads, Integers

CONSTANTS
  Op,              \* delegated operations, recycled once they have run
  NoOp,            \* no operation
  ENTRIES,         \* number of entries of the queue
  ReqEntries,      \* req_entries of each operation, in entries
  FetchAndAdd,     \* the atomic instruction policy: TRUE for fetch_add
  ZeroedStorage    \* TRUE iff the storage of the queue was zero at birth

ASSUME QueueAssumption ==
  /\ ENTRIES \in Nat \ {0}
  /\ ReqEntries \in [Op -> 1..ENTRIES]
  /\ NoOp \notin Op
  /\ FetchAndAdd \in BOOLEAN
  /\ ZeroedStorage \in BOOLEAN

VARIABLES
  counter,    \* entries claimed since open(); >= ENTRIES when closed
  entries,    \* entries[i].f: the published function pointer of slot i
  header,     \* the req_entries word at the start of slot i in the buffer
  argument,   \* the operation whose parameters are at slot i of the buffer
  op,         \* op[t]: the operation that t is delegating
  qpc,        \* qpc[t]: where t is in enqueue() or flush()
  index,      \* index[t]: the local of that name, of both functions
  todo,       \* todo[t]: the local of flush()
  open,       \* open[t]: the local of flush()
  slot,       \* history: entries claimed from slot i on, in this session
  accepted    \* history: operations stored with SUCCESS and not run yet

queueVars == <<counter, entries, header, argument, qpc, index, todo, open,
               slot, accepted>>

Slot == 0 .. ENTRIES - 1

\* Program counters of enqueue(), and of the helper from open() to the end
\* of flush(), a period that we call a session.
EnqueuePc == {"claim", "write", "publish", "writeNoOp", "publishNoOp"}
FlushPc == {"load", "close", "poll", "run", "clear"}
SessionPc == FlushPc \cup {"opened"}

(***************************************************************************)
(* Type correctness of the queue: counter never goes below zero, and every *)
(* local index stays where enqueue() and flush() may leave it.             *)
(***************************************************************************)
QueueTypeOK ==
  /\ counter \in Nat
  /\ entries \in [Slot -> {"null", "wrapper", "no_op", "garbage"}]
  /\ header \in [Slot -> 0..ENTRIES]
  /\ argument \in [Slot -> Op \cup {NoOp}]
  /\ op \in [Thread -> Op \cup {NoOp}]
  /\ qpc \in [Thread -> EnqueuePc \cup SessionPc \cup {"idle"}]
  /\ index \in [Thread -> Nat]
  /\ todo \in [Thread -> 0..ENTRIES]
  /\ open \in [Thread -> BOOLEAN]
  /\ slot \in [Slot -> 0..ENTRIES]
  /\ accepted \in SUBSET Op

\* The constructor sets only counter: entries holds whatever was in memory.
QueueInit ==
  /\ counter = ENTRIES
  /\ entries \in [Slot -> IF ZeroedStorage THEN {"null"} ELSE {"null", "garbage"}]
  /\ header = [i \in Slot |-> 0]
  /\ argument = [i \in Slot |-> NoOp]
  /\ op = [t \in Thread |-> NoOp]
  /\ qpc = [t \in Thread |-> "idle"]
  /\ index = [t \in Thread |-> 0]
  /\ todo = [t \in Thread |-> 0]
  /\ open = [t \in Thread |-> FALSE]
  /\ slot = [i \in Slot |-> 0]
  /\ accepted = {}

-----------------------------------------------------------------------------
(* enqueue() *)

Fits(i, o) == i <= ENTRIES - ReqEntries[o]

\* The early return: the load sees a counter that leaves no room.
EnqueueClosed(t) ==
  /\ qpc[t] = "idle"
  /\ ~Fits(counter, op[t])
  /\ UNCHANGED queueVars

\* Variant for sensitivity: no test of the loaded counter, every call claims.
EnqueueLoadUnchecked(t) ==
  /\ qpc[t] = "idle"
  /\ qpc' = [qpc EXCEPT ![t] = "claim"]
  /\ index' = [index EXCEPT ![t] = IF FetchAndAdd THEN 0 ELSE counter]
  /\ UNCHANGED <<counter, entries, header, argument, todo, open, slot, accepted>>

\* The load sees room; the loaded index is only used by compare_exchange.
EnqueueLoad(t) ==
  /\ qpc[t] = "idle"
  /\ Fits(counter, op[t])
  /\ qpc' = [qpc EXCEPT ![t] = "claim"]
  /\ index' = [index EXCEPT ![t] = IF FetchAndAdd THEN 0 ELSE counter]
  /\ UNCHANGED <<counter, entries, header, argument, todo, open, slot, accepted>>

\* A failed compare_exchange_weak reloads index, with no second check of it.
CasRetry(t) ==
  /\ ~FetchAndAdd
  /\ qpc[t] = "claim"
  /\ counter # index[t]
  /\ index' = [index EXCEPT ![t] = counter]
  /\ UNCHANGED <<counter, entries, header, argument, qpc, todo, open, slot, accepted>>

\* Variant for sensitivity: a plain store where compare_exchange is meant.
ClaimStore(t) ==
  /\ qpc[t] = "claim"
  /\ counter' = index[t] + ReqEntries[op[t]]

\* The successful atomic instruction: t gets the old counter as its index.
Claim(t) ==
  /\ qpc[t] = "claim"
  /\ FetchAndAdd \/ counter = index[t]
  /\ counter' = counter + ReqEntries[op[t]]

\* The claimed entries are all inside the array.
ClaimEntry(t) ==
  /\ Claim(t)
  /\ Fits(counter, op[t])
  /\ qpc' = [qpc EXCEPT ![t] = "write"]
  /\ index' = [index EXCEPT ![t] = counter]
  /\ slot' = [slot EXCEPT ![counter] = ReqEntries[op[t]]]
  /\ UNCHANGED <<entries, header, argument, todo, open, accepted>>

\* The claim starts inside the array and ends outside: t must fill the rest.
ClaimTail(t) ==
  /\ Claim(t)
  /\ ~Fits(counter, op[t])
  /\ counter < ENTRIES
  /\ qpc' = [qpc EXCEPT ![t] = "writeNoOp"]
  /\ index' = [index EXCEPT ![t] = counter]
  /\ slot' = [slot EXCEPT ![counter] = ENTRIES - counter]
  /\ UNCHANGED <<entries, header, argument, todo, open, accepted>>

\* The claim is outside the array: enqueue() returns FULL.
ClaimNothing(t) ==
  /\ Claim(t)
  /\ counter >= ENTRIES
  /\ qpc' = [qpc EXCEPT ![t] = "idle"]
  /\ index' = [index EXCEPT ![t] = 0]
  /\ UNCHANGED <<entries, header, argument, todo, open, slot, accepted>>

\* Size and parameters go to the buffer before the function pointer is set.
WriteEntry(t) ==
  /\ qpc[t] = "write"
  /\ header' = [header EXCEPT ![index[t]] = ReqEntries[op[t]]]
  /\ argument' = [argument EXCEPT ![index[t]] = op[t]]
  /\ qpc' = [qpc EXCEPT ![t] = "publish"]
  /\ UNCHANGED <<counter, entries, index, todo, open, slot, accepted>>

\* The release store that hands the entry to the helper; returns SUCCESS.
Publish(t) ==
  /\ qpc[t] = "publish"
  /\ entries' = [entries EXCEPT ![index[t]] = "wrapper"]
  /\ accepted' = accepted \cup {op[t]}
  /\ qpc' = [qpc EXCEPT ![t] = "idle"]
  /\ index' = [index EXCEPT ![t] = 0]
  /\ UNCHANGED <<counter, header, argument, todo, open, slot>>

WriteNoOp(t) ==
  /\ qpc[t] = "writeNoOp"
  /\ header' = [header EXCEPT ![index[t]] = ENTRIES - index[t]]
  /\ qpc' = [qpc EXCEPT ![t] = "publishNoOp"]
  /\ UNCHANGED <<counter, entries, argument, index, todo, open, slot, accepted>>

\* Variant for sensitivity: FULL is returned without the no_op entry.
PublishNothing(t) ==
  /\ qpc[t] = "publishNoOp"
  /\ qpc' = [qpc EXCEPT ![t] = "idle"]
  /\ index' = [index EXCEPT ![t] = 0]
  /\ UNCHANGED <<counter, entries, header, argument, todo, open, slot, accepted>>

\* The rest of the array is a no_op entry; enqueue() returns FULL.
PublishNoOp(t) ==
  /\ qpc[t] = "publishNoOp"
  /\ entries' = [entries EXCEPT ![index[t]] = "no_op"]
  /\ qpc' = [qpc EXCEPT ![t] = "idle"]
  /\ index' = [index EXCEPT ![t] = 0]
  /\ UNCHANGED <<counter, header, argument, todo, open, slot, accepted>>

-----------------------------------------------------------------------------
(* open() and flush(), called by the helper *)

OpenQueue(t) ==
  /\ qpc[t] = "idle"
  /\ counter' = 0
  /\ qpc' = [qpc EXCEPT ![t] = "opened"]
  /\ UNCHANGED <<entries, header, argument, index, todo, open, slot, accepted>>

FlushEnter(t) ==
  /\ qpc[t] = "opened"
  /\ qpc' = [qpc EXCEPT ![t] = "load"]
  /\ todo' = [todo EXCEPT ![t] = 0]
  /\ open' = [open EXCEPT ![t] = TRUE]
  /\ UNCHANGED <<counter, entries, header, argument, index, slot, accepted>>

\* Where flush() goes from slot i of a scan up to limit.
ScanNext(i, limit, stillOpen) ==
  CASE i < limit -> "poll"
    [] i >= limit /\ stillOpen -> "load"
    [] OTHER -> "clear"

\* Variant for sensitivity: `done' is read after todo is loaded anew.
StartScanLate(t, seen, stillOpen) ==
  LET limit == IF seen >= ENTRIES THEN ENTRIES ELSE seen
      goOn == stillOpen /\ seen < ENTRIES
  IN  /\ todo' = [todo EXCEPT ![t] = limit]
      /\ open' = [open EXCEPT ![t] = goOn]
      /\ index' = [index EXCEPT ![t] = limit]
      /\ qpc' = [qpc EXCEPT ![t] = ScanNext(limit, limit, goOn)]

\* Variant for sensitivity: a counter beyond the array is not clamped.
StartScanUnclamped(t, seen, stillOpen) ==
  /\ todo' = [todo EXCEPT ![t] = seen]
  /\ open' = [open EXCEPT ![t] = stillOpen /\ seen < ENTRIES]
  /\ index' = [index EXCEPT ![t] = todo[t]]
  /\ qpc' = [qpc EXCEPT ![t] = ScanNext(todo[t], seen, stillOpen /\ seen < ENTRIES)]

\* Start scanning at `done', the previous todo, up to the counter seen.
StartScan(t, seen, stillOpen) ==
  LET limit == IF seen >= ENTRIES THEN ENTRIES ELSE seen
      goOn == stillOpen /\ seen < ENTRIES
  IN  /\ todo' = [todo EXCEPT ![t] = limit]
      /\ open' = [open EXCEPT ![t] = goOn]
      /\ index' = [index EXCEPT ![t] = todo[t]]
      /\ qpc' = [qpc EXCEPT ![t] = ScanNext(todo[t], limit, goOn)]

FlushLoad(t) ==
  /\ qpc[t] = "load"
  /\ counter # todo[t]
  /\ StartScan(t, counter, TRUE)
  /\ UNCHANGED <<counter, entries, header, argument, slot, accepted>>

\* Nothing was claimed since the last load: the queue is to be closed.
FlushLoadSame(t) ==
  /\ qpc[t] = "load"
  /\ counter = todo[t]
  /\ qpc' = [qpc EXCEPT ![t] = "close"]
  /\ UNCHANGED <<counter, entries, header, argument, index, todo, open, slot, accepted>>

\* Variant for sensitivity: a store closes the queue, and what was claimed
\* since the last load goes unseen.
FlushCloseStore(t) ==
  /\ qpc[t] = "close"
  /\ counter' = ENTRIES
  /\ StartScan(t, todo[t], FALSE)
  /\ UNCHANGED <<entries, header, argument, slot, accepted>>

\* The exchange closes the queue and tells what was claimed until then.
FlushClose(t) ==
  /\ qpc[t] = "close"
  /\ counter' = ENTRIES
  /\ StartScan(t, counter, FALSE)
  /\ UNCHANGED <<entries, header, argument, slot, accepted>>

\* Variant for sensitivity: an entry not yet published is skipped.
FlushPollOnce(t) ==
  /\ qpc[t] = "poll"
  /\ IF entries[index[t]] # "null"
       THEN qpc' = [qpc EXCEPT ![t] = "run"] /\ UNCHANGED index
       ELSE /\ index' = [index EXCEPT ![t] = @ + 1]
            /\ qpc' = [qpc EXCEPT ![t] = ScanNext(index[t] + 1, todo[t], open[t])]
  /\ UNCHANGED <<counter, entries, header, argument, todo, open, slot, accepted>>

\* The spin on the function pointer ends when it is not null.
FlushPoll(t) ==
  /\ qpc[t] = "poll"
  /\ entries[index[t]] # "null"
  /\ qpc' = [qpc EXCEPT ![t] = "run"]
  /\ UNCHANGED <<counter, entries, header, argument, index, todo, open, slot, accepted>>

\* The call of the stored function, which moves the parameters out of the
\* buffer, and the advance to the next entry.  What a call through a
\* pointer that nobody stored does is undefined: there is no such step.
FlushRun(t) ==
  LET i == index[t]
      next == i + header[i]
  IN  /\ qpc[t] = "run"
      /\ entries[i] \in {"wrapper", "no_op"}
      /\ IF entries[i] = "wrapper"
           THEN /\ accepted' = accepted \ {argument[i]}
                /\ argument' = [argument EXCEPT ![i] = NoOp]
           ELSE UNCHANGED <<accepted, argument>>
      /\ index' = [index EXCEPT ![t] = next]
      /\ qpc' = [qpc EXCEPT ![t] = ScanNext(next, todo[t], open[t])]
      /\ UNCHANGED <<counter, entries, header, todo, open, slot>>

\* Variant for sensitivity: the fill ends a whole entry too early.
FlushClearShort(t) ==
  /\ qpc[t] = "clear"
  /\ entries' = [i \in Slot |-> IF i < todo[t] - 1 THEN "null" ELSE entries[i]]
  /\ slot' = [i \in Slot |-> 0]
  /\ qpc' = [qpc EXCEPT ![t] = "idle"]
  /\ index' = [index EXCEPT ![t] = 0]
  /\ todo' = [todo EXCEPT ![t] = 0]
  /\ UNCHANGED <<counter, header, argument, open, accepted>>

\* std::fill over the used entries, and the end of flush().
FlushClear(t) ==
  /\ qpc[t] = "clear"
  /\ entries' = [i \in Slot |-> IF i < todo[t] THEN "null" ELSE entries[i]]
  /\ slot' = [i \in Slot |-> 0]
  /\ qpc' = [qpc EXCEPT ![t] = "idle"]
  /\ index' = [index EXCEPT ![t] = 0]
  /\ todo' = [todo EXCEPT ![t] = 0]
  /\ UNCHANGED <<counter, header, argument, open, accepted>>

=============================================================================
