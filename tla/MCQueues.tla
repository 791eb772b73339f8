------------------------------ MODULE MCQueues ------------------------------
(***************************************************************************)
(* entry_queue and buffer_queue side by side: kind is the DQueue of the    *)
(* lock's template.  Both keep the promise of TantrumQueue.                *)
(***************************************************************************)
EXTENDS BufferQueue, TLC

CONSTANTS
  QueueKinds,        \* the kinds to check: "entry", "buffer"
  ENTRIES,           \* of the entry_queue
  f, g, o1, o2, o3   \* two wrappers and the operations enqueued with them

\* Two operations of one function, with an entry smaller than the other's.
SharedFunction == o1 :> f @@ o2 :> f @@ o3 :> g
FitSizes == f :> WORD + 1 @@ g :> 2 * WORD + 1

\* An operation without parameters: its entry is a single word.
BareSizes == f :> WORD @@ g :> WORD + 1

ASSUME EntriesAssumption == ENTRIES \in Nat

VARIABLE kind    \* it never changes

allVars == <<kind, queueVars, registry>>

E == INSTANCE EntryQueue

QueuesInit ==
  /\ kind \in QueueKinds
  /\ \/ kind = "buffer" /\ Init
     \/ /\ kind = "entry" /\ E!Init
        /\ sizes = {} /\ functions = 0 /\ rev_functions = 0
        /\ function_idx = 0 /\ number = 0

QueuesNext ==
  /\ UNCHANGED kind
  /\ \/ kind = "buffer" /\ Next
     \/ kind = "entry" /\ E!Next /\ UNCHANGED registry

\* Threads inside enqueue(), open() and flush() go on.  A helper that has
\* opened the queue flushes it.
Goes(t) ==
  /\ UNCHANGED kind
  /\ \/ kind = "buffer" /\ Step(t)
     \/ kind = "entry" /\ E!Step(t) /\ UNCHANGED registry

QueuesSpec ==
  /\ QueuesInit /\ [][QueuesNext]_allVars
  /\ \A t \in Thread : WF_allVars(Goes(t))

-----------------------------------------------------------------------------
(* Properties *)

\* Claims and the scan of flush() stay in the array.
QueuesTypeOK == IF kind = "buffer" THEN TypeOK ELSE E!TypeOK

\* What flush() calls has been stored with its parameters and its function is
\* the one that it was enqueued with, at any place of the array, in whatever
\* order the functions were registered and with whatever an earlier session
\* left in the array.
RunsWhatWasStored ==
  \A t \in Thread :
    kind = "buffer" /\ pc[t] = "scan" /\ index < todo /\ fun[index] \notin {0, Marker}
      => /\ buf[index] # NoOp
         /\ Called(fun[index]) = FunctionOf[buf[index]]
         /\ Called(fun[index]) \in sizes

\* The sessions, the accepted operations and the runs are those of the
\* promise: nothing is accepted outside a session, which ends with nothing
\* left.
Tantrum == INSTANCE TantrumQueue
  WITH session <- \E t \in Thread : InSession(t), stored <- Stored

ImplementsTantrumQueue == Tantrum!Spec

\* "execute all stored operations, leave queue in closed state": what remains
\* when flush() returns would run after a later open(), or never.
FlushRunsAll == (\A t \in Thread : ~InSession(t)) => Stored = {}

\* flush() returns: every place that it waits for is filled.
FlushComesBack == \A t \in Thread : InSession(t) ~> ~InSession(t)

=============================================================================
