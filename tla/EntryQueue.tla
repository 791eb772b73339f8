----------------------------- MODULE EntryQueue -----------------------------
(***************************************************************************)
(* The delegation queue of queues/entry_queue.hpp: ENTRIES entries of the  *)
(* same size, which are cleared one by one as they are run.  The entries   *)
(* start out zero, as they are in static storage.                          *)
(***************************************************************************)
EXTENDS FlaggedQueue

CONSTANT ENTRIES

TypeOK == QueueTypeOK(ENTRIES, {0, 1})
Init == QueueInit(ENTRIES)

\* enqueue(): SUCCESS comes after Publish, FULL with the claim.
Claim(t) == counter < ENTRIES /\ ClaimSpace(t, 1, ENTRIES, "write")
Full(t) ==
  /\ counter >= ENTRIES
  /\ Finish(t, "claim")
  /\ UNCHANGED <<counter, closed, fun, buf, flusher>>
Write(t) == WriteParameters(t, {})
Publish(t) == StoreFunction(t, 1)

\* flush()
Load(t) == LoadCounter(t, ENTRIES)
Close(t) == CloseCounter(t, ENTRIES, ENTRIES)

\* The poll of the entry has found a function.
Run(t) == index < todo /\ fun[index] # 0 /\ RunEntry(t, 1)

Step(t) ==
  \/ LookAtFlag(t) \/ Claim(t) \/ Full(t) \/ Write(t) \/ Publish(t)
  \/ OpenFlag(t) \/ Load(t) \/ Close(t) \/ CloseFlag(t) \/ Run(t) \/ NextRound(t) \/ FlushEnd(t)

Next == \E t \in Thread : OpenCounter(t) \/ Step(t) \/ \E o \in Op : Enqueue(t, o)

Spec == Init /\ [][Next]_queueVars

=============================================================================
