----------------------------- MODULE Delegation -----------------------------
(***************************************************************************)
(* What a queue delegation lock promises to the threads that use it,       *)
(* without locks and queues: a delegated operation runs exactly once, no   *)
(* two operations (or sections between lock() and unlock()) overlap, an    *)
(* operation runs after those accepted before it was delegated, and a      *)
(* caller gets its result, or the end of its wait, only after it has run.  *)
(***************************************************************************)
CONSTANTS Op

VARIABLES
  phase,     \* phase[o]: "free", "pending", "running" or "done"
  caller,    \* caller[o]: "in" delegate(), holding the "future", or "gone"
  before,    \* before[o]: what has to run before o may run
  locked     \* a thread is between lock() and unlock()

absVars == <<phase, caller, before, locked>>

AbsInit ==
  /\ phase = [o \in Op |-> "free"]
  /\ caller = [o \in Op |-> "gone"]
  /\ before = [o \in Op |-> {}]
  /\ locked = FALSE

\* Accepted for a later run: delegate() has returned.
Accepted == {o \in Op : phase[o] \in {"pending", "running"} /\ caller[o] # "in"}

Busy == locked \/ \E o \in Op : phase[o] = "running"

AbsCall(o) ==
  /\ phase[o] = "free"
  /\ phase' = [phase EXCEPT ![o] = "pending"]
  /\ caller' = [caller EXCEPT ![o] = "in"]
  /\ before' = [before EXCEPT ![o] = Accepted]
  /\ UNCHANGED locked

\* delegate() returns before the operation runs.
AbsAccept(o) ==
  /\ phase[o] = "pending" /\ caller[o] = "in"
  /\ \E c \in {"future", "gone"} : caller' = [caller EXCEPT ![o] = c]
  /\ UNCHANGED <<phase, before, locked>>

AbsStart(o) ==
  /\ phase[o] = "pending" /\ before[o] = {}
  /\ ~Busy
  /\ phase' = [phase EXCEPT ![o] = "running"]
  /\ UNCHANGED <<caller, before, locked>>

AbsFinish(o) ==
  /\ phase[o] = "running"
  /\ phase' = [phase EXCEPT ![o] = IF caller[o] = "gone" THEN "free" ELSE "done"]
  /\ before' = [p \in Op |-> before[p] \ {o}]
  /\ UNCHANGED <<caller, locked>>

\* The call returns, or the wait for the future ends, after the run.
AbsReturn(o) ==
  /\ phase[o] = "done"
  /\ phase' = [phase EXCEPT ![o] = "free"]
  /\ caller' = [caller EXCEPT ![o] = "gone"]
  /\ UNCHANGED <<before, locked>>

AbsDiscard(o) ==
  /\ caller[o] = "future" /\ phase[o] \in {"pending", "running"}
  /\ caller' = [caller EXCEPT ![o] = "gone"]
  /\ UNCHANGED <<phase, before, locked>>

AbsLock == ~Busy /\ locked' = TRUE /\ UNCHANGED <<phase, caller, before>>

AbsUnlock == locked /\ locked' = FALSE /\ UNCHANGED <<phase, caller, before>>

AbsNext ==
  \/ \E o \in Op : AbsCall(o) \/ AbsAccept(o) \/ AbsStart(o) \/ AbsFinish(o)
                     \/ AbsReturn(o) \/ AbsDiscard(o)
  \/ AbsLock \/ AbsUnlock

AbsSpec == AbsInit /\ [][AbsNext]_absVars

=============================================================================
