---------------------------- MODULE TantrumQueue ----------------------------
(***************************************************************************)
(* What every delegation queue promises the lock that uses it: it accepts  *)
(* operations only in a session, from open() to the end of flush(), runs   *)
(* each of them once, and ends the session with none left.                 *)
(***************************************************************************)
CONSTANT Op

VARIABLES
  session,    \* the queue has been opened and not yet flushed
  stored      \* operations accepted and not run

Init == ~session /\ stored = {}

Open == ~session /\ session' /\ UNCHANGED stored

Accept(o) ==
  /\ session /\ o \notin stored
  /\ stored' = stored \cup {o}
  /\ UNCHANGED session

Run(o) ==
  /\ session /\ o \in stored
  /\ stored' = stored \ {o}
  /\ UNCHANGED session

Close == session /\ stored = {} /\ ~session' /\ UNCHANGED stored

Next == Open \/ Close \/ \E o \in Op : Accept(o) \/ Run(o)

Spec == Init /\ [][Next]_<<session, stored>>

=============================================================================
