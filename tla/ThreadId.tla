------------------------------ MODULE ThreadId ------------------------------
(***************************************************************************)
(* The identifiers of threadid.hpp: small numbers for the threads alive,   *)
(* which index the groups of the reader indicator.  A thread gets one the  *)
(* first time it needs it and gives it back when it ends; both happen      *)
(* under a mutex and are one action each.  A thread that has ended stands  *)
(* for one that is started later.                                          *)
(***************************************************************************)
EXTENDS Threads, Naturals, FiniteSets

VARIABLES
  max_id,      \* the largest identifier in use
  orphans,     \* identifiers below it that are not in use
  thread_id    \* thread_id[t]: the identifier of t; 0 while it has none

idVars == <<max_id, orphans, thread_id>>

IdTypeOK ==
  /\ max_id \in Nat
  /\ orphans \in SUBSET (1..max_id)
  /\ thread_id \in [Thread -> 0..max_id]

IdInit ==
  /\ max_id = 0
  /\ orphans = {}
  /\ thread_id = [t \in Thread |-> 0]

\* get(): the smallest orphan, or a new identifier.
GetId(t) ==
  /\ thread_id[t] = 0
  /\ IF orphans = {}
       THEN /\ max_id' = max_id + 1
            /\ thread_id' = [thread_id EXCEPT ![t] = max_id + 1]
            /\ UNCHANGED orphans
       ELSE \E id \in orphans :
              /\ \A other \in orphans : id <= other
              /\ orphans' = orphans \ {id}
              /\ thread_id' = [thread_id EXCEPT ![t] = id]
              /\ UNCHANGED max_id

\* Variant for sensitivity: the orphans below the largest one stay.
FreeIdOne(t) ==
  /\ thread_id[t] # 0
  /\ thread_id' = [thread_id EXCEPT ![t] = 0]
  /\ IF thread_id[t] = max_id
       THEN max_id' = max_id - 1 /\ UNCHANGED orphans
       ELSE orphans' = orphans \cup {thread_id[t]} /\ UNCHANGED max_id

\* free(): max_id goes down past every orphan directly below it.
FreeId(t) ==
  /\ thread_id[t] # 0
  /\ thread_id' = [thread_id EXCEPT ![t] = 0]
  /\ IF thread_id[t] = max_id
       THEN /\ max_id' \in (0 .. max_id - 1) \ orphans
            /\ max_id' + 1 .. max_id - 1 \subseteq orphans
            /\ orphans' = orphans \cap (1 .. max_id')
       ELSE orphans' = orphans \cup {thread_id[t]} /\ UNCHANGED max_id

\* No two threads alive share an identifier, and the numbers up to max_id
\* are the identifiers in use and the orphans, with max_id itself in use:
\* get() never gives out a number twice or skips one, in whatever order
\* threads end.
IdsAccounted ==
  /\ \A t, u \in Thread : thread_id[t] # 0 /\ thread_id[t] = thread_id[u] => t = u
  /\ \A id \in 1..max_id : id \in orphans <=> \A t \in Thread : thread_id[t] # id
  /\ max_id \notin orphans

=============================================================================
