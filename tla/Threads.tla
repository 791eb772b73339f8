------------------------------- MODULE Threads -------------------------------
(* The threads of the program; every component is used by the same ones. *)

CONSTANTS
  Thread,      \* threads that use the lock
  NoThread     \* no thread; a null pointer to a thread's node

ASSUME ThreadAssumption == NoThread \notin Thread

=============================================================================
