---------------------------- MODULE MCMRHQDLock -----------------------------
(* Small instances of MRHQDLock for TLC. *)
EXTENDS MRHQDLock

Class(v, kind, list, pin) ==
  [variant |-> v, lockKind |-> kind, nodeLock |-> list, pinned |-> pin]

\* mrqdlock with either kind of lock; hqdlock with pinned threads; mrhqdlock
\* with free ones, over either kind of node lock.  What a pinned thread does,
\* a free one does that happens to run on the same node again.
AllClasses == {Class("mr", "word", "word", FALSE), Class("mr", "flag", "word", FALSE),
               Class("h", "word", "list", TRUE),
               Class("mrh", "word", "word", FALSE), Class("mrh", "word", "list", FALSE)}

\* mrqdlock over mutex_lock or pthreads_lock
FlagClass == {Class("mr", "flag", "word", FALSE)}

\* hqdlock with free threads, which is the default, over mcs_futex_lock
FreeClass == {Class("h", "word", "list", FALSE)}

=============================================================================
