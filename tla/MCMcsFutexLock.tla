--------------------------- MODULE MCMcsFutexLock ---------------------------
(* Small instances of McsFutexLock for TLC. *)
EXTENDS McsFutexLock, TLC

ThreadSymmetry == Permutations(Thread)

=============================================================================
