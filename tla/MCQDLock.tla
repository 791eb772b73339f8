------------------------------ MODULE MCQDLock ------------------------------
(* Small instances of QDLock for TLC: sizes of operations and symmetry. *)
EXTENDS QDLockRefinement, QDLockInvariants, TLC

CONSTANTS t1, t2, t3, o1, o2, o3

\* One operation takes two entries, the others one.
MixedSizes == [o \in Op |-> IF o = o2 THEN 2 ELSE 1]
UnitSizes == [o \in Op |-> 1]

\* Threads are alike where LockUsers is {} or Thread; o1 and o3 have the same
\* size, and are alike where neither or both of them are in Future.
ThreadSymmetry == Permutations(Thread)
ThreadAndOpSymmetry == Permutations(Thread) \cup Permutations({o1, o3})

\* A bound for the liveness: only t2 delegates the operation of two entries.
LiveNext == Next /\ \A t \in Thread \ {t2} : op'[t] # o2
LiveSpec == Init /\ [][LiveNext]_vars /\ ExchangeMayFail

=============================================================================
