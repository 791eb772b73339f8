---------------------------- MODULE ReaderGroups ----------------------------
(***************************************************************************)
(* The reader indicator of readindicator/reader_groups.hpp: readers count  *)
(* themselves in the group of their thread identifier, and a writer looks  *)
(* at one group after the other.                                           *)
(***************************************************************************)
EXTENDS ThreadId

CONSTANT GROUPS

ASSUME GroupsAssumption == GROUPS \in Nat \ {0} /\ IsFiniteSet(Thread)

VARIABLES
  cnt,      \* cnt[g]: the readers counted in group g
  scan      \* scan[t]: the group that query(), called by t, looks at next

groupVars == <<cnt, scan>>

Group == 0 .. GROUPS - 1

GroupsTypeOK ==
  /\ cnt \in [Group -> 0 .. Cardinality(Thread)]
  /\ scan \in [Thread -> Group]

GroupsInit ==
  /\ cnt = [g \in Group |-> 0]
  /\ scan = [t \in Thread |-> 0]

GroupOf(t) == thread_id[t] % GROUPS

\* arrive() of a thread that has its identifier
Arrive(t) ==
  /\ thread_id[t] # 0
  /\ cnt' = [cnt EXCEPT ![GroupOf(t)] = @ + 1]
  /\ UNCHANGED scan

\* Variant for sensitivity: the reader leaves a group it is not in.
DepartNext(t) ==
  /\ cnt' = [cnt EXCEPT ![(thread_id[t] + 1) % GROUPS] = IF @ > 0 THEN @ - 1 ELSE @]
  /\ UNCHANGED scan

Depart(t) ==
  /\ cnt' = [cnt EXCEPT ![GroupOf(t)] = @ - 1]
  /\ UNCHANGED scan

\* Variant for sensitivity: query() goes on after the last group.
SeeEmptyPast(t) ==
  /\ cnt[scan[t]] = 0
  /\ scan[t] < GROUPS
  /\ scan' = [scan EXCEPT ![t] = @ + 1]
  /\ UNCHANGED cnt

\* query() looks at one more group and finds nobody; it goes on.
SeeEmpty(t) ==
  /\ cnt[scan[t]] = 0
  /\ scan[t] < GROUPS - 1
  /\ scan' = [scan EXCEPT ![t] = @ + 1]
  /\ UNCHANGED cnt

\* query() returns true; the caller pauses and calls it again.
SeeReader(t) ==
  /\ cnt[scan[t]] > 0
  /\ scan' = [scan EXCEPT ![t] = 0]
  /\ UNCHANGED cnt

\* Variant for sensitivity: query() misses the last group.
SeeNobodyShort(t) ==
  /\ scan[t] = GROUPS - 1
  /\ scan' = [scan EXCEPT ![t] = 0]
  /\ UNCHANGED cnt

\* query() has found all groups empty and returns false.
SeeNobody(t) ==
  /\ cnt[scan[t]] = 0
  /\ scan[t] = GROUPS - 1
  /\ scan' = [scan EXCEPT ![t] = 0]
  /\ UNCHANGED cnt

=============================================================================
