-------------------------- MODULE MRHQDLockProofs ---------------------------
(***************************************************************************)
(* Readers and writers exclude each other, operations run one at a time    *)
(* over all nodes, and none is left in a queue, for any finite number of   *)
(* threads, any nodes and groups, and every class over every lock.         *)
(***************************************************************************)
EXTENDS MRHQDLock, FiniteSetTheorems, TLAPS

-----------------------------------------------------------------------------
(* Identifiers of threads are distinct and dense *)

IdInv == IdTypeOK /\ IdsAccounted

\* Before any thread has an identifier there is none.
LEMMA IdInitInv == IdInit => IdInv
BY DEF IdInit, IdTypeOK, IdsAccounted, IdInv

\* get() gives out an identifier that nobody has.
LEMMA GetIdInv ==
  ASSUME IdInv, NEW t \in Thread, GetId(t)
  PROVE  IdInv'
<1> USE DEF IdInv, IdTypeOK
<1>1. CASE orphans = {}
  <2>1. /\ max_id' = max_id + 1 /\ orphans' = {}
        /\ thread_id' = [thread_id EXCEPT ![t] = max_id + 1]
    BY <1>1 DEF GetId
  <2>2. IdTypeOK'
    BY <2>1
  <2>3. \A u \in Thread : thread_id'[u] # 0 /\ thread_id'[t] = thread_id'[u] => t = u
    BY <2>1
  <2>4. \A id \in 1..max_id' : \E u \in Thread : thread_id'[u] = id
    <3> SUFFICES ASSUME NEW id \in 1..max_id' PROVE \E u \in Thread : thread_id'[u] = id
      OBVIOUS
    <3>1. CASE id = max_id + 1
      BY <2>1, <3>1
    <3>2. CASE id # max_id + 1
      <4>1. id \in 1..max_id
        BY <2>1, <3>2
      <4>2. PICK u \in Thread : thread_id[u] = id
        BY <1>1, <4>1 DEF IdsAccounted
      <4>3. u # t
        BY <4>1, <4>2 DEF GetId
      <4> QED
        BY <2>1, <4>2, <4>3
    <3> QED
      BY <3>1, <3>2
  <2>5. IdsAccounted'
    BY <2>1, <2>3, <2>4 DEF IdsAccounted
  <2> QED
    BY <2>2, <2>5
<1>2. CASE orphans # {}
  <2>1. PICK id \in orphans : /\ orphans' = orphans \ {id}
                              /\ thread_id' = [thread_id EXCEPT ![t] = id]
                              /\ max_id' = max_id
    BY <1>2 DEF GetId
  <2>2. thread_id[t] = 0
    BY DEF GetId
  <2>3. IdTypeOK'
    BY <2>1
  <2>4. IdsAccounted'
    BY <2>1, <2>2 DEF IdsAccounted
  <2> QED
    BY <2>3, <2>4
<1> QED
  BY <1>1, <1>2

\* free() leaves the identifiers in use and the orphans below the largest.
LEMMA FreeIdInv ==
  ASSUME IdInv, NEW t \in Thread, FreeId(t)
  PROVE  IdInv'
<1> USE DEF IdInv, IdTypeOK
<1>0. thread_id[t] # 0 /\ thread_id' = [thread_id EXCEPT ![t] = 0]
  BY DEF FreeId
<1>1. CASE thread_id[t] = max_id
  <2>1. /\ max_id' \in 0 .. max_id - 1 /\ max_id' \notin orphans
        /\ \A id \in max_id' + 1 .. max_id - 1 : id \in orphans
        /\ orphans' = orphans \cap (1 .. max_id')
    BY <1>1 DEF FreeId
  <2>2. \A u \in Thread \ {t} : thread_id[u] \in 0 .. max_id'
    <3> SUFFICES ASSUME NEW u \in Thread, u # t PROVE thread_id[u] \in 0 .. max_id'
      OBVIOUS
    <3>1. thread_id[u] # max_id
      BY <1>0, <1>1 DEF IdsAccounted
    <3>2. thread_id[u] \notin orphans
      <4>1. thread_id[u] \in orphans => thread_id[u] \in 1..max_id
        OBVIOUS
      <4> QED
        BY <4>1 DEF IdsAccounted
    <3>3. thread_id[u] \in 0 .. max_id
      OBVIOUS
    <3>4. CASE thread_id[u] <= max_id'
      BY <2>1, <3>3, <3>4
    <3>5. CASE thread_id[u] > max_id'
      <4>1. thread_id[u] \in max_id' + 1 .. max_id - 1
        BY <2>1, <3>1, <3>3, <3>5
      <4> QED
        BY <2>1, <3>2, <4>1
    <3> QED
      BY <2>1, <3>3, <3>4, <3>5
  <2>3. IdTypeOK'
    BY <1>0, <2>1, <2>2
  <2>4. IdsAccounted'
    BY <1>0, <1>1, <2>1, <2>2 DEF IdsAccounted
  <2> QED
    BY <2>3, <2>4
<1>2. CASE thread_id[t] # max_id
  <2>1. orphans' = orphans \cup {thread_id[t]} /\ max_id' = max_id
    BY <1>2 DEF FreeId
  <2>2. IdTypeOK'
    <3>1. thread_id[t] \in 1..max_id
      BY <1>0
    <3>2. orphans' \in SUBSET (1..max_id')
      BY <2>1, <3>1
    <3>3. thread_id' \in [Thread -> 0..max_id']
      BY <1>0, <2>1
    <3> QED
      BY <2>1, <3>2, <3>3
  <2>3. IdsAccounted'
    BY <1>0, <1>2, <2>1 DEF IdsAccounted
  <2> QED
    BY <2>2, <2>3
<1> QED
  BY <1>1, <1>2

-----------------------------------------------------------------------------
(* The inductive invariant *)

\* What get_qd() can return, and the places of a call that go with a lock.
Base == IF HasNodes THEN Node ELSE {Top}
HasNodeLock == {"global", "open", "readers", "run", "flush", "globalUnlock", "nodeUnlock"}
HasTopLock == {"open", "readers", "run", "flush", "globalUnlock"}
NeedsNode == {"barrier", "try", "enqueue", "acquire", "lock"} \cup HasNodeLock
Counted == {"look", "depart", "lower", "reading"}

\* Types; how large the counters get follows from ReadersAccounted.
TypeInv ==
  /\ IdTypeOK
  /\ cnt \in [Group -> Int]
  /\ scan \in [Thread -> Group]
  /\ template \in Template
  /\ holder \in [Lock -> Thread \cup {NoThread}]
  /\ flag \in BOOLEAN /\ buffered \in BOOLEAN
  /\ session \in [Lock -> BOOLEAN]
  /\ stored \in [Lock -> 0..CAPACITY]
  /\ writeBarrier \in Int
  /\ pc \in [Thread -> {"idle"} \cup ReaderPc \cup WriterPc]
  /\ role \in [Thread -> {"executor", "helper", "user"}]
  /\ node \in [Thread -> Lock \cup {NoNode}]
  /\ patience \in [Thread -> 0 .. PATIENCE + 1]
  /\ raised \in [Thread -> BOOLEAN]

\* Which node, role and reader's locals go with each place of a call.
Place(t) ==
  /\ node[t] \in Base \cup {NoNode}
  /\ pc[t] \in NeedsNode => node[t] \in Base
  /\ role[t] = "user" => t \in LockUsers
  /\ pc[t] \in {"open", "flush"} => role[t] = "helper"
  /\ pc[t] \in {"global", "globalUnlock"} => HasNodes
  /\ pc[t] \in ReaderPc => HasReaders
  /\ pc[t] = "raise" => ~raised[t]
  /\ pc[t] = "lower" => raised[t]
  /\ pc[t] # "readers" => scan[t] = 0

PlaceOK == \A t \in Thread : Place(t)

\* A thread at a place that needs a lock has it; the lock of a node only as
\* long as no unlock() of another thread can release it.
Holds(t) ==
  /\ pc[t] \in HasNodeLock /\ NodeIsKept => holder[node[t]] = t
  /\ pc[t] \in HasTopLock /\ HasNodes => holder[Top] = t

HolderOK == \A t \in Thread : Holds(t)

\* A queue is open only while its helper, which has the lock that readers look
\* at, waits for readers or runs operations.
SessionOK ==
  \A l \in Lock :
    /\ session[l] => /\ holder[Top] \in Thread
                     /\ node[holder[Top]] = l
                     /\ role[holder[Top]] = "helper"
                     /\ pc[holder[Top]] \in {"readers", "run", "flush"}
    /\ stored[l] > 0 => session[l]

\* A reader that is in is in a group the writer has yet to look at.
ReadersSeen ==
  template.lockKind = "word" =>
    \A t, u \in Thread : Reading(u) =>
      /\ pc[t] \notin {"run", "flush"}
      /\ pc[t] = "readers" => GroupOf(u) >= scan[t]

IInv == TypeInv /\ IdsAccounted /\ PlaceOK /\ HolderOK /\ SessionOK
        /\ ReadersAccounted /\ ReadersSeen

-----------------------------------------------------------------------------
(* What a step leaves alone *)

\* Writers leave the readers' state alone, and move from place to place.
LEMMA WriterFrame ==
  ASSUME TypeInv, NEW t \in Thread, WriterStep(t)
  PROVE  /\ UNCHANGED <<idVars, cnt, template, writeBarrier, reader>>
         /\ pc[t] \in WriterPc
         /\ pc'[t] \in WriterPc \cup {"idle"}
         /\ pc' = [pc EXCEPT ![t] = pc'[t]]
         /\ \A u \in Thread \ {t} :
              node'[u] = node[u] /\ role'[u] = role[u] /\ scan'[u] = scan[u]
<1> USE DEF TypeInv, Go, WriterPc, AfterNode, idVars, reader, groupVars, queues
<1>1. CASE PassBarrier(t)
  BY <1>1 DEF PassBarrier
<1>2. CASE TryLock(t)
  BY <1>2 DEF TryLock
<1>3. CASE TryLockBusy(t)
  BY <1>3 DEF TryLockBusy
<1>4. CASE EnqueueAccepted(t)
  BY <1>4 DEF EnqueueAccepted, Return
<1>5. CASE EnqueueRefused(t)
  BY <1>5 DEF EnqueueRefused
<1>6. CASE Acquire(t)
  BY <1>6 DEF Acquire
<1>7. CASE AcquireFails(t)
  BY <1>7 DEF AcquireFails
<1>8. CASE LockNode(t)
  BY <1>8 DEF LockNode
<1>9. CASE LockGlobal(t)
  BY <1>9 DEF LockGlobal
<1>10. CASE Open(t)
  BY <1>10 DEF Open
<1>11. CASE WaitReaders(t)
  BY <1>11 DEF WaitReaders, SeeReader, SeeEmpty, SeeNobody
<1>12. CASE Run(t)
  BY <1>12 DEF Run
<1>13. CASE FlushRun(t)
  BY <1>13 DEF FlushRun
<1>14. CASE FlushClose(t)
  BY <1>14 DEF FlushClose
<1>15. CASE UnlockGlobal(t)
  BY <1>15 DEF UnlockGlobal
<1>16. CASE UnlockNode(t)
  BY <1>16 DEF UnlockNode, Return
<1>17. CASE UnlockHangs(t)
  BY <1>17 DEF UnlockHangs
<1> QED
  BY <1>1, <1>2, <1>3, <1>4, <1>5, <1>6, <1>7, <1>8, <1>9, <1>10, <1>11,
     <1>12, <1>13, <1>14, <1>15, <1>16, <1>17 DEF WriterStep

\* Readers leave the locks, the queues and what writers remember alone.
LEMMA ReaderFrame ==
  ASSUME TypeInv, NEW t \in Thread, ReaderStep(t)
  PROVE  /\ UNCHANGED <<scan, template, holder, topFlag, queues, role, node>>
         /\ pc[t] \in ReaderPc
         /\ pc'[t] \in ReaderPc \cup {"idle"}
         /\ pc' = [pc EXCEPT ![t] = pc'[t]]
         /\ pc[t] # "arrive" => UNCHANGED idVars
         /\ \A u \in Thread \ {t} : raised'[u] = raised[u]
<1> USE DEF TypeInv, Go, ReaderPc, groupVars, reader
<1>1. CASE FirstUse(t)
  BY <1>1 DEF FirstUse
<1>2. CASE RArrive(t)
  BY <1>2 DEF RArrive, Arrive
<1>3. CASE Look(t)
  BY <1>3 DEF Look
<1>4. CASE BackOff(t)
  BY <1>4 DEF BackOff, Depart
<1>5. CASE Spin(t)
  BY <1>5 DEF Spin
<1>6. CASE Raise(t)
  BY <1>6 DEF Raise
<1>7. CASE Lower(t)
  BY <1>7 DEF Lower
<1>8. CASE RUnlock(t)
  BY <1>8 DEF RUnlock, Depart
<1> QED
  BY <1>1, <1>2, <1>3, <1>4, <1>5, <1>6, <1>7, <1>8 DEF ReaderStep

\* A call begins: an idle thread moves, with a node for it and, for lock(), the role of a user.
LEMMA BeginFrame ==
  ASSUME TypeInv, NEW t \in Thread, Begin(t)
  PROVE  /\ UNCHANGED <<idVars, groupVars, template, holder, topFlag, queues, writeBarrier, reader>>
         /\ pc[t] = "idle"
         /\ pc' = [pc EXCEPT ![t] = pc'[t]]
         /\ \/ /\ pc'[t] \in {"barrier", "try"} /\ role' = role
               /\ \E l \in Qd(t) : node' = [node EXCEPT ![t] = l]
            \/ /\ pc'[t] \in {"barrier", "lock"} /\ t \in LockUsers
               /\ role' = [role EXCEPT ![t] = "user"]
               /\ \E l \in Qd(t) : node' = [node EXCEPT ![t] = l]
            \/ pc'[t] = "arrive" /\ HasReaders /\ node' = node /\ role' = role
<1> USE DEF TypeInv, Go, BeginDelegate, BeginLock, HasNodes, HasReaders
<1>1. CASE DelegateMR(t)
  BY <1>1 DEF DelegateMR, Qd
<1>2. CASE DelegateH(t)
  BY <1>2 DEF DelegateH
<1>3. CASE DelegateMRH(t)
  BY <1>3 DEF DelegateMRH
<1>4. CASE LockMR(t)
  BY <1>4 DEF LockMR
<1>5. CASE LockH(t)
  BY <1>5 DEF LockH
<1>6. CASE LockMRH(t)
  BY <1>6 DEF LockMRH
<1>7. CASE CallRLock(t)
  BY <1>7 DEF CallRLock
<1> QED
  BY <1>1, <1>2, <1>3, <1>4, <1>5, <1>6, <1>7 DEF Begin

-----------------------------------------------------------------------------
(* Types *)

LEMMA WriterTypes ==
  ASSUME TypeInv, PlaceOK, NEW t \in Thread, WriterStep(t)
  PROVE  TypeInv'
<1> USE MRHAssumption, GroupsAssumption
    DEF TypeInv, Go, Lock, Template, Take, Release, Return, topFlag, queues, reader,
        groupVars, idVars
<1>1. /\ UNCHANGED <<idVars, cnt, template, writeBarrier, reader>>
      /\ pc' \in [Thread -> {"idle"} \cup ReaderPc \cup WriterPc]
  BY WriterFrame
<1>2. IdTypeOK'
  BY <1>1 DEF IdTypeOK
<1>3. node[t] \in Base => node[t] \in Lock
  BY DEF Base
<1>4. Qd(t) \subseteq Lock
  BY DEF Qd
<1>5. CASE PassBarrier(t)
  BY <1>1, <1>2, <1>5 DEF PassBarrier
<1>6. CASE TryLock(t)
  BY <1>1, <1>2, <1>3, <1>6 DEF TryLock, PlaceOK, Place, NeedsNode, HasNodeLock
<1>7. CASE TryLockBusy(t)
  BY <1>1, <1>2, <1>7 DEF TryLockBusy
<1>8. CASE EnqueueAccepted(t)
  BY <1>1, <1>2, <1>3, <1>8 DEF EnqueueAccepted, PlaceOK, Place, NeedsNode, HasNodeLock
<1>9. CASE EnqueueRefused(t)
  BY <1>1, <1>2, <1>9 DEF EnqueueRefused
<1>10. CASE Acquire(t)
  BY <1>1, <1>2, <1>3, <1>10 DEF Acquire, PlaceOK, Place, NeedsNode, HasNodeLock
<1>11. CASE AcquireFails(t)
  BY <1>1, <1>2, <1>11 DEF AcquireFails
<1>12. CASE LockNode(t)
  BY <1>1, <1>2, <1>3, <1>12 DEF LockNode, PlaceOK, Place, NeedsNode, HasNodeLock
<1>13. CASE LockGlobal(t)
  BY <1>1, <1>2, <1>13 DEF LockGlobal
<1>14. CASE Open(t)
  BY <1>1, <1>2, <1>3, <1>14 DEF Open, PlaceOK, Place, NeedsNode, HasNodeLock
<1>15. CASE WaitReaders(t)
  <2>1. scan' \in [Thread -> Group]
    <3>1. scan[t] \in Group /\ 0 \in Group
      BY DEF Group
    <3>2. scan[t] < GROUPS - 1 => scan[t] + 1 \in Group
      BY <3>1 DEF Group
    <3> QED
      BY <1>15, <3>1, <3>2 DEF WaitReaders, SeeReader, SeeEmpty, SeeNobody
  <2> QED
    BY <1>1, <1>2, <1>15, <2>1 DEF WaitReaders
<1>16. CASE Run(t)
  BY <1>1, <1>2, <1>16 DEF Run
<1>17. CASE FlushRun(t)
  BY <1>1, <1>2, <1>3, <1>17 DEF FlushRun, PlaceOK, Place, NeedsNode, HasNodeLock
<1>18. CASE FlushClose(t)
  BY <1>1, <1>2, <1>3, <1>18 DEF FlushClose, PlaceOK, Place, NeedsNode, HasNodeLock
<1>19. CASE UnlockGlobal(t)
  BY <1>1, <1>2, <1>19 DEF UnlockGlobal
<1>20. CASE UnlockNode(t)
  <2>1. Unlocked(t) \subseteq Lock
    BY <1>3, <1>4, <1>20 DEF UnlockNode, Unlocked, PlaceOK, Place, NeedsNode, HasNodeLock
  <2> QED
    BY <1>1, <1>2, <1>20, <2>1 DEF UnlockNode
<1>21. CASE UnlockHangs(t)
  BY <1>1, <1>2, <1>21 DEF UnlockHangs
<1> QED
  BY <1>5, <1>6, <1>7, <1>8, <1>9, <1>10, <1>11, <1>12, <1>13,
     <1>14, <1>15, <1>16, <1>17, <1>18, <1>19, <1>20, <1>21 DEF WriterStep

LEMMA ReaderTypes ==
  ASSUME TypeInv, IdsAccounted, NEW t \in Thread, ReaderStep(t)
  PROVE  TypeInv' /\ IdsAccounted'
<1> USE MRHAssumption, GroupsAssumption
    DEF TypeInv, topFlag, queues, reader, groupVars, GroupOf
<1>1. /\ UNCHANGED <<scan, template, holder, topFlag, queues, role, node>>
      /\ pc' \in [Thread -> {"idle"} \cup ReaderPc \cup WriterPc]
  BY ReaderFrame
<1>2. IdTypeOK' /\ IdsAccounted'
  <2>1. CASE FirstUse(t)
    BY <2>1, GetIdInv DEF FirstUse, IdInv
  <2>2. CASE ~FirstUse(t)
    <3>1. UNCHANGED idVars
      BY <2>2, ReaderFrame DEF ReaderStep, RArrive, Look, BackOff, Spin, Raise, Lower, RUnlock
    <3> QED
      BY <3>1 DEF idVars, IdTypeOK, IdsAccounted
  <2> QED
    BY <2>1, <2>2
<1>3. GroupOf(t) \in Group
  BY DEF Group, IdTypeOK
<1>4. cnt' \in [Group -> Int] /\ writeBarrier' \in Int /\ raised' \in [Thread -> BOOLEAN]
  <2>1. CASE FirstUse(t) \/ Look(t) \/ Spin(t)
    BY <2>1 DEF FirstUse, Look, Spin
  <2>2. CASE RArrive(t) \/ BackOff(t) \/ RUnlock(t)
    BY <1>3, <2>2 DEF RArrive, BackOff, RUnlock, Arrive, Depart
  <2>3. CASE Raise(t) \/ Lower(t)
    <3>1. cnt' = cnt /\ writeBarrier' \in Int
      BY <2>3 DEF Raise, Lower
    <3>2. \E b \in BOOLEAN : raised' = [raised EXCEPT ![t] = b]
      BY <2>3 DEF Raise, Lower
    <3> QED
      BY <3>1, <3>2
  <2> QED
    BY <2>1, <2>2, <2>3 DEF ReaderStep
<1>5. patience' \in [Thread -> 0 .. PATIENCE + 1]
  BY DEF ReaderStep, FirstUse, RArrive, Look, BackOff, Spin, Raise, Lower, RUnlock
<1> QED
  BY <1>1, <1>2, <1>4, <1>5

LEMMA OtherTypes ==
  ASSUME TypeInv, IdsAccounted, NEW t \in Thread, Begin(t) \/ ThreadEnd(t)
  PROVE  TypeInv' /\ IdsAccounted'
<1> USE MRHAssumption DEF TypeInv, topFlag, queues, reader, groupVars, idVars
<1>1. CASE Begin(t)
  <2>1. Qd(t) \subseteq Lock
    BY DEF Qd, Lock
  <2>2. pc'[t] \in {"idle"} \cup ReaderPc \cup WriterPc
    BY <1>1, BeginFrame DEF ReaderPc, WriterPc
  <2>3. IdTypeOK' /\ IdsAccounted'
    <3>1. UNCHANGED idVars
      BY <1>1, BeginFrame
    <3> QED
      BY <3>1 DEF IdTypeOK, IdsAccounted
  <2>4. /\ node' \in [Thread -> Lock \cup {NoNode}]
        /\ role' \in [Thread -> {"executor", "helper", "user"}]
    BY <1>1, <2>1, BeginFrame
  <2>5. pc' \in [Thread -> {"idle"} \cup ReaderPc \cup WriterPc]
    BY <1>1, <2>2, BeginFrame
  <2> QED
    BY <1>1, <2>3, <2>4, <2>5, BeginFrame
<1>2. CASE ThreadEnd(t)
  <2>1. IdTypeOK' /\ IdsAccounted'
    <3>1. CASE thread_id[t] = 0
      <4>1. UNCHANGED idVars
        BY <1>2, <3>1 DEF ThreadEnd
      <4> QED
        BY <4>1 DEF IdTypeOK, IdsAccounted
    <3>2. CASE thread_id[t] # 0
      BY <1>2, <3>2, FreeIdInv DEF ThreadEnd, IdInv
    <3> QED
      BY <3>1, <3>2
  <2> QED
    BY <1>2, <2>1 DEF ThreadEnd
<1> QED
  BY <1>1, <1>2

-----------------------------------------------------------------------------
(* Places *)

LEMMA WriterPlaces ==
  ASSUME TypeInv, PlaceOK, NEW t \in Thread, WriterStep(t)
  PROVE  PlaceOK'
<1>1. /\ UNCHANGED <<template, reader>> /\ pc' = [pc EXCEPT ![t] = pc'[t]]
      /\ \A u \in Thread \ {t} :
           node'[u] = node[u] /\ role'[u] = role[u] /\ scan'[u] = scan[u]
      /\ pc'[t] \in WriterPc \cup {"idle"}
  BY WriterFrame
<1>2. ASSUME NEW u \in Thread \ {t} PROVE Place(u)'
  <2>1. pc'[u] = pc[u]
    BY <1>1 DEF TypeInv
  <2> QED
    BY <1>1, <2>1 DEF PlaceOK, Place, Base, HasNodes, HasReaders, reader
<1>3. Place(t)'
  <2> USE MRHAssumption
      DEF TypeInv, Place, PlaceOK, Go, Return, NeedsNode, HasNodeLock, AfterNode,
          ReaderPc, Base, HasNodes, HasReaders, groupVars, reader
  <2>1. CASE PassBarrier(t)
    BY <1>1, <2>1 DEF PassBarrier
  <2>2. CASE TryLock(t)
    BY <1>1, <2>2 DEF TryLock
  <2>3. CASE TryLockBusy(t)
    BY <1>1, <2>3 DEF TryLockBusy
  <2>4. CASE EnqueueAccepted(t)
    BY <1>1, <2>4 DEF EnqueueAccepted
  <2>5. CASE EnqueueRefused(t)
    BY <1>1, <2>5 DEF EnqueueRefused
  <2>6. CASE Acquire(t)
    BY <1>1, <2>6 DEF Acquire
  <2>7. CASE AcquireFails(t)
    BY <1>1, <2>7 DEF AcquireFails
  <2>8. CASE LockNode(t)
    BY <1>1, <2>8 DEF LockNode
  <2>9. CASE LockGlobal(t)
    BY <1>1, <2>9 DEF LockGlobal
  <2>10. CASE Open(t)
    BY <1>1, <2>10 DEF Open
  <2>11. CASE WaitReaders(t)
    BY <1>1, <2>11 DEF WaitReaders, SeeReader, SeeEmpty, SeeNobody
  <2>12. CASE Run(t)
    BY <1>1, <2>12 DEF Run
  <2>13. CASE FlushRun(t)
    BY <1>1, <2>13 DEF FlushRun
  <2>14. CASE FlushClose(t)
    BY <1>1, <2>14 DEF FlushClose
  <2>15. CASE UnlockGlobal(t)
    BY <1>1, <2>15 DEF UnlockGlobal
  <2>16. CASE UnlockNode(t)
    BY <1>1, <2>16 DEF UnlockNode
  <2>17. CASE UnlockHangs(t)
    BY <1>1, <2>17 DEF UnlockHangs
  <2> QED
    BY <2>1, <2>2, <2>3, <2>4, <2>5, <2>6, <2>7, <2>8, <2>9, <2>10, <2>11,
       <2>12, <2>13, <2>14, <2>15, <2>16, <2>17 DEF WriterStep
<1> QED
  BY <1>2, <1>3 DEF PlaceOK

LEMMA ReaderPlaces ==
  ASSUME TypeInv, PlaceOK, NEW t \in Thread, ReaderStep(t)
  PROVE  PlaceOK'
<1> USE DEF TypeInv, PlaceOK, Place, NeedsNode, HasNodeLock, ReaderPc, Base, HasNodes, HasReaders
<1>1. /\ UNCHANGED <<scan, template, role, node>> /\ pc' = [pc EXCEPT ![t] = pc'[t]]
      /\ pc[t] \in ReaderPc /\ pc'[t] \in ReaderPc \cup {"idle"}
      /\ \A u \in Thread \ {t} : raised'[u] = raised[u]
  BY ReaderFrame
<1>2. pc'[t] = "raise" => ~raised'[t]
  BY <1>1 DEF ReaderStep, FirstUse, RArrive, Look, BackOff, Spin, Raise, Lower, RUnlock, Go, reader
<1>3. pc'[t] = "lower" => raised'[t]
  BY <1>1 DEF ReaderStep, FirstUse, RArrive, Look, BackOff, Spin, Raise, Lower, RUnlock, Go, reader
<1> QED
  BY <1>1, <1>2, <1>3

LEMMA OtherPlaces ==
  ASSUME TypeInv, PlaceOK, NEW t \in Thread, Begin(t) \/ ThreadEnd(t)
  PROVE  PlaceOK'
<1> USE DEF TypeInv, PlaceOK, Place, NeedsNode, HasNodeLock, ReaderPc, Base, HasNodes,
            HasReaders, groupVars, reader
<1>1. CASE Begin(t)
  <2>1. Qd(t) \subseteq Base
    BY DEF Qd
  <2> QED
    BY <1>1, <2>1, BeginFrame
<1>2. CASE ThreadEnd(t)
  BY <1>2 DEF ThreadEnd
<1> QED
  BY <1>1, <1>2

-----------------------------------------------------------------------------
(* Locks *)

\* Who waits for readers or runs operations has the lock that they look at.
LEMMA TopIsHeld ==
  ASSUME PlaceOK, HolderOK, NEW t \in Thread, pc[t] \in {"readers", "run", "flush"}
  PROVE  holder[Top] = t
BY DEF PlaceOK, Place, NeedsNode, HolderOK, Holds, HasNodeLock, HasTopLock, Base, NodeIsKept

\* unlock() finds the lock again that lock() took.
LEMMA SameNode ==
  ASSUME PlaceOK, HolderOK, NodeIsKept, NEW t \in Thread, pc[t] = "nodeUnlock"
  PROVE  Unlocked(t) = {node[t]} /\ node[t] \in Base /\ holder[node[t]] = t
<1>1. node[t] \in Base /\ holder[node[t]] = t
  BY DEF PlaceOK, Place, NeedsNode, HasNodeLock, HolderOK, Holds
<1>2. role[t] = "user" => Qd(t) = {node[t]}
  BY <1>1, MRHAssumption DEF Qd, PlaceOK, Place, Base, NodeIsKept
<1> QED
  BY <1>1, <1>2 DEF Unlocked

\* The last unlock of a call releases the lock of a node, of another thread
\* only if the node is looked up and can have changed.
LEMMA NodeUnlocked ==
  ASSUME PlaceOK, HolderOK, NEW t \in Thread, UnlockNode(t)
  PROVE  \E l \in Base : /\ Release(l)
                         /\ holder[l] = t \/ (l # Top /\ ~NodeIsKept)
<1>1. PICK l \in Unlocked(t) : Release(l)
  BY DEF UnlockNode
<1>2. CASE NodeIsKept
  BY <1>1, <1>2, SameNode DEF UnlockNode, Go
<1>3. CASE ~NodeIsKept
  <2>1. HasNodes
    BY <1>3 DEF NodeIsKept
  <2>2. Unlocked(t) \subseteq Node
    BY <2>1, MRHAssumption DEF Unlocked, Qd, UnlockNode, Go, PlaceOK, Place, NeedsNode, HasNodeLock, Base
  <2> QED
    BY <1>1, <1>3, <2>1, <2>2, MRHAssumption DEF Base
<1> QED
  BY <1>2, <1>3

\* A lock changes hands only from nobody to the thread that takes it, and
\* from its holder, or from another if unlock() can find it, to nobody.
LEMMA LocksMove ==
  ASSUME TypeInv, PlaceOK, HolderOK, NEW t \in Thread, WriterStep(t)
  PROVE  \/ holder' = holder
         \/ \E l \in Lock : holder[l] = NoThread /\ holder' = [holder EXCEPT ![l] = t]
         \/ \E l \in Lock : /\ holder' = [holder EXCEPT ![l] = NoThread]
                            /\ holder[l] = t \/ (l # Top /\ ~NodeIsKept)
<1> USE DEF PlaceOK, Place, NeedsNode, HasNodeLock, Base, Lock, Go, Take, Release
<1>1. CASE TryLock(t) \/ Acquire(t) \/ LockNode(t) \/ LockGlobal(t)
  BY <1>1 DEF TryLock, Acquire, LockNode, LockGlobal
<1>2. CASE UnlockGlobal(t)
  BY <1>2 DEF UnlockGlobal, HolderOK, Holds, HasTopLock
<1>3. CASE UnlockNode(t)
  BY <1>3, NodeUnlocked
<1>4. CASE ~(TryLock(t) \/ Acquire(t) \/ LockGlobal(t) \/ LockNode(t) \/ UnlockGlobal(t)
             \/ UnlockNode(t))
  BY <1>4 DEF WriterStep, PassBarrier, TryLockBusy, EnqueueAccepted, EnqueueRefused, AcquireFails,
              Open, WaitReaders, Run, FlushRun, FlushClose, UnlockHangs
<1> QED
  BY <1>1, <1>2, <1>3, <1>4

LEMMA WriterHolds ==
  ASSUME TypeInv, PlaceOK, HolderOK, NEW t \in Thread, WriterStep(t)
  PROVE  HolderOK'
<1>1. /\ UNCHANGED template /\ pc' = [pc EXCEPT ![t] = pc'[t]]
      /\ \A u \in Thread \ {t} : node'[u] = node[u]
  BY WriterFrame
<1>2. ASSUME NEW u \in Thread \ {t} PROVE Holds(u)'
  <2>1. pc'[u] = pc[u] /\ node'[u] = node[u]
    BY <1>1 DEF TypeInv
  <2>2. ASSUME NEW l \in Lock, holder[l] = u, NodeIsKept \/ l = Top PROVE holder'[l] = u
    BY <2>2, LocksMove, ThreadAssumption DEF TypeInv
  <2>3. pc[u] \in HasNodeLock => node[u] \in Lock
    BY DEF PlaceOK, Place, NeedsNode, Base, Lock
  <2> QED
    BY <1>1, <2>1, <2>2, <2>3 DEF HolderOK, Holds, Lock, HasNodes, NodeIsKept
<1>3. Holds(t)'
  <2> USE MRHAssumption
      DEF TypeInv, Place, PlaceOK, Holds, HolderOK, Go, Return, Take, Release, NeedsNode,
          HasNodeLock, HasTopLock, AfterNode, Base, Lock, HasNodes, HasReaders, NodeIsKept
  <2>1. CASE PassBarrier(t)
    BY <1>1, <2>1 DEF PassBarrier
  <2>2. CASE TryLock(t)
    BY <1>1, <2>2 DEF TryLock
  <2>3. CASE TryLockBusy(t)
    BY <1>1, <2>3 DEF TryLockBusy
  <2>4. CASE EnqueueAccepted(t)
    BY <1>1, <2>4 DEF EnqueueAccepted
  <2>5. CASE EnqueueRefused(t)
    BY <1>1, <2>5 DEF EnqueueRefused
  <2>6. CASE Acquire(t)
    BY <1>1, <2>6 DEF Acquire
  <2>7. CASE AcquireFails(t)
    BY <1>1, <2>7 DEF AcquireFails
  <2>8. CASE LockNode(t)
    BY <1>1, <2>8 DEF LockNode
  <2>9. CASE LockGlobal(t)
    BY <1>1, <2>9 DEF LockGlobal
  <2>10. CASE Open(t)
    BY <1>1, <2>10 DEF Open
  <2>11. CASE WaitReaders(t)
    BY <1>1, <2>11 DEF WaitReaders, SeeReader, SeeEmpty, SeeNobody
  <2>12. CASE Run(t)
    BY <1>1, <2>12 DEF Run
  <2>13. CASE FlushRun(t)
    BY <1>1, <2>13 DEF FlushRun
  <2>14. CASE FlushClose(t)
    BY <1>1, <2>14 DEF FlushClose
  <2>15. CASE UnlockGlobal(t)
    BY <1>1, <2>15 DEF UnlockGlobal
  <2>16. CASE UnlockNode(t)
    BY <1>1, <2>16 DEF UnlockNode
  <2>17. CASE UnlockHangs(t)
    BY <1>1, <2>17 DEF UnlockHangs
  <2> QED
    BY <2>1, <2>2, <2>3, <2>4, <2>5, <2>6, <2>7, <2>8, <2>9, <2>10, <2>11,
       <2>12, <2>13, <2>14, <2>15, <2>16, <2>17 DEF WriterStep
<1> QED
  BY <1>2, <1>3 DEF HolderOK

LEMMA OtherHolds ==
  ASSUME TypeInv, PlaceOK, HolderOK, NEW t \in Thread,
         ReaderStep(t) \/ Begin(t) \/ ThreadEnd(t)
  PROVE  HolderOK'
<1> USE DEF TypeInv, HolderOK, Holds, HasNodeLock, HasTopLock, HasNodes, NodeIsKept
<1>1. CASE ReaderStep(t)
  BY <1>1, ReaderFrame DEF ReaderPc
<1>2. CASE Begin(t)
  BY <1>2, BeginFrame
<1>3. CASE ThreadEnd(t)
  BY <1>3 DEF ThreadEnd
<1> QED
  BY <1>1, <1>2, <1>3

-----------------------------------------------------------------------------
(* Sessions *)

LEMMA WriterSessions ==
  ASSUME TypeInv, PlaceOK, HolderOK, SessionOK, NEW t \in Thread, WriterStep(t)
  PROVE  SessionOK'
<1>0. ASSUME UnlockNode(t), holder[Top] # t PROVE holder'[Top] = holder[Top]
  <2>1. PICK k \in Base : Release(k) /\ (holder[k] = t \/ k # Top)
    BY <1>0, NodeUnlocked
  <2> QED
    BY <1>0, <2>1 DEF Release, TypeInv
<1>1. /\ pc' = [pc EXCEPT ![t] = pc'[t]]
      /\ \A u \in Thread \ {t} : node'[u] = node[u] /\ role'[u] = role[u]
  BY WriterFrame
<1>2. ASSUME NEW l \in Lock PROVE
        /\ session'[l] => /\ holder'[Top] \in Thread
                          /\ node'[holder'[Top]] = l
                          /\ role'[holder'[Top]] = "helper"
                          /\ pc'[holder'[Top]] \in {"readers", "run", "flush"}
        /\ stored'[l] > 0 => session'[l]
  <2> USE MRHAssumption, ThreadAssumption
      DEF TypeInv, Place, PlaceOK, Holds, HolderOK, SessionOK, Go, Return, Take, Release, NeedsNode,
          HasNodeLock, HasTopLock, AfterNode, Base, Lock, HasNodes, HasReaders, NodeIsKept, queues
  <2>1. CASE PassBarrier(t)
    BY <1>1, <2>1 DEF PassBarrier
  <2>2. CASE TryLock(t)
    BY <1>1, <2>2 DEF TryLock
  <2>3. CASE TryLockBusy(t)
    BY <1>1, <2>3 DEF TryLockBusy
  <2>4. CASE EnqueueAccepted(t)
    BY <1>1, <2>4 DEF EnqueueAccepted
  <2>5. CASE EnqueueRefused(t)
    BY <1>1, <2>5 DEF EnqueueRefused
  <2>6. CASE Acquire(t)
    BY <1>1, <2>6 DEF Acquire
  <2>7. CASE AcquireFails(t)
    BY <1>1, <2>7 DEF AcquireFails
  <2>8. CASE LockNode(t)
    BY <1>1, <2>8 DEF LockNode
  <2>9. CASE LockGlobal(t)
    BY <1>1, <2>9 DEF LockGlobal
  <2>10. CASE Open(t)
    BY <1>1, <2>10 DEF Open
  <2>11. CASE WaitReaders(t)
    BY <1>1, <2>11 DEF WaitReaders, SeeReader, SeeEmpty, SeeNobody
  <2>12. CASE Run(t)
    BY <1>1, <2>12 DEF Run
  <2>13. CASE FlushRun(t)
    BY <1>1, <2>13 DEF FlushRun
  <2>14. CASE FlushClose(t)
    BY <1>1, <2>14 DEF FlushClose
  <2>15. CASE UnlockGlobal(t)
    BY <1>1, <2>15 DEF UnlockGlobal
  <2>16. CASE UnlockNode(t)
    <3>1. session' = session /\ stored' = stored /\ pc[t] = "nodeUnlock"
      BY <2>16 DEF UnlockNode
    <3>2. session[l] => holder'[Top] = holder[Top] /\ holder[Top] # t
      BY <1>0, <2>16, <3>1
    <3> QED
      BY <1>1, <3>1, <3>2
  <2>17. CASE UnlockHangs(t)
    BY <1>1, <2>17 DEF UnlockHangs
  <2> QED
    BY <2>1, <2>2, <2>3, <2>4, <2>5, <2>6, <2>7, <2>8, <2>9, <2>10, <2>11,
       <2>12, <2>13, <2>14, <2>15, <2>16, <2>17 DEF WriterStep
<1> QED
  BY <1>2 DEF SessionOK

LEMMA OtherSessions ==
  ASSUME TypeInv, SessionOK, NEW t \in Thread,
         ReaderStep(t) \/ Begin(t) \/ ThreadEnd(t)
  PROVE  SessionOK'
<1> USE DEF TypeInv, SessionOK, queues
<1>1. CASE ReaderStep(t)
  BY <1>1, ReaderFrame DEF ReaderPc
<1>2. CASE Begin(t)
  BY <1>2, BeginFrame
<1>3. CASE ThreadEnd(t)
  BY <1>3 DEF ThreadEnd
<1> QED
  BY <1>1, <1>2, <1>3

-----------------------------------------------------------------------------
(* Counting readers *)

RaisedSet == {t \in Thread : raised[t]}
InGroup(g) == {t \in Thread : pc[t] \in Counted /\ GroupOf(t) = g}

LEMMA OneMore ==
  ASSUME NEW S \in SUBSET Thread, NEW t \in Thread \ S
  PROVE  Cardinality(S \cup {t}) = Cardinality(S) + 1
BY GroupsAssumption, FS_Subset, FS_AddElement

LEMMA OneLess ==
  ASSUME NEW S \in SUBSET Thread, NEW t \in S
  PROVE  Cardinality(S \ {t}) = Cardinality(S) - 1
BY GroupsAssumption, FS_Subset, FS_RemoveElement

LEMMA GroupInRange ==
  ASSUME IdTypeOK, NEW t \in Thread
  PROVE  GroupOf(t) \in Group
BY GroupsAssumption DEF IdTypeOK, GroupOf, Group

LEMMA AccountedMeans ==
  /\ ReadersAccounted <=>
       /\ writeBarrier = Cardinality(RaisedSet)
       /\ \A g \in Group : cnt[g] = Cardinality(InGroup(g))
  /\ ReadersAccounted' <=>
       /\ writeBarrier' = Cardinality(RaisedSet')
       /\ \A g \in Group : cnt'[g] = Cardinality(InGroup(g)')
BY DEF ReadersAccounted, RaisedSet, InGroup, Counted

\* Steps that neither raise nor lower, arrive nor depart.
LEMMA SameReaders ==
  ASSUME ReadersAccounted, UNCHANGED <<cnt, writeBarrier, raised>>,
         \A u \in Thread : /\ pc'[u] \in Counted <=> pc[u] \in Counted
                           /\ pc[u] \in Counted => thread_id'[u] = thread_id[u]
  PROVE  ReadersAccounted'
<1>1. RaisedSet' = RaisedSet
  BY DEF RaisedSet
<1>2. \A g \in Group : InGroup(g)' = InGroup(g)
  BY DEF InGroup, GroupOf
<1> QED
  BY <1>1, <1>2, AccountedMeans

\* Who is counted in a group leaves it, or somebody who is not comes.
LEMMA GroupGrows ==
  ASSUME TypeInv, ReadersAccounted, NEW t \in Thread, pc[t] \notin Counted,
         Arrive(t), UNCHANGED <<writeBarrier, raised, thread_id>>,
         NEW to \in Counted, pc' = [pc EXCEPT ![t] = to]
  PROVE  ReadersAccounted'
<1>1. RaisedSet' = RaisedSet
  BY DEF RaisedSet
<1>2. GroupOf(t) \in Group
  BY GroupInRange DEF TypeInv
<1>3. ASSUME NEW g \in Group PROVE cnt'[g] = Cardinality(InGroup(g)')
  <2>1. CASE g = GroupOf(t)
    <3>1. InGroup(g)' = InGroup(g) \cup {t}
      BY <2>1 DEF InGroup, GroupOf, TypeInv
    <3>2. t \notin InGroup(g) /\ InGroup(g) \subseteq Thread
      BY DEF InGroup
    <3>3. cnt'[g] = cnt[g] + 1
      BY <1>2, <2>1 DEF Arrive, TypeInv
    <3> QED
      BY <3>1, <3>2, <3>3, OneMore, AccountedMeans
  <2>2. CASE g # GroupOf(t)
    <3>1. InGroup(g)' = InGroup(g)
      BY <2>2 DEF InGroup, GroupOf, TypeInv
    <3>2. cnt'[g] = cnt[g]
      BY <1>2, <2>2 DEF Arrive, TypeInv
    <3> QED
      BY <3>1, <3>2, AccountedMeans
  <2> QED
    BY <2>1, <2>2
<1> QED
  BY <1>1, <1>3, AccountedMeans

LEMMA GroupShrinks ==
  ASSUME TypeInv, ReadersAccounted, NEW t \in Thread, pc[t] \in Counted,
         Depart(t), UNCHANGED <<writeBarrier, raised, thread_id>>,
         NEW to, to \notin Counted, pc' = [pc EXCEPT ![t] = to]
  PROVE  ReadersAccounted'
<1>1. RaisedSet' = RaisedSet
  BY DEF RaisedSet
<1>2. GroupOf(t) \in Group
  BY GroupInRange DEF TypeInv
<1>3. ASSUME NEW g \in Group PROVE cnt'[g] = Cardinality(InGroup(g)')
  <2>1. CASE g = GroupOf(t)
    <3>1. InGroup(g)' = InGroup(g) \ {t}
      BY <2>1 DEF InGroup, GroupOf, TypeInv
    <3>2. t \in InGroup(g) /\ InGroup(g) \subseteq Thread
      BY <2>1 DEF InGroup
    <3>3. cnt'[g] = cnt[g] - 1
      BY <1>2, <2>1 DEF Depart, TypeInv
    <3> QED
      BY <3>1, <3>2, <3>3, OneLess, AccountedMeans
  <2>2. CASE g # GroupOf(t)
    <3>1. InGroup(g)' = InGroup(g)
      BY <2>2 DEF InGroup, GroupOf, TypeInv
    <3>2. cnt'[g] = cnt[g]
      BY <1>2, <2>2 DEF Depart, TypeInv
    <3> QED
      BY <3>1, <3>2, AccountedMeans
  <2> QED
    BY <2>1, <2>2
<1> QED
  BY <1>1, <1>3, AccountedMeans

LEMMA ReaderCounts ==
  ASSUME TypeInv, PlaceOK, ReadersAccounted, NEW t \in Thread, ReaderStep(t)
  PROVE  ReadersAccounted'
<1> USE DEF TypeInv, Go, Counted, idVars, groupVars, reader
<1>1. CASE FirstUse(t)
  <2>1. \A u \in Thread \ {t} : thread_id'[u] = thread_id[u]
    BY <1>1 DEF FirstUse, GetId, IdTypeOK
  <2> QED
    BY <1>1, <2>1, SameReaders DEF FirstUse
<1>2. CASE RArrive(t)
  BY <1>2, GroupGrows DEF RArrive
<1>3. CASE Look(t)
  BY <1>3, SameReaders DEF Look
<1>4. CASE BackOff(t)
  BY <1>4, GroupShrinks DEF BackOff
<1>5. CASE Spin(t)
  BY <1>5, SameReaders DEF Spin
<1>6. CASE Raise(t)
  <2>1. RaisedSet' = RaisedSet \cup {t} /\ t \notin RaisedSet /\ RaisedSet \subseteq Thread
    BY <1>6 DEF Raise, RaisedSet, PlaceOK, Place
  <2>2. \A g \in Group : InGroup(g)' = InGroup(g)
    BY <1>6 DEF Raise, InGroup, GroupOf
  <2> QED
    BY <1>6, <2>1, <2>2, OneMore, AccountedMeans DEF Raise
<1>7. CASE Lower(t)
  <2>1. RaisedSet' = RaisedSet \ {t} /\ t \in RaisedSet /\ RaisedSet \subseteq Thread
    BY <1>7 DEF Lower, RaisedSet, PlaceOK, Place
  <2>2. \A g \in Group : InGroup(g)' = InGroup(g)
    BY <1>7 DEF Lower, InGroup, GroupOf
  <2> QED
    BY <1>7, <2>1, <2>2, OneLess, AccountedMeans DEF Lower
<1>8. CASE RUnlock(t)
  BY <1>8, GroupShrinks DEF RUnlock
<1> QED
  BY <1>1, <1>2, <1>3, <1>4, <1>5, <1>6, <1>7, <1>8 DEF ReaderStep

LEMMA OtherCounts ==
  ASSUME TypeInv, ReadersAccounted, NEW t \in Thread,
         WriterStep(t) \/ Begin(t) \/ ThreadEnd(t)
  PROVE  ReadersAccounted'
<1> USE SameReaders DEF TypeInv, Counted, idVars, groupVars, reader
<1>1. CASE WriterStep(t)
  BY <1>1, WriterFrame DEF WriterPc
<1>2. CASE Begin(t)
  BY <1>2, BeginFrame
<1>3. CASE ThreadEnd(t)
  <2>1. \A u \in Thread \ {t} : thread_id'[u] = thread_id[u]
    BY <1>3 DEF ThreadEnd, FreeId, IdTypeOK
  <2> QED
    BY <1>3, <2>1 DEF ThreadEnd
<1> QED
  BY <1>1, <1>2, <1>3

-----------------------------------------------------------------------------
(* Readers and writers *)

\* A reader passes the writer's position in the groups only to go away.
LEMMA WriterSees ==
  ASSUME TypeInv, PlaceOK, HolderOK, ReadersAccounted, ReadersSeen, NEW t \in Thread, WriterStep(t)
  PROVE  ReadersSeen'
<1>1. /\ UNCHANGED <<thread_id, cnt, template>> /\ pc' = [pc EXCEPT ![t] = pc'[t]]
      /\ pc[t] \in WriterPc /\ pc'[t] \in WriterPc \cup {"idle"}
      /\ \A u \in Thread \ {t} : scan'[u] = scan[u]
  BY WriterFrame DEF idVars
<1>2. SUFFICES ASSUME template.lockKind = "word", NEW r \in Thread, NEW w \in Thread, Reading(r)'
               PROVE  /\ pc'[w] \notin {"run", "flush"}
                      /\ pc'[w] = "readers" => GroupOf(r)' >= scan'[w]
  BY <1>1 DEF ReadersSeen
<1>3. Reading(r) /\ r # t /\ GroupOf(r)' = GroupOf(r) /\ GroupOf(r) \in Group
  <2>1. Reading(r) /\ r # t
    BY <1>1, <1>2 DEF Reading, WriterPc, TypeInv
  <2>2. GroupOf(r)' = GroupOf(r)
    BY <1>1 DEF GroupOf
  <2>3. GroupOf(r) \in Group
    BY GroupInRange DEF TypeInv
  <2> QED
    BY <2>1, <2>2, <2>3
<1>4. CASE w # t
  <2>1. pc'[w] = pc[w] /\ scan'[w] = scan[w]
    BY <1>1, <1>4 DEF TypeInv
  <2> QED
    BY <1>2, <1>3, <2>1 DEF ReadersSeen
<1>5. CASE w = t /\ ~WaitReaders(t)
  <2>1. HasReaders
    BY <1>3 DEF PlaceOK, Place, Reading, ReaderPc
  <2>2. pc'[t] \in {"run", "flush"} => pc[t] \in {"run", "flush"}
    BY <1>1, <1>5, <2>1 DEF WriterStep, PassBarrier, TryLock, TryLockBusy, EnqueueAccepted,
       EnqueueRefused, Acquire, AcquireFails, LockNode, LockGlobal, Open, Run, FlushRun, FlushClose,
       UnlockGlobal, UnlockNode, UnlockHangs, Go, AfterNode, TypeInv
  <2>3. pc'[t] = "readers" => pc[t] # "readers" /\ scan' = scan
    BY <1>1, <1>5, <2>1 DEF WriterStep, PassBarrier, TryLock, TryLockBusy, EnqueueAccepted,
       EnqueueRefused, Acquire, AcquireFails, LockNode, LockGlobal, Open, Run, FlushRun, FlushClose,
       UnlockGlobal, UnlockNode, UnlockHangs, Go, AfterNode, TypeInv, groupVars
  <2> QED
    BY <1>2, <1>3, <1>5, <2>2, <2>3 DEF PlaceOK, Place, ReadersSeen, Group
<1>6. CASE w = t /\ WaitReaders(t)
  <2>1. GroupOf(r) >= scan[t]
    BY <1>2, <1>3, <1>6 DEF WaitReaders, Go, ReadersSeen
  <2>2. cnt[scan[t]] = 0 => GroupOf(r) # scan[t]
    <3>1. r \in InGroup(GroupOf(r)) /\ IsFiniteSet(InGroup(GroupOf(r)))
      BY <1>3, GroupsAssumption, FS_Subset DEF InGroup, Reading, Counted
    <3>2. Cardinality(InGroup(GroupOf(r))) # 0
      BY <3>1, FS_EmptySet
    <3> QED
      BY <1>3, <3>2, AccountedMeans
  <2> QED
    BY <1>2, <1>3, <1>6, <2>1, <2>2 DEF WaitReaders, SeeReader, SeeEmpty,
       SeeNobody, Go, TypeInv, Group
<1> QED
  BY <1>4, <1>5, <1>6

\* A reader goes in only past a lock that nobody has.
LEMMA ReaderSees ==
  ASSUME TypeInv, PlaceOK, HolderOK, ReadersSeen, NEW t \in Thread, ReaderStep(t)
  PROVE  ReadersSeen'
<1>1. /\ UNCHANGED <<scan, template>> /\ pc' = [pc EXCEPT ![t] = pc'[t]]
      /\ pc[t] \in ReaderPc /\ pc'[t] \in ReaderPc \cup {"idle"}
      /\ pc[t] # "arrive" => UNCHANGED thread_id
  BY ReaderFrame DEF idVars
<1>2. SUFFICES ASSUME template.lockKind = "word", NEW r \in Thread, NEW w \in Thread, Reading(r)'
               PROVE  /\ pc'[w] \notin {"run", "flush"}
                      /\ pc'[w] = "readers" => GroupOf(r)' >= scan'[w]
  BY <1>1 DEF ReadersSeen
<1>3. CASE w = t
  BY <1>1, <1>3 DEF ReaderPc, TypeInv
<1>4. CASE w # t /\ (r # t \/ Reading(t))
  <2>1. pc[r] # "arrive" /\ Reading(r)
    BY <1>1, <1>2, <1>4 DEF Reading, TypeInv
  <2>2. GroupOf(r)' = GroupOf(r)
    <3>1. thread_id'[r] = thread_id[r]
      <4>1. CASE FirstUse(t)
        BY <2>1, <4>1 DEF FirstUse, GetId, TypeInv, IdTypeOK
      <4>2. CASE ~FirstUse(t)
        BY <4>2 DEF ReaderStep, RArrive, Look, BackOff, Spin, Raise, Lower, RUnlock, idVars
      <4> QED
        BY <4>1, <4>2
    <3> QED
      BY <3>1 DEF GroupOf
  <2> QED
    BY <1>1, <1>2, <1>4, <2>1, <2>2 DEF ReadersSeen, TypeInv
<1>5. CASE w # t /\ r = t /\ ~Reading(t)
  <2>1. Look(t) /\ ~IsLocked
    BY <1>1, <1>2, <1>5 DEF Reading, ReaderStep, FirstUse, RArrive, Look, BackOff, Spin, Raise, Lower,
       RUnlock, Go, TypeInv
  <2>2. pc[w] \notin {"readers", "run", "flush"}
    BY <1>2, <2>1, TopIsHeld, ThreadAssumption DEF IsLocked
  <2> QED
    BY <1>1, <1>5, <2>2 DEF TypeInv
<1> QED
  BY <1>3, <1>4, <1>5

LEMMA OtherSees ==
  ASSUME TypeInv, ReadersSeen, NEW t \in Thread,
         Begin(t) \/ ThreadEnd(t)
  PROVE  ReadersSeen'
<1> USE DEF TypeInv, ReadersSeen, Reading, GroupOf, idVars, groupVars
<1>1. CASE Begin(t)
  BY <1>1, BeginFrame
<1>2. CASE ThreadEnd(t)
  <2>1. \A u \in Thread \ {t} : thread_id'[u] = thread_id[u]
    BY <1>2 DEF ThreadEnd, FreeId, IdTypeOK
  <2> QED
    BY <1>2, <2>1 DEF ThreadEnd
<1> QED
  BY <1>1, <1>2

-----------------------------------------------------------------------------
(* The invariant *)

LEMMA InitInv == Init => IInv
<1> SUFFICES ASSUME Init PROVE IInv
  OBVIOUS
<1> USE MRHAssumption, GroupsAssumption DEF Init, GroupsInit
<1>1. IdTypeOK /\ IdsAccounted
  BY IdInitInv DEF IdInv
<1>2. TypeInv
  <2>1. 0 \in Group /\ template \in Template
    BY DEF Group
  <2>2. session \in [Lock -> BOOLEAN] /\ raised \in [Thread -> BOOLEAN]
    OBVIOUS
  <2>3. cnt \in [Group -> Int] /\ scan \in [Thread -> Group] /\ stored \in [Lock -> 0..CAPACITY]
    BY <2>1
  <2>4. holder \in [Lock -> Thread \cup {NoThread}] /\ node \in [Thread -> Lock \cup {NoNode}]
    OBVIOUS
  <2>5. /\ pc \in [Thread -> {"idle"} \cup ReaderPc \cup WriterPc]
        /\ role \in [Thread -> {"executor", "helper", "user"}]
        /\ patience \in [Thread -> 0 .. PATIENCE + 1]
    OBVIOUS
  <2> QED
    BY <1>1, <2>1, <2>2, <2>3, <2>4, <2>5 DEF TypeInv
<1>3. PlaceOK /\ HolderOK /\ SessionOK /\ ReadersSeen
  BY DEF PlaceOK, Place, HolderOK, Holds, SessionOK, ReadersSeen, NeedsNode, HasNodeLock,
         HasTopLock, ReaderPc, Reading
<1>4. ReadersAccounted
  <2>1. RaisedSet = {} /\ \A g \in Group : InGroup(g) = {}
    BY DEF RaisedSet, InGroup, Counted
  <2> QED
    BY <2>1, FS_EmptySet, AccountedMeans
<1> QED
  BY <1>1, <1>2, <1>3, <1>4 DEF IInv

\* The flag of a "flag" lock is seen by readers only.
LEMMA FlagInv ==
  ASSUME IInv, flag' \in BOOLEAN, buffered' \in BOOLEAN,
         UNCHANGED <<idVars, groupVars, template, holder, queues, writeBarrier, pc, role, node, reader>>
  PROVE  IInv'
<1> USE DEF IInv, idVars, groupVars, queues, reader
<1>1. IdTypeOK' /\ IdsAccounted'
  BY DEF TypeInv, IdTypeOK, IdsAccounted
<1>2. TypeInv'
  BY <1>1 DEF TypeInv
<1>3. PlaceOK' /\ HolderOK' /\ SessionOK'
  BY DEF PlaceOK, Place, Base, HasNodes, HasReaders, HolderOK, Holds, NodeIsKept, SessionOK
<1>4. ReadersAccounted'
  BY SameReaders DEF TypeInv
<1>5. ReadersSeen'
  BY DEF ReadersSeen, Reading, GroupOf
<1> QED
  BY <1>1, <1>2, <1>3, <1>4, <1>5

LEMMA StepInv == IInv /\ [Next]_vars => IInv'
<1> SUFFICES ASSUME IInv, [Next]_vars PROVE IInv'
  OBVIOUS
<1> USE DEF IInv
<1>1. ASSUME NEW t \in Thread, WriterStep(t) PROVE IInv'
  <2>1. TypeInv' /\ PlaceOK' /\ HolderOK' /\ SessionOK'
    BY <1>1, WriterTypes, WriterPlaces, WriterHolds, WriterSessions
  <2>2. ReadersAccounted' /\ ReadersSeen'
    BY <1>1, OtherCounts, WriterSees
  <2>3. IdsAccounted'
    BY <1>1, WriterFrame DEF idVars, IdsAccounted
  <2> QED
    BY <2>1, <2>2, <2>3
<1>2. ASSUME NEW t \in Thread, ReaderStep(t) PROVE IInv'
  BY <1>2, ReaderTypes, ReaderPlaces, OtherHolds, OtherSessions, ReaderCounts, ReaderSees
<1>3. ASSUME NEW t \in Thread, Begin(t) \/ ThreadEnd(t) PROVE IInv'
  BY <1>3, OtherTypes, OtherPlaces, OtherHolds, OtherSessions, OtherCounts, OtherSees
<1>4. ASSUME NEW t \in Thread, LowerFlag(t) PROVE IInv'
  BY <1>4, FlagInv DEF LowerFlag, TypeInv
<1>5. CASE Drain
  BY <1>5, FlagInv DEF Drain
<1>6. CASE UNCHANGED vars
  BY <1>6, FlagInv DEF vars, topFlag, TypeInv
<1> QED
  BY <1>1, <1>2, <1>3, <1>4, <1>5, <1>6 DEF Next, Step

-----------------------------------------------------------------------------
(* Theorems *)

THEOREM InvariantCorrect == Spec => []IInv
<1> QED
  BY InitInv, StepInv, PTL DEF Spec

\* The types, with counters that are bounded by the number of threads.
THEOREM TypeCorrect == Spec => []TypeOK
<1>1. IInv => TypeOK
  <2> SUFFICES ASSUME IInv PROVE TypeOK
    OBVIOUS
  <2>1. ASSUME NEW S \in SUBSET Thread PROVE Cardinality(S) \in 0 .. Cardinality(Thread)
    BY GroupsAssumption, FS_Subset, FS_CardinalityType
  <2>2. RaisedSet \subseteq Thread /\ \A g \in Group : InGroup(g) \subseteq Thread
    BY DEF RaisedSet, InGroup
  <2>3. /\ writeBarrier \in 0 .. Cardinality(Thread)
        /\ cnt \in [Group -> 0 .. Cardinality(Thread)]
    BY <2>1, <2>2, AccountedMeans DEF IInv, TypeInv
  <2> QED
    BY <2>3 DEF IInv, TypeInv, TypeOK, GroupsTypeOK
<1> QED
  BY <1>1, InvariantCorrect, PTL

\* Operations run one at a time over all the nodes.
THEOREM MutualExclusionCorrect == Spec => []MutualExclusion
<1>1. IInv => MutualExclusion
  BY TopIsHeld DEF IInv, MutualExclusion, Writing
<1> QED
  BY <1>1, InvariantCorrect, PTL

\* With a lock that is_locked() sees at once, no reader is in while an
\* operation runs, although query() reads the groups at different times.
THEOREM ReaderExclusionCorrect == Spec => []ReaderExclusion
<1>1. IInv => ReaderExclusion
  BY DEF IInv, ReadersSeen, ReaderExclusion, Writing
<1> QED
  BY <1>1, InvariantCorrect, PTL

\* Accepted operations have a helper that has the global lock and, unless an
\* unlock() can find another node than lock() did, the lock of its node.
THEOREM StoredIsHelpedCorrect == Spec => []StoredIsHelped
<1>1. IInv => StoredIsHelped
  <2> SUFFICES ASSUME IInv, NEW l \in Lock, stored[l] > 0
               PROVE  \E t \in Thread : /\ node[t] = l /\ role[t] = "helper"
                                        /\ holder[Top] = t /\ (NodeIsKept => holder[l] = t)
                                        /\ pc[t] \in {"readers", "run", "flush"}
    BY DEF StoredIsHelped
  <2>1. PICK t \in Thread : /\ holder[Top] = t /\ node[t] = l /\ role[t] = "helper"
                            /\ pc[t] \in {"readers", "run", "flush"}
    BY DEF IInv, SessionOK
  <2>2. NodeIsKept => holder[l] = t
    BY <2>1 DEF IInv, HolderOK, Holds, HasNodeLock
  <2> QED
    BY <2>1, <2>2
<1> QED
  BY <1>1, InvariantCorrect, PTL

\* The write barrier and the groups count the readers there are.
THEOREM ReadersAccountedCorrect == Spec => []ReadersAccounted
<1> QED
  BY InvariantCorrect, PTL DEF IInv

\* Identifiers are distinct, and none is lost.
THEOREM IdsAccountedCorrect == Spec => []IdsAccounted
<1> QED
  BY InvariantCorrect, PTL DEF IInv

\* With pinned threads unlock() releases a lock of the calling thread, in every
\* class, although it looks the node up again; and so does delegate().
THEOREM UnlocksOwnCorrect == Spec => UnlocksOwn
<1>1. ASSUME IInv, Next, NodeIsKept, NEW t \in Thread PROVE ReleasesOwn(t)
  <2> USE DEF IInv, TypeInv
  <2> SUFFICES ASSUME pc[t] \in {"globalUnlock", "nodeUnlock"}, pc'[t] # pc[t]
               PROVE  \E l \in Lock : holder[l] = t /\ holder' = [holder EXCEPT ![l] = NoThread]
    BY DEF ReleasesOwn
  <2>1. ASSUME NEW u \in Thread, Begin(u) \/ ThreadEnd(u) \/ LowerFlag(u) \/ ReaderStep(u) PROVE FALSE
    BY <1>1, <2>1, BeginFrame, ReaderFrame DEF ThreadEnd, LowerFlag, ReaderPc
  <2>2. ~Drain
    BY <1>1 DEF Drain
  <2>3. PICK u \in Thread : WriterStep(u)
    BY <1>1, <2>1, <2>2 DEF Next, Step
  <2>4. u = t
    BY <1>1, <2>3, WriterFrame
  <2>5. UnlockGlobal(t) \/ UnlockNode(t) \/ UnlockHangs(t)
    BY <1>1, <2>3, <2>4 DEF WriterStep, PassBarrier, TryLock, TryLockBusy, EnqueueAccepted,
       EnqueueRefused, Acquire, AcquireFails, LockNode, LockGlobal, Open, WaitReaders, Run, FlushRun,
       FlushClose, Go
  <2>6. CASE UnlockGlobal(t)
    <3>1. Top \in Lock /\ holder[Top] = t
      BY <1>1, <2>6 DEF UnlockGlobal, Go, Lock, PlaceOK, Place, HolderOK, Holds, HasTopLock
    <3>2. holder' = [holder EXCEPT ![Top] = NoThread]
      BY <2>6 DEF UnlockGlobal, Release
    <3> QED
      BY <3>1, <3>2
  <2>7. CASE UnlockNode(t)
    <3>1. PICK l \in Base : Release(l) /\ holder[l] = t
      BY <1>1, <2>7, NodeUnlocked
    <3>2. l \in Lock /\ holder' = [holder EXCEPT ![l] = NoThread]
      BY <3>1 DEF Release, Lock, Base
    <3> QED
      BY <3>1, <3>2
  <2>8. ~UnlockHangs(t)
    BY <1>1, SameNode DEF UnlockHangs, Go
  <2> QED
    BY <2>5, <2>6, <2>7, <2>8
<1>2. IInv /\ [Next]_vars => [NodeIsKept => \A t \in Thread : ReleasesOwn(t)]_vars
  BY <1>1
<1> QED
  BY <1>2, InvariantCorrect, PTL DEF Spec, UnlocksOwn

=============================================================================
