------------------------- MODULE McsFutexLockProofs -------------------------
(***************************************************************************)
(* The lock of locks/mcs_futex_lock.hpp for any number of threads: one     *)
(* holder, the list of nodes in the order of the exchanges, no lost wake,  *)
(* and that it does what HandoffLock promises.                             *)
(*                                                                         *)
(* Everything but the wake follows from ListInv: the threads that have or  *)
(* wait for the lock form a chain without repetition, whose last one the   *)
(* word names, and a thread that is linked into it is the successor that   *)
(* the node before it knows.                                               *)
(***************************************************************************)
EXTENDS McsFutexLock, SequenceTheorems, TLAPS

-----------------------------------------------------------------------------
(* The chain *)

ChainPc == Holding \cup UnlinkedPc \cup SpinPc

OutOfChain(t) == \A i \in 0..Len(order) : Chain(i) # t

\* The threads of the chain are threads; its length is a number.
LEMMA ChainType ==
  ASSUME TypeOK
  PROVE  /\ Len(order) \in Nat
         /\ \A i \in 1..Len(order) : Chain(i) \in Thread /\ Chain(i) = order[i]
         /\ Chain(0) = owner
  BY DEF TypeOK, Chain

\* Only those who have the lock or queue for it are in the chain.
LEMMA Outside ==
  ASSUME ListInv, NEW t \in Thread, pc[t] \notin ChainPc
  PROVE  OutOfChain(t)
<1> SUFFICES ASSUME NEW i \in 0..Len(order), Chain(i) = t PROVE FALSE
  BY DEF OutOfChain
<1>1. PlaceOK(t)
  BY DEF ListInv
<1>2. CASE i = 0
  BY <1>1, <1>2 DEF PlaceOK, ChainPc, Chain
<1>3. CASE i # 0
  BY <1>1, <1>3 DEF PlaceOK, ChainPc
<1> QED
  BY <1>2, <1>3

\* The holder is the first of the chain and nowhere else in it.
LEMMA OwnerIsFirst ==
  ASSUME ListInv
  PROVE  \A i \in 1..Len(order) : order[i] # owner
<1> SUFFICES ASSUME NEW i \in 1..Len(order), order[i] = owner PROVE FALSE
  OBVIOUS
<1>1. Chain(i) = Chain(0)
  BY DEF Chain
<1>2. i \in 0..Len(order) /\ 0 \in 0..Len(order)
  BY DEF ListInv, TypeOK
<1> QED
  BY <1>1, <1>2 DEF ListInv, ChainOK

\* The word is free exactly when nobody has the lock or queues for it.
LEMMA FreeWord ==
  ASSUME ListInv
  PROVE  /\ locked = free <=> locked.node = NoThread
         /\ locked.node = NoThread <=> owner = NoThread
         /\ owner = NoThread => order = <<>>
         /\ order = <<>> <=> locked.node = owner
<1>1. locked = free <=> locked.node = NoThread
  BY DEF ListInv, TypeOK, Word, free
<1>2. order = <<>> => locked.node = owner
  BY DEF ListInv, ChainOK, Chain
<1>3. order # <<>> => locked.node \in Thread /\ locked.node # owner
  BY OwnerIsFirst DEF ListInv, TypeOK, ChainOK, Chain
<1>4. owner = NoThread => order = <<>>
  BY DEF ListInv, ChainOK
<1> QED
  BY <1>1, <1>2, <1>3, <1>4, ThreadAssumption DEF ThreadAssumption

-----------------------------------------------------------------------------
(* The steps that leave the chain alone *)

\* What a step of t does to the chain when it neither takes, gives nor queues.
Still(t) ==
  /\ UNCHANGED <<owner, order, found>>
  /\ locked'.node = locked.node
  /\ \A u \in Thread \ {t} : /\ pc'[u] = pc[u]
                             /\ is_locked'[u] = is_locked[u]
                             /\ current'[u] = current[u]
                             /\ next'[u] = next[u]

\* Another thread than the one that moves keeps its place.
LEMMA OthersKeepPlace ==
  ASSUME ListInv, NEW t \in Thread, Still(t), NEW u \in Thread \ {t}
  PROVE  PlaceOK(u)'
<1>1. PlaceOK(u)
  BY DEF ListInv
<1> QED
  BY <1>1 DEF PlaceOK, Still, Chain

\* A step of a thread that stays out of the chain.
LEMMA OutsideMove ==
  ASSUME ListInv, TypeOK', NEW t \in Thread, Still(t), is_locked' = is_locked,
         pc[t] \notin ChainPc, pc'[t] \notin ChainPc,
         pc'[t] = "waitTake" => ~current'[t].flag,
         next'[t] = NoThread \/ (next'[t] = next[t] /\ pc'[t] \in {"wakeNext", "reset"})
  PROVE  ListInv'
<1>1. OutOfChain(t)
  BY Outside
<1>2. ChainOK'
  BY DEF ListInv, ChainOK, Still, Chain
<1>3. PlaceOK(t)'
  BY <1>1 DEF PlaceOK, ChainPc, OutOfChain, Still, Chain, Holding, SpinPc, UnlinkedPc,
              ListInv, TypeOK
<1>4. \A i \in 0..Len(order) : Chain(i) # t /\ Chain(i)' = Chain(i)
  BY <1>1 DEF OutOfChain, Still, Chain
<1>5. LinksOK'
  <2>1. \A i \in 0..Len(order) : owner # NoThread => Chain(i) \in Thread \ {t}
    BY <1>4, ChainType DEF ListInv, TypeOK
  <2>2. \A i \in 1..Len(order) : owner # NoThread /\ i \in 0..Len(order) /\ i - 1 \in 0..Len(order)
    BY ChainType DEF ListInv, ChainOK
  <2>3. Len(order) \in 0..Len(order) /\ Len(order)' = Len(order)
    BY ChainType DEF Still, ListInv
  <2>4. LinksOK!1'
    BY <1>4, <2>1, <2>2, <2>3 DEF LinksOK, Still, ListInv
  <2>5. LinksOK!2'
    BY <1>4, <2>1, <2>3 DEF LinksOK, Still, ListInv
  <2>6. LinksOK!3'
    BY <1>4, <2>3 DEF LinksOK, Still, ListInv
  <2> QED
    BY <2>4, <2>5, <2>6 DEF LinksOK
<1> QED
  BY <1>2, <1>3, <1>5, OthersKeepPlace DEF ListInv

\* A step of a thread that stays where it is in the chain.
LEMMA InsideMove ==
  ASSUME ListInv, TypeOK', NEW t \in Thread, Still(t), UNCHANGED next,
         pc[t] \in ChainPc, pc'[t] \in ChainPc,
         pc[t] \in UnlinkedPc <=> pc'[t] \in UnlinkedPc,
         PlaceOK(t)'
  PROVE  ListInv'
<1>1. ChainOK'
  BY DEF ListInv, ChainOK, Still, Chain
<1>2. \A i \in 0..Len(order) : Chain(i)' = Chain(i)
  BY DEF Still, Chain
<1>3. \A i \in 1..Len(order) : pc'[Chain(i)] \in UnlinkedPc <=> pc[Chain(i)] \in UnlinkedPc
  BY ChainType DEF Still, ListInv
<1>4. pc[t] \notin {"wakeNext", "reset"}
  BY DEF ChainPc, Holding, UnlinkedPc, SpinPc
<1>5. LinksOK'
  BY <1>2, <1>3, <1>4, ChainType DEF LinksOK, Still, ListInv
<1> QED
  BY <1>1, <1>5, OthersKeepPlace DEF ListInv

-----------------------------------------------------------------------------
(* Every step keeps the types *)

\* A thread that links itself has found the node before it, and a holder
\* that passes the lock on knows its successor, the first that queues.
LEMMA KnownNodes ==
  ASSUME ListInv, NEW t \in Thread
  PROVE  /\ pc[t] = "link" => found[t] \in Thread
         /\ pc[t] = "passOn" => /\ order # <<>> /\ owner = t
                                /\ next[t] = order[1] /\ next[t] \in Thread
                                /\ pc[next[t]] \in SpinPc
<1>1. PlaceOK(t)
  BY DEF ListInv
<1>2. ASSUME pc[t] = "link" PROVE found[t] \in Thread
  <2>1. PICK i \in 0..Len(order) : Chain(i) = t
    BY <1>1, <1>2 DEF PlaceOK, UnlinkedPc
  <2>2. i # 0
    BY <1>1, <1>2, <2>1 DEF PlaceOK, Chain, Holding, SpinPc
  <2>3. found[t] = Chain(i - 1)
    BY <1>2, <2>1, <2>2 DEF ListInv, LinksOK, UnlinkedPc
  <2>4. owner \in Thread
    BY <2>2, FreeWord DEF ListInv, TypeOK
  <2> QED
    BY <2>1, <2>2, <2>3, <2>4, ChainType DEF ListInv
<1>3. ASSUME pc[t] = "passOn"
      PROVE  /\ order # <<>> /\ owner = t /\ next[t] = order[1] /\ next[t] \in Thread
             /\ pc[next[t]] \in SpinPc
  <2>1. owner = t /\ next[t] # NoThread
    BY <1>1, <1>3 DEF PlaceOK, Holding
  <2>2. order # <<>>
    BY <2>1, ThreadAssumption DEF ThreadAssumption, ListInv, LinksOK, Chain, TypeOK
  <2>3. 1 \in 1..Len(order) /\ Chain(1) = order[1] /\ Chain(1 - 1) = owner
    BY <2>2 DEF ListInv, TypeOK, Chain
  <2>4. next[t] = order[1] /\ pc[order[1]] \notin UnlinkedPc
    BY <2>1, <2>3 DEF ListInv, LinksOK
  <2>5. order[1] \in Thread
    BY <2>3 DEF ListInv, TypeOK
  <2>6. pc[order[1]] \in UnlinkedPc \cup SpinPc
    BY <2>3, <2>5 DEF ListInv, PlaceOK
  <2> QED
    BY <2>1, <2>2, <2>4, <2>5, <2>6
<1> QED
  BY <1>2, <1>3

LEMMA TypeNext ==
  ASSUME ListInv, Next
  PROVE  TypeOK'
<1> PICK t \in Thread : LoadWord(t) \/ TryLook(t) \/ WaitLoad(t) \/ Step(t)
  BY DEF Next
<1> DEFINE Pc == LockPc \cup TryPc \cup UnlockPc \cup {"idle", "held"}
<1>a. TypeOK
  BY DEF ListInv
<1>b. \A from, to \in Pc : Go(t, from, to) => pc' \in [Thread -> Pc]
  BY <1>a DEF Go, TypeOK
<1>c. free \in Word /\ ~free.flag
  BY DEF free, Word
<1>d. \A word \in Word : Expect(t, word) => /\ current' \in [Thread -> Word]
                                            /\ found' = found /\ flagged' = flagged
  BY <1>a DEF Expect, TypeOK
<1>e. /\ t # NoThread
      /\ [node |-> t, flag |-> FALSE] \in Word
      /\ \A w \in Word : [w EXCEPT !.node = t] \in Word /\ [w EXCEPT !.node = t].node = t
  BY ThreadAssumption DEF ThreadAssumption, Word
<1>f. TakeFree(t) => locked' \in Word /\ locked'.node # NoThread /\ owner' \in Thread
  BY <1>e DEF TakeFree
<1> USE <1>a DEF TypeOK, LockPc, TryPc, UnlockPc, NodeStatus, node, locals, kernel, history
<1>1. CASE LoadWord(t)
  BY <1>1, <1>b, <1>d DEF LoadWord
<1>2. CASE TryLook(t)
  BY <1>2, <1>b DEF TryLook
<1>3. CASE WaitLoad(t) \/ WaitRetry(t)
  <2>1. \A from \in Pc, w \in Word, n \in Thread \cup {NoThread} :
          Consider(t, from, w, n) => TypeOK'
    BY <1>b, <1>c DEF Consider
  <2>2. current[t].node \in Thread \cup {NoThread} /\ locked.node \in Thread \cup {NoThread}
    BY DEF Word
  <2> QED
    BY <1>3, <2>1, <2>2 DEF WaitLoad, WaitRetry
<1>4. CASE Exchange(t)
  <2>1. order' \in Seq(Thread) /\ owner' \in Thread \cup {NoThread}
    BY <1>4 DEF Exchange, ExchangeFree, ExchangeTaken, TakeFree
  <2>2. locked' \in Word /\ locked'.node # NoThread
    BY <1>4, <1>e, <1>f DEF Exchange, ExchangeFree, ExchangeTaken
  <2>3. pc' \in [Thread -> Pc]
    BY <1>4, <1>b DEF Exchange, ExchangeFree, ExchangeTaken
  <2>4. current' \in [Thread -> Word] /\ found' \in [Thread -> Thread \cup {NoThread}]
    BY <1>4, <1>c DEF Exchange, ExchangeFree, ExchangeTaken, Word
  <2>5. UNCHANGED <<node, flagged, kernel>>
    BY <1>4 DEF Exchange, ExchangeFree, ExchangeTaken, TakeFree
  <2> QED
    BY <2>1, <2>2, <2>3, <2>4, <2>5
<1>5. CASE Link(t)
  BY <1>5, <1>b, KnownNodes DEF Link, Go
<1>6. CASE LookAtNode(t) \/ NodeWoken(t)
  BY <1>6, <1>b DEF LookAtNode, NodeWoken
<1>7. CASE Contend(t)
  BY <1>7, <1>b DEF Contend
<1>8. CASE NodeWait(t)
  BY <1>8, <1>b DEF NodeWait
<1>9. CASE TryTake(t)
  <2>1. pc' \in [Thread -> Pc]
    BY <1>9, <1>b DEF TryTake
  <2> QED
    BY <1>9, <1>f, <2>1 DEF TryTake, TakeFree
<1>10. CASE WaitTake(t)
  <2>1. pc' \in [Thread -> Pc]
    BY <1>10, <1>b DEF WaitTake
  <2> QED
    BY <1>10, <1>f, <2>1 DEF WaitTake, TakeFree
<1>11. CASE WaitFlag(t)
  <2>1. locked' \in Word /\ locked'.node = locked.node /\ locked.node \in Thread \cup {NoThread}
    BY <1>11 DEF WaitFlag, Word
  <2>2. locked.node # NoThread
    BY <1>11, FreeWord DEF WaitFlag
  <2> QED
    BY <1>11, <1>b, <1>c, <2>1, <2>2 DEF WaitFlag
<1>12. CASE Wait(t) \/ Woken(t)
  BY <1>12, <1>b DEF Wait, Woken
<1>13. CASE LookForNext(t)
  BY <1>13, <1>b DEF LookForNext
<1>14. CASE ExchangeRetry(t)
  BY <1>14, <1>b, <1>d DEF ExchangeRetry
<1>15. CASE SetTaken(t)
  BY <1>15, <1>b DEF SetTaken
<1>16. CASE PassOn(t)
  <2>1. order' \in Seq(Thread) /\ next[t] \in Thread
    BY <1>16, KnownNodes DEF PassOn, Go
  <2> QED
    BY <1>16, <1>b, <2>1 DEF PassOn
<1>17. CASE WakeNext(t) \/ Reset(t)
  BY <1>17, <1>b DEF WakeNext, Reset
<1>18. CASE ReadFlag(t)
  <2>1. [node |-> t, flag |-> locked.flag] \in Word
    BY DEF Word
  <2> QED
    BY <1>18, <1>b, <1>d, <2>1 DEF ReadFlag
<1>19. CASE Release(t) \/ ReleaseFails(t)
  BY <1>19, <1>b, <1>c, <1>d DEF Release, ReleaseFails
<1>20. CASE WakeAll(t) \/ SeeNext(t)
  BY <1>20, <1>b DEF WakeAll, SeeNext
<1> QED
  BY <1>1, <1>2, <1>3, <1>4, <1>5, <1>6, <1>7, <1>8, <1>9, <1>10, <1>11, <1>12, <1>13, <1>14,
     <1>15, <1>16, <1>17, <1>18, <1>19, <1>20 DEF Step

-----------------------------------------------------------------------------
(* Every step keeps the chain *)

\* The steps of a thread that is not in the chain and does not enter it.
LEMMA OutsideSteps ==
  ASSUME ListInv, TypeOK', NEW t \in Thread,
         \/ LoadWord(t) \/ TryLook(t) \/ WaitLoad(t) \/ ExchangeRetry(t) \/ WaitRetry(t)
         \/ WaitFlag(t) \/ Wait(t) \/ Woken(t) \/ WakeAll(t) \/ WakeNext(t) \/ Reset(t)
         \/ TryTake(t) /\ locked # free
  PROVE  ListInv'
<1> USE DEF Go, Expect, node, locals, kernel, history, Still, ChainPc, Holding, UnlinkedPc,
            SpinPc
<1>a. pc \in [Thread -> LockPc \cup TryPc \cup UnlockPc \cup {"idle", "held"}]
      /\ current \in [Thread -> Word] /\ next \in [Thread -> Thread \cup {NoThread}]
  BY DEF ListInv, TypeOK
<1>b. pc[t] \notin {"wakeNext", "reset"} /\ pc[t] \notin ChainPc => next[t] = NoThread
  BY Outside DEF ListInv, LinksOK, OutOfChain
<1>c. ~free.flag
  BY DEF free
<1>1. CASE LoadWord(t) \/ TryLook(t) \/ ExchangeRetry(t) \/ Woken(t)
  BY <1>1, <1>a, <1>b, OutsideMove DEF LoadWord, TryLook, ExchangeRetry, Woken
<1>2. CASE WaitLoad(t) \/ WaitRetry(t)
  BY <1>2, <1>a, <1>b, OutsideMove DEF WaitLoad, WaitRetry, Consider
<1>3. CASE WaitFlag(t)
  <2>1. locked'.node = locked.node
    BY <1>3 DEF WaitFlag, ListInv, TypeOK, Word
  <2> QED
    BY <1>3, <2>1, <1>a, <1>b, OutsideMove DEF WaitFlag
<1>4. CASE Wait(t) \/ WakeAll(t) \/ (TryTake(t) /\ locked # free)
  BY <1>4, <1>a, <1>b, OutsideMove DEF Wait, WakeAll, TryTake
<1>5. CASE WakeNext(t)
  <2>1. next[t] = NoThread \/ pc[t] \in {"wakeNext", "reset"}
    BY <1>5 DEF WakeNext
  <2> QED
    BY <1>5, <2>1, <1>a, OutsideMove DEF WakeNext
<1>6. CASE Reset(t)
  BY <1>6, <1>a, OutsideMove DEF Reset
<1> QED
  BY <1>1, <1>2, <1>3, <1>4, <1>5, <1>6

\* The steps of a thread of the chain that change nothing in it.
LEMMA InsideSteps ==
  ASSUME ListInv, TypeOK', NEW t \in Thread,
         \/ SetTaken(t) \/ LookAtNode(t) \/ Contend(t) \/ NodeWait(t) \/ NodeWoken(t)
         \/ LookForNext(t) \/ ReadFlag(t) \/ ReleaseFails(t) \/ SeeNext(t)
  PROVE  ListInv'
<1> USE DEF Go, Expect, node, locals, kernel, history, Holding, UnlinkedPc, SpinPc
<1>a. pc \in [Thread -> LockPc \cup TryPc \cup UnlockPc \cup {"idle", "held"}]
      /\ current \in [Thread -> Word] /\ is_locked \in [Thread -> NodeStatus]
      /\ Len(order) \in Nat
  BY DEF ListInv, TypeOK
<1>b. PlaceOK(t)
  BY DEF ListInv
<1>c. Still(t) /\ UNCHANGED next
  BY <1>a DEF SetTaken, LookAtNode, Contend, NodeWait, NodeWoken, LookForNext, ReadFlag,
              ReleaseFails, SeeNext, Still
<1>d. /\ pc[t] \in ChainPc /\ pc'[t] \in ChainPc
      /\ pc[t] \in UnlinkedPc <=> pc'[t] \in UnlinkedPc
  BY <1>a DEF SetTaken, LookAtNode, Contend, NodeWait, NodeWoken, LookForNext, ReadFlag,
              ReleaseFails, SeeNext, ChainPc
<1>e. \A i \in 0..Len(order) : Chain(i)' = Chain(i)
  BY <1>c DEF Still, Chain
<1> DEFINE Known == /\ pc[t] \in SpinPc => (is_locked[t] = "free" <=> owner = t)
                    /\ pc[t] \in Holding => owner = t
                    /\ pc[t] \in UnlinkedPc => owner # t
                    /\ owner = t => pc[t] \in Holding \cup SpinPc
<1>f. Known
  BY <1>b DEF PlaceOK
<1>g. owner = t => \A i \in 1..Len(order) : Chain(i) # t
  BY OwnerIsFirst, ChainType DEF ListInv
<1>1. CASE SetTaken(t)
  <2>1. is_locked'[t] = "taken" /\ pc'[t] = "link" /\ pc[t] = "setTaken"
    BY <1>1, <1>a DEF SetTaken
  <2>2. PlaceOK(t)'
    BY <2>1, <1>b, <1>c, <1>e DEF PlaceOK, Still
  <2> QED
    BY <2>2, <1>c, <1>d, InsideMove
<1>2. CASE LookAtNode(t) \/ NodeWait(t) \/ NodeWoken(t)
  <2>1. is_locked' = is_locked /\ (pc'[t] = "held" => owner = t)
        /\ pc[t] \in SpinPc /\ pc'[t] \in SpinPc \cup {"held"}
    BY <1>2, <1>a, <1>f DEF LookAtNode, NodeWait, NodeWoken
  <2>2. PlaceOK(t)'
    BY <2>1, <1>b, <1>c, <1>e, <1>g DEF PlaceOK, Still
  <2> QED
    BY <2>2, <1>c, <1>d, InsideMove
<1>3. CASE Contend(t)
  <2>1. /\ is_locked'[t] = "free" <=> is_locked[t] = "free"
        /\ pc[t] = "contend" /\ (pc'[t] = "held" => owner = t) /\ pc'[t] \in {"held", "check"}
    BY <1>3, <1>a, <1>f DEF Contend
  <2>2. PlaceOK(t)'
    BY <2>1, <1>b, <1>c, <1>e, <1>g DEF PlaceOK, Still
  <2> QED
    BY <2>2, <1>c, <1>d, InsideMove
<1>4. CASE LookForNext(t) \/ ReadFlag(t) \/ ReleaseFails(t) \/ SeeNext(t)
  <2>1. owner = t /\ pc[t] \in Holding /\ is_locked' = is_locked
    BY <1>4, <1>f DEF LookForNext, ReadFlag, ReleaseFails, SeeNext
  <2>2. /\ pc'[t] \in Holding
        /\ pc'[t] = "release" => current'[t].node = t
        /\ pc'[t] = "waitNext" => order # <<>>
        /\ pc'[t] = "passOn" => next[t] # NoThread
    BY <1>4, <1>a, <2>1, FreeWord DEF LookForNext, ReadFlag, ReleaseFails, SeeNext
  <2>3. PlaceOK(t)'
    BY <2>1, <2>2, <1>b, <1>c, <1>e DEF PlaceOK, Still
  <2> QED
    BY <2>3, <1>c, <1>d, InsideMove
<1> QED
  BY <1>1, <1>2, <1>3, <1>4

\* The chain and its links, by index.
LEMMA ChainFacts ==
  ASSUME ListInv
  PROVE  /\ Len(order) \in Nat
         /\ \A i, j \in 0..Len(order) : Chain(i) = Chain(j) => i = j
         /\ owner # NoThread => \A i \in 0..Len(order) : Chain(i) \in Thread
         /\ \A i \in 1..Len(order) :
              /\ pc[Chain(i)] \in UnlinkedPc =>
                   next[Chain(i - 1)] = NoThread /\ found[Chain(i)] = Chain(i - 1)
              /\ pc[Chain(i)] \notin UnlinkedPc =>
                   next[Chain(i - 1)] = Chain(i) /\ found[Chain(i)] = NoThread
  BY DEF ListInv, TypeOK, ChainOK, LinksOK, Chain

\* A thread that takes the free lock becomes the whole chain.
LEMMA TakeStep ==
  ASSUME ListInv, TypeOK', NEW t \in Thread, TakeFree(t),
         pc[t] \in {"exchange", "tryTake", "waitTake"}, pc' = [pc EXCEPT ![t] = "held"],
         UNCHANGED <<current, found>>
  PROVE  ListInv'
<1>1. owner = NoThread /\ order = <<>> /\ Len(order) = 0
  BY FreeWord DEF TakeFree
<1>2. OutOfChain(t) /\ next[t] = NoThread
  <2>1. pc[t] \notin ChainPc /\ pc[t] \notin {"wakeNext", "reset"}
    BY DEF ChainPc, Holding, UnlinkedPc, SpinPc
  <2> QED
    BY <2>1, Outside DEF ListInv, LinksOK, OutOfChain
<1>3. /\ owner' = t /\ order' = order /\ locked'.node = t /\ UNCHANGED <<is_locked, next>>
      /\ pc'[t] = "held" /\ \A u \in Thread \ {t} : pc'[u] = pc[u]
  BY DEF TakeFree, node, ListInv, TypeOK
<1>4. ChainOK'
  BY <1>1, <1>3, ThreadAssumption DEF ThreadAssumption, ChainOK, Chain
<1>5. \A u \in Thread : PlaceOK(u)'
  <2> SUFFICES ASSUME NEW u \in Thread PROVE PlaceOK(u)'
    OBVIOUS
  <2>1. PlaceOK(u) /\ (\A i \in 0..Len(order) : Chain(i) # u)
    BY <1>1, ThreadAssumption DEF ThreadAssumption, ListInv, Chain
  <2>2. u # t => pc[u] \notin ChainPc
    BY <1>1, <2>1, ThreadAssumption DEF ThreadAssumption, PlaceOK, ChainPc
  <2> QED
    BY <1>1, <1>3, <2>1, <2>2 DEF PlaceOK, Chain, ChainPc, Holding, UnlinkedPc, SpinPc
<1>6. LinksOK'
  <2>1. Len(order') = 0 /\ Chain(0)' = t /\ \A i \in 0..Len(order') : i = 0
    BY <1>1, <1>3 DEF Chain
  <2>2. \A u \in Thread : next[u] = NoThread \/ pc[u] \in {"wakeNext", "reset"}
    BY <1>1, ThreadAssumption DEF ThreadAssumption, ListInv, LinksOK, Chain
  <2>3. LinksOK!1' /\ LinksOK!2'
    BY <1>2, <1>3, <2>1 DEF LinksOK
  <2>4. LinksOK!3'
    BY <1>2, <1>3, <2>2 DEF LinksOK
  <2> QED
    BY <2>3, <2>4 DEF LinksOK
<1> QED
  BY <1>4, <1>5, <1>6 DEF ListInv

\* A thread that exchanges the word queues at the end of the chain.
LEMMA QueueStep ==
  ASSUME ListInv, TypeOK', NEW t \in Thread, ExchangeTaken(t)
  PROVE  ListInv'
<1> PICK n \in Nat : n = Len(order)
  BY DEF ListInv, TypeOK
<1>1. OutOfChain(t) /\ next[t] = NoThread
  <2>1. pc[t] \notin ChainPc /\ pc[t] \notin {"wakeNext", "reset"}
    BY DEF ExchangeTaken, Go, ChainPc, Holding, UnlinkedPc, SpinPc
  <2> QED
    BY <2>1, Outside DEF ListInv, LinksOK, OutOfChain
<1>2. /\ owner' = owner /\ locked'.node = t /\ UNCHANGED <<is_locked, next>>
      /\ pc'[t] = "setTaken" /\ found'[t] = locked.node /\ current'[t] = free
      /\ \A u \in Thread \ {t} : pc'[u] = pc[u] /\ found'[u] = found[u] /\ current'[u] = current[u]
  BY DEF ExchangeTaken, Go, node, ListInv, TypeOK, Word
<1>3. Len(order') = n + 1 /\ Chain(n + 1)' = t /\ \A i \in 0..n : Chain(i)' = Chain(i)
  BY <1>2 DEF ExchangeTaken, ListInv, TypeOK, Chain
<1>4. owner # NoThread /\ locked.node = Chain(n)
  BY FreeWord DEF ExchangeTaken, ListInv, ChainOK
<1>5. \A i \in 0..n : Chain(i) \in Thread /\ Chain(i) # t
  BY <1>1, <1>4, ChainFacts DEF OutOfChain
<1>6. ChainOK'
  <2>1. \A i, j \in 0..Len(order') : Chain(i)' = Chain(j)' => i = j
    <3>1. \A i \in 0..Len(order') : i \in 0..n \/ i = n + 1
      BY <1>3
    <3> QED
      BY <1>3, <1>5, <3>1, ChainFacts
  <2> QED
    BY <1>2, <1>3, <1>4, <2>1 DEF ChainOK
<1>7. \A u \in Thread : PlaceOK(u)'
  <2> SUFFICES ASSUME NEW u \in Thread PROVE PlaceOK(u)'
    OBVIOUS
  <2>1. PlaceOK(u) /\ PlaceOK(t)
    BY DEF ListInv
  <2>2. \A i \in 0..n : i \in 0..Len(order')
    BY <1>3
  <2>3. \A i \in 1..Len(order') : i \in 1..n \/ i = n + 1
    BY <1>3
  <2>4. \A i \in 1..n : i \in 0..n
    OBVIOUS
  <2>5. order' # <<>> /\ n + 1 \in 0..Len(order')
    BY <1>3 DEF TypeOK
  <2>6. CASE u = t
    BY <2>6, <1>2, <1>3, <1>5, <2>1, <2>3, <2>4, <2>5
       DEF PlaceOK, Holding, UnlinkedPc, SpinPc, ExchangeTaken, Go, Chain
  <2>7. CASE u # t
    <3>1. pc[u] \in UnlinkedPc \cup SpinPc => \E i \in 0..Len(order') : Chain(i)' = u
      BY <2>1, <2>2, <1>3 DEF PlaceOK
    <3>2. \A i \in 1..Len(order') : Chain(i)' = u => pc[u] \in UnlinkedPc \cup SpinPc
      BY <2>1, <2>3, <2>4, <2>7, <1>3 DEF PlaceOK
    <3> QED
      BY <2>1, <2>5, <2>7, <1>2, <3>1, <3>2 DEF PlaceOK
  <2> QED
    BY <2>6, <2>7
<1>8. LinksOK'
  <2>1. ASSUME NEW i \in 1..Len(order')
        PROVE  IF pc'[Chain(i)'] \in UnlinkedPc
                 THEN next'[Chain(i - 1)'] = NoThread /\ found'[Chain(i)'] = Chain(i - 1)'
                 ELSE next'[Chain(i - 1)'] = Chain(i)' /\ found'[Chain(i)'] = NoThread
    <3>1. CASE i = n + 1
      <4>1. next[Chain(n)] = NoThread
        BY <1>4 DEF ListInv, LinksOK
      <4>2. Chain(i - 1)' = Chain(n) /\ Chain(i)' = t
        BY <3>1, <1>3
      <4> QED
        BY <1>2, <1>4, <4>1, <4>2 DEF UnlinkedPc
    <3>2. CASE i # n + 1
      <4>1. i \in 1..n /\ i \in 0..n /\ i - 1 \in 0..n
        BY <3>2, <1>3
      <4>2. Chain(i)' = Chain(i) /\ Chain(i - 1)' = Chain(i - 1) /\ Chain(i) \in Thread \ {t}
        BY <4>1, <1>3, <1>5
      <4> QED
        BY <4>1, <4>2, <1>2, ChainFacts
    <3> QED
      BY <3>1, <3>2
  <2>2. next'[Chain(Len(order))'] = NoThread
    BY <1>1, <1>2, <1>3
  <2>3. ASSUME NEW u \in Thread, \A i \in 0..Len(order') : Chain(i)' # u
        PROVE  next'[u] = NoThread \/ pc'[u] \in {"wakeNext", "reset"}
    <3>1. u # t /\ \A i \in 0..n : Chain(i) # u
      BY <2>3, <1>3
    <3> QED
      BY <3>1, <1>2 DEF ListInv, LinksOK
  <2> QED
    BY <2>1, <2>2, <2>3 DEF LinksOK
<1> QED
  BY <1>6, <1>7, <1>8 DEF ListInv

\* A thread links its node to the one before it.
LEMMA LinkStep ==
  ASSUME ListInv, TypeOK', NEW t \in Thread, Link(t)
  PROVE  ListInv'
<1>1. PICK k \in 1..Len(order) : Chain(k) = t
  <2>1. PlaceOK(t)
    BY DEF ListInv
  <2>2. PICK i \in 0..Len(order) : Chain(i) = t
    BY <2>1 DEF PlaceOK, Link, Go, UnlinkedPc
  <2>3. i # 0
    BY <2>1, <2>2 DEF PlaceOK, Link, Go, Chain, Holding, SpinPc
  <2> QED
    BY <2>2, <2>3
<1>2. /\ found[t] = Chain(k - 1) /\ k \in 0..Len(order) /\ k - 1 \in 0..Len(order)
      /\ owner # t /\ owner # NoThread
  <2>1. pc[t] = "link" /\ order # <<>>
    BY <1>1 DEF Link, Go, ListInv, TypeOK
  <2>2. owner # NoThread /\ owner # t
    BY <2>1, FreeWord DEF ListInv, PlaceOK, Holding, SpinPc
  <2> QED
    BY <1>1, <2>1, <2>2, ChainFacts DEF UnlinkedPc
<1>3. /\ UNCHANGED <<owner, order, locked, is_locked, current>>
      /\ next' = [next EXCEPT ![Chain(k - 1)] = t] /\ found'[t] = NoThread
      /\ pc[t] = "link" /\ pc'[t] = "spin"
      /\ \A u \in Thread \ {t} : pc'[u] = pc[u] /\ found'[u] = found[u]
  BY <1>2 DEF Link, Go, history, ListInv, TypeOK
<1>4. \A i \in 0..Len(order) : Chain(i)' = Chain(i) /\ Chain(i) \in Thread
  BY <1>2, <1>3, ChainFacts DEF Chain
<1>5. /\ next'[Chain(k - 1)] = t
      /\ \A u \in Thread \ {Chain(k - 1)} : next'[u] = next[u]
  BY <1>2, <1>3, <1>4 DEF ListInv, TypeOK
<1>6. ChainOK'
  BY <1>3, <1>4 DEF ListInv, ChainOK, TypeOK
<1>7. \A u \in Thread : PlaceOK(u)'
  <2> SUFFICES ASSUME NEW u \in Thread PROVE PlaceOK(u)'
    OBVIOUS
  <2>1. PlaceOK(u) /\ (next[u] # NoThread => next'[u] # NoThread)
    BY <1>5, ThreadAssumption DEF ThreadAssumption, ListInv
  <2>2. \A i \in 1..Len(order) : i \in 0..Len(order)
    OBVIOUS
  <2> QED
    BY <1>2, <1>3, <1>4, <2>1, <2>2 DEF PlaceOK, Holding, UnlinkedPc, SpinPc
<1>8. LinksOK'
  <2>1. ASSUME NEW i \in 1..Len(order)
        PROVE  IF pc'[Chain(i)] \in UnlinkedPc
                 THEN next'[Chain(i - 1)] = NoThread /\ found'[Chain(i)] = Chain(i - 1)
                 ELSE next'[Chain(i - 1)] = Chain(i) /\ found'[Chain(i)] = NoThread
    <3>1. CASE i = k
      BY <1>1, <1>3, <1>5, <3>1 DEF UnlinkedPc
    <3>2. CASE i # k
      <4>1. i \in 0..Len(order) /\ i - 1 \in 0..Len(order) /\ i - 1 # k - 1
        BY <3>2, <1>1, ChainFacts
      <4>2. Chain(i) # t /\ Chain(i - 1) # Chain(k - 1)
        BY <4>1, <3>2, <1>1, <1>2, ChainFacts
      <4> QED
        BY <4>1, <4>2, <1>3, <1>4, <1>5, ChainFacts
    <3> QED
      BY <3>1, <3>2
  <2>2. next'[Chain(Len(order))] = NoThread
    <3>1. Len(order) \in 0..Len(order) /\ Len(order) # k - 1
      BY <1>1, ChainFacts
    <3>2. Chain(Len(order)) # Chain(k - 1) /\ next[Chain(Len(order))] = NoThread
      BY <3>1, <1>2, ChainFacts DEF ListInv, LinksOK
    <3> QED
      BY <3>1, <3>2, <1>4, <1>5
  <2>3. ASSUME NEW u \in Thread, \A i \in 0..Len(order) : Chain(i) # u
        PROVE  next'[u] = NoThread \/ pc'[u] \in {"wakeNext", "reset"}
    <3>1. u # t /\ u # Chain(k - 1)
      BY <2>3, <1>1, <1>2
    <3> QED
      BY <2>3, <3>1, <1>3, <1>5 DEF ListInv, LinksOK
  <2>4. /\ Len(order)' = Len(order) /\ Len(order) \in 0..Len(order)
        /\ \A i \in 1..Len(order) : i \in 0..Len(order) /\ i - 1 \in 0..Len(order)
    BY <1>3, ChainFacts
  <2> QED
    BY <2>1, <2>2, <2>3, <2>4, <1>3, <1>4 DEF LinksOK
<1> QED
  BY <1>6, <1>7, <1>8 DEF ListInv

\* The last thread of the chain makes the word free: nobody is left.
LEMMA ReleaseStep ==
  ASSUME ListInv, TypeOK', NEW t \in Thread, Release(t)
  PROVE  ListInv'
<1>1. owner = t /\ order = <<>> /\ Len(order) = 0
  <2>1. owner = t /\ locked.node = t
    BY DEF Release, Go, ListInv, PlaceOK, Holding
  <2> QED
    BY <2>1, FreeWord
<1>2. /\ owner' = NoThread /\ order' = <<>> /\ Len(order') = 0 /\ locked'.node = NoThread
      /\ UNCHANGED <<is_locked, next, found>> /\ pc[t] = "release"
      /\ pc'[t] \in {"wakeAll", "idle"}
      /\ \A u \in Thread \ {t} : pc'[u] = pc[u] /\ current'[u] = current[u]
  BY <1>1 DEF Release, Go, Expect, node, free, ListInv, TypeOK
<1>3. ChainOK'
  BY <1>2 DEF ChainOK, Chain
<1>4. \A u \in Thread \ {t} : PlaceOK(u) /\ pc[u] \notin ChainPc
  BY <1>1 DEF ListInv, PlaceOK, Chain, ChainPc
<1>5. \A u \in Thread : PlaceOK(u)'
  BY <1>2, <1>4, ThreadAssumption
     DEF ThreadAssumption, PlaceOK, ChainPc, Holding, UnlinkedPc, SpinPc
<1>6. LinksOK'
  <2>1. \A u \in Thread : next[u] = NoThread \/ pc'[u] \in {"wakeNext", "reset"}
    BY <1>1, <1>2, ThreadAssumption DEF ThreadAssumption, ListInv, LinksOK, Chain
  <2> QED
    BY <2>1, <1>2 DEF LinksOK
<1> QED
  BY <1>3, <1>5, <1>6 DEF ListInv

\* The holder gives the lock to the thread behind it, and leaves the chain.
LEMMA PassStep ==
  ASSUME ListInv, TypeOK', NEW t \in Thread, PassOn(t)
  PROVE  ListInv'
<1> PICK n \in Nat : n = Len(order)
  BY DEF ListInv, TypeOK
<1>1. /\ order # <<>> /\ owner = t /\ pc[t] = "passOn"
      /\ next[t] = order[1] /\ order[1] \in Thread /\ pc[order[1]] \in SpinPc
  BY KnownNodes DEF PassOn, Go
<1>2. /\ owner' = order[1] /\ order' = Tail(order) /\ UNCHANGED <<locked, next, found, current>>
      /\ is_locked'[order[1]] = "free" /\ pc'[t] \in {"wakeNext", "reset"}
      /\ \A u \in Thread \ {t} : pc'[u] = pc[u]
      /\ \A u \in Thread \ {order[1]} : is_locked'[u] = is_locked[u]
  BY <1>1 DEF PassOn, Go, locals, ListInv, TypeOK
<1>3. n \in Nat \ {0} /\ Len(order') = n - 1 /\ \A i \in 0..(n - 1) : Chain(i)' = Chain(i + 1)
  <2>1. n # 0
    BY <1>1 DEF ListInv, TypeOK
  <2>2. Len(order') = n - 1 /\ \A i \in 1..(n - 1) : order'[i] = order[i + 1]
    BY <1>1, <1>2, HeadTailProperties DEF ListInv, TypeOK
  <2> QED
    BY <2>1, <2>2, <1>2 DEF Chain
<1>4. \A i \in 0..n : Chain(i) \in Thread
  BY <1>1, ThreadAssumption, ChainFacts DEF ThreadAssumption
<1>5. t = Chain(0) /\ order[1] = Chain(1) /\ 0 \in 0..n /\ 1 \in 0..n
  BY <1>1, <1>3 DEF Chain
<1>6. ChainOK'
  <2>1. \A i, j \in 0..(n - 1) : Chain(i + 1) = Chain(j + 1) => i = j
    BY ChainFacts
  <2>2. locked'.node = Chain(n - 1)'
    BY <1>2, <1>3 DEF ListInv, ChainOK
  <2>3. owner' # NoThread
    BY <1>1, <1>2, ThreadAssumption DEF ThreadAssumption
  <2> QED
    BY <2>1, <2>2, <2>3, <1>3 DEF ChainOK
<1>7. \A u \in Thread : PlaceOK(u)'
  <2> SUFFICES ASSUME NEW u \in Thread PROVE PlaceOK(u)'
    OBVIOUS
  <2>1. PlaceOK(u) /\ \A i \in 0..(n - 1) : i + 1 \in 1..n /\ i + 1 \in 0..n
    BY DEF ListInv
  <2>2. CASE u = t
    <3>1. \A i \in 0..(n - 1) : Chain(i)' # t
      BY <1>3, <1>5, <2>1, ChainFacts
    <3>2. owner' # t /\ \A i \in 1..(n - 1) : i \in 0..(n - 1)
      BY <1>2, <1>5, ChainFacts
    <3> QED
      BY <2>2, <3>1, <3>2, <1>2, <1>3 DEF PlaceOK, Holding, UnlinkedPc, SpinPc
  <2>3. CASE u # t
    <3>1. pc[u] \notin Holding
      BY <2>1, <2>3, <1>1 DEF PlaceOK
    <3>2. pc[u] \in UnlinkedPc \cup SpinPc => \E i \in 0..(n - 1) : Chain(i)' = u
      <4> SUFFICES ASSUME pc[u] \in UnlinkedPc \cup SpinPc
                   PROVE  \E i \in 0..(n - 1) : Chain(i)' = u
        OBVIOUS
      <4>1. PICK i \in 0..n : Chain(i) = u
        BY <2>1 DEF PlaceOK
      <4>2. i # 0
        BY <4>1, <2>3, <1>5
      <4>3. i - 1 \in 0..(n - 1) /\ (i - 1) + 1 = i
        BY <4>2
      <4> QED
        BY <4>1, <4>3, <1>3
    <3>3. \A i \in 1..(n - 1) : Chain(i)' = u => pc[u] \in UnlinkedPc \cup SpinPc
      <4>1. \A i \in 1..(n - 1) : i \in 0..(n - 1) /\ i + 1 \in 1..n
        OBVIOUS
      <4> QED
        BY <2>1, <1>3, <4>1 DEF PlaceOK
    <3>4. pc[u] \in {"link"} \cup SpinPc => (is_locked'[u] = "free" <=> owner' = u)
      <4>1. CASE u = order[1]
        BY <4>1, <1>2
      <4>2. CASE u # order[1]
        BY <4>2, <2>1, <2>3, <1>1, <1>2 DEF PlaceOK
      <4> QED
        BY <4>1, <4>2
    <3>5. owner' = u => pc[u] \in SpinPc
      BY <1>1, <1>2
    <3> QED
      BY <2>1, <2>3, <3>1, <3>2, <3>3, <3>4, <3>5, <1>2, <1>3
         DEF PlaceOK, Holding, UnlinkedPc, SpinPc
  <2> QED
    BY <2>2, <2>3
<1>8. LinksOK'
  <2>1. ASSUME NEW i \in 1..(n - 1)
        PROVE  IF pc'[Chain(i)'] \in UnlinkedPc
                 THEN next'[Chain(i - 1)'] = NoThread /\ found'[Chain(i)'] = Chain(i - 1)'
                 ELSE next'[Chain(i - 1)'] = Chain(i)' /\ found'[Chain(i)'] = NoThread
    <3>1. i \in 0..(n - 1) /\ i - 1 \in 0..(n - 1) /\ i + 1 \in 1..n /\ (i - 1) + 1 = i
          /\ (i + 1) - 1 = i /\ i + 1 \in 0..n
      BY <1>3
    <3>2. Chain(i)' = Chain(i + 1) /\ Chain(i - 1)' = Chain(i)
      BY <3>1, <1>3
    <3>3. Chain(i + 1) \in Thread \ {t}
      BY <3>1, <1>4, <1>5, ChainFacts
    <3> QED
      BY <3>1, <3>2, <3>3, <1>2, ChainFacts
  <2>2. next'[Chain(n - 1)'] = NoThread
    BY <1>1, <1>2, <1>3, ThreadAssumption DEF ThreadAssumption, ListInv, LinksOK
  <2>3. ASSUME NEW u \in Thread, \A i \in 0..(n - 1) : Chain(i)' # u
        PROVE  next'[u] = NoThread \/ pc'[u] \in {"wakeNext", "reset"}
    <3>1. ASSUME u # t, NEW i \in 0..n PROVE Chain(i) # u
      <4>1. CASE i = 0
        BY <3>1, <4>1, <1>5
      <4>2. CASE i # 0
        <5>1. i - 1 \in 0..(n - 1) /\ (i - 1) + 1 = i
          BY <4>2
        <5> QED
          BY <5>1, <2>3, <1>3
      <4> QED
        BY <4>1, <4>2
    <3> QED
      BY <3>1, <1>2 DEF ListInv, LinksOK
  <2> QED
    BY <2>1, <2>2, <2>3, <1>3 DEF LinksOK
<1> QED
  BY <1>6, <1>7, <1>8 DEF ListInv

-----------------------------------------------------------------------------
(* The inductive invariant *)

LEMMA ListInit == Init => ListInv
<1> SUFFICES ASSUME Init PROVE ListInv
  OBVIOUS
<1>1. TypeOK
  BY NodeAssumption DEF NodeAssumption, Init, TypeOK, Word, free
<1>2. /\ Len(order) = 0 /\ owner = NoThread /\ order = <<>> /\ locked.node = NoThread
      /\ \A i \in 0..Len(order) : i = 0
  BY DEF Init, free
<1>3. ChainOK
  BY <1>2 DEF ChainOK, Chain
<1>4. ASSUME NEW t \in Thread PROVE PlaceOK(t)
  <2>1. pc[t] = "idle" /\ owner # t /\ \A i \in 1..Len(order) : FALSE
    BY <1>2, ThreadAssumption DEF ThreadAssumption, Init
  <2> QED
    BY <2>1 DEF PlaceOK, Holding, UnlinkedPc, SpinPc
<1>5. LinksOK
  BY <1>2 DEF Init, LinksOK
<1> QED
  BY <1>1, <1>3, <1>4, <1>5 DEF ListInv

LEMMA ListNext ==
  ASSUME ListInv, Next
  PROVE  ListInv'
<1> PICK t \in Thread : LoadWord(t) \/ TryLook(t) \/ WaitLoad(t) \/ Step(t)
  BY DEF Next
<1>a. TypeOK'
  BY TypeNext
<1>1. CASE \/ LoadWord(t) \/ TryLook(t) \/ WaitLoad(t) \/ ExchangeRetry(t) \/ WaitRetry(t)
           \/ WaitFlag(t) \/ Wait(t) \/ Woken(t) \/ WakeAll(t) \/ WakeNext(t) \/ Reset(t)
  BY <1>a, <1>1, OutsideSteps
<1>2. CASE \/ SetTaken(t) \/ LookAtNode(t) \/ Contend(t) \/ NodeWait(t) \/ NodeWoken(t)
           \/ LookForNext(t) \/ ReadFlag(t) \/ ReleaseFails(t) \/ SeeNext(t)
  BY <1>a, <1>2, InsideSteps
<1>3. CASE TryTake(t) /\ locked # free
  BY <1>a, <1>3, OutsideSteps
<1>4. CASE ExchangeFree(t) \/ WaitTake(t) \/ (TryTake(t) /\ locked = free)
  BY <1>a, <1>4, TakeStep DEF ExchangeFree, WaitTake, TryTake, Go, locals
<1>5. CASE ExchangeTaken(t)
  BY <1>a, <1>5, QueueStep
<1>6. CASE Link(t)
  BY <1>a, <1>6, LinkStep
<1>7. CASE Release(t)
  BY <1>a, <1>7, ReleaseStep
<1>8. CASE PassOn(t)
  BY <1>a, <1>8, PassStep
<1> QED
  BY <1>1, <1>2, <1>3, <1>4, <1>5, <1>6, <1>7, <1>8 DEF Step, Exchange

LEMMA ListUnchanged == ListInv /\ UNCHANGED vars => ListInv'
<1> SUFFICES ASSUME ListInv, UNCHANGED vars PROVE ListInv'
  OBVIOUS
<1> USE DEF vars, node, locals, kernel, history
<1>1. \A i : Chain(i)' = Chain(i)
  BY DEF Chain
<1>2. TypeOK'
  BY DEF ListInv, TypeOK
<1>5. ChainOK'
  BY <1>1 DEF ListInv, ChainOK
<1>3. \A t \in Thread : PlaceOK(t)'
  BY <1>1 DEF ListInv, PlaceOK
<1>4. LinksOK'
  BY <1>1 DEF ListInv, LinksOK
<1> QED
  BY <1>2, <1>3, <1>4, <1>5 DEF ListInv

\* The chain of the threads, and where each of them is, in every state.
THEOREM ListCorrect == Spec => []ListInv
<1>1. ListInv /\ [Next]_vars => ListInv'
  BY ListNext, ListUnchanged
<1> QED
  BY <1>1, ListInit, PTL DEF Spec

-----------------------------------------------------------------------------
(* What the invariant says of the lock *)

\* Type correctness of the word, the nodes and the threads; the flag never
\* outlives the node in the word.
THEOREM McsTypeCorrect == Spec => []TypeOK
<1>1. ListInv => TypeOK
  BY DEF ListInv
<1> QED
  BY <1>1, ListCorrect, PTL

\* The lock has one holder through every interleaving of the exchange, the
\* link, the release and the hand-over.
THEOREM OwnerHoldsCorrect == Spec => []OwnerHolds
<1>1. ListInv => OwnerHolds
  BY DEF ListInv, PlaceOK, OwnerHolds
<1> QED
  BY <1>1, ListCorrect, PTL

\* The list that next makes of the nodes is the order of the exchanges.
THEOREM ListIsOrderCorrect == Spec => []ListIsOrder
<1>1. ASSUME ListInv PROVE ListIsOrder
  <2>1. <<owner>> \in Seq(Thread \cup {NoThread}) /\ order \in Seq(Thread \cup {NoThread})
    BY <1>1 DEF ListInv, TypeOK
  <2>2. PICK all : all = <<owner>> \o order
    OBVIOUS
  <2>3. \A i \in 1..(1 + Len(order)) : all[i] = Chain(i - 1)
    BY <2>1, <2>2, ConcatProperties DEF Chain
  <2>4. ASSUME NEW i \in 1..Len(order)
        PROVE  \/ next[all[i]] = all[i + 1] /\ found[all[i + 1]] = NoThread
               \/ next[all[i]] = NoThread /\ found[all[i + 1]] = all[i]
    <3>1. all[i] = Chain(i - 1) /\ all[i + 1] = Chain(i)
      BY <1>1, <2>3, ChainFacts
    <3> QED
      BY <1>1, <3>1, ChainFacts
  <2> QED
    BY <2>2, <2>4 DEF ListIsOrder
<1> QED
  BY <1>1, ListCorrect, PTL

\* The flag outlives the sleepers: who clears it wakes them.
LEMMA SleeperStep ==
  ASSUME ListInv, SleeperHasFlag, [Next]_vars
  PROVE  SleeperHasFlag'
<1> USE DEF Go, Expect, node, locals, kernel, history, free
<1>a. pc \in [Thread -> LockPc \cup TryPc \cup UnlockPc \cup {"idle", "held"}]
  BY DEF ListInv, TypeOK
<1>1. CASE UNCHANGED vars
  BY <1>1 DEF vars, SleeperHasFlag
<1>2. CASE Next
  <2> PICK t \in Thread : LoadWord(t) \/ TryLook(t) \/ WaitLoad(t) \/ Step(t)
    BY <1>2 DEF Next
  <2>1. CASE WakeAll(t)
    BY <2>1 DEF WakeAll, SleeperHasFlag
  <2>2. CASE Wait(t)
    BY <1>a, <2>2 DEF Wait, SleeperHasFlag
  <2>3. CASE Release(t)
    BY <1>a, <2>3 DEF Release, SleeperHasFlag
  <2>4. CASE ExchangeFree(t) \/ WaitTake(t) \/ TryTake(t)
    BY <1>a, <2>4 DEF ExchangeFree, WaitTake, TryTake, TakeFree, SleeperHasFlag
  <2>5. CASE ExchangeTaken(t) \/ WaitFlag(t)
    BY <1>a, <2>5 DEF ExchangeTaken, WaitFlag, SleeperHasFlag, ListInv, TypeOK, Word
  <2>6. ASSUME UNCHANGED <<locked, sleepers>>, pc[t] # "wakeAll",
               \A u \in Thread \ {t} : pc'[u] = pc[u]
        PROVE  SleeperHasFlag'
    BY <2>6 DEF SleeperHasFlag
  <2>7. CASE \/ LoadWord(t) \/ TryLook(t) \/ WaitLoad(t) \/ ExchangeRetry(t) \/ SetTaken(t)
             \/ Link(t) \/ WaitRetry(t) \/ Woken(t)
    BY <1>a, <2>6, <2>7 DEF LoadWord, TryLook, WaitLoad, Consider, ExchangeRetry, SetTaken,
                            Link, WaitRetry, Woken
  <2>8. CASE LookAtNode(t) \/ Contend(t) \/ NodeWait(t) \/ NodeWoken(t)
    BY <1>a, <2>6, <2>8 DEF LookAtNode, Contend, NodeWait, NodeWoken
  <2>9. CASE LookForNext(t) \/ ReadFlag(t) \/ ReleaseFails(t) \/ SeeNext(t)
    BY <1>a, <2>6, <2>9 DEF LookForNext, ReadFlag, ReleaseFails, SeeNext
  <2>10. CASE PassOn(t) \/ WakeNext(t) \/ Reset(t)
    BY <1>a, <2>6, <2>10 DEF PassOn, WakeNext, Reset
  <2> QED
    BY <2>1, <2>2, <2>3, <2>4, <2>5, <2>7, <2>8, <2>9, <2>10 DEF Step, Exchange
<1> QED
  BY <1>1, <1>2

\* A thread asleep on the word is not forgotten: the flag is set, or a
\* thread that has cleared it is about to wake everyone.
THEOREM SleeperHasFlagCorrect == Spec => []SleeperHasFlag
<1>1. Init => SleeperHasFlag
  BY DEF Init, SleeperHasFlag
<1>2. ListInv /\ SleeperHasFlag /\ [Next]_vars => SleeperHasFlag'
  BY SleeperStep
<1> QED
  BY <1>1, <1>2, ListCorrect, PTL DEF Spec

-----------------------------------------------------------------------------
(* The lock implements HandoffLock *)

\* What HandoffLock sees of the threads in try_lock_or_wait().
Seen == [t \in Thread |-> IF pc[t] = "wait" THEN flagged[t] ELSE NoThread]

\* A step of t changes what HandoffLock sees of t only.
LEMMA SeenStep ==
  ASSUME TypeOK, TypeOK', NEW t \in Thread,
         \A u \in Thread \ {t} : pc'[u] = pc[u] /\ flagged'[u] = flagged[u]
  PROVE  /\ pc'[t] = "wait" => Seen' = [Seen EXCEPT ![t] = flagged'[t]]
         /\ pc'[t] # "wait" => Seen' = [Seen EXCEPT ![t] = NoThread]
         /\ pc'[t] # "wait" /\ pc[t] # "wait" => Seen' = Seen
  BY DEF Seen

\* The steps that HandoffLock does not see.
LEMMA HandoffStutters ==
  ASSUME ListInv, TypeOK', NEW t \in Thread,
         UNCHANGED <<owner, order, sleepers>>, locked'.flag = locked.flag,
         pc[t] # "wait", pc'[t] # "wait",
         \A u \in Thread \ {t} : pc'[u] = pc[u] /\ flagged'[u] = flagged[u]
  PROVE  UNCHANGED Handoff!lockVars
<1>1. Seen' = Seen
  BY SeenStep DEF ListInv
<1> QED
  BY <1>1 DEF Handoff!lockVars, Seen

LEMMA HandoffQuiet ==
  ASSUME ListInv, TypeOK', NEW t \in Thread,
         \/ LoadWord(t) \/ TryLook(t) \/ ExchangeRetry(t) \/ SetTaken(t) \/ Link(t)
         \/ LookAtNode(t) \/ Contend(t) \/ NodeWait(t) \/ NodeWoken(t) \/ Woken(t)
         \/ LookForNext(t) \/ ReadFlag(t) \/ ReleaseFails(t) \/ SeeNext(t) \/ WakeNext(t)
         \/ Reset(t) \/ (TryTake(t) /\ locked # free)
  PROVE  UNCHANGED Handoff!lockVars
<1> USE DEF Go, Expect, node, locals, kernel, history
<1>a. pc \in [Thread -> LockPc \cup TryPc \cup UnlockPc \cup {"idle", "held"}]
  BY DEF ListInv, TypeOK
<1>1. UNCHANGED <<owner, order, sleepers, flagged>> /\ locked'.flag = locked.flag
  BY DEF LoadWord, TryLook, ExchangeRetry, SetTaken, Link, LookAtNode, Contend, NodeWait,
         NodeWoken, Woken, LookForNext, ReadFlag, ReleaseFails, SeeNext, WakeNext, Reset, TryTake
<1>2. pc[t] # "wait" /\ pc'[t] # "wait" /\ \A u \in Thread \ {t} : pc'[u] = pc[u]
  BY <1>a
     DEF LoadWord, TryLook, ExchangeRetry, SetTaken, Link, LookAtNode, Contend, NodeWait,
         NodeWoken, Woken, LookForNext, ReadFlag, ReleaseFails, SeeNext, WakeNext, Reset, TryTake
<1> QED
  BY <1>1, <1>2, HandoffStutters

\* Taking, queueing, releasing and passing on.
LEMMA HandoffChain ==
  ASSUME ListInv, TypeOK', NEW t \in Thread,
         \/ ExchangeFree(t) \/ ExchangeTaken(t) \/ WaitTake(t) \/ (TryTake(t) /\ locked = free)
         \/ Release(t) \/ PassOn(t) \/ WakeAll(t)
  PROVE  Handoff!LockNext
<1> USE DEF Go, Expect, node, locals, kernel, history
<1>a. pc \in [Thread -> LockPc \cup TryPc \cup UnlockPc \cup {"idle", "held"}]
      /\ flagged \in [Thread -> Thread \cup {NoThread}]
  BY DEF ListInv, TypeOK
<1>b. Seen' = Seen
  <2>1. pc[t] # "wait" /\ pc'[t] # "wait"
        /\ \A u \in Thread \ {t} : pc'[u] = pc[u] /\ flagged'[u] = flagged[u]
    BY <1>a DEF ExchangeFree, ExchangeTaken, WaitTake, TryTake, Release, PassOn, WakeAll
  <2> QED
    BY <2>1, SeenStep DEF ListInv
<1>1. CASE ExchangeFree(t) \/ WaitTake(t) \/ (TryTake(t) /\ locked = free)
  <2>1. TakeFree(t) /\ locked = free
    BY <1>1 DEF ExchangeFree, WaitTake, TryTake, TakeFree
  <2>2. owner = NoThread /\ owner' = t /\ locked'.flag = locked.flag
        /\ UNCHANGED <<order, sleepers>>
    BY <2>1, FreeWord DEF TakeFree, free
  <2>3. Handoff!TakeFree(t)
    BY <2>2, <1>b DEF Handoff!TakeFree, Seen
  <2> QED
    BY <2>3 DEF Handoff!LockNext
<1>2. CASE ExchangeTaken(t)
  <2>1. owner # NoThread /\ order' = Append(order, t) /\ locked'.flag = locked.flag
        /\ UNCHANGED <<owner, sleepers>>
    BY <1>2, FreeWord DEF ExchangeTaken, ListInv, TypeOK, Word
  <2>2. Handoff!LockEnqueue(t)
    BY <2>1, <1>b DEF Handoff!LockEnqueue, Seen
  <2> QED
    BY <2>2 DEF Handoff!LockNext
<1>3. CASE Release(t)
  <2>1. owner = t /\ order = <<>> /\ order' = order /\ UNCHANGED sleepers
    <3>1. owner = t /\ locked.node = t
      BY <1>3 DEF Release, ListInv, PlaceOK, Holding
    <3> QED
      BY <1>3, <3>1, FreeWord DEF Release
  <2>2. owner' = NoThread /\ locked'.flag = FALSE /\ locked.flag \in BOOLEAN
    BY <1>3 DEF Release, free, ListInv, TypeOK, Word
  <2>3. CASE locked.flag
    <3>1. Handoff!UnlockFlagged(t)
      BY <2>1, <2>2, <2>3, <1>b DEF Handoff!UnlockFlagged, Seen
    <3> QED
      BY <3>1 DEF Handoff!LockNext
  <2>4. CASE ~locked.flag
    <3>1. Handoff!UnlockFree(t)
      BY <2>1, <2>2, <2>4, <1>b DEF Handoff!UnlockFree, Seen
    <3> QED
      BY <3>1 DEF Handoff!LockNext
  <2> QED
    BY <2>3, <2>4
<1>4. CASE PassOn(t)
  <2>1. owner = t /\ order # <<>> /\ owner' = Head(order) /\ order' = Tail(order)
        /\ UNCHANGED <<locked, sleepers>>
    BY <1>4, KnownNodes DEF PassOn, ListInv, TypeOK
  <2>2. Handoff!HandOver(t)
    BY <2>1, <1>b DEF Handoff!HandOver, Seen
  <2> QED
    BY <2>2 DEF Handoff!LockNext
<1>5. CASE WakeAll(t)
  <2>1. sleepers' = {} /\ UNCHANGED <<owner, order, locked>>
    BY <1>5 DEF WakeAll
  <2>2. Handoff!NotifyAll(t)
    BY <2>1, <1>b DEF Handoff!NotifyAll, Seen
  <2> QED
    BY <2>2 DEF Handoff!LockNext
<1> QED
  BY <1>1, <1>2, <1>3, <1>4, <1>5

\* The node in the word is the last thread of HandoffLock's queue.
LEMMA HandoffLast ==
  ASSUME ListInv
  PROVE  locked.node = Handoff!LastNode
  BY DEF ListInv, TypeOK, ChainOK, Chain, Handoff!LastNode

\* The steps of try_lock_or_wait() up to its sleep.
LEMMA HandoffWaits ==
  ASSUME ListInv, TypeOK', NEW t \in Thread,
         WaitLoad(t) \/ WaitRetry(t) \/ WaitFlag(t) \/ Wait(t)
  PROVE  Handoff!LockNext \/ UNCHANGED Handoff!lockVars
<1> USE DEF Go, Expect, node, locals, kernel, history
<1>a. /\ pc \in [Thread -> LockPc \cup TryPc \cup UnlockPc \cup {"idle", "held"}]
      /\ flagged \in [Thread -> Thread \cup {NoThread}] /\ current \in [Thread -> Word]
      /\ locked \in Word /\ (locked.flag => owner # NoThread)
  BY FreeWord DEF ListInv, TypeOK
<1>b. \A u \in Thread \ {t} : pc'[u] = pc[u] /\ flagged'[u] = flagged[u]
  BY <1>a DEF WaitLoad, WaitRetry, Consider, WaitFlag, Wait
<1>1. CASE WaitLoad(t) \/ WaitRetry(t)
  <2>1. /\ UNCHANGED <<locked, owner, order, sleepers>> /\ pc[t] # "wait"
        /\ pc'[t] = IF locked.flag THEN "wait" ELSE "waitTake"
    BY <1>1, <1>a DEF WaitLoad, WaitRetry, Consider
  <2>2. CASE ~locked.flag
    BY <2>1, <2>2, <1>b, HandoffStutters
  <2>3. CASE locked.flag
    <3>1. pc'[t] = "wait" /\ flagged'[t] \in Thread \cup {NoThread}
      BY <2>1, <2>3 DEF TypeOK
    <3>2. Seen' = [Seen EXCEPT ![t] = flagged'[t]]
      BY <3>1, <1>b, SeenStep DEF ListInv
    <3>3. Handoff!WaitFlag(t)
      BY <2>1, <2>3, <3>1, <3>2, <1>a DEF Handoff!WaitFlag, Seen
    <3> QED
      BY <3>3 DEF Handoff!LockNext
  <2> QED
    BY <2>2, <2>3
<1>2. CASE WaitFlag(t)
  <2>1. /\ UNCHANGED <<owner, order, sleepers>> /\ owner # NoThread
        /\ locked'.flag = TRUE /\ pc'[t] = "wait" /\ flagged'[t] = locked.node
    BY <1>2, <1>a, FreeWord DEF WaitFlag, Word
  <2>2. Seen' = [Seen EXCEPT ![t] = locked.node]
    BY <2>1, <1>b, SeenStep DEF ListInv
  <2>3. locked.node \in IF locked.flag THEN Thread \cup {NoThread} ELSE {Handoff!LastNode}
    BY <1>a, HandoffLast DEF Word
  <2>4. Handoff!WaitFlag(t)
    BY <2>1, <2>2, <2>3 DEF Handoff!WaitFlag, Seen
  <2> QED
    BY <2>4 DEF Handoff!LockNext
<1>3. CASE Wait(t)
  <2>1. /\ UNCHANGED <<owner, order, locked>> /\ pc[t] = "wait" /\ pc'[t] # "wait"
        /\ Seen[t] = flagged[t]
    BY <1>3, <1>a DEF Wait, Seen
  <2>2. Seen' = [Seen EXCEPT ![t] = NoThread]
    BY <2>1, <1>b, SeenStep DEF ListInv
  <2>3. locked = [node |-> flagged[t], flag |-> TRUE]
          <=> locked.flag /\ Handoff!LastNode = Seen[t]
    BY <2>1, <1>a, HandoffLast DEF Word
  <2>4. CASE locked = [node |-> flagged[t], flag |-> TRUE]
    <3>1. Handoff!WaitSleep(t)
      BY <1>3, <2>1, <2>2, <2>3, <2>4 DEF Wait, Handoff!WaitSleep, Handoff!SeenWord, Seen
    <3> QED
      BY <3>1 DEF Handoff!LockNext
  <2>5. CASE locked # [node |-> flagged[t], flag |-> TRUE]
    <3>1. Handoff!WaitMiss(t)
      BY <1>3, <2>1, <2>2, <2>3, <2>5 DEF Wait, Handoff!WaitMiss, Handoff!SeenWord, Seen
    <3> QED
      BY <3>1 DEF Handoff!LockNext
  <2> QED
    BY <2>4, <2>5
<1> QED
  BY <1>1, <1>2, <1>3

LEMMA HandoffInit == Init => Handoff!LockInit
  BY DEF Init, Handoff!LockInit, free

LEMMA HandoffNext ==
  ASSUME ListInv, [Next]_vars
  PROVE  [Handoff!LockNext]_(Handoff!lockVars)
<1>1. CASE UNCHANGED vars
  BY <1>1 DEF vars, Handoff!lockVars, locals, kernel, history
<1>2. CASE Next
  <2> PICK t \in Thread : LoadWord(t) \/ TryLook(t) \/ WaitLoad(t) \/ Step(t)
    BY <1>2 DEF Next
  <2>a. TypeOK'
    BY <1>2, TypeNext
  <2>1. CASE \/ LoadWord(t) \/ TryLook(t) \/ ExchangeRetry(t) \/ SetTaken(t) \/ Link(t)
             \/ LookAtNode(t) \/ Contend(t) \/ NodeWait(t) \/ NodeWoken(t) \/ Woken(t)
             \/ LookForNext(t) \/ ReadFlag(t) \/ ReleaseFails(t) \/ SeeNext(t) \/ WakeNext(t)
             \/ Reset(t) \/ (TryTake(t) /\ locked # free)
    BY <2>a, <2>1, HandoffQuiet
  <2>2. CASE \/ ExchangeFree(t) \/ ExchangeTaken(t) \/ WaitTake(t)
             \/ (TryTake(t) /\ locked = free) \/ Release(t) \/ PassOn(t) \/ WakeAll(t)
    BY <2>a, <2>2, HandoffChain
  <2>3. CASE WaitLoad(t) \/ WaitRetry(t) \/ WaitFlag(t) \/ Wait(t)
    BY <2>a, <2>3, HandoffWaits
  <2> QED
    BY <2>1, <2>2, <2>3 DEF Step, Exchange
<1> QED
  BY <1>1, <1>2

\* The lock, access by access, does what HandoffLock says of it in one step
\* each, which is what the proofs of the delegation lock start from.
THEOREM ImplementsHandoffCorrect == Spec => ImplementsHandoff
<1>1. ListInv /\ [Next]_vars => [Handoff!LockNext]_(Handoff!lockVars)
  BY HandoffNext
<1> QED
  BY <1>1, HandoffInit, ListCorrect, PTL DEF Spec, ImplementsHandoff, Handoff!LockSpec

=============================================================================
