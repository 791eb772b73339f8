---------------------------- MODULE LocksProofs -----------------------------
(***************************************************************************)
(* The mutual exclusion locks a delegation lock can be built on, for any   *)
(* number of threads: one holder, no sleeper forgotten, and the threads    *)
(* served in the order of their tickets or of their exchanges.  Each kind  *)
(* has an inductive invariant of its own.                                  *)
(***************************************************************************)
EXTENDS MCLocks, FiniteSetTheorems, SequenceTheorems, TLAPS

-----------------------------------------------------------------------------
(* futex_lock *)

LEMMA FutexInit == F!Init => F!FutexInv
  BY DEF F!Init, F!FutexInv, F!TypeOK, F!WordOK, F!WakeNotLost

LEMMA FutexTypeStep ==
  ASSUME F!TypeOK, F!Next
  PROVE  F!TypeOK'
<1> PICK t \in Thread : F!Call(t) \/ F!Step(t)
  BY DEF F!Next
<1> USE DEF F!TypeOK, F!Go, F!LockPc, F!TryPc, F!UnlockPc
<1>1. CASE F!Call(t)
  BY <1>1 DEF F!Call, F!LockCas, F!TryLook, F!WaitLoad, F!NotFree
<1>2. CASE F!LockExchange(t) \/ F!LockWait(t) \/ F!Woken(t) \/ F!TryTake(t)
  BY <1>2 DEF F!LockExchange, F!LockWait, F!Wait, F!Woken, F!TryTake
<1>3. CASE F!WaitTake(t) \/ F!WaitExchange(t) \/ F!WaitOnce(t)
  BY <1>3 DEF F!WaitTake, F!WaitExchange, F!WaitOnce, F!Wait, F!NotFree
<1>4. CASE F!Unlock(t) \/ F!NotifyAll(t)
  BY <1>4 DEF F!Unlock, F!NotifyAll
<1> QED
  BY <1>1, <1>2, <1>3, <1>4 DEF F!Step

LEMMA FutexStep ==
  ASSUME F!FutexInv, F!Next
  PROVE  F!FutexInv'
<1> PICK t \in Thread : F!Call(t) \/ F!Step(t)
  BY DEF F!Next
<1>a. F!TypeOK'
  BY FutexTypeStep DEF F!FutexInv
<1> USE DEF F!Go
<1>b. pc \in [Thread -> {"idle", "held"} \cup F!LockPc \cup F!TryPc \cup F!UnlockPc]
      /\ locked \in {"free", "taken", "contended"}
  BY DEF F!FutexInv, F!TypeOK
\* What the steps do to the word, the sleepers and the place of t.
<1> DEFINE Others == \A u \in Thread \ {t} : pc'[u] = pc[u]
           Take == locked' # "free" /\ (pc'[t] = "held" <=> locked = "free")
           Keep == locked' = locked /\ pc'[t] # "held"
           Leave == locked' = "free" /\ pc[t] = "held" /\ pc'[t] # "held"
<1>1. Others /\ (pc[t] = "held" => Leave) /\ (Take \/ Keep \/ Leave)
  <2>1. CASE F!Call(t)
    BY <1>b, <2>1 DEF F!Call, F!LockCas, F!TryLook, F!WaitLoad, F!NotFree
  <2>2. CASE F!LockExchange(t) \/ F!LockWait(t) \/ F!Woken(t) \/ F!TryTake(t)
    BY <1>b, <2>2 DEF F!LockExchange, F!LockWait, F!Wait, F!Woken, F!TryTake
  <2>3. CASE F!WaitTake(t) \/ F!WaitExchange(t) \/ F!WaitOnce(t)
    BY <1>b, <2>3 DEF F!WaitTake, F!WaitExchange, F!WaitOnce, F!Wait, F!NotFree
  <2>4. CASE F!Unlock(t) \/ F!NotifyAll(t)
    BY <1>b, <2>4 DEF F!Unlock, F!NotifyAll
  <2> QED
    BY <2>1, <2>2, <2>3, <2>4 DEF F!Step
<1>2. F!WordOK'
  BY <1>1 DEF F!FutexInv, F!WordOK
<1>3. F!WakeNotLost'
  <2> USE DEF F!FutexInv, F!WakeNotLost
  <2>1. CASE F!Call(t)
    BY <1>b, <2>1 DEF F!Call, F!LockCas, F!TryLook, F!WaitLoad
  <2>2. CASE F!LockExchange(t) \/ F!LockWait(t) \/ F!Woken(t) \/ F!TryTake(t)
    BY <1>b, <2>2 DEF F!LockExchange, F!LockWait, F!Wait, F!Woken, F!TryTake
  <2>3. CASE F!WaitTake(t) \/ F!WaitExchange(t) \/ F!WaitOnce(t)
    BY <1>b, <2>3 DEF F!WaitTake, F!WaitExchange, F!WaitOnce, F!Wait
  <2>4. CASE F!Unlock(t) \/ F!NotifyAll(t)
    BY <1>b, <2>4 DEF F!Unlock, F!NotifyAll
  <2> QED
    BY <2>1, <2>2, <2>3, <2>4 DEF F!Step
<1> QED
  BY <1>a, <1>2, <1>3 DEF F!FutexInv

-----------------------------------------------------------------------------
(* ticket_futex_lock *)

\* The words wrap round at W.
LEMMA TicketWrap ==
  ASSUME NEW x \in Int, 0 - W <= x, x < 2 * W
  PROVE  x % W = IF x < 0 THEN x + W ELSE IF x < W THEN x ELSE x - W
  BY TicketAssumption, SMT DEF TicketAssumption

LEMMA TicketWordFacts ==
  ASSUME NEW v \in Value
  PROVE  /\ W > 0 /\ Flag(v) \in {0, 1} /\ Number(v) \in Value /\ Number(v) % 2 = 0
         /\ v = Number(v) + Flag(v)
         /\ Flag(v) = 0 => v + 1 \in Value /\ Number(v + 1) = Number(v) /\ Flag(v + 1) = 1
         /\ Past(v) \in Nat /\ Past(v) < W
         /\ v % 2 = 0 => Flag(v) = 0 /\ Number(v) = v /\ Past(v) % 2 = 0
  BY TicketAssumption, SMT DEF TicketAssumption, Value, Flag, Number, Past

LEMMA PastInjective ==
  ASSUME NEW v \in Value, NEW w \in Value, Past(v) = Past(w)
  PROVE  v = w
  BY TicketAssumption, SMT DEF TicketAssumption, Value, Past

LEMMA PastDistance ==
  ASSUME NEW v \in Value
  PROVE (v - FirstTicket) % W = Past(v)
  BY TicketAssumption, TicketWrap, SMT DEF TicketAssumption, Value, Past

\* The next number, as long as the words do not meet the first ticket again.
LEMMA PastNext ==
  ASSUME NEW v \in Value, v % 2 = 0, Past(v) + 2 < W
  PROVE  /\ (v + 2) % W \in Value /\ ((v + 2) % W) % 2 = 0
         /\ Past((v + 2) % W) = Past(v) + 2
<1>1. (v + 2) % W = IF v + 2 < W THEN v + 2 ELSE v + 2 - W
  BY TicketAssumption, TicketWrap DEF TicketAssumption, Value
<1> QED
  BY <1>1, TicketAssumption, SMT DEF TicketAssumption, Value, Past

LEMMA TicketInit == Init => TicketInv
<1> SUFFICES ASSUME Init PROVE TicketInv
  OBVIOUS
<1>1. FirstTicket \in Value /\ FirstTicket % 2 = 0 /\ 0 \in Value
  BY TicketAssumption DEF TicketAssumption, Value
<1>2. TypeOK
  BY <1>1 DEF Init, TypeOK
<1>3. Users = {} /\ Pending = {} /\ Busy = {}
  BY DEF Init, Users, Pending, Busy, Holding, LockPc, PendingPc
<1>7. Drawn = 0 /\ Served = 0
  <2>1. ticket = FirstTicket /\ Number(serving) = FirstTicket
    BY <1>1, TicketWordFacts DEF Init
  <2> QED
    BY <1>1, <2>1 DEF Drawn, Served, Past, Value
<1>4. CountOK
  BY <1>3, <1>7, FS_EmptySet, TicketAssumption DEF CountOK, TicketAssumption
<1>5. \A t \in Thread : KnowsOK(t)
  BY DEF Init, KnowsOK, LockPc, PendingPc
<1>6. DistinctOK
  BY DEF Init, DistinctOK, Holding, LockPc
<1> QED
  BY <1>2, <1>4, <1>5, <1>6 DEF TicketInv

\* What the invariant says of the words.
LEMMA TicketFacts ==
  ASSUME TicketInv
  PROVE  /\ ticket \in Value /\ ticket % 2 = 0 /\ serving \in Value /\ Number(serving) \in Value
         /\ mynum \in [Thread -> Value] /\ current \in [Thread -> Value]
         /\ Drawn \in Nat /\ Served \in Nat /\ Drawn % 2 = 0 /\ Served % 2 = 0
         /\ Served <= Drawn /\ Drawn <= 2 * MaxTickets /\ Drawn < W
         /\ IsFiniteSet(Users) /\ IsFiniteSet(Pending) /\ IsFiniteSet(Busy)
         /\ Cardinality(Users) \in Nat /\ Cardinality(Pending) \in Nat
         /\ Cardinality(Busy) \in Nat /\ Cardinality(Pending) <= Cardinality(Busy)
<1>1. TypeOK /\ CountOK
  BY DEF TicketInv
<1>2. Pending \subseteq Busy /\ Users \subseteq Busy
  BY DEF Pending, Users, Busy, PendingPc, LockPc, Holding
<1>3. /\ IsFiniteSet(Users) /\ IsFiniteSet(Pending) /\ IsFiniteSet(Busy)
      /\ Cardinality(Users) \in Nat /\ Cardinality(Pending) \in Nat
      /\ Cardinality(Busy) \in Nat /\ Cardinality(Pending) <= Cardinality(Busy)
  BY <1>1, <1>2, FS_Subset, FS_CardinalityType DEF CountOK
<1>4. Drawn \in Nat /\ Served \in Nat /\ Drawn % 2 = 0 /\ Served % 2 = 0 /\ Number(serving) \in Value
  <2>1. ticket \in Value /\ ticket % 2 = 0 /\ serving \in Value
    BY <1>1 DEF TypeOK
  <2>2. Number(serving) \in Value /\ Number(serving) % 2 = 0
    BY <2>1, TicketWordFacts
  <2> QED
    BY <2>1, <2>2, TicketWordFacts DEF Drawn, Served
<1> QED
  BY <1>1, <1>3, <1>4, TicketAssumption DEF TypeOK, CountOK, TicketAssumption

\* Other threads than t stay where they are.
TicketOthersStay(t) ==
  \A u \in Thread \ {t} : pc'[u] = pc[u] /\ mynum'[u] = mynum[u] /\ current'[u] = current[u]

\* The sets of threads that a step of t changes, and their sizes.
LEMMA TicketUsers ==
  ASSUME TicketInv, NEW t \in Thread, TicketOthersStay(t)
  PROVE  /\ IsFiniteSet(Busy')
         /\ (t \in Users <=> t \in Users') => Users' = Users
         /\ t \notin Users /\ t \in Users' => Cardinality(Users') = Cardinality(Users) + 1
         /\ t \in Users /\ t \notin Users' => Cardinality(Users') = Cardinality(Users) - 1
         /\ t \in Users => Cardinality(Users) >= 1
         /\ (t \in Pending <=> t \in Pending') => Pending' = Pending
         /\ t \notin Pending /\ t \in Pending' => Cardinality(Pending') = Cardinality(Pending) + 1
         /\ t \in Pending /\ t \notin Pending' => Cardinality(Pending') = Cardinality(Pending) - 1
<1>1. Busy' \subseteq Busy \cup {t}
  BY DEF Busy, TicketOthersStay
<1>2. IsFiniteSet(Busy')
  BY <1>1, TicketFacts, FS_AddElement, FS_Subset
<1>3. Users' = IF t \in Users' THEN Users \cup {t} ELSE Users \ {t}
  BY DEF Users, TicketOthersStay, Holding
<1>4. Pending' = IF t \in Pending' THEN Pending \cup {t} ELSE Pending \ {t}
  BY DEF Pending, TicketOthersStay
<1>5. ASSUME NEW S, IsFiniteSet(S)
      PROVE  /\ t \notin S => Cardinality(S \cup {t}) = Cardinality(S) + 1
             /\ t \in S => Cardinality(S \ {t}) = Cardinality(S) - 1 /\ Cardinality(S) >= 1
  <2>1. t \notin S => Cardinality(S \cup {t}) = Cardinality(S) + 1
    BY <1>5, FS_AddElement
  <2>2. t \in S => Cardinality(S \ {t}) = Cardinality(S) - 1
    BY <1>5, FS_RemoveElement
  <2>3. t \in S => Cardinality(S) >= 1
    BY <1>5, FS_EmptySet, FS_CardinalityType
  <2> QED
    BY <2>1, <2>2, <2>3
<1>6. /\ t \notin Users => Cardinality(Users \cup {t}) = Cardinality(Users) + 1
      /\ t \in Users => Cardinality(Users \ {t}) = Cardinality(Users) - 1 /\ Cardinality(Users) >= 1
  BY <1>5, TicketFacts
<1>7. /\ t \notin Pending => Cardinality(Pending \cup {t}) = Cardinality(Pending) + 1
      /\ t \in Pending => Cardinality(Pending \ {t}) = Cardinality(Pending) - 1
  BY <1>5, TicketFacts
<1>8. (t \in Users <=> t \in Users') => Users' = Users
  BY <1>3
<1>9. (t \in Pending <=> t \in Pending') => Pending' = Pending
  BY <1>4
<1> QED
  BY <1>2, <1>3, <1>4, <1>6, <1>7, <1>8, <1>9

\* A step that draws no ticket and serves none.
LEMMA TicketQuiet ==
  ASSUME TicketInv, TypeOK', NEW t \in Thread, TicketOthersStay(t),
         ticket' = ticket, Number(serving') = Number(serving),
         t \in Users <=> t \in Users', t \in Pending' => t \in Pending,
         KnowsOK(t)',
         pc'[t] \in LockPc => pc[t] \in LockPc /\ mynum'[t] = mynum[t],
         Holding(t)' => Holding(t) \/ (pc[t] \in LockPc /\ mynum[t] = Number(serving))
  PROVE  TicketInv'
<1>1. Drawn' = Drawn /\ Served' = Served
  BY DEF Drawn, Served, Past
<1>2. CountOK'
  <2>1. Users' = Users /\ IsFiniteSet(Busy')
    BY TicketUsers
  <2>2. Cardinality(Pending') \in {Cardinality(Pending), Cardinality(Pending) - 1}
    BY TicketUsers
  <2>3. Drawn + 2 * Cardinality(Pending') <= 2 * MaxTickets
    BY <2>2, TicketFacts, TicketAssumption DEF CountOK, TicketInv, TicketAssumption
  <2> QED
    BY <1>1, <2>1, <2>3 DEF CountOK, TicketInv
<1>3. \A u \in Thread \ {t} : KnowsOK(u)'
  BY <1>1 DEF KnowsOK, TicketInv, TicketOthersStay, Past
<1>4. DistinctOK'
  BY DEF DistinctOK, TicketInv, TicketOthersStay, Holding
<1> QED
  BY <1>2, <1>3, <1>4 DEF TicketInv

\* A call may begin: there is a ticket left for t and for everyone who may
\* still draw one.
LEMMA TicketLeft ==
  ASSUME TicketInv, MayCall
  PROVE  Drawn + 2 * Cardinality(Pending) + 2 <= 2 * MaxTickets
<1>1. (ticket - FirstTicket) % W = Drawn
  BY TicketFacts, PastDistance DEF Drawn
<1>2. Drawn \div 2 + Cardinality(Busy) < MaxTickets
  BY <1>1 DEF MayCall
<1> QED
  BY <1>2, TicketFacts, TicketAssumption DEF TicketAssumption

\* A step that draws the next ticket, which is thereafter one of a user.
LEMMA TicketDrawn ==
  ASSUME TicketInv, TypeOK', NEW t \in Thread, TicketOthersStay(t), t \notin Users, t \in Users',
         ticket' = (ticket + 2) % W, serving' = serving,
         Drawn + 2 * Cardinality(Pending') + 2 <= 2 * MaxTickets,
         KnowsOK(t)',
         pc'[t] \in LockPc => mynum'[t] = ticket,
         Holding(t)' => Served = Drawn
  PROVE  TicketInv'
<1> USE TicketFacts
<1>0. Cardinality(Pending') \in Nat /\ Drawn + 2 < W
  <2>1. IsFiniteSet(Busy') /\ Pending' \subseteq Busy'
    BY TicketUsers DEF Pending, Busy, PendingPc
  <2>2. Cardinality(Pending') \in Nat
    BY <2>1, FS_CardinalityType, FS_Subset
  <2> QED
    BY <2>2, TicketAssumption DEF TicketAssumption
<1>1. Drawn' = Drawn + 2 /\ Served' = Served
  BY <1>0, PastNext DEF Drawn, Served, Past
<1>2. CountOK'
  <2>1. Cardinality(Users') = Cardinality(Users) + 1 /\ IsFiniteSet(Busy')
    BY TicketUsers
  <2>2. Drawn' + 2 * Cardinality(Pending') <= 2 * MaxTickets
    BY <1>0, <1>1, TicketAssumption DEF TicketAssumption
  <2>3. Drawn' = Served' + 2 * Cardinality(Users')
    BY <1>1, <2>1 DEF CountOK, TicketInv
  <2> QED
    BY <2>1, <2>2, <2>3 DEF CountOK
<1>3. ASSUME NEW u \in Thread \ {t} PROVE KnowsOK(u)'
  <2>1. KnowsOK(u) /\ Past(mynum[u]) \in Nat
    BY TicketWordFacts DEF TicketInv
  <2>2. pc'[u] = pc[u] /\ mynum'[u] = mynum[u] /\ current'[u] = current[u]
    BY DEF TicketOthersStay
  <2>3. Past(mynum[u])' = Past(mynum[u])
    BY <2>2 DEF Past
  <2> QED
    BY <1>1, <2>1, <2>2, <2>3 DEF KnowsOK
<1>4. DistinctOK'
  <2>1. ASSUME NEW u \in Thread \ {t}, pc[u] \in LockPc
        PROVE  mynum[u] # ticket /\ Served < Drawn
    BY <2>1, TicketWordFacts DEF TicketInv, KnowsOK, Drawn
  <2>2. ASSUME NEW u \in Thread \ {t}, Holding(u)
        PROVE  Served < Drawn /\ ticket # Number(serving)
    <3>1. Cardinality(Users) # 0
      BY <2>2, FS_EmptySet DEF Users
    <3>2. Served < Drawn
      BY <3>1 DEF TicketInv, CountOK
    <3> QED
      BY <3>2 DEF Served, Drawn
  <2>3. ~(Holding(t)' /\ pc'[t] \in LockPc)
    BY DEF Holding, LockPc
  <2> QED
    BY <2>1, <2>2, <2>3 DEF DistinctOK, TicketInv, TicketOthersStay, Holding
<1> QED
  BY <1>2, <1>3, <1>4 DEF TicketInv

LEMMA TicketDraw ==
  ASSUME TicketInv, TypeOK', NEW t \in Thread, LockDraw(t)
  PROVE  TicketInv'
<1> USE TicketFacts
<1>1. /\ pc[t] = "idle" /\ pc'[t] = "load" /\ mynum'[t] = ticket /\ TicketOthersStay(t)
      /\ ticket' = (ticket + 2) % W /\ UNCHANGED <<serving, current>>
  BY DEF LockDraw, Go, Set, TicketOthersStay, TicketInv, TypeOK
<1>2. t \notin Users /\ t \in Users' /\ Pending' = Pending
  <2>1. t \notin Users /\ t \in Users' /\ t \notin Pending /\ t \notin Pending'
    BY <1>1 DEF Users, Pending, Holding, LockPc, PendingPc
  <2> QED
    BY <1>1, <2>1, TicketUsers
<1>3. Drawn + 2 * Cardinality(Pending') + 2 <= 2 * MaxTickets
  BY <1>2, TicketLeft DEF LockDraw
<1>4. Drawn' = Drawn + 2 /\ Served' = Served
  <2>1. Drawn + 2 < W
    BY <1>3, <1>2, TicketAssumption DEF TicketAssumption
  <2> QED
    BY <1>1, <2>1, PastNext DEF Drawn, Served, Past
<1>5. KnowsOK(t)'
  <2>1. Past(mynum[t])' = Drawn
    BY <1>1 DEF Past, Drawn
  <2> QED
    BY <1>1, <1>4, <2>1 DEF KnowsOK, LockPc, PendingPc
<1>6. ~Holding(t)'
  BY <1>1 DEF Holding
<1> QED
  BY <1>1, <1>2, <1>3, <1>5, <1>6, TicketDrawn

LEMMA TicketTake ==
  ASSUME TicketInv, TypeOK', NEW t \in Thread, TryTake(t) \/ WaitTake(t), ticket = mynum[t]
  PROVE  TicketInv'
<1> USE TicketFacts
<1>1. /\ pc[t] \in {"tryTake", "waitTake"} /\ pc'[t] = "held" /\ TicketOthersStay(t)
      /\ ticket' = (ticket + 2) % W /\ UNCHANGED serving
  BY DEF TryTake, WaitTake, Forget, Go, Set, TicketOthersStay, TicketInv, TypeOK
<1>2. t \notin Users /\ t \in Users' /\ t \in Pending /\ t \notin Pending'
  BY <1>1 DEF Users, Pending, Holding, LockPc, PendingPc
<1>3. Drawn + 2 * Cardinality(Pending') + 2 <= 2 * MaxTickets
  <2>1. Cardinality(Pending') = Cardinality(Pending) - 1
    BY <1>1, <1>2, TicketUsers
  <2> QED
    BY <2>1, TicketAssumption DEF TicketInv, CountOK, TicketAssumption
<1>4. Served = Drawn
  BY <1>1 DEF TicketInv, KnowsOK, Drawn
<1>5. KnowsOK(t)'
  BY <1>1 DEF KnowsOK, LockPc, PendingPc
<1>6. pc'[t] \notin LockPc
  BY <1>1 DEF LockPc
<1> QED
  BY <1>1, <1>2, <1>3, <1>4, <1>5, <1>6, TicketDrawn

LEMMA TicketLoadStep ==
  ASSUME TicketInv, TypeOK', NEW t \in Thread, TicketLoad(t)
  PROVE  TicketInv'
<1> USE TicketFacts
<1>1. /\ pc[t] = "idle" /\ pc'[t] \in {"tryServing", "waitServing"} /\ mynum'[t] = ticket
      /\ TicketOthersStay(t) /\ UNCHANGED <<ticket, serving>>
  BY DEF TicketLoad, Go, Set, TicketOthersStay, TicketInv, TypeOK
<1>2. Drawn' = Drawn /\ Served' = Served
  BY <1>1 DEF Drawn, Served, Past
<1>3. CountOK'
  <2>1. t \notin Users /\ t \notin Users' /\ t \notin Pending /\ t \in Pending'
    BY <1>1 DEF Users, Pending, Holding, LockPc, PendingPc
  <2>2. Users' = Users /\ IsFiniteSet(Busy') /\ Cardinality(Pending') = Cardinality(Pending) + 1
    BY <1>1, <2>1, TicketUsers
  <2>3. Drawn + 2 * Cardinality(Pending) + 2 <= 2 * MaxTickets
    BY TicketLeft DEF TicketLoad
  <2>4. Drawn' + 2 * Cardinality(Pending') <= 2 * MaxTickets
    BY <1>2, <2>2, <2>3, TicketAssumption DEF TicketAssumption
  <2> QED
    BY <1>2, <2>2, <2>4 DEF CountOK, TicketInv
<1>4. KnowsOK(t)'
  <2>1. Past(mynum[t])' = Drawn
    BY <1>1 DEF Past, Drawn
  <2> QED
    BY <1>1, <1>2, <2>1 DEF KnowsOK, LockPc, PendingPc
<1>5. \A u \in Thread \ {t} : KnowsOK(u)'
  BY <1>1, <1>2 DEF KnowsOK, TicketInv, TicketOthersStay, Past
<1>6. DistinctOK'
  <2>1. pc'[t] \notin LockPc /\ ~Holding(t)'
    BY <1>1 DEF LockPc, Holding
  <2> QED
    BY <1>1, <2>1 DEF DistinctOK, TicketInv, TicketOthersStay, Holding
<1> QED
  BY <1>3, <1>4, <1>5, <1>6 DEF TicketInv

LEMMA TicketServe ==
  ASSUME TicketInv, TypeOK', NEW t \in Thread, ServeNext(t)
  PROVE  TicketInv'
<1> USE TicketFacts
<1>1. /\ pc[t] = "serveNext" /\ pc'[t] \in {"notify", "idle"} /\ TicketOthersStay(t)
      /\ serving' = (Number(current[t]) + 2) % W /\ UNCHANGED ticket
  BY DEF ServeNext, Go, Set, TicketOthersStay, TicketInv, TypeOK
<1>2. t \in Users /\ t \notin Users' /\ t \notin Pending /\ t \notin Pending' /\ Holding(t)
  BY <1>1 DEF Users, Pending, Holding, LockPc, PendingPc
<1>3. Users' = Users \ {t} /\ Cardinality(Users) >= 1 /\ Served + 2 <= Drawn
  <2>1. Users' = Users \ {t}
    BY <1>1, <1>2 DEF Users, Holding, TicketOthersStay
  <2>2. Cardinality(Users) >= 1
    BY <1>1, <1>2, TicketUsers
  <2> QED
    BY <2>1, <2>2 DEF TicketInv, CountOK
<1>4. Drawn' = Drawn /\ Served' = Served + 2
  <2>1. Number(current[t]) = Number(serving) /\ Number(serving) % 2 = 0
    BY <1>1, TicketWordFacts DEF TicketInv, KnowsOK
  <2>2. Past(Number(serving)) + 2 < W
    BY <1>3, TicketAssumption DEF Served, TicketAssumption
  <2>3. serving' \in Value /\ serving' % 2 = 0 /\ Past(serving') = Served + 2
    BY <1>1, <2>1, <2>2, PastNext DEF Served
  <2>4. Number(serving') = serving'
    BY <2>3, TicketWordFacts
  <2> QED
    BY <1>1, <2>3, <2>4 DEF Drawn, Served, Past
<1>5. CountOK'
  <2>1. Cardinality(Users') = Cardinality(Users) - 1 /\ IsFiniteSet(Busy') /\ Pending' = Pending
    BY <1>1, <1>2, TicketUsers
  <2> QED
    BY <1>4, <2>1 DEF CountOK, TicketInv
<1>6. ASSUME NEW u \in Thread \ {t} PROVE KnowsOK(u)' /\ ~Holding(u)
  <2>1. KnowsOK(u) /\ Past(mynum[u]) \in Nat
    BY TicketWordFacts DEF TicketInv
  <2>2. ~Holding(u) /\ (pc[u] \in LockPc => mynum[u] # Number(serving))
    BY <1>2 DEF TicketInv, DistinctOK
  <2>3. pc'[u] = pc[u] /\ mynum'[u] = mynum[u] /\ current'[u] = current[u]
    BY <1>1 DEF TicketOthersStay
  <2>4. Past(mynum[u])' = Past(mynum[u])
    BY <2>3 DEF Past
  <2>5. pc[u] \in LockPc => Served + 2 <= Past(mynum[u])
    <3> SUFFICES ASSUME pc[u] \in LockPc PROVE Served + 2 <= Past(mynum[u])
      OBVIOUS
    <3>1. Past(mynum[u]) % 2 = 0 /\ Served <= Past(mynum[u])
      BY <2>1, TicketWordFacts DEF KnowsOK
    <3>2. Past(mynum[u]) # Served
      BY <2>2, PastInjective DEF Served
    <3> QED
      BY <3>1, <3>2, <2>1
  <2>6. pc[u] # "serveNext"
    BY <2>2 DEF Holding
  <2> QED
    BY <1>4, <2>1, <2>2, <2>3, <2>4, <2>5, <2>6 DEF KnowsOK
<1>7. KnowsOK(t)'
  BY <1>1 DEF KnowsOK, LockPc, PendingPc
<1>8. DistinctOK'
  <2>1. pc'[t] \notin LockPc /\ ~Holding(t)'
    BY <1>1 DEF LockPc, Holding
  <2> QED
    BY <1>1, <1>6, <2>1 DEF DistinctOK, TicketInv, TicketOthersStay, Holding
<1> QED
  BY <1>5, <1>6, <1>7, <1>8 DEF TicketInv

\* A number turned back by one ticket is nearer to the first one by as much.
LEMMA TicketBack ==
  ASSUME NEW v \in Value, Number(v) # FirstTicket
  PROVE  /\ Back(v) \in Value /\ Flag(Back(v)) = Flag(v)
         /\ Past(Number(Back(v))) = Past(Number(v)) - 2
         /\ v % 2 = 0 => Back(v) % 2 = 0 /\ Past(Back(v)) = Past(v) - 2
<1>1. Back(v) = IF v < 2 THEN v - 2 + W ELSE v - 2
  BY TicketWrap, TicketAssumption DEF Back, TicketAssumption, Value
<1>2. Back(v) \in Value /\ Flag(Back(v)) = Flag(v)
  BY <1>1, TicketAssumption, SMT DEF TicketAssumption, Value, Flag
<1>3. Number(Back(v)) = IF Number(v) < 2 THEN Number(v) - 2 + W ELSE Number(v) - 2
  BY <1>1, TicketAssumption, SMT DEF TicketAssumption, Value, Flag, Number
<1>4. Number(v) \in Value /\ Number(v) % 2 = 0 /\ (v % 2 = 0 => Number(v) = v)
  BY TicketWordFacts
<1>5. Past(Number(Back(v))) = Past(Number(v)) - 2
  BY <1>3, <1>4, TicketAssumption, SMT DEF TicketAssumption, Value, Past
<1>6. v % 2 = 0 => Back(v) % 2 = 0 /\ Number(Back(v)) = Back(v)
  BY <1>2, TicketWordFacts DEF Flag
<1> QED
  BY <1>2, <1>4, <1>5, <1>6

\* Every number in use is turned back, and so are their distances kept.
LEMMA TicketRenumberFacts ==
  ASSUME TicketInv, Renumber
  PROVE  /\ ticket' \in Value /\ ticket' % 2 = 0 /\ serving' \in Value
         /\ Flag(serving') = Flag(serving) /\ Drawn' = Drawn - 2 /\ Served' = Served - 2
         /\ \A t \in Thread : pc[t] \in LockPc \cup PendingPc =>
              mynum'[t] % 2 = 0 /\ Past(mynum[t])' = Past(mynum[t]) - 2
         /\ \A t \in Thread : UsesServing(t) =>
              /\ Flag(current'[t]) = Flag(current[t])
              /\ Past(Number(current[t]))' = Past(Number(current[t])) - 2
         /\ mynum' \in [Thread -> Value] /\ current' \in [Thread -> Value]
<1> USE TicketFacts
<1>1. serving' \in Value /\ Flag(serving') = Flag(serving) /\ Served' = Served - 2
  BY TicketBack DEF Renumber, Served, Past
<1>2. Number(ticket) = ticket /\ ticket # FirstTicket
  <2>1. Served # 0
    BY PastInjective, TicketAssumption DEF Renumber, Served, Past, TicketAssumption, Value
  <2>2. Drawn # 0
    BY <2>1
  <2> QED
    BY <2>2, TicketWordFacts, TicketAssumption DEF Drawn, Past, TicketAssumption
<1>3. ticket' \in Value /\ ticket' % 2 = 0 /\ Drawn' = Drawn - 2
  BY <1>2, TicketBack DEF Renumber, Drawn, Past
<1>4. ASSUME NEW t \in Thread, UsesNumber(t)
      PROVE  /\ mynum[t] \in Value /\ mynum'[t] = Back(mynum[t]) /\ Back(mynum[t]) \in Value
             /\ Back(mynum[t]) % 2 = 0 /\ Past(Back(mynum[t])) = Past(mynum[t]) - 2
  <2>1. mynum[t] \in Value /\ mynum[t] % 2 = 0 /\ mynum[t] # FirstTicket
    BY <1>4 DEF Renumber, UsesNumber, TicketInv, KnowsOK, PendingPc
  <2>2. mynum'[t] = Back(mynum[t])
    BY <1>4 DEF Renumber
  <2> QED
    BY <2>1, <2>2, TicketWordFacts, TicketBack
<1>5. ASSUME NEW t \in Thread, UsesServing(t)
      PROVE  /\ current[t] \in Value /\ current'[t] = Back(current[t]) /\ Back(current[t]) \in Value
             /\ Flag(Back(current[t])) = Flag(current[t])
             /\ Past(Number(Back(current[t]))) = Past(Number(current[t])) - 2
  BY <1>5, TicketBack DEF Renumber
<1>6. mynum' \in [Thread -> Value] /\ current' \in [Thread -> Value]
  BY <1>4, <1>5 DEF Renumber
<1>7. \A t \in Thread : pc[t] \in LockPc \cup PendingPc =>
        mynum'[t] % 2 = 0 /\ Past(mynum[t])' = Past(mynum[t]) - 2
  BY <1>4 DEF UsesNumber, PendingPc, Past
<1>8. \A t \in Thread : UsesServing(t) =>
        /\ Flag(current'[t]) = Flag(current[t])
        /\ Past(Number(current[t]))' = Past(Number(current[t])) - 2
  BY <1>5 DEF Past
<1> QED
  BY <1>1, <1>3, <1>6, <1>7, <1>8

LEMMA TicketRenumber ==
  ASSUME TicketInv, TypeOK', Renumber
  PROVE  TicketInv'
<1> USE TicketFacts, TicketRenumberFacts
<1>1. UNCHANGED <<pc, sleepers>>
  BY DEF Renumber
<1>2. Users' = Users /\ Pending' = Pending /\ Busy' = Busy
  BY <1>1 DEF Users, Pending, Busy, Holding
<1>3. CountOK'
  BY <1>2, TicketAssumption DEF CountOK, TicketInv, TicketAssumption
<1>4. \A t \in Thread : Past(mynum[t]) \in Nat /\ Past(Number(current[t])) \in Nat
  BY TicketWordFacts
<1>5. ASSUME NEW t \in Thread PROVE KnowsOK(t)'
  <2>1. KnowsOK(t)
    BY DEF TicketInv
  <2>2. pc[t] = "serveNext" => Number(current'[t]) = Number(serving')
    <3> SUFFICES ASSUME pc[t] = "serveNext" PROVE Number(current'[t]) = Number(serving')
      OBVIOUS
    <3>1. UsesServing(t) /\ Past(Number(current[t])) = Served
      BY <2>1 DEF KnowsOK, UsesServing, Served
    <3>2. Past(Number(current[t]))' = Served'
      BY <3>1
    <3>3. Number(current'[t]) \in Value /\ Number(serving') \in Value
      BY TicketWordFacts
    <3> QED
      BY <3>2, <3>3, PastInjective DEF Served, Past
  <2>3. Past(mynum[t])' = Past(mynum'[t])
    BY DEF Past
  <2> QED
    BY <1>1, <1>4, <2>1, <2>2 DEF KnowsOK, UsesServing, LockPc, PendingPc
<1>6. DistinctOK'
  <2> SUFFICES ASSUME NEW t \in Thread, NEW u \in Thread, t # u
               PROVE  /\ pc[t] \in LockPc /\ pc[u] \in LockPc => mynum'[t] # mynum'[u]
                      /\ Holding(t) => /\ ~Holding(u)
                                       /\ pc[u] \in LockPc => mynum'[u] # Number(serving')
    BY <1>1 DEF DistinctOK, Holding
  <2>1. ASSUME pc[t] \in LockPc, pc[u] \in LockPc PROVE mynum'[t] # mynum'[u]
    <3>1. Past(mynum[t]) # Past(mynum[u])
      BY <2>1, PastInjective DEF TicketInv, DistinctOK
    <3>2. Past(mynum[t])' # Past(mynum[u])'
      BY <1>4, <2>1, <3>1
    <3> QED
      BY <3>2 DEF Past
  <2>2. ASSUME Holding(t), pc[u] \in LockPc PROVE mynum'[u] # Number(serving')
    <3>1. Past(mynum[u]) # Served
      BY <2>2, PastInjective DEF TicketInv, DistinctOK, Served
    <3>2. Past(mynum[u])' # Served'
      BY <1>4, <2>2, <3>1
    <3> QED
      BY <3>2 DEF Past, Served
  <2> QED
    BY <2>1, <2>2 DEF TicketInv, DistinctOK
<1> QED
  BY <1>3, <1>5, <1>6 DEF TicketInv

LEMMA TicketTypeStep ==
  ASSUME TicketInv, Next
  PROVE  TypeOK'
<1> USE TicketFacts
<1> DEFINE Pc == {"idle", "held"} \cup LockPc \cup TryPc \cup UnlockPc
<1>a. TypeOK /\ 0 \in Value
  BY TicketAssumption DEF TicketInv, Value, TicketAssumption
<1>b. ASSUME NEW t \in Thread, NEW from, NEW to \in Pc, Go(t, from, to)
      PROVE  pc' \in [Thread -> Pc]
  BY <1>a, <1>b DEF Go, TypeOK
<1>c. \A t \in Thread, v \in Value :
        /\ Set(mynum, t, v) => mynum' \in [Thread -> Value]
        /\ Set(current, t, v) => current' \in [Thread -> Value]
  BY <1>a DEF Set, TypeOK
<1>d. \A x \in Value : (x + 2) % W \in Value /\ (x % 2 = 0 => ((x + 2) % W) % 2 = 0)
  <2> TAKE x \in Value
  <2>1. (x + 2) % W = IF x + 2 < W THEN x + 2 ELSE x + 2 - W
    BY TicketWrap, TicketAssumption DEF TicketAssumption, Value
  <2> QED
    BY <2>1, TicketAssumption DEF TicketAssumption, Value
<1>e. Flag(serving) = 0 => serving + 1 \in Value
  BY TicketWordFacts
<1>f. \A t \in Thread : pc[t] \in {"lockFlag", "waitFlag"} => Flag(current[t]) = 0
  BY DEF TicketInv, KnowsOK
<1> HIDE DEF Pc
<1>g. /\ LockPc \subseteq Pc /\ TryPc \subseteq Pc /\ UnlockPc \subseteq Pc
      /\ "idle" \in Pc /\ "held" \in Pc
  BY DEF Pc
<1>h. ASSUME ticket' \in Value, ticket' % 2 = 0, serving' \in Value, pc' \in [Thread -> Pc],
             mynum' \in [Thread -> Value], current' \in [Thread -> Value],
             sleepers' \in SUBSET Thread
      PROVE  TypeOK'
  BY <1>h DEF TypeOK, Pc
<1>i. sleepers \in SUBSET Thread
  BY <1>a DEF TypeOK
<1> USE <1>a, <1>g, <1>i DEF LockPc, TryPc, UnlockPc, locals
<1>1. CASE Renumber
  BY <1>1, <1>h, TicketRenumberFacts DEF Renumber, TypeOK, Pc
<1>2. ASSUME NEW t \in Thread, LockDraw(t) PROVE TypeOK'
  BY <1>2, <1>b, <1>c, <1>d, <1>h DEF LockDraw
<1>3. ASSUME NEW t \in Thread, TicketLoad(t) PROVE TypeOK'
  BY <1>3, <1>b, <1>c, <1>h DEF TicketLoad
<1>4. ASSUME NEW t \in Thread, LockLoad(t) \/ LockFlag(t) PROVE TypeOK'
  <2>1. ASSUME NEW from, LockSee(t, from) PROVE TypeOK'
    BY <2>1, <1>b, <1>c, <1>h DEF LockSee, Forget
  <2>2. CASE ~\E from : LockSee(t, from)
    <3>1. pc[t] = "lockFlag" /\ serving = current[t]
      BY <1>4, <2>2 DEF LockLoad, LockFlag, Go
    <3>2. serving + 1 \in Value
      BY <3>1, <1>e, <1>f
    <3> QED
      BY <1>4, <2>2, <3>2, <1>b, <1>c, <1>h DEF LockLoad, LockFlag
  <2> QED
    BY <2>1, <2>2
<1>5. ASSUME NEW t \in Thread, LockWait(t) PROVE TypeOK'
  BY <1>5, <1>b, <1>c, <1>h DEF LockWait
<1>6. ASSUME NEW t \in Thread, Woken(t) PROVE TypeOK'
  BY <1>6, <1>b, <1>h DEF Woken
<1>7. ASSUME NEW t \in Thread, TryServing(t) PROVE TypeOK'
  BY <1>7, <1>b, <1>c, <1>h DEF TryServing, Forget
<1>8. ASSUME NEW t \in Thread, TryTake(t) PROVE TypeOK'
  BY <1>8, <1>b, <1>c, <1>d, <1>h DEF TryTake, Forget
<1>9. ASSUME NEW t \in Thread, WaitServing(t) PROVE TypeOK'
  BY <1>9, <1>b, <1>c, <1>h DEF WaitServing, NotFree
<1>10. ASSUME NEW t \in Thread, WaitTake(t) PROVE TypeOK'
  BY <1>10, <1>b, <1>c, <1>d, <1>h DEF WaitTake, Forget, NotFree
<1>11. ASSUME NEW t \in Thread, WaitFlag(t) PROVE TypeOK'
  <2>1. pc[t] = "waitFlag" /\ (serving = current[t] => serving + 1 \in Value)
    BY <1>11, <1>e, <1>f DEF WaitFlag, Go
  <2> QED
    BY <1>11, <2>1, <1>b, <1>c, <1>h DEF WaitFlag, Forget
<1>12. ASSUME NEW t \in Thread, WaitOnce(t) PROVE TypeOK'
  BY <1>12, <1>b, <1>c, <1>h DEF WaitOnce, Forget
<1>13. ASSUME NEW t \in Thread, UnlockLoad(t) PROVE TypeOK'
  BY <1>13, <1>b, <1>c, <1>h DEF UnlockLoad
<1>14. ASSUME NEW t \in Thread, ServeNext(t) PROVE TypeOK'
  <2>1. Number(current[t]) \in Value
    BY TicketWordFacts
  <2> QED
    BY <1>14, <2>1, <1>b, <1>c, <1>d, <1>h DEF ServeNext
<1>15. ASSUME NEW t \in Thread, NotifyAll(t) PROVE TypeOK'
  BY <1>15, <1>b, <1>h DEF NotifyAll
<1> QED
  BY <1>1, <1>2, <1>3, <1>4, <1>5, <1>6, <1>7, <1>8, <1>9, <1>10, <1>11, <1>12, <1>13, <1>14,
     <1>15 DEF Next, Step

\* The steps that only look, wait or set the flag.
LEMMA TicketQuietSteps ==
  ASSUME TicketInv, TypeOK', NEW t \in Thread,
         \/ LockLoad(t) \/ LockFlag(t) \/ LockWait(t) \/ Woken(t) \/ TryServing(t)
         \/ WaitServing(t) \/ WaitFlag(t) \/ WaitOnce(t) \/ UnlockLoad(t) \/ NotifyAll(t)
         \/ (TryTake(t) /\ ticket # mynum[t]) \/ (WaitTake(t) /\ ticket # mynum[t])
  PROVE  TicketInv'
<1> DEFINE Pc == {"idle", "held"} \cup LockPc \cup TryPc \cup UnlockPc
<1> USE TicketFacts
<1>a. pc \in [Thread -> Pc] /\ pc[t] \in Pc
  BY DEF TicketInv, TypeOK
<1>b. KnowsOK(t)
  BY DEF TicketInv
<1>c. /\ Flag(serving) \in {0, 1} /\ serving = Number(serving) + Flag(serving)
      /\ Flag(serving) = 0 => Number(serving + 1) = Number(serving) /\ Flag(serving + 1) = 1
  BY TicketWordFacts
<1>d. /\ pc[t] \in LockPc => pc[t] \notin PendingPc /\ ~Holding(t)
      /\ pc[t] \in PendingPc => ~Holding(t)
  BY DEF LockPc, PendingPc, Holding
\* Where t goes, what it then knows, and that the numbers do not change.
<1>1. ASSUME NEW from, LockSee(t, from), from \in {"load", "lockFlag"} PROVE TicketInv'
  <2>1. /\ TicketOthersStay(t) /\ UNCHANGED <<ticket, serving>> /\ pc[t] \in LockPc
        /\ pc'[t] \in {"held", "lockWait", "lockFlag"}
        /\ pc'[t] = "held" => mynum[t] = Number(serving)
        /\ pc'[t] # "held" => mynum'[t] = mynum[t] /\ current'[t] = serving
        /\ pc'[t] = "lockWait" => Flag(serving) = 1
        /\ pc'[t] = "lockFlag" => Flag(serving) = 0
    BY <1>1, <1>a, <1>c DEF LockSee, Go, Set, Forget, TicketOthersStay, LockPc
  <2>2. (t \in Users <=> t \in Users') /\ t \notin Pending'
    BY <2>1 DEF Users, Pending, Holding, LockPc, PendingPc
  <2>3. KnowsOK(t)'
    BY <2>1, <1>b DEF KnowsOK, LockPc, PendingPc, Served, Drawn, Past
  <2>4. pc'[t] \in LockPc => pc'[t] # "held"
    BY DEF LockPc
  <2>5. /\ Number(serving') = Number(serving)
        /\ Holding(t)' => pc[t] \in LockPc /\ mynum[t] = Number(serving)
    BY <2>1 DEF Holding
  <2> QED
    BY <2>1, <2>2, <2>3, <2>4, <2>5, TicketQuiet
<1>2. ASSUME LockFlag(t), serving = current[t], pc[t] = "lockFlag" PROVE TicketInv'
  <2>1. /\ TicketOthersStay(t) /\ ticket' = ticket /\ serving' = serving + 1 /\ Flag(serving) = 0
        /\ pc'[t] = "lockWait" /\ mynum'[t] = mynum[t] /\ current'[t] = serving + 1
    BY <1>2, <1>a, <1>b DEF LockFlag, Go, Set, TicketOthersStay, KnowsOK, LockSee
  <2>2. (t \in Users <=> t \in Users') /\ t \notin Pending'
    BY <1>2, <2>1 DEF Users, Pending, Holding, LockPc, PendingPc
  <2>3. Drawn' = Drawn /\ Served' = Served /\ Past(mynum[t])' = Past(mynum[t])
    BY <1>c, <2>1 DEF Served, Drawn, Past
  <2>4. KnowsOK(t)'
    BY <2>1, <2>3, <1>2, <1>b, <1>c DEF KnowsOK, LockPc, PendingPc
  <2>5. pc[t] \in LockPc /\ ~Holding(t)'
    BY <1>2, <2>1 DEF LockPc, Holding
  <2> QED
    BY <2>1, <2>2, <2>4, <2>5, <1>c, TicketQuiet
<1>3. ASSUME LockWait(t) \/ Woken(t) PROVE TicketInv'
  <2>1. /\ TicketOthersStay(t) /\ UNCHANGED <<ticket, serving, mynum>>
        /\ \/ pc[t] \in {"lockWait", "lockAsleep"} /\ pc'[t] \in {"load", "lockAsleep"}
           \/ pc[t] = "asleep" /\ pc'[t] = "idle"
    BY <1>3, <1>a DEF LockWait, Woken, Go, Set, locals, TicketOthersStay
  <2>2. (t \in Users <=> t \in Users') /\ t \notin Pending'
    BY <2>1 DEF Users, Pending, Holding, LockPc, PendingPc
  <2>3. KnowsOK(t)' /\ (pc'[t] \in LockPc => pc[t] \in LockPc) /\ ~Holding(t)'
    BY <2>1, <1>b DEF KnowsOK, LockPc, PendingPc, Served, Drawn, Past, Holding
  <2> QED
    BY <2>1, <2>2, <2>3, TicketQuiet
<1>4. ASSUME TryServing(t) \/ WaitServing(t) PROVE TicketInv'
  <2>1. /\ TicketOthersStay(t) /\ UNCHANGED <<ticket, serving>> /\ pc[t] \in {"tryServing", "waitServing"}
        /\ pc'[t] \in {"tryTake", "idle", "waitTake", "wait", "waitFlag"}
        /\ pc'[t] \in {"tryTake", "waitTake"} =>
             mynum'[t] = mynum[t] /\ mynum[t] + Flag(serving) = serving
        /\ pc'[t] = "tryTake" => mynum[t] = serving
        /\ pc'[t] = "wait" => Flag(serving) = 1 /\ current'[t] = serving
        /\ pc'[t] = "waitFlag" => Flag(serving) = 0 /\ current'[t] = serving
    <3>1. CASE TryServing(t)
      <4>1. mynum[t] = serving => Flag(serving) = 0 /\ mynum[t] + 0 = mynum[t]
        BY <3>1, <1>b, <1>c, TicketWordFacts, TicketAssumption
           DEF TryServing, Go, KnowsOK, PendingPc, Value, TicketAssumption
      <4> QED
        BY <3>1, <4>1, <1>a DEF TryServing, Go, Set, Forget, locals, TicketOthersStay
    <3>2. CASE WaitServing(t)
      BY <3>2, <1>a, <1>c DEF WaitServing, NotFree, Go, Set, TicketOthersStay
    <3> QED
      BY <1>4, <3>1, <3>2
  <2>2. pc'[t] \in {"tryTake", "waitTake"} => mynum[t] = Number(serving)
    <3>1. mynum[t] \in Int /\ Number(serving) \in Int /\ Flag(serving) \in Int
      BY <1>c, TicketAssumption DEF Value, TicketAssumption
    <3> HIDE TicketFacts
    <3> QED
      BY <2>1, <3>1, <1>c
  <2>3. t \notin Users /\ t \notin Users' /\ t \in Pending /\ ~Holding(t)' /\ pc'[t] \notin LockPc
    BY <2>1 DEF Users, Pending, Holding, LockPc, PendingPc
  <2>4. Drawn' = Drawn /\ Served' = Served
    BY <2>1 DEF Served, Drawn, Past
  <2>5. pc'[t] \in {"tryTake", "waitTake"} =>
          mynum'[t] = Number(serving) /\ Past(mynum[t])' = Served
    BY <2>1, <2>2 DEF Served, Past
  <2>6. pc'[t] \in {"tryTake", "waitTake"} => mynum'[t] % 2 = 0
    BY <2>1, <1>b DEF KnowsOK, PendingPc
  <2>7. KnowsOK(t)'
    BY <2>1, <2>4, <2>5, <2>6 DEF KnowsOK, LockPc, PendingPc
  <2> QED
    BY <2>1, <2>3, <2>7, TicketQuiet
<1>5. ASSUME TryTake(t) \/ WaitTake(t), ticket # mynum[t] PROVE TicketInv'
  <2>1. /\ TicketOthersStay(t) /\ UNCHANGED <<ticket, serving>> /\ pc[t] \in {"tryTake", "waitTake"}
        /\ pc'[t] \in {"idle", "wait", "waitFlag"}
        /\ pc'[t] = "wait" => Flag(current[t]) = 1 /\ current'[t] = current[t]
        /\ pc'[t] = "waitFlag" => Flag(current[t]) = 0 /\ current'[t] = current[t]
    <3>1. Flag(current[t]) \in {0, 1}
      BY TicketWordFacts
    <3> QED
      BY <1>5, <1>a, <3>1
         DEF TryTake, WaitTake, NotFree, Go, Set, Forget, locals, TicketOthersStay
  <2>2. t \notin Users /\ t \notin Users' /\ t \in Pending /\ ~Holding(t)' /\ pc'[t] \notin LockPc
    BY <2>1 DEF Users, Pending, Holding, LockPc, PendingPc
  <2>3. KnowsOK(t)'
    BY <2>1 DEF KnowsOK, LockPc, PendingPc
  <2> QED
    BY <2>1, <2>2, <2>3, TicketQuiet
<1>6. ASSUME WaitFlag(t) \/ WaitOnce(t) \/ NotifyAll(t) PROVE TicketInv'
  <2>1. /\ TicketOthersStay(t) /\ ticket' = ticket /\ pc[t] \in {"waitFlag", "wait", "notify"}
        /\ pc'[t] \in {"wait", "idle", "asleep"}
        /\ pc'[t] = "wait" => Flag(current'[t]) = 1
        /\ Number(serving') = Number(serving)
    <3>1. CASE WaitFlag(t)
      BY <3>1, <1>a, <1>b, <1>c DEF WaitFlag, Go, Set, Forget, TicketOthersStay, KnowsOK
    <3>2. CASE WaitOnce(t) \/ NotifyAll(t)
      BY <3>2, <1>a DEF WaitOnce, NotifyAll, Go, Set, Forget, locals, TicketOthersStay
    <3> QED
      BY <1>6, <3>1, <3>2
  <2>2. t \notin Users /\ t \notin Users' /\ t \notin Pending' /\ ~Holding(t)' /\ pc'[t] \notin LockPc
    BY <2>1 DEF Users, Pending, Holding, LockPc, PendingPc
  <2>3. KnowsOK(t)'
    BY <2>1 DEF KnowsOK, LockPc, PendingPc
  <2> QED
    BY <2>1, <2>2, <2>3, TicketQuiet
<1>7. ASSUME UnlockLoad(t) PROVE TicketInv'
  <2>1. /\ TicketOthersStay(t) /\ UNCHANGED <<ticket, serving>> /\ pc[t] = "held"
        /\ pc'[t] = "serveNext" /\ current'[t] = serving
    BY <1>7, <1>a DEF UnlockLoad, Go, Set, TicketOthersStay
  <2>2. t \in Users /\ t \in Users' /\ t \notin Pending' /\ Holding(t) /\ pc'[t] \notin LockPc
    BY <2>1 DEF Users, Pending, Holding, LockPc, PendingPc
  <2>3. KnowsOK(t)'
    BY <2>1 DEF KnowsOK, LockPc, PendingPc
  <2> QED
    BY <2>1, <2>2, <2>3, TicketQuiet
<1>8. LockFlag(t) => LockSee(t, "lockFlag") \/ (serving = current[t] /\ pc[t] = "lockFlag")
  BY DEF LockFlag, Go
<1> QED
  BY <1>1, <1>2, <1>3, <1>4, <1>5, <1>6, <1>7, <1>8 DEF LockLoad

LEMMA TicketStep ==
  ASSUME TicketInv, Next
  PROVE  TicketInv'
<1>a. TypeOK'
  BY TicketTypeStep
<1>1. CASE Renumber
  BY <1>a, <1>1, TicketRenumber
<1>2. CASE \E t \in Thread : LockDraw(t) \/ TicketLoad(t) \/ Step(t)
  <2> PICK t \in Thread : LockDraw(t) \/ TicketLoad(t) \/ Step(t)
    BY <1>2
  <2>1. CASE TryTake(t) \/ WaitTake(t)
    BY <1>a, <2>1, TicketTake, TicketQuietSteps
  <2>2. CASE LockDraw(t) \/ TicketLoad(t) \/ ServeNext(t)
    BY <1>a, <2>2, TicketDraw, TicketLoadStep, TicketServe
  <2>3. CASE \/ LockLoad(t) \/ LockFlag(t) \/ LockWait(t) \/ Woken(t) \/ TryServing(t)
             \/ WaitServing(t) \/ WaitFlag(t) \/ WaitOnce(t) \/ UnlockLoad(t) \/ NotifyAll(t)
    BY <1>a, <2>3, TicketQuietSteps
  <2> QED
    BY <2>1, <2>2, <2>3 DEF Step
<1> QED
  BY <1>1, <1>2 DEF Next

\* The flag stays set until the unlock that wakes everyone clears it.
LEMMA TicketWakeStep ==
  ASSUME TicketInv, TicketInv', WakeNotLost, Next
  PROVE  WakeNotLost'
<1> DEFINE Pc == {"idle", "held"} \cup LockPc \cup TryPc \cup UnlockPc
<1>a. pc \in [Thread -> Pc]
  BY DEF TicketInv, TypeOK
<1>1. CASE Renumber
  BY <1>1, TicketRenumberFacts DEF WakeNotLost, Renumber
<1>2. CASE \E t \in Thread : LockDraw(t) \/ TicketLoad(t) \/ Step(t)
  <2> PICK t \in Thread : LockDraw(t) \/ TicketLoad(t) \/ Step(t)
    BY <1>2
  <2> USE DEF Go, locals
  <2>b. \A u \in Thread \ {t} : pc'[u] = pc[u]
    BY <1>a
       DEF LockDraw, TicketLoad, Step, LockLoad, LockFlag, LockSee, LockWait, Woken, TryServing,
           TryTake, WaitServing, WaitTake, WaitFlag, WaitOnce, UnlockLoad, ServeNext, NotifyAll
  <2>1. ASSUME UNCHANGED <<serving, sleepers>>, pc[t] # "notify" PROVE WakeNotLost'
    BY <2>1, <2>b DEF WakeNotLost
  <2>2. ASSUME Flag(serving') = 1 PROVE WakeNotLost'
    BY <2>2 DEF WakeNotLost
  <2>3. CASE LockFlag(t) \/ WaitFlag(t)
    <3>1. serving' = serving + 1 => Flag(serving') = 1
      <4>1. serving' = serving + 1 /\ serving' # serving => Flag(serving) = 0
        BY <2>3 DEF LockFlag, LockSee, WaitFlag, TicketInv, KnowsOK
      <4>2. serving + 1 # serving
        BY TicketFacts, TicketAssumption DEF Value, TicketAssumption
      <4> QED
        BY <4>1, <4>2, TicketFacts, TicketWordFacts
    <3>2. serving' # serving + 1 => UNCHANGED <<serving, sleepers>>
      BY <2>3 DEF LockFlag, LockSee, WaitFlag
    <3>3. pc[t] # "notify"
      BY <2>3 DEF LockFlag, LockSee, WaitFlag
    <3> QED
      BY <2>1, <2>2, <3>1, <3>2, <3>3
  <2>4. CASE LockWait(t) \/ WaitOnce(t)
    <3>1. pc[t] # "notify" /\ serving' = serving
          /\ (sleepers' = sleepers \/ Flag(serving) = 1)
      BY <2>4 DEF LockWait, WaitOnce, TicketInv, KnowsOK
    <3> QED
      BY <2>1, <2>2, <3>1
  <2>5. CASE ServeNext(t)
    <3>1. Flag(serving) = 1 => pc'[t] = "notify"
      BY <2>5, <1>a DEF ServeNext
    <3> QED
      BY <2>5, <2>b, <3>1 DEF ServeNext, WakeNotLost
  <2>6. CASE NotifyAll(t)
    BY <2>6 DEF NotifyAll, WakeNotLost
  <2>7. CASE \/ LockDraw(t) \/ TicketLoad(t) \/ LockLoad(t) \/ Woken(t) \/ TryServing(t)
             \/ TryTake(t) \/ WaitServing(t) \/ WaitTake(t) \/ UnlockLoad(t)
    <3>1. pc[t] # "notify" /\ UNCHANGED <<serving, sleepers>>
      BY <2>7 DEF LockDraw, TicketLoad, LockLoad, LockSee, Woken, TryServing, TryTake,
                  WaitServing, WaitTake, UnlockLoad
    <3> QED
      BY <2>1, <3>1
  <2> QED
    BY <2>3, <2>4, <2>5, <2>6, <2>7 DEF Step
<1> QED
  BY <1>1, <1>2 DEF Next

\* What the invariant says of the tickets.
LEMMA TicketsMeaning ==
  ASSUME TicketInv
  PROVE  TicketsAccounted
<1>1. (ticket - Number(serving)) % W = Drawn - Served
  BY TicketFacts, TicketWrap, TicketAssumption
     DEF TicketAssumption, Value, Drawn, Served, Past
<1>2. Drawn - Served = 2 * Cardinality(Users)
  BY TicketFacts DEF TicketInv, CountOK
<1> QED
  BY <1>1, <1>2 DEF TicketsAccounted, Users

-----------------------------------------------------------------------------
(* mcs_lock: the chain of the threads that have the lock or queue for it *)

\* The chain and its links, by index.
LEMMA McsChainFacts ==
  ASSUME L!ListInv
  PROVE  /\ Len(order) \in Nat /\ (order = <<>> <=> Len(order) = 0)
         /\ \A i, j \in 0..Len(order) : L!Chain(i) = L!Chain(j) => i = j
         /\ owner # NoThread => \A i \in 0..Len(order) : L!Chain(i) \in Thread
         /\ \A i \in 1..Len(order) :
              /\ L!Chain(i) = order[i] /\ L!Chain(i) \in Thread
              /\ pc[L!Chain(i)] \in L!UnlinkedPc =>
                   next[L!Chain(i - 1)] = NoThread /\ found[L!Chain(i)] = L!Chain(i - 1)
              /\ pc[L!Chain(i)] \notin L!UnlinkedPc =>
                   next[L!Chain(i - 1)] = L!Chain(i) /\ found[L!Chain(i)] = NoThread
         /\ L!Chain(0) = owner /\ locked = L!Chain(Len(order))
         /\ owner # NoThread => next[L!Chain(Len(order))] = NoThread
  BY DEF L!ListInv, L!TypeOK, L!ChainOK, L!LinksOK, L!Chain

\* Only those who have the lock or queue for it are in the chain.
LEMMA McsOutOfChain ==
  ASSUME L!ListInv, NEW t \in Thread, pc[t] \in {"idle", "tryTake", "reset"}
  PROVE  \A i \in 0..Len(order) : L!Chain(i) # t
<1> SUFFICES ASSUME NEW i \in 0..Len(order), L!Chain(i) = t PROVE FALSE
  OBVIOUS
<1>1. L!PlaceOK(t)
  BY DEF L!ListInv
<1>2. CASE i = 0
  BY <1>1, <1>2 DEF L!PlaceOK, L!Holding, L!Chain
<1>3. CASE i # 0
  BY <1>1, <1>3 DEF L!PlaceOK, L!LockPc
<1> QED
  BY <1>2, <1>3

\* The word names the holder, or nobody, exactly when nobody queues.
LEMMA McsWordNamesEnd ==
  ASSUME L!ListInv
  PROVE  /\ locked = NoThread <=> owner = NoThread
         /\ owner = NoThread => order = <<>>
         /\ order = <<>> <=> locked = owner
         /\ owner # NoThread => \A i \in 1..Len(order) : L!Chain(i) # owner
<1>1. owner = NoThread => order = <<>>
  BY DEF L!ListInv, L!ChainOK
<1>2. \A i \in 1..Len(order) : i \in 0..Len(order) /\ 0 \in 0..Len(order) /\ L!Chain(i) # L!Chain(0)
  BY McsChainFacts
<1>3. order # <<>> => locked \in Thread /\ locked # owner
  <2>1. order # <<>> => Len(order) \in 1..Len(order)
    BY McsChainFacts
  <2> QED
    BY <2>1, <1>2, McsChainFacts
<1> QED
  BY <1>1, <1>2, <1>3, McsChainFacts, ThreadAssumption DEF ThreadAssumption

\* A thread that links itself has found the node before it, and a holder
\* that passes the lock on knows its successor, the first that queues.
LEMMA McsKnownNodes ==
  ASSUME L!ListInv, NEW t \in Thread
  PROVE  /\ pc[t] = "link" => found[t] \in Thread
         /\ pc[t] = "passOn" => /\ order # <<>> /\ owner = t /\ next[t] = order[1]
                                /\ order[1] \in Thread /\ pc[order[1]] = "spin"
<1>1. L!PlaceOK(t)
  BY DEF L!ListInv
<1>2. ASSUME pc[t] = "link" PROVE found[t] \in Thread
  <2>1. PICK i \in 0..Len(order) : L!Chain(i) = t
    BY <1>1, <1>2 DEF L!PlaceOK, L!LockPc
  <2>2. i # 0
    BY <1>1, <1>2, <2>1 DEF L!PlaceOK, L!Chain, L!Holding
  <2>3. found[t] = L!Chain(i - 1) /\ i - 1 \in 0..Len(order)
    BY <1>2, <2>1, <2>2, McsChainFacts DEF L!UnlinkedPc
  <2>4. owner # NoThread
    BY <2>2, McsWordNamesEnd, McsChainFacts
  <2> QED
    BY <2>3, <2>4, McsChainFacts
<1>3. ASSUME pc[t] = "passOn"
      PROVE  /\ order # <<>> /\ owner = t /\ next[t] = order[1]
             /\ order[1] \in Thread /\ pc[order[1]] = "spin"
  <2>1. owner = t /\ next[t] # NoThread
    BY <1>1, <1>3 DEF L!PlaceOK, L!Holding
  <2>2. order # <<>>
    BY <2>1, McsChainFacts, ThreadAssumption DEF ThreadAssumption
  <2>3. 1 \in 1..Len(order) /\ L!Chain(1) = order[1] /\ L!Chain(1 - 1) = owner /\ order[1] \in Thread
    BY <2>2, McsChainFacts
  <2>4. next[t] = order[1] /\ pc[order[1]] \notin L!UnlinkedPc
    BY <2>1, <2>3, McsChainFacts
  <2>5. pc[order[1]] \in L!LockPc
    BY <2>3 DEF L!ListInv, L!PlaceOK
  <2> QED
    BY <2>1, <2>2, <2>3, <2>4, <2>5 DEF L!LockPc, L!UnlinkedPc
<1> QED
  BY <1>2, <1>3

LEMMA McsListInit == L!Init => L!ListInv
<1> SUFFICES ASSUME L!Init PROVE L!ListInv
  OBVIOUS
<1>1. /\ Len(order) = 0 /\ owner = NoThread /\ order = <<>> /\ locked = NoThread
      /\ (\A i \in 0..Len(order) : i = 0) /\ (\A i \in 1..Len(order) : FALSE)
  BY DEF L!Init
<1>2. L!TypeOK
  BY DEF L!Init, L!TypeOK
<1>3. L!ChainOK
  BY <1>1 DEF L!ChainOK, L!Chain
<1>4. \A t \in Thread : L!PlaceOK(t)
  BY <1>1, ThreadAssumption DEF ThreadAssumption, L!Init, L!PlaceOK, L!Holding, L!LockPc
<1>5. L!LinksOK
  BY <1>1 DEF L!Init, L!LinksOK
<1> QED
  BY <1>2, <1>3, <1>4, <1>5 DEF L!ListInv

LEMMA McsTypeStep ==
  ASSUME L!ListInv, L!Next
  PROVE  L!TypeOK'
<1> PICK t \in Thread : L!Exchange(t) \/ L!TryLook(t) \/ L!Step(t)
  BY DEF L!Next
<1> USE DEF L!TypeOK, L!Go, L!LockPc, L!UnlockPc
<1>a. L!TypeOK
  BY DEF L!ListInv
<1>1. CASE L!Exchange(t)
  <2>1. order' \in Seq(Thread)
    BY <1>a, <1>1 DEF L!Exchange
  <2> QED
    BY <1>a, <1>1, <2>1 DEF L!Exchange
<1>2. CASE L!TryLook(t) \/ L!TryTake(t)
  BY <1>a, <1>2 DEF L!TryLook, L!TryTake
<1>3. CASE L!SetTaken(t) \/ L!SeeFree(t)
  BY <1>a, <1>3 DEF L!SetTaken, L!SeeFree
<1>4. CASE L!Link(t)
  BY <1>a, <1>4, McsKnownNodes DEF L!Link
<1>5. CASE L!LookForNext(t) \/ L!SeeNext(t)
  BY <1>a, <1>5 DEF L!LookForNext, L!SeeNext
<1>6. CASE L!Release(t)
  BY <1>a, <1>6 DEF L!Release
<1>7. CASE L!PassOn(t)
  <2>1. order' \in Seq(Thread) /\ next[t] \in Thread
    BY <1>a, <1>7, McsKnownNodes DEF L!PassOn
  <2> QED
    BY <1>a, <1>7, <2>1 DEF L!PassOn
<1>8. CASE L!Reset(t)
  BY <1>a, <1>8 DEF L!Reset
<1> QED
  BY <1>1, <1>2, <1>3, <1>4, <1>5, <1>6, <1>7, <1>8 DEF L!Step

\* What a step of t does to the chain when it neither takes, gives nor queues.
McsStill(t) ==
  /\ UNCHANGED <<owner, order, found, locked>>
  /\ \A u \in Thread \ {t} : /\ pc'[u] = pc[u] /\ is_locked'[u] = is_locked[u]
                             /\ next'[u] = next[u]

LEMMA McsQuietSteps ==
  ASSUME L!ListInv, L!TypeOK', NEW t \in Thread,
         \/ L!SetTaken(t) \/ L!SeeFree(t) \/ L!TryLook(t) \/ (L!TryTake(t) /\ locked # NoThread)
         \/ L!LookForNext(t) \/ (L!Release(t) /\ locked # t) \/ L!SeeNext(t) \/ L!Reset(t)
  PROVE  L!ListInv'
<1>a. /\ pc \in [Thread -> {"idle", "held", "tryTake"} \cup L!LockPc \cup L!UnlockPc]
      /\ is_locked \in [Thread -> BOOLEAN] /\ next \in [Thread -> Thread \cup {NoThread}]
  BY DEF L!ListInv, L!TypeOK
<1>b. L!PlaceOK(t)
  BY DEF L!ListInv
<1>c. owner = t => \A i \in 1..Len(order) : L!Chain(i) # t
  BY McsWordNamesEnd, ThreadAssumption DEF ThreadAssumption
<1>1. McsStill(t)
  BY <1>a
     DEF L!SetTaken, L!SeeFree, L!TryLook, L!TryTake, L!LookForNext, L!Release, L!SeeNext,
         L!Reset, L!Go, McsStill
<1>2. \A i \in 0..Len(order) : L!Chain(i)' = L!Chain(i)
  BY <1>1 DEF McsStill, L!Chain
\* Where t goes, in the chain or out of it.
<1>3. /\ pc[t] \in L!UnlinkedPc <=> pc'[t] \in L!UnlinkedPc
      /\ \/ pc[t] \in {"idle", "tryTake", "reset"} /\ pc'[t] \in {"idle", "tryTake"}
         \/ pc[t] \in L!LockPc \cup L!Holding /\ next'[t] = next[t]
      /\ next'[t] = next[t] \/ next'[t] = NoThread
      /\ pc[t] = "reset" => next'[t] = NoThread
  BY <1>a
     DEF L!SetTaken, L!SeeFree, L!TryLook, L!TryTake, L!LookForNext, L!Release, L!SeeNext,
         L!Reset, L!Go,
              L!UnlinkedPc, L!LockPc, L!Holding
<1>4. L!PlaceOK(t)'
  <2>1. CASE L!TryLook(t) \/ (L!TryTake(t) /\ locked # NoThread) \/ L!Reset(t)
    <3>1. pc[t] \in {"idle", "tryTake", "reset"} /\ pc'[t] \in {"idle", "tryTake"}
      BY <2>1, <1>a DEF L!TryLook, L!TryTake, L!Reset, L!Go
    <3>2. \A i \in 0..Len(order) : L!Chain(i) # t
      BY <3>1, McsOutOfChain
    <3>3. owner # t /\ \A i \in 1..Len(order) : i \in 0..Len(order)
      BY <3>2, McsChainFacts
    <3> QED
      BY <3>1, <3>2, <3>3, <1>1, <1>2 DEF L!PlaceOK, McsStill, L!Holding, L!LockPc
  <2>2. CASE L!SetTaken(t)
    <3>1. is_locked'[t] = TRUE /\ pc'[t] = "link" /\ pc[t] = "setTaken"
      BY <2>2, <1>a DEF L!SetTaken, L!Go
    <3> QED
      BY <3>1, <1>b, <1>1, <1>2 DEF L!PlaceOK, McsStill, L!Holding, L!LockPc
  <2>3. CASE L!SeeFree(t)
    <3>1. ~is_locked[t] /\ pc'[t] = "held" /\ pc[t] = "spin" /\ owner = t
      BY <2>3, <1>a, <1>b DEF L!SeeFree, L!Go, L!PlaceOK
    <3> QED
      BY <3>1, <1>b, <1>c, <1>1, <1>2 DEF L!PlaceOK, McsStill, L!Holding, L!LockPc
  <2>4. CASE L!LookForNext(t) \/ (L!Release(t) /\ locked # t) \/ L!SeeNext(t)
    <3>1. owner = t /\ pc'[t] \in L!Holding
      BY <2>4, <1>a, <1>b DEF L!LookForNext, L!Release, L!SeeNext, L!Go, L!PlaceOK, L!Holding
    <3>2. /\ pc'[t] = "waitNext" => order # <<>>
          /\ pc'[t] = "passOn" => next'[t] # NoThread
      BY <2>4, <3>1, <1>a, McsWordNamesEnd DEF L!LookForNext, L!Release, L!SeeNext, L!Go
    <3> QED
      BY <3>1, <3>2, <1>b, <1>c, <1>1, <1>2 DEF L!PlaceOK, McsStill, L!Holding, L!LockPc
  <2> QED
    BY <2>1, <2>2, <2>3, <2>4
<1>5. ASSUME NEW u \in Thread \ {t} PROVE L!PlaceOK(u)'
  BY <1>1, <1>2 DEF L!ListInv, L!PlaceOK, McsStill
<1>6. L!ChainOK'
  BY <1>1, <1>2 DEF L!ListInv, L!ChainOK, McsStill, L!Chain
<1>7. L!LinksOK'
  <2>1. CASE pc[t] \in {"idle", "tryTake", "reset"}
    <3>1. \A i \in 0..Len(order) : L!Chain(i) # t
      BY <2>1, McsOutOfChain
    <3>2. pc[t] # "reset" => next[t] = NoThread
      BY <3>1 DEF L!ListInv, L!LinksOK
    <3>3. owner # NoThread => \A i \in 0..Len(order) : L!Chain(i) \in Thread \ {t}
      BY <3>1, McsChainFacts
    <3>4. \A i \in 1..Len(order) : owner # NoThread /\ i \in 0..Len(order) /\ i - 1 \in 0..Len(order)
      BY McsWordNamesEnd, McsChainFacts
    <3>5. Len(order)' = Len(order) /\ Len(order) \in 0..Len(order)
      BY <1>1, McsChainFacts DEF McsStill
    <3>6. L!LinksOK!1'
      BY <3>3, <3>4, <3>5, <1>1, <1>2 DEF L!ListInv, L!LinksOK, McsStill
    <3>7. L!LinksOK!2'
      BY <3>3, <3>5, <1>1, <1>2 DEF L!ListInv, L!LinksOK, McsStill
    <3>8. L!LinksOK!3'
      BY <3>2, <3>5, <1>1, <1>2, <1>3 DEF L!ListInv, L!LinksOK, McsStill
    <3> QED
      BY <3>6, <3>7, <3>8 DEF L!LinksOK
  <2>2. CASE pc[t] \in L!LockPc \cup L!Holding /\ next'[t] = next[t]
    <3>1. next' = next
      BY <2>2, <1>1, <1>a DEF L!TypeOK, McsStill
    <3>2. \A i \in 1..Len(order) : pc'[L!Chain(i)] \in L!UnlinkedPc <=> pc[L!Chain(i)] \in L!UnlinkedPc
      BY <1>1, <1>3, McsChainFacts DEF McsStill
    <3>3. pc[t] # "reset" /\ Len(order)' = Len(order)
          /\ \A i \in 1..Len(order) : i \in 0..Len(order) /\ i - 1 \in 0..Len(order)
          /\ Len(order) \in 0..Len(order)
      BY <2>2, <1>1, McsChainFacts DEF L!LockPc, L!Holding, McsStill
    <3>4. L!LinksOK!1' /\ L!LinksOK!2'
      BY <3>1, <3>2, <3>3, <1>1, <1>2 DEF L!ListInv, L!LinksOK, McsStill
    <3>5. L!LinksOK!3'
      BY <3>1, <3>3, <1>1, <1>2 DEF L!ListInv, L!LinksOK, McsStill
    <3> QED
      BY <3>4, <3>5 DEF L!LinksOK
  <2> QED
    BY <2>1, <2>2, <1>3
<1> QED
  BY <1>4, <1>5, <1>6, <1>7 DEF L!ListInv

\* A thread that takes the free lock becomes the whole chain.
LEMMA McsTakeStep ==
  ASSUME L!ListInv, L!TypeOK', NEW t \in Thread, locked = NoThread, L!Exchange(t) \/ L!TryTake(t)
  PROVE  L!ListInv'
<1>1. owner = NoThread /\ order = <<>> /\ Len(order) = 0
  BY McsWordNamesEnd
<1>2. /\ pc[t] \in {"idle", "tryTake"} /\ pc'[t] = "held" /\ owner' = t /\ order' = order
      /\ locked' = t /\ UNCHANGED <<is_locked, next>> /\ \A u \in Thread \ {t} : pc'[u] = pc[u]
  BY DEF L!Exchange, L!TryTake, L!Go, L!ListInv, L!TypeOK
<1>3. L!ChainOK'
  BY <1>1, <1>2, ThreadAssumption DEF ThreadAssumption, L!ChainOK, L!Chain
<1>4. ASSUME NEW u \in Thread PROVE L!PlaceOK(u)'
  <2>1. L!PlaceOK(u) /\ (\A i \in 0..Len(order) : L!Chain(i) # u)
    BY <1>1, ThreadAssumption DEF ThreadAssumption, L!ListInv, L!Chain
  <2>2. u # t => pc[u] \notin L!Holding \cup L!LockPc
    BY <1>1, <2>1, ThreadAssumption DEF ThreadAssumption, L!PlaceOK
  <2> QED
    BY <1>1, <1>2, <2>1, <2>2 DEF L!PlaceOK, L!Chain, L!Holding, L!LockPc
<1>5. L!LinksOK'
  <2>1. \A u \in Thread : next[u] = NoThread \/ pc[u] = "reset"
    BY <1>1, ThreadAssumption DEF ThreadAssumption, L!ListInv, L!LinksOK, L!Chain
  <2>2. Len(order') = 0 /\ L!Chain(0)' = t
    BY <1>1, <1>2 DEF L!Chain
  <2>3. L!LinksOK!1' /\ L!LinksOK!2'
    BY <1>2, <2>1, <2>2 DEF L!LinksOK
  <2>4. L!LinksOK!3'
    BY <1>2, <2>1 DEF L!LinksOK
  <2> QED
    BY <2>3, <2>4 DEF L!LinksOK
<1> QED
  BY <1>3, <1>4, <1>5 DEF L!ListInv

\* A thread that exchanges the word queues at the end of the chain.
LEMMA McsQueueStep ==
  ASSUME L!ListInv, L!TypeOK', NEW t \in Thread, L!Exchange(t), locked # NoThread
  PROVE  L!ListInv'
<1> PICK n \in Nat : n = Len(order)
  BY McsChainFacts
<1>1. /\ owner' = owner /\ locked' = t /\ UNCHANGED <<is_locked, next>>
      /\ pc[t] = "idle" /\ pc'[t] = "setTaken" /\ found'[t] = locked /\ order' = Append(order, t)
      /\ \A u \in Thread \ {t} : pc'[u] = pc[u] /\ found'[u] = found[u]
  BY DEF L!Exchange, L!Go, L!ListInv, L!TypeOK
<1>2. (\A i \in 0..n : L!Chain(i) # t) /\ next[t] = NoThread
  BY <1>1, McsOutOfChain DEF L!ListInv, L!LinksOK
<1>3. Len(order') = n + 1 /\ L!Chain(n + 1)' = t /\ \A i \in 0..n : L!Chain(i)' = L!Chain(i)
  BY <1>1 DEF L!ListInv, L!TypeOK, L!Chain
<1>4. owner # NoThread /\ locked = L!Chain(n)
  BY McsWordNamesEnd, McsChainFacts
<1>5. \A i \in 0..n : L!Chain(i) \in Thread /\ L!Chain(i) # t
  BY <1>2, <1>4, McsChainFacts
<1>6. L!ChainOK'
  <2>1. \A i, j \in 0..Len(order') : L!Chain(i)' = L!Chain(j)' => i = j
    <3>1. \A i \in 0..Len(order') : i \in 0..n \/ i = n + 1
      BY <1>3
    <3> QED
      BY <1>3, <1>5, <3>1, McsChainFacts
  <2> QED
    BY <1>1, <1>3, <1>4, <2>1 DEF L!ChainOK
<1>7. ASSUME NEW u \in Thread PROVE L!PlaceOK(u)'
  <2>1. L!PlaceOK(u) /\ L!PlaceOK(t)
    BY DEF L!ListInv
  <2>2. /\ \A i \in 0..n : i \in 0..Len(order')
        /\ \A i \in 1..Len(order') : i \in 1..n \/ i = n + 1
        /\ \A i \in 1..n : i \in 0..n
        /\ order' # <<>> /\ n + 1 \in 0..Len(order')
    BY <1>3 DEF L!TypeOK
  <2>3. CASE u = t
    BY <2>3, <1>1, <1>3, <1>4, <1>5, <2>1, <2>2 DEF L!PlaceOK, L!Holding, L!LockPc
  <2>4. CASE u # t
    <3>1. pc[u] \in L!LockPc => \E i \in 0..Len(order') : L!Chain(i)' = u
      BY <2>1, <2>2, <1>3 DEF L!PlaceOK
    <3>2. \A i \in 1..Len(order') : L!Chain(i)' = u => pc[u] \in L!LockPc
      BY <2>1, <2>2, <2>4, <1>3 DEF L!PlaceOK
    <3> QED
      BY <2>1, <2>2, <2>4, <1>1, <3>1, <3>2 DEF L!PlaceOK
  <2> QED
    BY <2>3, <2>4
<1>8. L!LinksOK'
  <2>1. ASSUME NEW i \in 1..Len(order')
        PROVE  IF pc'[L!Chain(i)'] \in L!UnlinkedPc
                 THEN next'[L!Chain(i - 1)'] = NoThread /\ found'[L!Chain(i)'] = L!Chain(i - 1)'
                 ELSE next'[L!Chain(i - 1)'] = L!Chain(i)' /\ found'[L!Chain(i)'] = NoThread
    <3>1. CASE i = n + 1
      <4>1. next[L!Chain(n)] = NoThread /\ L!Chain(i - 1)' = L!Chain(n) /\ L!Chain(i)' = t
        BY <3>1, <1>3, <1>4, McsChainFacts
      <4> QED
        BY <1>1, <1>4, <4>1 DEF L!UnlinkedPc
    <3>2. CASE i # n + 1
      <4>1. i \in 1..n /\ i \in 0..n /\ i - 1 \in 0..n
        BY <3>2, <1>3
      <4>2. L!Chain(i)' = L!Chain(i) /\ L!Chain(i - 1)' = L!Chain(i - 1) /\ L!Chain(i) \in Thread \ {t}
        BY <4>1, <1>3, <1>5
      <4> QED
        BY <4>1, <4>2, <1>1, McsChainFacts
    <3> QED
      BY <3>1, <3>2
  <2>2. next'[L!Chain(Len(order))'] = NoThread
    BY <1>1, <1>2, <1>3
  <2>3. ASSUME NEW u \in Thread, \A i \in 0..Len(order') : L!Chain(i)' # u
        PROVE  next'[u] = NoThread \/ pc'[u] = "reset"
    <3>1. u # t /\ \A i \in 0..n : L!Chain(i) # u
      BY <2>3, <1>3
    <3> QED
      BY <3>1, <1>1 DEF L!ListInv, L!LinksOK
  <2> QED
    BY <2>1, <2>2, <2>3 DEF L!LinksOK
<1> QED
  BY <1>6, <1>7, <1>8 DEF L!ListInv

\* A thread links its node to the one before it.
LEMMA McsLinkStep ==
  ASSUME L!ListInv, L!TypeOK', NEW t \in Thread, L!Link(t)
  PROVE  L!ListInv'
<1>1. PICK k \in 1..Len(order) : L!Chain(k) = t
  <2>1. L!PlaceOK(t)
    BY DEF L!ListInv
  <2>2. PICK i \in 0..Len(order) : L!Chain(i) = t
    BY <2>1 DEF L!PlaceOK, L!Link, L!Go, L!LockPc
  <2>3. i # 0
    BY <2>1, <2>2 DEF L!PlaceOK, L!Link, L!Go, L!Chain, L!Holding
  <2> QED
    BY <2>2, <2>3
<1>2. /\ found[t] = L!Chain(k - 1) /\ k \in 0..Len(order) /\ k - 1 \in 0..Len(order)
      /\ owner # t /\ owner # NoThread
  <2>1. pc[t] = "link" /\ order # <<>>
    BY <1>1, McsChainFacts DEF L!Link, L!Go
  <2>2. owner # NoThread /\ owner # t
    BY <2>1, McsWordNamesEnd DEF L!ListInv, L!PlaceOK, L!Holding
  <2> QED
    BY <1>1, <2>1, <2>2, McsChainFacts DEF L!UnlinkedPc
<1>3. /\ UNCHANGED <<owner, order, locked, is_locked>>
      /\ next' = [next EXCEPT ![L!Chain(k - 1)] = t] /\ found'[t] = NoThread
      /\ pc[t] = "link" /\ pc'[t] = "spin"
      /\ \A u \in Thread \ {t} : pc'[u] = pc[u] /\ found'[u] = found[u]
  BY <1>2 DEF L!Link, L!Go, L!ListInv, L!TypeOK
<1>4. \A i \in 0..Len(order) : L!Chain(i)' = L!Chain(i) /\ L!Chain(i) \in Thread
  BY <1>2, <1>3, McsChainFacts DEF L!Chain
<1>5. /\ next'[L!Chain(k - 1)] = t
      /\ \A u \in Thread \ {L!Chain(k - 1)} : next'[u] = next[u]
  BY <1>2, <1>3, <1>4 DEF L!ListInv, L!TypeOK
<1>6. L!ChainOK'
  BY <1>3, <1>4, McsChainFacts DEF L!ListInv, L!ChainOK
<1>7. ASSUME NEW u \in Thread PROVE L!PlaceOK(u)'
  <2>1. L!PlaceOK(u) /\ (next[u] # NoThread => next'[u] # NoThread)
    BY <1>5, ThreadAssumption DEF ThreadAssumption, L!ListInv
  <2>2. \A i \in 1..Len(order) : i \in 0..Len(order)
    OBVIOUS
  <2> QED
    BY <1>2, <1>3, <1>4, <2>1, <2>2 DEF L!PlaceOK, L!Holding, L!LockPc
<1>8. L!LinksOK'
  <2>1. ASSUME NEW i \in 1..Len(order)
        PROVE  IF pc'[L!Chain(i)] \in L!UnlinkedPc
                 THEN next'[L!Chain(i - 1)] = NoThread /\ found'[L!Chain(i)] = L!Chain(i - 1)
                 ELSE next'[L!Chain(i - 1)] = L!Chain(i) /\ found'[L!Chain(i)] = NoThread
    <3>1. CASE i = k
      BY <1>1, <1>3, <1>5, <3>1 DEF L!UnlinkedPc
    <3>2. CASE i # k
      <4>1. i \in 0..Len(order) /\ i - 1 \in 0..Len(order) /\ i - 1 # k - 1
        BY <3>2, <1>1, McsChainFacts
      <4>2. L!Chain(i) # t /\ L!Chain(i - 1) # L!Chain(k - 1)
        BY <4>1, <3>2, <1>1, <1>2, McsChainFacts
      <4> QED
        BY <4>1, <4>2, <1>3, <1>4, <1>5, McsChainFacts
    <3> QED
      BY <3>1, <3>2
  <2>2. next'[L!Chain(Len(order))] = NoThread
    <3>1. Len(order) \in 0..Len(order) /\ Len(order) # k - 1
      BY <1>1, McsChainFacts
    <3>2. L!Chain(Len(order)) # L!Chain(k - 1) /\ next[L!Chain(Len(order))] = NoThread
      BY <3>1, <1>2, McsChainFacts
    <3> QED
      BY <3>1, <3>2, <1>4, <1>5
  <2>3. ASSUME NEW u \in Thread, \A i \in 0..Len(order) : L!Chain(i) # u
        PROVE  next'[u] = NoThread \/ pc'[u] = "reset"
    <3>1. u # t /\ u # L!Chain(k - 1)
      BY <2>3, <1>1, <1>2
    <3> QED
      BY <2>3, <3>1, <1>3, <1>5 DEF L!ListInv, L!LinksOK
  <2>4. /\ Len(order)' = Len(order) /\ Len(order) \in 0..Len(order)
        /\ \A i \in 1..Len(order) : i \in 0..Len(order) /\ i - 1 \in 0..Len(order)
    BY <1>3, McsChainFacts
  <2> QED
    BY <2>1, <2>2, <2>3, <2>4, <1>3, <1>4 DEF L!LinksOK
<1> QED
  BY <1>6, <1>7, <1>8 DEF L!ListInv

\* The last thread of the chain makes the word free: nobody is left.
LEMMA McsReleaseStep ==
  ASSUME L!ListInv, L!TypeOK', NEW t \in Thread, L!Release(t), locked = t
  PROVE  L!ListInv'
<1>1. owner = t /\ order = <<>> /\ Len(order) = 0
  <2>1. owner = t
    BY DEF L!Release, L!Go, L!ListInv, L!PlaceOK, L!Holding
  <2> QED
    BY <2>1, McsWordNamesEnd
<1>2. /\ owner' = NoThread /\ order' = <<>> /\ Len(order') = 0 /\ locked' = NoThread
      /\ UNCHANGED <<is_locked, next, found>> /\ pc[t] = "release" /\ pc'[t] = "idle"
      /\ \A u \in Thread \ {t} : pc'[u] = pc[u]
  BY <1>1 DEF L!Release, L!Go, L!ListInv, L!TypeOK
<1>3. L!ChainOK'
  BY <1>2 DEF L!ChainOK, L!Chain
<1>4. \A u \in Thread \ {t} : L!PlaceOK(u) /\ pc[u] \notin L!Holding \cup L!LockPc
  BY <1>1 DEF L!ListInv, L!PlaceOK, L!Chain
<1>5. \A u \in Thread : L!PlaceOK(u)'
  BY <1>2, <1>4, ThreadAssumption DEF ThreadAssumption, L!PlaceOK, L!Holding, L!LockPc
<1>6. L!LinksOK'
  <2>1. \A u \in Thread : next[u] = NoThread \/ pc'[u] = "reset"
    BY <1>1, <1>2, ThreadAssumption DEF ThreadAssumption, L!ListInv, L!LinksOK, L!Chain
  <2> QED
    BY <2>1, <1>2 DEF L!LinksOK
<1> QED
  BY <1>3, <1>5, <1>6 DEF L!ListInv

\* The holder gives the lock to the thread behind it, and leaves the chain.
LEMMA McsPassStep ==
  ASSUME L!ListInv, L!TypeOK', NEW t \in Thread, L!PassOn(t)
  PROVE  L!ListInv'
<1> PICK n \in Nat : n = Len(order)
  BY McsChainFacts
<1>1. /\ order # <<>> /\ owner = t /\ pc[t] = "passOn"
      /\ next[t] = order[1] /\ order[1] \in Thread /\ pc[order[1]] = "spin"
  BY McsKnownNodes DEF L!PassOn, L!Go
<1>2. /\ owner' = order[1] /\ order' = Tail(order) /\ UNCHANGED <<locked, next, found>>
      /\ ~is_locked'[order[1]] /\ pc'[t] = "reset"
      /\ \A u \in Thread \ {t} : pc'[u] = pc[u]
      /\ \A u \in Thread \ {order[1]} : is_locked'[u] = is_locked[u]
  BY <1>1 DEF L!PassOn, L!Go, L!ListInv, L!TypeOK
<1>3. n \in Nat \ {0} /\ Len(order') = n - 1 /\ \A i \in 0..(n - 1) : L!Chain(i)' = L!Chain(i + 1)
  <2>1. n # 0
    BY <1>1, McsChainFacts
  <2>2. Len(order') = n - 1 /\ \A i \in 1..(n - 1) : order'[i] = order[i + 1]
    BY <1>1, <1>2, HeadTailProperties DEF L!ListInv, L!TypeOK
  <2> QED
    BY <2>1, <2>2, <1>2 DEF L!Chain
<1>4. \A i \in 0..n : L!Chain(i) \in Thread
  BY <1>1, ThreadAssumption, McsChainFacts DEF ThreadAssumption
<1>5. t = L!Chain(0) /\ order[1] = L!Chain(1) /\ 0 \in 0..n /\ 1 \in 0..n
  BY <1>1, <1>3 DEF L!Chain
<1>6. L!ChainOK'
  <2>1. \A i, j \in 0..(n - 1) : L!Chain(i + 1) = L!Chain(j + 1) => i = j
    BY McsChainFacts
  <2>2. locked' = L!Chain(n - 1)'
    BY <1>2, <1>3, McsChainFacts
  <2>3. owner' # NoThread
    BY <1>1, <1>2, ThreadAssumption DEF ThreadAssumption
  <2> QED
    BY <2>1, <2>2, <2>3, <1>3 DEF L!ChainOK
<1>7. ASSUME NEW u \in Thread PROVE L!PlaceOK(u)'
  <2>1. L!PlaceOK(u) /\ \A i \in 0..(n - 1) : i + 1 \in 1..n /\ i + 1 \in 0..n
    BY DEF L!ListInv
  <2>2. CASE u = t
    <3>1. \A i \in 0..(n - 1) : L!Chain(i)' # t
      BY <1>3, <1>5, <2>1, McsChainFacts
    <3>2. owner' # t /\ \A i \in 1..(n - 1) : i \in 0..(n - 1)
      BY <1>2, <1>5, McsChainFacts
    <3> QED
      BY <2>2, <3>1, <3>2, <1>2, <1>3 DEF L!PlaceOK, L!Holding, L!LockPc
  <2>3. CASE u # t
    <3>1. pc[u] \notin L!Holding
      BY <2>1, <2>3, <1>1 DEF L!PlaceOK
    <3>2. pc[u] \in L!LockPc => \E i \in 0..(n - 1) : L!Chain(i)' = u
      <4> SUFFICES ASSUME pc[u] \in L!LockPc PROVE \E i \in 0..(n - 1) : L!Chain(i)' = u
        OBVIOUS
      <4>1. PICK i \in 0..n : L!Chain(i) = u
        BY <2>1 DEF L!PlaceOK
      <4>2. i # 0
        BY <4>1, <2>3, <1>5
      <4>3. i - 1 \in 0..(n - 1) /\ (i - 1) + 1 = i
        BY <4>2
      <4> QED
        BY <4>1, <4>3, <1>3
    <3>3. \A i \in 1..(n - 1) : L!Chain(i)' = u => pc[u] \in L!LockPc
      <4>1. \A i \in 1..(n - 1) : i \in 0..(n - 1) /\ i + 1 \in 1..n
        OBVIOUS
      <4> QED
        BY <2>1, <1>3, <4>1 DEF L!PlaceOK
    <3>4. pc[u] \in {"link", "spin"} => (is_locked'[u] <=> owner' # u)
      <4>1. CASE u = order[1]
        BY <4>1, <1>2
      <4>2. CASE u # order[1]
        BY <4>2, <2>1, <2>3, <1>1, <1>2 DEF L!PlaceOK
      <4> QED
        BY <4>1, <4>2
    <3>5. owner' = u => pc[u] = "spin"
      BY <1>1, <1>2
    <3> QED
      BY <2>1, <2>3, <3>1, <3>2, <3>3, <3>4, <3>5, <1>2, <1>3 DEF L!PlaceOK, L!Holding, L!LockPc
  <2> QED
    BY <2>2, <2>3
<1>8. L!LinksOK'
  <2>1. ASSUME NEW i \in 1..(n - 1)
        PROVE  IF pc'[L!Chain(i)'] \in L!UnlinkedPc
                 THEN next'[L!Chain(i - 1)'] = NoThread /\ found'[L!Chain(i)'] = L!Chain(i - 1)'
                 ELSE next'[L!Chain(i - 1)'] = L!Chain(i)' /\ found'[L!Chain(i)'] = NoThread
    <3>1. i \in 0..(n - 1) /\ i - 1 \in 0..(n - 1) /\ i + 1 \in 1..n /\ (i - 1) + 1 = i
          /\ (i + 1) - 1 = i /\ i + 1 \in 0..n
      BY <1>3
    <3>2. L!Chain(i)' = L!Chain(i + 1) /\ L!Chain(i - 1)' = L!Chain(i)
      BY <3>1, <1>3
    <3>3. L!Chain(i + 1) \in Thread \ {t}
      BY <3>1, <1>4, <1>5, McsChainFacts
    <3> QED
      BY <3>1, <3>2, <3>3, <1>2, McsChainFacts
  <2>2. next'[L!Chain(n - 1)'] = NoThread
    BY <1>1, <1>2, <1>3, McsChainFacts, ThreadAssumption DEF ThreadAssumption
  <2>3. ASSUME NEW u \in Thread, \A i \in 0..(n - 1) : L!Chain(i)' # u
        PROVE  next'[u] = NoThread \/ pc'[u] = "reset"
    <3>1. ASSUME u # t, NEW i \in 0..n PROVE L!Chain(i) # u
      <4>1. CASE i = 0
        BY <3>1, <4>1, <1>5
      <4>2. CASE i # 0
        <5>1. i - 1 \in 0..(n - 1) /\ (i - 1) + 1 = i
          BY <4>2
        <5> QED
          BY <5>1, <2>3, <1>3
      <4> QED
        BY <4>1, <4>2
    <3> QED
      BY <3>1, <1>2 DEF L!ListInv, L!LinksOK
  <2> QED
    BY <2>1, <2>2, <2>3, <1>3 DEF L!LinksOK
<1> QED
  BY <1>6, <1>7, <1>8 DEF L!ListInv

LEMMA McsListStep ==
  ASSUME L!ListInv, L!Next
  PROVE  L!ListInv'
<1> PICK t \in Thread : L!Exchange(t) \/ L!TryLook(t) \/ L!Step(t)
  BY DEF L!Next
<1>a. L!TypeOK'
  BY McsTypeStep
<1>1. CASE L!Exchange(t)
  BY <1>a, <1>1, McsTakeStep, McsQueueStep
<1>2. CASE L!TryTake(t)
  BY <1>a, <1>2, McsTakeStep, McsQuietSteps
<1>3. CASE L!SetTaken(t) \/ L!SeeFree(t) \/ L!TryLook(t) \/ L!LookForNext(t) \/ L!SeeNext(t) \/ L!Reset(t)
  BY <1>a, <1>3, McsQuietSteps
<1>4. CASE L!Release(t)
  BY <1>a, <1>4, McsReleaseStep, McsQuietSteps
<1>5. CASE L!Link(t) \/ L!PassOn(t)
  BY <1>a, <1>5, McsLinkStep, McsPassStep
<1> QED
  BY <1>1, <1>2, <1>3, <1>4, <1>5 DEF L!Step

\* The list that next makes of the nodes is the chain.
LEMMA McsListMeaning ==
  ASSUME L!ListInv
  PROVE  L!ListIsOrder
<1>1. <<owner>> \in Seq(Thread \cup {NoThread}) /\ order \in Seq(Thread \cup {NoThread})
  BY DEF L!ListInv, L!TypeOK
<1>2. PICK all : all = <<owner>> \o order
  OBVIOUS
<1>3. \A i \in 1..(1 + Len(order)) : all[i] = L!Chain(i - 1)
  BY <1>1, <1>2, ConcatProperties DEF L!Chain
<1>4. ASSUME NEW i \in 1..Len(order)
      PROVE  \/ next[all[i]] = all[i + 1] /\ found[all[i + 1]] = NoThread
             \/ next[all[i]] = NoThread /\ found[all[i + 1]] = all[i]
  <2>1. all[i] = L!Chain(i - 1) /\ all[i + 1] = L!Chain(i)
    BY <1>3, McsChainFacts
  <2> QED
    BY <2>1, McsChainFacts
<1> QED
  BY <1>2, <1>4 DEF L!ListIsOrder

-----------------------------------------------------------------------------
(* mcs_futex_lock: its proofs, with kind fixed *)

P == INSTANCE McsFutexLockProofs

LEMMA McsFutexNodes == M!NodeAssumption /\ P!NodeStatus = M!NodeStatus
  BY KindAssumption DEF KindAssumption, M!NodeAssumption, M!NodeStatus, P!NodeStatus

LEMMA McsFutexSame ==
  /\ M!Init <=> P!Init
  /\ M!Next <=> P!Next
  /\ M!ListInv <=> P!ListInv
  /\ M!SleeperHasFlag <=> P!SleeperHasFlag
<1>1. M!Init <=> P!Init
  BY DEF M!Init, P!Init, M!free, P!free
<1>2. M!Next <=> P!Next
  BY DEF M!LoadWord, P!LoadWord, M!TryLook, P!TryLook, M!WaitLoad, P!WaitLoad, M!Step, 
         P!Step, M!Exchange, P!Exchange, M!ExchangeFree, P!ExchangeFree, M!ExchangeTaken, 
         P!ExchangeTaken, M!ExchangeRetry, P!ExchangeRetry, M!SetTaken, P!SetTaken, 
         M!Link, P!Link, M!LookAtNode, P!LookAtNode, M!Contend, P!Contend, M!NodeWait, 
         P!NodeWait, M!NodeWoken, P!NodeWoken, M!TryTake, P!TryTake, M!WaitTake, 
         P!WaitTake, M!WaitFlag, P!WaitFlag, M!WaitRetry, P!WaitRetry, M!Consider, 
         P!Consider, M!Wait, P!Wait, M!Woken, P!Woken, M!LookForNext, P!LookForNext, 
         M!ReadFlag, P!ReadFlag, M!Release, P!Release, M!ReleaseFails, P!ReleaseFails, 
         M!WakeAll, P!WakeAll, M!SeeNext, P!SeeNext, M!PassOn, P!PassOn, M!WakeNext, 
         P!WakeNext, M!Reset, P!Reset, M!Go, P!Go, M!Expect, P!Expect, M!TakeFree, 
         P!TakeFree, M!free, P!free, M!node, P!node, M!locals, P!locals, M!kernel, 
         P!kernel, M!history, P!history, M!vars, P!vars, M!Next, P!Next
<1>3. M!ListInv <=> P!ListInv
  BY DEF M!ListInv, P!ListInv, M!TypeOK, P!TypeOK, M!ChainOK, P!ChainOK, M!PlaceOK, 
         P!PlaceOK, M!LinksOK, P!LinksOK, M!Chain, P!Chain, M!Word, P!Word, M!NodeStatus, 
         P!NodeStatus, M!LockPc, P!LockPc, M!TryPc, P!TryPc, M!UnlockPc, P!UnlockPc, 
         M!Holding, P!Holding, M!UnlinkedPc, P!UnlinkedPc, M!SpinPc, P!SpinPc
<1>4. M!SleeperHasFlag <=> P!SleeperHasFlag
  BY DEF M!SleeperHasFlag, P!SleeperHasFlag
<1> QED
  BY <1>1, <1>2, <1>3, <1>4

McsFutexInv == M!ListInv /\ M!SleeperHasFlag

LEMMA McsFutexInit == M!Init => McsFutexInv
<1>1. P!Init => P!ListInv
  BY P!ListInit, ThreadAssumption, McsFutexNodes
     DEF ThreadAssumption, P!ThreadAssumption, P!NodeAssumption, M!NodeAssumption, P!NodeStatus, M!NodeStatus
<1>2. M!Init => M!SleeperHasFlag
  BY DEF M!Init, M!SleeperHasFlag
<1> QED
  BY <1>1, <1>2, McsFutexSame DEF McsFutexInv

LEMMA McsFutexStep ==
  ASSUME McsFutexInv, M!Next
  PROVE  McsFutexInv'
<1>1. P!ListInv /\ P!SleeperHasFlag /\ P!Next
  BY McsFutexSame DEF McsFutexInv
<1>2. P!ListInv'
  BY <1>1, P!ListNext, ThreadAssumption, McsFutexNodes
     DEF ThreadAssumption, P!ThreadAssumption, P!NodeAssumption, M!NodeAssumption, P!NodeStatus, M!NodeStatus
<1>3. P!SleeperHasFlag'
  BY <1>1, P!SleeperStep, ThreadAssumption, McsFutexNodes
     DEF ThreadAssumption, P!ThreadAssumption, P!NodeAssumption, M!NodeAssumption, P!NodeStatus, M!NodeStatus
<1>4. (P!ListInv <=> M!ListInv)' /\ (P!SleeperHasFlag <=> M!SleeperHasFlag)'
  BY McsFutexSame, PTL
<1> QED
  BY <1>2, <1>3, <1>4 DEF McsFutexInv

-----------------------------------------------------------------------------
(* The locks side by side *)

\* What holds of the lock that kind names.
AllInv ==
  /\ kind \in LockKinds
  /\ kind = "futex" => F!FutexInv
  /\ kind = "ticket" => TicketInv /\ WakeNotLost
  /\ kind = "mcs" => L!ListInv
  /\ kind = "mcs_futex" => McsFutexInv

LEMMA AllInitially == AllInit => AllInv
<1> SUFFICES ASSUME AllInit PROVE AllInv
  OBVIOUS
<1>1. Init => WakeNotLost
  BY DEF Init, WakeNotLost
<1> QED
  BY <1>1, FutexInit, TicketInit, McsListInit, McsFutexInit DEF AllInit, AllInv

LEMMA AllStep ==
  ASSUME AllInv, AllNext
  PROVE  AllInv'
<1>1. kind' = kind /\ kind \in LockKinds
  BY DEF AllInv, AllNext
<1>2. CASE kind = "futex"
  <2>1. F!FutexInv'
    BY <1>2, FutexStep DEF AllInv, AllNext
  <2> QED
    BY <1>1, <1>2, <2>1 DEF AllInv
<1>3. CASE kind = "ticket"
  <2>1. TicketInv /\ WakeNotLost /\ Next
    BY <1>3 DEF AllInv, AllNext
  <2>2. TicketInv' /\ WakeNotLost'
    BY <2>1, TicketStep, TicketWakeStep
  <2> QED
    BY <1>1, <1>3, <2>2 DEF AllInv
<1>4. CASE kind = "mcs"
  <2>1. L!ListInv'
    BY <1>4, McsListStep DEF AllInv, AllNext
  <2> QED
    BY <1>1, <1>4, <2>1 DEF AllInv
<1>5. CASE kind = "mcs_futex"
  <2>1. McsFutexInv'
    BY <1>5, McsFutexStep DEF AllInv, AllNext
  <2> QED
    BY <1>1, <1>5, <2>1 DEF AllInv
<1> QED
  BY <1>2, <1>3, <1>4, <1>5 DEF AllNext

LEMMA AllStutter ==
  ASSUME AllInv, UNCHANGED allVars
  PROVE  AllInv'
<1>1. /\ UNCHANGED <<kind, pc, current, sleepers, locked, ticket, serving, mynum>>
      /\ UNCHANGED <<is_locked, next, found, owner, order, flagged, nodeSleepers>>
  BY DEF allVars, ticketOnly, listOnly, mcsFutexOnly
<1>2. F!FutexInv => F!FutexInv'
  BY <1>1 DEF F!FutexInv, F!TypeOK, F!WordOK, F!WakeNotLost
<1>3. TicketInv => TicketInv'
  <2>1. Busy' = Busy /\ Users' = Users /\ Pending' = Pending
    BY <1>1 DEF Busy, Users, Pending, Holding
  <2>2. Drawn' = Drawn /\ Served' = Served
    BY <1>1 DEF Drawn, Served
  <2>3. TypeOK => TypeOK'
    BY <1>1 DEF TypeOK
  <2>4. CountOK => CountOK'
    BY <2>1, <2>2 DEF CountOK
  <2>5. (\A t \in Thread : KnowsOK(t)) => (\A t \in Thread : KnowsOK(t)')
    BY <1>1, <2>2 DEF KnowsOK
  <2>6. DistinctOK => DistinctOK'
    BY <1>1 DEF DistinctOK, Holding
  <2> QED
    BY <2>3, <2>4, <2>5, <2>6 DEF TicketInv
<1>4. WakeNotLost => WakeNotLost'
  BY <1>1 DEF WakeNotLost
<1>5. L!ListInv => L!ListInv'
  <2>1. \A i : L!Chain(i)' = L!Chain(i)
    BY <1>1 DEF L!Chain
  <2>2. L!TypeOK => L!TypeOK'
    BY <1>1 DEF L!TypeOK
  <2>3. L!ChainOK => L!ChainOK'
    BY <1>1, <2>1 DEF L!ChainOK
  <2>4. (\A t \in Thread : L!PlaceOK(t)) => (\A t \in Thread : L!PlaceOK(t)')
    BY <1>1, <2>1 DEF L!PlaceOK
  <2>5. L!LinksOK => L!LinksOK'
    BY <1>1, <2>1 DEF L!LinksOK
  <2> QED
    BY <2>2, <2>3, <2>4, <2>5 DEF L!ListInv
<1>6. McsFutexInv => McsFutexInv'
  <2>1. \A i : M!Chain(i)' = M!Chain(i)
    BY <1>1 DEF M!Chain
  <2>2. M!TypeOK => M!TypeOK'
    BY <1>1 DEF M!TypeOK
  <2>3. M!ChainOK => M!ChainOK'
    BY <1>1, <2>1 DEF M!ChainOK
  <2>4. (\A t \in Thread : M!PlaceOK(t)) => (\A t \in Thread : M!PlaceOK(t)')
    BY <1>1, <2>1 DEF M!PlaceOK
  <2>5. M!LinksOK => M!LinksOK'
    BY <1>1, <2>1 DEF M!LinksOK
  <2>6. M!SleeperHasFlag => M!SleeperHasFlag'
    BY <1>1 DEF M!SleeperHasFlag
  <2> QED
    BY <2>2, <2>3, <2>4, <2>5, <2>6 DEF McsFutexInv, M!ListInv
<1> QED
  BY <1>1, <1>2, <1>3, <1>4, <1>5, <1>6 DEF AllInv

\* The invariant of each kind, in every state of a lock of that kind.
THEOREM AllInvCorrect == AllSpec => []AllInv
<1>1. AllInv /\ [AllNext]_allVars => AllInv'
  BY AllStep, AllStutter
<1> QED
  BY <1>1, AllInitially, PTL DEF AllSpec

LEMMA FourKinds ==
  ASSUME AllInv
  PROVE  kind \in {"futex", "ticket", "mcs", "mcs_futex"}
  BY KindAssumption DEF KindAssumption, AllInv

\* Type correctness of the words, the nodes and the threads of each kind.
THEOREM AllTypeOKCorrect == AllSpec => []AllTypeOK
<1>1. AllInv => AllTypeOK
  <2> SUFFICES ASSUME AllInv PROVE AllTypeOK
    OBVIOUS
  <2>1. CASE kind = "futex"
    BY <2>1 DEF AllInv, AllTypeOK, F!FutexInv
  <2>2. CASE kind = "ticket"
    BY <2>2 DEF AllInv, AllTypeOK, TicketInv
  <2>3. CASE kind = "mcs"
    BY <2>3 DEF AllInv, AllTypeOK, L!ListInv
  <2>4. CASE kind = "mcs_futex"
    BY <2>4 DEF AllInv, AllTypeOK, McsFutexInv, M!ListInv
  <2> QED
    BY <2>1, <2>2, <2>3, <2>4, FourKinds
<1> QED
  BY <1>1, AllInvCorrect, PTL

\* One thread at a time has the lock, in every interleaving of lock(),
\* try_lock(), try_lock_or_wait() and unlock() by any number of threads.
THEOREM MutualExclusionCorrect == AllSpec => []MutualExclusion
<1>1. ASSUME AllInv, NEW t \in Thread, NEW u \in Thread, Owns(t), Owns(u) PROVE t = u
  <2>1. CASE kind = "futex"
    <3>1. F!WordOK
      BY <1>1, <2>1 DEF AllInv, F!FutexInv
    <3> QED
      BY <1>1, <2>1, <3>1 DEF Owns, F!WordOK
  <2>2. CASE kind = "ticket"
    <3>1. DistinctOK
      BY <1>1, <2>2 DEF AllInv, TicketInv
    <3>2. Holding(t) /\ Holding(u)
      BY <1>1, <2>2 DEF Owns
    <3> QED
      BY <3>1, <3>2 DEF DistinctOK
  <2>3. CASE kind = "mcs"
    <3>1. L!PlaceOK(t) /\ L!PlaceOK(u) /\ L!TypeOK
      BY <1>1, <2>3 DEF AllInv, L!ListInv
    <3>2. pc[t] \in L!Holding /\ pc[u] \in L!Holding
      BY <1>1, <2>3, <3>1 DEF Owns, L!Holding, L!TypeOK, L!LockPc, L!UnlockPc
    <3> QED
      BY <3>1, <3>2 DEF L!PlaceOK
  <2>4. CASE kind = "mcs_futex"
    <3>1. M!PlaceOK(t) /\ M!PlaceOK(u)
      BY <1>1, <2>4 DEF AllInv, McsFutexInv, M!ListInv
    <3>2. pc[t] \in M!Holding /\ pc[u] \in M!Holding
      BY <1>1, <2>4 DEF Owns, M!Holding
    <3> QED
      BY <3>1, <3>2 DEF M!PlaceOK
  <2> QED
    BY <1>1, <2>1, <2>2, <2>3, <2>4, FourKinds
<1>2. AllInv => MutualExclusion
  BY <1>1 DEF MutualExclusion
<1> QED
  BY <1>2, AllInvCorrect, PTL

\* Of the locks whose threads sleep in the kernel, none forgets a sleeper:
\* the word has the flag, or an unlock() is about to wake everyone.
THEOREM SleepersRememberedCorrect == AllSpec => []SleepersRemembered
<1>1. AllInv => SleepersRemembered
  <2> SUFFICES ASSUME AllInv PROVE SleepersRemembered
    OBVIOUS
  <2>1. CASE kind = "futex"
    BY <2>1 DEF AllInv, SleepersRemembered, F!FutexInv
  <2>2. CASE kind = "ticket"
    BY <2>2 DEF AllInv, SleepersRemembered
  <2>3. CASE kind = "mcs"
    BY <2>3 DEF SleepersRemembered
  <2>4. CASE kind = "mcs_futex"
    BY <2>4 DEF AllInv, SleepersRemembered, McsFutexInv
  <2> QED
    BY <2>1, <2>2, <2>3, <2>4, FourKinds
<1> QED
  BY <1>1, AllInvCorrect, PTL

\* The distance of the two words of the ticket lock is the number of its
\* users, also where the words wrap round.
THEOREM TicketOrderCorrect == AllSpec => []TicketOrder
<1>1. AllInv => TicketOrder
  BY TicketsMeaning DEF AllInv, TicketOrder
<1> QED
  BY <1>1, AllInvCorrect, PTL

\* The list of the nodes of mcs_lock is the order of the calls of lock().
THEOREM ListOrderCorrect == AllSpec => []ListOrder
<1>1. AllInv => ListOrder
  BY McsListMeaning DEF AllInv, ListOrder
<1> QED
  BY <1>1, AllInvCorrect, PTL

=============================================================================
