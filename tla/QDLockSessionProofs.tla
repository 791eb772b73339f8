------------------------- MODULE QDLockSessionProofs -------------------------
(***************************************************************************)
(* Delegation is safe in every interleaving: with zeroed storage, what     *)
(* flush() calls is a stored operation that has not run yet, and no        *)
(* accepted operation is left behind.  The proof shows that SessionInv is  *)
(* inductive, one queue step at a time.                                    *)
(***************************************************************************)
EXTENDS QDLockProofs

OneSession == \A t, u \in Thread : InSession(t) /\ InSession(u) => t = u

\* There is one session at a time, that of the thread that holds the lock.
LEMMA SessionUnique == TypeInv /\ HolderOK => OneSession
  BY DEF TypeInv, LocalsOK, HolderOK, HoldingPc, OneSession, InSession, SessionPc

\* Nobody has claimed a slot yet when the queue is born.
LEMMA SessionInvInit ==
  ASSUME ZeroedStorage, Init
  PROVE  SessionInv
<1>1. \A t \in Thread : qpc[t] = "idle"
  BY DEF Init, QueueInit
<1>2. \A i \in Slot : slot[i] = 0 /\ entries[i] = "null"
  BY DEF Init, QueueInit
<1>3. PublishedOK
  BY <1>2 DEF PublishedOK
<1>4. BetweenSessionsOK
  BY <1>2, QueueAssumption DEF QueueAssumption, Init, QueueInit, BetweenSessionsOK
<1> QED
  BY <1>1, <1>3, <1>4 DEF SessionInv, WriterOK, WriterPc, InSession, SessionPc, FlushPc

\* The limit and the position of a helper are numbers within the array.
LEMMA SessionTypes ==
  ASSUME TypeInv, NEW t \in Thread
  PROVE  /\ Limit(t) \in 0..ENTRIES
         /\ Position(t) \in Nat
  BY QueueAssumption DEF QueueAssumption, TypeInv, TypeOK, QueueTypeOK, Limit, Position

\* The slots are the numbers below ENTRIES.
LEMMA SlotFacts ==
  /\ ENTRIES \in Nat /\ ENTRIES > 0
  /\ \A i \in Slot : i \in Nat /\ i < ENTRIES
  /\ \A k \in Nat : k < ENTRIES => k \in Slot
  /\ 0 \in Slot
  BY QueueAssumption DEF QueueAssumption, Slot

-----------------------------------------------------------------------------
(* Claiming a slot *)

\* While there is room a helper is in its session and still takes claims.
LEMMA RoomMeansSession ==
  ASSUME TypeInv, SessionInv, counter < ENTRIES
  PROVE  \E h \in Thread : InSession(h) /\ Limit(h) = counter
<1>1. PICK h \in Thread : InSession(h)
  BY QueueAssumption DEF QueueAssumption, SessionInv, BetweenSessionsOK, TypeInv, TypeOK, QueueTypeOK
<1>2. qpc[h] = "opened" \/ open[h]
  BY <1>1, QueueAssumption DEF QueueAssumption, SessionInv, ScanOK, TypeInv, TypeOK, QueueTypeOK
<1>3. Limit(h) = counter
  BY <1>2, QueueAssumption DEF QueueAssumption, Limit, TypeInv, TypeOK, QueueTypeOK
<1> QED
  BY <1>1, <1>3

\* What both kinds of claims do: t gets n entries from the counter on.
ClaimsSlot(t, n, place) ==
  /\ qpc[t] = "claim"
  /\ qpc' = [qpc EXCEPT ![t] = place]
  /\ index' = [index EXCEPT ![t] = counter]
  /\ slot' = [slot EXCEPT ![counter] = n]
  /\ IF counter' >= ENTRIES THEN counter + n = ENTRIES ELSE counter + n = counter'
  /\ UNCHANGED <<entries, header, argument, todo, open, accepted>>

\* A claim appends a tile.
LEMMA ClaimKeepsSession ==
  ASSUME TypeInv, SessionInv, OneSession, NEW t \in Thread, op'[t] = op[t],
         \A u \in Thread : u # t => op'[u] = op[u],
         counter < ENTRIES, counter' \in Nat,
         NEW n \in 1..ENTRIES, NEW place,
         \/ place = "write" /\ n = ReqEntries[op[t]]
         \/ place = "writeNoOp" /\ n = ENTRIES - counter,
         ClaimsSlot(t, n, place)
  PROVE  SessionInv'
<1> DEFINE c == counter
<1>0. /\ c \in Slot /\ c + n <= ENTRIES
      /\ slot \in [Slot -> 0..ENTRIES]
      /\ slot' \in [Slot -> 0..ENTRIES]
      /\ slot'[c] = n
      /\ \A i \in Slot : i # c => slot'[i] = slot[i]
      /\ c \in Nat /\ n \in Nat /\ n > 0
      /\ \A i \in Slot : slot[i] \in Nat /\ slot'[i] \in Nat
  BY QueueAssumption DEF QueueAssumption, TypeInv, TypeOK, QueueTypeOK, Slot, ClaimsSlot
<1>1. PICK h \in Thread : InSession(h) /\ Limit(h) = c
  BY RoomMeansSession
<1>2. h # t /\ (\A u \in Thread : InSession(u) => u = h) /\ (\A u \in Thread : InSession(u)' => u = h)
  BY <1>1 DEF OneSession, InSession, SessionPc, FlushPc, ClaimsSlot, TypeInv, TypeOK, QueueTypeOK
<1>3. /\ qpc'[h] = qpc[h] /\ index'[h] = index[h] /\ todo'[h] = todo[h] /\ open'[h] = open[h]
      /\ entries' = entries /\ header' = header /\ argument' = argument /\ accepted' = accepted
  BY <1>2 DEF ClaimsSlot, TypeInv, TypeOK, QueueTypeOK
<1>4. TilingOK(h) /\ ScanOK(h) /\ AcceptedOK(h) /\ PublishedOK
  BY <1>1 DEF SessionInv
<1>5. slot[c] = 0
  <2>1. slot[c] > 0 => c + slot[c] <= c
    BY <1>0, <1>1, <1>4 DEF TilingOK
  <2> QED
    BY <1>0, <2>1 DEF Slot
<1>6. Position(h)' = Position(h) /\ Position(h) \in Nat /\ Position(h) <= c
  BY <1>1, <1>3, <1>4, SessionTypes DEF Position, ScanOK
<1>7. Limit(h)' = c + n
  <2>1. CASE qpc[h] = "opened" \/ open[h]
    BY <1>3, <2>1 DEF Limit, ClaimsSlot
  <2>2. CASE ~(qpc[h] = "opened" \/ open[h])
    BY <1>4, <2>2, QueueAssumption DEF QueueAssumption, ScanOK, TypeInv, TypeOK, QueueTypeOK
  <2> QED
    BY <2>1, <2>2
<1>8. TilingOK(h)'
  <2>1. ASSUME NEW i \in Slot, slot'[i] > 0 PROVE i + slot'[i] <= c + n
    BY <1>0, <1>1, <1>4, <2>1 DEF TilingOK, Slot
  <2>2. ASSUME NEW i \in Slot, NEW j \in Slot, slot'[i] > 0, i < j, j < i + slot'[i]
        PROVE  slot'[j] = 0
    <3>1. CASE i = c
      <4>1. slot[j] > 0 => j + slot[j] <= c
        BY <1>1, <1>4 DEF TilingOK
      <4> QED
        BY <1>0, <2>2, <3>1, <4>1 DEF Slot
    <3>2. CASE i # c
      <4>1. i + slot[i] <= c /\ slot[j] = 0
        BY <1>0, <1>1, <1>4, <2>2, <3>2 DEF TilingOK
      <4> QED
        BY <1>0, <2>2, <3>2, <4>1 DEF Slot
    <3> QED
      BY <3>1, <3>2
  <2>3. ASSUME NEW i \in Slot, slot'[i] > 0, i + slot'[i] < c + n
        PROVE  slot'[i + slot'[i]] > 0
    <3>1. i # c
      BY <1>0, <2>3 DEF Slot
    <3>2. i + slot[i] <= c /\ (i + slot[i] < c => slot[i + slot[i]] > 0)
      BY <1>0, <1>1, <1>4, <2>3, <3>1 DEF TilingOK
    <3>3. i + slot[i] \in Slot /\ slot'[i] = slot[i]
      BY <1>0, <2>3, <3>1, SlotFacts
    <3>4. CASE i + slot[i] = c
      BY <1>0, <3>3, <3>4
    <3>5. CASE i + slot[i] < c
      BY <1>0, <3>2, <3>3, <3>5
    <3>6. i + slot[i] = c \/ i + slot[i] < c
      BY <1>0, <3>2
    <3> QED
      BY <3>4, <3>5, <3>6
  <2>4. slot'[0] > 0
    <3>1. CASE c = 0
      BY <1>0, <3>1
    <3>2. CASE c # 0
      <4>1. slot[0] > 0
        BY <1>0, <1>1, <1>4, <3>2 DEF TilingOK
      <4> QED
        BY <1>0, <3>2, <4>1, SlotFacts
    <3> QED
      BY <3>1, <3>2
  <2> QED
    BY <1>7, <2>1, <2>2, <2>3, <2>4 DEF TilingOK
<1>9. ScanOK(h)'
  <2>1. Position(h) <= c + n
    BY <1>0, <1>6 DEF Slot
  <2>2. Position(h) < c + n => slot'[Position(h)] > 0
    <3>1. CASE Position(h) = c
      BY <1>0, <3>1
    <3>2. CASE Position(h) # c
      <4>1. Position(h) < c
        BY <1>0, <1>6, <3>2
      <4>2. slot[Position(h)] > 0
        BY <1>1, <1>4, <4>1 DEF ScanOK
      <4>3. Position(h) \in Slot
        BY <1>0, <1>6, <4>1, SlotFacts
      <4> QED
        BY <1>0, <3>2, <4>2, <4>3
    <3> QED
      BY <3>1, <3>2
  <2>3. qpc[h] # "opened" => todo[h] <= c
    BY <1>1, <1>4 DEF ScanOK
  <2>4. ASSUME qpc[h] # "opened", NEW i \in Slot, slot'[i] > 0, i < todo[h]
        PROVE  i + slot'[i] <= todo[h]
    <3>1. todo[h] \in Nat
      BY DEF TypeInv, TypeOK, QueueTypeOK
    <3>2. i # c
      BY <1>0, <2>3, <2>4, <3>1, SlotFacts
    <3> QED
      BY <1>0, <1>4, <2>4, <3>2 DEF ScanOK
  <2>5. \A i \in Slot : slot'[i] > 0 /\ i < Position(h) => entries[i] # "null"
    BY <1>0, <1>4, <1>6 DEF ScanOK, Slot
  <2>6. qpc[h] # "opened" => open[h]
    BY <1>4, QueueAssumption DEF QueueAssumption, ScanOK, TypeInv, TypeOK, QueueTypeOK
  <2>7. qpc[h] # "opened" => todo[h] <= c + n
    BY <1>0, <2>3 DEF Slot, TypeInv, TypeOK, QueueTypeOK
  <2> QED
    BY <1>3, <1>4, <1>6, <1>7, <2>1, <2>2, <2>4, <2>5, <2>6, <2>7 DEF ScanOK
<1>10. AcceptedOK(h)' /\ PublishedOK'
  <2>1. \A i \in Slot : entries[i] # "null" => i # c
    BY <1>4, <1>5 DEF PublishedOK
  <2> QED
    BY <1>0, <1>3, <1>4, <1>6, <2>1 DEF AcceptedOK, PublishedOK
<1>11. ASSUME NEW u \in Thread PROVE WriterOK(u)'
  <2>1. entries[c] = "null"
    BY <1>0, <1>4, <1>5 DEF PublishedOK
  <2>2. ASSUME NEW v \in Thread, qpc[v] \in WriterPc PROVE index[v] \in Slot /\ index[v] # c
    <3>1. index[v] \in Nat /\ index[v] < ENTRIES
      BY <2>2 DEF TypeInv, TypeOK, QueueTypeOK, LocalsOK
    <3>2. slot[index[v]] > 0
      BY <2>2 DEF SessionInv, WriterOK
    <3> QED
      BY <1>5, <3>1, <3>2, SlotFacts
  <2>3. /\ \A v \in Thread : v # t => qpc'[v] = qpc[v] /\ index'[v] = index[v]
        /\ qpc'[t] = place /\ index'[t] = c
    BY DEF ClaimsSlot, TypeInv, TypeOK, QueueTypeOK
  <2>4. CASE u = t
    <3>1. \A v \in Thread : qpc'[v] \in WriterPc /\ index'[v] = c => v = t
      BY <2>2, <2>3
    <3>2. slot'[index'[t]] > 0 /\ entries'[index'[t]] = "null"
      BY <1>0, <1>3, <2>1, <2>3
    <3>3. qpc'[t] \in {"write", "publish"} => slot'[index'[t]] = ReqEntries[op'[t]]
      BY <1>0, <2>3
    <3>4. qpc'[t] \in {"writeNoOp", "publishNoOp"} => slot'[index'[t]] = ENTRIES - index'[t]
      BY <1>0, <2>3
    <3>5. qpc'[t] \notin {"publish", "publishNoOp"}
      BY <2>3
    <3> QED
      BY <2>3, <2>4, <3>1, <3>2, <3>3, <3>4, <3>5 DEF WriterOK
  <2>5. CASE u # t
    <3> SUFFICES ASSUME qpc[u] \in WriterPc PROVE WriterOK(u)'
      BY <2>3, <2>5 DEF WriterOK
    <3>1. WriterOK(u) /\ index'[u] = index[u] /\ qpc'[u] = qpc[u] /\ op'[u] = op[u]
      BY <2>3, <2>5 DEF SessionInv
    <3>2. slot'[index[u]] = slot[index[u]]
      BY <1>0, <2>2
    <3>3. \A v \in Thread : qpc'[v] \in WriterPc /\ index'[v] = index[u] => u = v
      BY <2>2, <2>3, <3>1 DEF WriterOK
    <3> QED
      BY <1>3, <3>1, <3>2, <3>3 DEF WriterOK
  <2> QED
    BY <2>4, <2>5
<1>12. BetweenSessionsOK'
  BY <1>1, <1>3 DEF BetweenSessionsOK, InSession
<1> QED
  BY <1>2, <1>8, <1>9, <1>10, <1>11, <1>12 DEF SessionInv

-----------------------------------------------------------------------------
(* Steps that leave the slots and the session alone *)

SameLocals(u) ==
  qpc'[u] = qpc[u] /\ index'[u] = index[u] /\ todo'[u] = todo[u] /\ open'[u] = open[u]

\* A step that changes neither the slots nor what the helper and the writers
\* remember keeps the session as it is.
LEMMA QuietKeepsSession ==
  ASSUME TypeInv, SessionInv,
         UNCHANGED <<entries, header, argument, slot, accepted>>,
         counter' = counter \/ (counter >= ENTRIES /\ counter' >= ENTRIES),
         \A u \in Thread : InSession(u)' <=> InSession(u),
         \A u \in Thread : qpc'[u] \in WriterPc <=> qpc[u] \in WriterPc,
         \A u \in Thread : InSession(u) => SameLocals(u),
         \A u \in Thread : qpc[u] \in WriterPc => SameLocals(u) /\ op'[u] = op[u]
  PROVE  SessionInv'
<1>1. PublishedOK'
  BY DEF SessionInv, PublishedOK
<1>2. ASSUME NEW u \in Thread PROVE WriterOK(u)'
  BY DEF SessionInv, WriterOK, SameLocals
<1>3. BetweenSessionsOK'
  <2>1. counter >= ENTRIES => counter' >= ENTRIES
    OBVIOUS
  <2> QED
    BY <2>1 DEF SessionInv, BetweenSessionsOK
<1>4. ASSUME NEW h \in Thread, InSession(h)' PROVE TilingOK(h)' /\ ScanOK(h)' /\ AcceptedOK(h)'
  <2>1. TilingOK(h) /\ ScanOK(h) /\ AcceptedOK(h) /\ SameLocals(h)
    BY <1>4 DEF SessionInv
  <2>2. Position(h)' = Position(h)
    BY <2>1 DEF Position, SameLocals
  <2>3. Limit(h)' = Limit(h)
    BY <2>1, SlotFacts DEF Limit, SameLocals, TypeInv, TypeOK, QueueTypeOK
  <2>4. TilingOK(h)'
    BY <2>1, <2>3 DEF TilingOK
  <2>5. ScanOK(h)'
    BY <2>1, <2>2, <2>3, SlotFacts DEF ScanOK, SameLocals, TypeInv, TypeOK, QueueTypeOK
  <2>6. AcceptedOK(h)'
    BY <2>1, <2>2 DEF AcceptedOK
  <2> QED
    BY <2>4, <2>5, <2>6
<1> QED
  BY <1>1, <1>2, <1>3, <1>4 DEF SessionInv

-----------------------------------------------------------------------------
(* Filling and publishing a slot *)

\* A thread that is filling a slot does so in a session, and ahead of it.
LEMMA WriterInSession ==
  ASSUME TypeInv, SessionInv, NEW u \in Thread, qpc[u] \in WriterPc
  PROVE  /\ index[u] \in Slot /\ slot[index[u]] > 0 /\ entries[index[u]] = "null"
         /\ \E h \in Thread : InSession(h)
         /\ \A h \in Thread : InSession(h) => Position(h) <= index[u]
<1>1. index[u] \in Slot
  BY SlotFacts DEF TypeInv, TypeOK, QueueTypeOK, LocalsOK
<1>2. slot[index[u]] > 0 /\ entries[index[u]] = "null"
  BY DEF SessionInv, WriterOK
<1>3. \E h \in Thread : InSession(h)
  BY <1>1, <1>2 DEF SessionInv, BetweenSessionsOK
<1>4. ASSUME NEW h \in Thread, InSession(h) PROVE Position(h) <= index[u]
  <2>1. ~(index[u] < Position(h))
    BY <1>1, <1>2, <1>4 DEF SessionInv, ScanOK
  <2> QED
    BY <1>1, <2>1, SessionTypes, SlotFacts
<1> QED
  BY <1>1, <1>2, <1>3, <1>4

\* Writing to a claimed slot that is not published disturbs nobody.
LEMMA WriteKeepsSession ==
  ASSUME TypeInv, SessionInv, NEW t \in Thread, op'[t] = op[t],
         \A u \in Thread : u # t => op'[u] = op[u],
         qpc[t] \in {"write", "writeNoOp"},
         WriteEntry(t) \/ WriteNoOp(t)
  PROVE  SessionInv'
<1> DEFINE c == index[t]
<1>1. c \in Slot /\ slot[c] > 0 /\ entries[c] = "null"
  BY WriterInSession DEF WriterPc
<1>2. /\ UNCHANGED <<counter, entries, slot, accepted, index, todo, open>>
      /\ \A i \in Slot : i # c => header'[i] = header[i] /\ argument'[i] = argument[i]
      /\ \A u \in Thread : u # t => qpc'[u] = qpc[u]
  BY DEF WriteEntry, WriteNoOp, TypeInv, TypeOK, QueueTypeOK
<1>3. PublishedOK'
  BY <1>1, <1>2 DEF SessionInv, PublishedOK
<1>4. ASSUME NEW u \in Thread PROVE WriterOK(u)'
  <2>1. CASE u = t
    <3>1. header'[c] = slot[c] /\ (qpc'[t] = "publish" => argument'[c] = op[t])
      BY <1>1 DEF WriteEntry, WriteNoOp, TypeInv, TypeOK, QueueTypeOK, SessionInv, WriterOK, WriterPc
    <3>2. qpc'[t] = IF qpc[t] = "write" THEN "publish" ELSE "publishNoOp"
      BY DEF WriteEntry, WriteNoOp, TypeInv, TypeOK, QueueTypeOK
    <3>3. \A v \in Thread : qpc'[v] \in WriterPc => qpc[v] \in WriterPc
      BY <1>2 DEF WriterPc
    <3> QED
      BY <1>2, <2>1, <3>1, <3>2, <3>3 DEF SessionInv, WriterOK, WriterPc
  <2>2. CASE u # t
    <3> SUFFICES ASSUME qpc[u] \in WriterPc PROVE WriterOK(u)'
      BY <1>2, <2>2 DEF WriterOK
    <3>1. index[u] \in Slot /\ WriterOK(u) /\ index[u] # c
      BY <2>2, WriterInSession DEF SessionInv, WriterOK, WriterPc
    <3>2. \A v \in Thread : qpc'[v] \in WriterPc => qpc[v] \in WriterPc
      BY <1>2 DEF WriterPc
    <3> QED
      BY <1>2, <2>2, <3>1, <3>2 DEF WriterOK
  <2> QED
    BY <2>1, <2>2
<1>5. \A u \in Thread : InSession(u)' <=> InSession(u)
  BY <1>2 DEF InSession, SessionPc, FlushPc, WriteEntry, WriteNoOp, TypeInv, TypeOK, QueueTypeOK
<1>6. BetweenSessionsOK'
  BY <1>2, <1>5 DEF SessionInv, BetweenSessionsOK
<1>7. ASSUME NEW h \in Thread, InSession(h)' PROVE TilingOK(h)' /\ ScanOK(h)' /\ AcceptedOK(h)'
  <2>1. TilingOK(h) /\ ScanOK(h) /\ AcceptedOK(h) /\ SameLocals(h)
    BY <1>2, <1>5, <1>7 DEF SessionInv, SameLocals, InSession, SessionPc, FlushPc
  <2>2. Position(h)' = Position(h) /\ Limit(h)' = Limit(h)
    BY <1>2, <2>1 DEF Position, Limit, SameLocals
  <2>3. TilingOK(h)' /\ ScanOK(h)'
    BY <1>2, <2>1, <2>2 DEF TilingOK, ScanOK, SameLocals
  <2>4. AcceptedOK(h)'
    <3>1. \A i \in Slot : entries[i] = "wrapper" => argument'[i] = argument[i]
      BY <1>1, <1>2
    <3> QED
      BY <1>2, <2>1, <2>2, <3>1 DEF AcceptedOK
  <2> QED
    BY <2>3, <2>4
<1> QED
  BY <1>3, <1>4, <1>6, <1>7 DEF SessionInv

\* Publishing a slot hands it to the helper.
LEMMA PublishKeepsSession ==
  ASSUME TypeInv, SessionInv, NEW t \in Thread, op[t] \in Op, op[t] \notin accepted,
         \A u \in Thread : u # t => op'[u] = op[u],
         Publish(t) \/ PublishNoOp(t)
  PROVE  SessionInv'
<1> DEFINE c == index[t]
<1>0. qpc[t] \in {"publish", "publishNoOp"} /\ WriterOK(t)
  BY DEF Publish, PublishNoOp, SessionInv
<1>1. c \in Slot /\ slot[c] > 0 /\ entries[c] = "null"
  BY <1>0, WriterInSession DEF WriterPc
<1>2. /\ UNCHANGED <<counter, slot, header, argument, todo, open>>
      /\ \A i \in Slot : i # c => entries'[i] = entries[i]
      /\ entries'[c] = IF qpc[t] = "publish" THEN "wrapper" ELSE "no_op"
      /\ accepted' = IF qpc[t] = "publish" THEN accepted \cup {op[t]} ELSE accepted
      /\ \A u \in Thread : u # t => qpc'[u] = qpc[u] /\ index'[u] = index[u]
      /\ qpc'[t] = "idle"
  BY <1>1 DEF Publish, PublishNoOp, TypeInv, TypeOK, QueueTypeOK
<1>3. PublishedOK'
  <2>1. header[c] = slot[c]
    BY <1>0 DEF WriterOK, WriterPc
  <2> QED
    BY <1>1, <1>2, <2>1 DEF SessionInv, PublishedOK
<1>4. ASSUME NEW u \in Thread PROVE WriterOK(u)'
  <2>1. CASE u = t
    BY <1>2, <2>1 DEF WriterOK, WriterPc
  <2>2. CASE u # t
    <3> SUFFICES ASSUME qpc[u] \in WriterPc PROVE WriterOK(u)'
      BY <1>2, <2>2 DEF WriterOK
    <3>1. index[u] \in Slot /\ WriterOK(u) /\ index[u] # c
      BY <1>0, <2>2, WriterInSession DEF SessionInv, WriterOK, WriterPc
    <3>2. \A v \in Thread : qpc'[v] \in WriterPc => qpc[v] \in WriterPc /\ index'[v] = index[v]
      BY <1>2 DEF WriterPc
    <3> QED
      BY <1>2, <2>2, <3>1, <3>2 DEF WriterOK
  <2> QED
    BY <2>1, <2>2
<1>5. \A u \in Thread : InSession(u)' <=> InSession(u)
  BY <1>0, <1>2 DEF InSession, SessionPc, FlushPc
<1>6. BetweenSessionsOK'
  BY <1>0, <1>5, WriterInSession DEF BetweenSessionsOK, WriterPc
<1>7. ASSUME NEW h \in Thread, InSession(h)' PROVE TilingOK(h)' /\ ScanOK(h)' /\ AcceptedOK(h)'
  <2>1. TilingOK(h) /\ ScanOK(h) /\ AcceptedOK(h) /\ SameLocals(h)
    BY <1>0, <1>2, <1>5, <1>7 DEF SessionInv, SameLocals, InSession, SessionPc, FlushPc
  <2>2. Position(h)' = Position(h) /\ Limit(h)' = Limit(h) /\ Position(h) <= c
    BY <1>0, <1>2, <1>5, <1>7, <2>1, WriterInSession DEF Position, Limit, SameLocals, WriterPc
  <2>3. TilingOK(h)'
    BY <1>2, <2>1, <2>2 DEF TilingOK
  <2>4. ScanOK(h)'
    <3>1. \A i \in Slot : entries[i] # "null" => entries'[i] # "null"
      BY <1>1, <1>2
    <3>2. qpc[h] = "run" => entries'[index[h]] # "null"
      <4>1. qpc[h] = "run" => index[h] \in Slot
        BY SlotFacts DEF TypeInv, TypeOK, QueueTypeOK, LocalsOK
      <4> QED
        BY <2>1, <3>1, <4>1 DEF ScanOK
    <3>3. \A i \in Slot : slot[i] > 0 /\ i < Position(h) => entries'[i] # "null"
      BY <2>1, <3>1 DEF ScanOK
    <3>4. /\ slot' = slot /\ counter' = counter /\ qpc'[h] = qpc[h] /\ index'[h] = index[h]
          /\ todo'[h] = todo[h] /\ open'[h] = open[h]
      BY <1>2, <2>1 DEF SameLocals
    <3> QED
      BY <2>1, <2>2, <3>2, <3>3, <3>4 DEF ScanOK
  <2>5. CASE qpc[t] = "publishNoOp"
    <3>1. \A i \in Slot : entries'[i] = "wrapper" <=> entries[i] = "wrapper"
      BY <1>1, <1>2, <2>5
    <3>2. UNCHANGED <<slot, argument, accepted>>
      BY <1>2, <2>5
    <3> QED
      BY <2>1, <2>2, <2>3, <2>4, <3>1, <3>2 DEF AcceptedOK
  <2>6. CASE qpc[t] = "publish"
    <3>1. argument[c] = op[t] /\ slot[c] = ReqEntries[op[t]]
      BY <2>6, <1>0 DEF WriterOK, WriterPc
    <3>2. \A o \in accepted' : \E i \in Slot :
             i >= Position(h) /\ entries'[i] = "wrapper" /\ argument[i] = o
      <4>1. ASSUME NEW o \in accepted
            PROVE  \E i \in Slot : i >= Position(h) /\ entries'[i] = "wrapper" /\ argument[i] = o
        BY <1>1, <1>2, <2>1 DEF AcceptedOK
      <4>2. c >= Position(h)
        BY <1>1, <2>2, SessionTypes, SlotFacts
      <4> QED
        BY <1>1, <1>2, <2>6, <3>1, <4>1, <4>2
    <3>3. \A i \in Slot : i >= Position(h) /\ entries'[i] = "wrapper" =>
             argument[i] \in accepted' /\ ReqEntries[argument[i]] = slot[i]
      BY <1>2, <2>1, <2>6, <3>1 DEF AcceptedOK
    <3>4. ASSUME NEW i \in Slot, NEW j \in Slot,
                 i >= Position(h), entries'[i] = "wrapper",
                 j >= Position(h), entries'[j] = "wrapper", argument[i] = argument[j]
          PROVE  i = j
      <4>1. \A k \in Slot : k # c /\ k >= Position(h) /\ entries'[k] = "wrapper" =>
                 argument[k] \in accepted
        BY <1>2, <2>1 DEF AcceptedOK
      <4> QED
        BY <1>2, <2>1, <3>1, <3>4, <4>1 DEF AcceptedOK
    <3> QED
      BY <1>2, <2>2, <2>3, <2>4, <3>2, <3>3, <3>4 DEF AcceptedOK
  <2> QED
    BY <1>0, <2>3, <2>4, <2>5, <2>6
<1> QED
  BY <1>3, <1>4, <1>6, <1>7 DEF SessionInv

-----------------------------------------------------------------------------
(* The helper *)

\* A step of the helper leaves every writer alone when it leaves the slots.
LEMMA WritersKept ==
  ASSUME TypeInv, SessionInv, NEW t \in Thread, op' = op, qpc[t] \notin WriterPc,
         qpc'[t] \notin WriterPc, \A u \in Thread : u # t => SameLocals(u),
         \A u \in Thread : qpc[u] \in WriterPc =>
            /\ slot'[index[u]] = slot[index[u]] /\ entries'[index[u]] = entries[index[u]]
            /\ header'[index[u]] = header[index[u]] /\ argument'[index[u]] = argument[index[u]]
  PROVE  \A u \in Thread : WriterOK(u)'
  BY DEF SessionInv, WriterOK, SameLocals

\* open() starts a session with nothing claimed.
LEMMA OpenKeepsSession ==
  ASSUME TypeInv, SessionInv, NEW t \in Thread, op' = op, OpenQueue(t),
         \A u \in Thread : ~InSession(u)
  PROVE  SessionInv'
<1>1. /\ counter >= ENTRIES /\ accepted = {}
      /\ \A i \in Slot : slot[i] = 0 /\ entries[i] = "null"
  BY DEF SessionInv, BetweenSessionsOK
<1>2. /\ UNCHANGED <<entries, header, argument, index, todo, open, slot, accepted>>
      /\ counter' = 0 /\ qpc'[t] = "opened" /\ \A u \in Thread : u # t => SameLocals(u)
  BY DEF OpenQueue, SameLocals, TypeInv, TypeOK, QueueTypeOK
<1>3. \A u \in Thread : qpc[u] \notin WriterPc
  BY WriterInSession
<1>4. \A u \in Thread : WriterOK(u)'
  BY <1>2, <1>3 DEF WriterOK, WriterPc, SameLocals
<1>5. PublishedOK'
  BY <1>1, <1>2 DEF PublishedOK
<1>6. \A u \in Thread : InSession(u)' <=> u = t
  BY <1>2 DEF InSession, SessionPc, SameLocals
<1>7. Position(t)' = 0 /\ Limit(t)' = 0
  BY <1>2, SlotFacts DEF Position, Limit
<1>8. TilingOK(t)' /\ ScanOK(t)' /\ AcceptedOK(t)'
  <2>1. TilingOK(t)' /\ AcceptedOK(t)'
    BY <1>1, <1>2, <1>7 DEF TilingOK, AcceptedOK
  <2>2. \A i \in Slot : slot'[i] = 0
    BY <1>1, <1>2
  <2>3. ScanOK(t)'
    BY <1>2, <1>7, <2>2 DEF ScanOK
  <2> QED
    BY <2>1, <2>3
<1> QED
  BY <1>4, <1>5, <1>6, <1>8 DEF SessionInv, BetweenSessionsOK

\* Where the scan of flush() is, from its position.
LEMMA PositionFacts ==
  ASSUME TypeInv, SessionInv, NEW t \in Thread, InSession(t)
  PROVE  /\ TilingOK(t) /\ ScanOK(t) /\ AcceptedOK(t) /\ PublishedOK
         /\ qpc[t] \in {"load", "close", "clear"} => Position(t) = todo[t]
         /\ qpc[t] \in {"poll", "run"} => Position(t) = index[t] /\ index[t] \in Slot
         /\ qpc[t] = "opened" => Position(t) = 0
         /\ qpc[t] \notin WriterPc
<1>1. qpc[t] \in {"poll", "run"} => index[t] \in Slot
  BY SlotFacts DEF TypeInv, TypeOK, QueueTypeOK, LocalsOK
<1> QED
  BY <1>1 DEF SessionInv, Position, InSession, SessionPc, FlushPc, WriterPc

\* A step of flush() that leaves the slots alone keeps the session if it
\* moves the position and the limit to where the tiling is still right.
LEMMA ScanStepKeepsSession ==
  ASSUME TypeInv, SessionInv, OneSession, NEW t \in Thread, op' = op,
         InSession(t), InSession(t)', qpc'[t] # "opened",
         UNCHANGED <<entries, header, argument, slot, accepted>>,
         \A u \in Thread : u # t => SameLocals(u),
         Position(t)' = Position(t), Limit(t)' = Limit(t),
         todo'[t] \in 0..ENTRIES, todo'[t] <= Limit(t),
         \A i \in Slot : slot[i] > 0 /\ i < todo'[t] => i + slot[i] <= todo'[t],
         qpc'[t] \in {"load", "close"} => open'[t],
         qpc'[t] = "clear" => ~open'[t],
         ~open'[t] => counter' >= ENTRIES,
         qpc'[t] = "run" => entries[index'[t]] # "null"
  PROVE  SessionInv'
<1>1. TilingOK(t) /\ ScanOK(t) /\ AcceptedOK(t)
  BY PositionFacts
<1>2. PublishedOK'
  BY PositionFacts DEF PublishedOK
<1>3. \A u \in Thread : WriterOK(u)'
  BY WritersKept DEF InSession, SessionPc, FlushPc, WriterPc
<1>4. \A u \in Thread : InSession(u)' => u = t
  BY DEF OneSession, InSession, SameLocals
<1>5. TilingOK(t)' /\ AcceptedOK(t)'
  BY <1>1 DEF TilingOK, AcceptedOK
<1>6. ScanOK(t)'
  BY <1>1 DEF ScanOK
<1> QED
  BY <1>2, <1>3, <1>4, <1>5, <1>6 DEF SessionInv, BetweenSessionsOK

\* flush() begins at the start of the array.
LEMMA EnterKeepsSession ==
  ASSUME TypeInv, SessionInv, OneSession, NEW t \in Thread, op' = op, FlushEnter(t)
  PROVE  SessionInv'
<1>1. /\ qpc[t] = "opened" /\ qpc'[t] = "load" /\ todo'[t] = 0 /\ open'[t] = TRUE
      /\ UNCHANGED <<counter, entries, header, argument, index, slot, accepted>>
      /\ \A u \in Thread : u # t => SameLocals(u)
  BY DEF FlushEnter, SameLocals, TypeInv, TypeOK, QueueTypeOK
<1>2. InSession(t) /\ InSession(t)'
  BY <1>1 DEF InSession, SessionPc, FlushPc
<1>3. Position(t)' = Position(t) /\ Limit(t)' = Limit(t)
  BY <1>1 DEF Position, Limit
<1>4. 0 <= Limit(t) /\ \A i \in Slot : ~(i < 0)
  BY SessionTypes, SlotFacts
<1> QED
  BY <1>1, <1>2, <1>3, <1>4, SlotFacts, ScanStepKeepsSession

\* Every new pass over the array starts where the last one ended.
LEMMA StartScanKeepsSession ==
  ASSUME TypeInv, SessionInv, OneSession, NEW t \in Thread, op' = op,
         FlushLoad(t) \/ FlushClose(t)
  PROVE  SessionInv'
<1> DEFINE limit == IF counter >= ENTRIES THEN ENTRIES ELSE counter
           goOn == FlushLoad(t) /\ counter < ENTRIES
<1>1. /\ qpc[t] \in {"load", "close"}
      /\ todo'[t] = limit /\ open'[t] = goOn /\ index'[t] = todo[t]
      /\ qpc'[t] = ScanNext(todo[t], limit, goOn)
      /\ UNCHANGED <<entries, header, argument, slot, accepted>>
      /\ \A u \in Thread : u # t => SameLocals(u)
      /\ counter' = IF FlushLoad(t) THEN counter ELSE ENTRIES
  <2>1. CASE FlushLoad(t)
    BY <2>1 DEF FlushLoad, StartScan, SameLocals, TypeInv, TypeOK, QueueTypeOK
  <2>2. CASE FlushClose(t)
    <3>1. ~FlushLoad(t)
      BY <2>2 DEF FlushLoad, FlushClose
    <3> QED
      BY <2>2, <3>1 DEF FlushClose, StartScan, SameLocals, TypeInv, TypeOK, QueueTypeOK
  <2> QED
    BY <2>1, <2>2
<1>2. limit \in 0..ENTRIES /\ todo[t] \in Nat /\ counter \in Nat /\ ENTRIES \in Nat
  BY SlotFacts DEF TypeInv, TypeOK, QueueTypeOK
<1> HIDE DEF goOn
<1>3. InSession(t) /\ TilingOK(t) /\ ScanOK(t) /\ Position(t) = todo[t] /\ Limit(t) = limit
  <2>1. InSession(t)
    BY <1>1 DEF InSession, SessionPc, FlushPc
  <2>2. TilingOK(t) /\ ScanOK(t) /\ Position(t) = todo[t]
    BY <1>1, <2>1, PositionFacts
  <2>3. open[t]
    BY <1>1, <2>2 DEF ScanOK
  <2>4. Limit(t) = limit
    BY <2>3 DEF Limit
  <2> QED
    BY <2>1, <2>2, <2>4
<1>4. todo[t] <= limit
  BY <1>3 DEF ScanOK
<1>5. InSession(t)' /\ qpc'[t] \in {"poll", "load", "clear"}
  BY <1>1 DEF InSession, SessionPc, FlushPc, ScanNext
<1>6. Position(t)' = Position(t)
  <2>1. CASE todo[t] < limit
    <3>1. qpc'[t] = "poll"
      BY <1>1, <1>2, <2>1 DEF ScanNext
    <3> QED
      BY <1>1, <1>3, <3>1 DEF Position
  <2>2. CASE todo[t] = limit
    BY <1>1, <1>2, <1>3, <2>2 DEF ScanNext, Position
  <2> QED
    BY <1>2, <1>4, <2>1, <2>2
<1>7. Limit(t)' = Limit(t)
  BY <1>1, <1>2, <1>3, <1>5 DEF Limit, goOn
<1>8. ~goOn => counter' >= ENTRIES
  BY <1>1, <1>2 DEF goOn
<1>9. /\ qpc'[t] = "load" => goOn
      /\ qpc'[t] = "clear" => ~goOn
  BY <1>1, <1>2 DEF ScanNext
<1>10. \A i \in Slot : slot[i] > 0 /\ i < limit => i + slot[i] <= limit
  BY <1>3 DEF TilingOK
<1>11. limit <= Limit(t)
  BY <1>2, <1>3
<1> QED
  BY <1>1, <1>2, <1>3, <1>5, <1>6, <1>7, <1>8, <1>9, <1>10, <1>11, ScanStepKeepsSession

\* The second look at the counter and the spin on an entry move nothing.
LEMMA LookKeepsSession ==
  ASSUME TypeInv, SessionInv, OneSession, NEW t \in Thread, op' = op,
         FlushLoadSame(t) \/ FlushPoll(t)
  PROVE  SessionInv'
<1>1. /\ \/ qpc[t] = "load" /\ qpc'[t] = "close"
         \/ qpc[t] = "poll" /\ qpc'[t] = "run" /\ entries[index[t]] # "null"
      /\ UNCHANGED <<counter, entries, header, argument, index, todo, open, slot, accepted>>
      /\ \A u \in Thread : u # t => SameLocals(u)
  BY DEF FlushLoadSame, FlushPoll, SameLocals, TypeInv, TypeOK, QueueTypeOK
<1>2. InSession(t) /\ InSession(t)'
  BY <1>1 DEF InSession, SessionPc, FlushPc
<1>3. ScanOK(t)
  BY <1>2, PositionFacts
<1>4. Position(t)' = Position(t) /\ Limit(t)' = Limit(t)
  BY <1>1 DEF Position, Limit
<1>5. /\ todo'[t] \in 0..ENTRIES /\ todo'[t] <= Limit(t)
      /\ \A i \in Slot : slot[i] > 0 /\ i < todo'[t] => i + slot[i] <= todo'[t]
      /\ ~open'[t] => counter' >= ENTRIES
      /\ qpc[t] = "load" => open'[t]
  BY <1>1, <1>3 DEF ScanOK, TypeInv, TypeOK, QueueTypeOK
<1> QED
  BY <1>1, <1>2, <1>4, <1>5, ScanStepKeepsSession

\* Running an entry moves the position by one tile and takes what ran out of
\* the accepted operations.
LEMMA RunKeepsSession ==
  ASSUME TypeInv, SessionInv, OneSession, NEW t \in Thread, op' = op, FlushRun(t)
  PROVE  SessionInv'
<1> DEFINE i == index[t]
           next == i + header[i]
<1>1. /\ qpc[t] = "run" /\ i \in Slot /\ entries[i] \in {"wrapper", "no_op"}
      /\ qpc'[t] = ScanNext(next, todo[t], open[t]) /\ index'[t] = next
      /\ UNCHANGED <<counter, entries, header, todo, open, slot>>
      /\ \A u \in Thread : u # t => SameLocals(u)
  BY SlotFacts DEF FlushRun, SameLocals, TypeInv, TypeOK, QueueTypeOK, LocalsOK
<1>2. InSession(t) /\ TilingOK(t) /\ ScanOK(t) /\ AcceptedOK(t) /\ PublishedOK /\ Position(t) = i
  BY <1>1, PositionFacts DEF InSession, SessionPc, FlushPc
<1>3. slot[i] > 0 /\ next = i + slot[i]
  BY <1>1, <1>2 DEF PublishedOK
<1>4. /\ next \in Nat /\ i \in Nat /\ todo[t] \in Nat /\ slot[i] \in Nat
      /\ Limit(t) \in Nat /\ Limit(t) <= ENTRIES /\ ENTRIES \in Nat
  BY <1>1, <1>3, SlotFacts, SessionTypes DEF TypeInv, TypeOK, QueueTypeOK
<1>5. i < todo[t] /\ todo[t] <= Limit(t) /\ next <= todo[t]
  BY <1>1, <1>2, <1>3 DEF ScanOK, TypeInv, LocalsOK
<1>6. /\ qpc'[t] \in {"poll", "load", "clear"} /\ InSession(t)'
      /\ qpc'[t] = "load" => open[t]
      /\ qpc'[t] = "clear" => ~open[t]
  BY <1>1, <1>4 DEF ScanNext, InSession, SessionPc, FlushPc
<1>7. Position(t)' = next
  <2>1. CASE next < todo[t]
    <3>1. qpc'[t] = "poll"
      BY <1>1, <1>4, <2>1 DEF ScanNext
    <3> QED
      BY <1>1, <3>1 DEF Position
  <2>2. CASE next = todo[t]
    BY <1>1, <1>4, <2>2 DEF ScanNext, Position
  <2> QED
    BY <1>4, <1>5, <2>1, <2>2
<1>8. Limit(t)' = Limit(t)
  BY <1>1, <1>6 DEF Limit
<1>9. ASSUME NEW j \in Slot, slot[j] > 0, i < j PROVE next <= j
  BY <1>1, <1>2, <1>3, <1>4, <1>9, SlotFacts DEF TilingOK
<1>10. TilingOK(t)'
  BY <1>1, <1>2, <1>8 DEF TilingOK
<1>11. ScanOK(t)'
  <2>1. next < Limit(t) => slot[next] > 0
    BY <1>1, <1>2, <1>3 DEF TilingOK
  <2>2. ASSUME NEW j \in Slot, slot[j] > 0, j < next PROVE entries[j] # "null"
    <3>1. CASE j < i
      BY <1>2, <2>2, <3>1 DEF ScanOK
    <3>2. CASE j = i
      BY <1>1, <3>2
    <3>3. CASE i < j
      BY <1>4, <1>9, <2>2, <3>3, SlotFacts
    <3> QED
      BY <1>4, <3>1, <3>2, <3>3, SlotFacts
  <2>3. next <= Limit(t)
    BY <1>4, <1>5
  <2>4. /\ todo[t] <= Limit(t) /\ (~open[t] => counter >= ENTRIES)
        /\ \A j \in Slot : slot[j] > 0 /\ j < todo[t] => j + slot[j] <= todo[t]
    BY <1>1, <1>2 DEF ScanOK
  <2>5. qpc'[t] \notin {"opened", "run", "close"}
    BY <1>6
  <2>6. /\ slot' = slot /\ entries' = entries /\ counter' = counter
        /\ todo'[t] = todo[t] /\ open'[t] = open[t]
    BY <1>1
  <2> QED
    BY <1>6, <1>7, <1>8, <2>1, <2>2, <2>3, <2>4, <2>5, <2>6 DEF ScanOK
<1>12. /\ \A j \in Slot : j >= next => argument'[j] = argument[j] /\ j # i
       /\ accepted' = IF entries[i] = "wrapper" THEN accepted \ {argument[i]} ELSE accepted
  BY <1>1, <1>3, <1>4, SlotFacts DEF FlushRun, TypeInv, TypeOK, QueueTypeOK
<1>13. AcceptedOK(t)'
  <2>1. ASSUME NEW o \in accepted'
        PROVE  \E j \in Slot : j >= next /\ entries[j] = "wrapper" /\ argument'[j] = o
    <3>1. PICK j \in Slot : j >= i /\ entries[j] = "wrapper" /\ argument[j] = o
      BY <1>2, <1>12, <2>1 DEF AcceptedOK
    <3>2. j # i
      BY <1>12, <2>1, <3>1
    <3>3. slot[j] > 0
      BY <1>2, <3>1 DEF PublishedOK
    <3>4. j >= next
      BY <1>4, <1>9, <3>1, <3>2, <3>3, SlotFacts
    <3> QED
      BY <1>12, <3>1, <3>4
  <2>2. \A j \in Slot : j >= next => j >= i
    BY <1>3, <1>4, SlotFacts
  <2>3. ASSUME NEW j \in Slot, j >= next, entries[j] = "wrapper"
        PROVE  argument'[j] \in accepted' /\ ReqEntries[argument'[j]] = slot[j]
    <3>1. argument[j] \in accepted /\ ReqEntries[argument[j]] = slot[j]
      BY <1>2, <2>2, <2>3 DEF AcceptedOK
    <3>2. entries[i] = "wrapper" => argument[j] # argument[i]
      BY <1>1, <1>2, <1>4, <1>12, <2>2, <2>3 DEF AcceptedOK
    <3> QED
      BY <1>12, <2>3, <3>1, <3>2
  <2>4. ASSUME NEW j \in Slot, NEW k \in Slot, j >= next, entries[j] = "wrapper",
               k >= next, entries[k] = "wrapper", argument'[j] = argument'[k]
        PROVE  j = k
    BY <1>2, <1>12, <2>2, <2>4 DEF AcceptedOK
  <2> QED
    BY <1>1, <1>7, <2>1, <2>3, <2>4 DEF AcceptedOK
<1>14. \A u \in Thread : WriterOK(u)'
  <2>1. \A u \in Thread : qpc[u] \in WriterPc => index[u] # i /\ index[u] \in Slot
    BY <1>1, WriterInSession
  <2>2. \A j \in Slot : j # i => argument'[j] = argument[j]
    BY DEF FlushRun, TypeInv, TypeOK, QueueTypeOK
  <2>3. qpc[t] \notin WriterPc /\ qpc'[t] \notin WriterPc
    BY <1>1, <1>6 DEF WriterPc
  <2> QED
    BY <1>1, <2>1, <2>2, <2>3, WritersKept
<1>15. PublishedOK'
  BY <1>1, <1>2 DEF PublishedOK
<1>16. \A u \in Thread : InSession(u)' => u = t
  BY <1>1, <1>2 DEF OneSession, InSession, SameLocals
<1> QED
  BY <1>6, <1>10, <1>11, <1>13, <1>14, <1>15, <1>16 DEF SessionInv, BetweenSessionsOK

\* At the end of flush() every claim has been published and run, and the
\* queue is left clean for the next session.
LEMMA ClearKeepsSession ==
  ASSUME TypeInv, SessionInv, OneSession, NEW t \in Thread, op' = op, FlushClear(t)
  PROVE  SessionInv'
<1>1. /\ qpc[t] = "clear" /\ qpc'[t] = "idle"
      /\ UNCHANGED <<counter, header, argument, accepted>>
      /\ \A u \in Thread : u # t => SameLocals(u)
      /\ \A i \in Slot : slot'[i] = 0 /\ entries'[i] = IF i < todo[t] THEN "null" ELSE entries[i]
  BY DEF FlushClear, SameLocals, TypeInv, TypeOK, QueueTypeOK
<1>2. /\ InSession(t) /\ TilingOK(t) /\ ScanOK(t) /\ AcceptedOK(t) /\ PublishedOK
      /\ Position(t) = todo[t]
  BY <1>1, PositionFacts DEF InSession, SessionPc, FlushPc
<1>3. Limit(t) = todo[t] /\ counter >= ENTRIES
  BY <1>1, <1>2 DEF ScanOK, Limit
<1>4. ASSUME NEW i \in Slot, slot[i] > 0 PROVE i < todo[t] /\ entries[i] # "null"
  <2>1. i + slot[i] <= todo[t]
    BY <1>2, <1>3, <1>4 DEF TilingOK
  <2>2. i < todo[t]
    BY <1>4, <2>1, SlotFacts DEF TypeInv, TypeOK, QueueTypeOK
  <2> QED
    BY <1>2, <1>4, <2>2 DEF ScanOK
<1>5. \A i \in Slot : entries'[i] = "null"
  BY <1>1, <1>2, <1>4 DEF PublishedOK
<1>6. accepted = {}
  <2>1. ASSUME NEW o \in accepted PROVE FALSE
    <3>1. PICK i \in Slot : i >= todo[t] /\ entries[i] = "wrapper"
      BY <1>2 DEF AcceptedOK
    <3>2. i < todo[t]
      BY <1>2, <1>4, <3>1 DEF PublishedOK
    <3> QED
      BY <3>1, <3>2, SlotFacts DEF TypeInv, TypeOK, QueueTypeOK
  <2> QED
    BY <2>1
<1>7. \A u \in Thread : qpc[u] \notin WriterPc
  BY <1>4, WriterInSession
<1>8. \A u \in Thread : WriterOK(u)' /\ ~InSession(u)'
  BY <1>1, <1>2, <1>7 DEF WriterOK, WriterPc, SameLocals, OneSession, InSession, SessionPc, FlushPc
<1>9. PublishedOK'
  BY <1>5 DEF PublishedOK
<1> QED
  BY <1>1, <1>3, <1>5, <1>6, <1>8, <1>9 DEF SessionInv, BetweenSessionsOK

-----------------------------------------------------------------------------
(* Ownership of operations *)

\* Storing an entry is the only step that adds to the accepted operations.
LEMMA AcceptedShrinks ==
  ASSUME TypeInv, NEW t \in Thread, ThreadMove(t), ~EnqueueAccepted(t)
  PROVE  accepted' \subseteq accepted
<1>1. CASE UNCHANGED queueVars
  BY <1>1 DEF queueVars
<1>2. CASE SessionMove(t)
  BY <1>2 DEF SessionMove, OpenQueue, FlushEnter, FlushLoad, FlushLoadSame, FlushClose,
              FlushPoll, FlushRun, FlushClear
<1>3. CASE pc[t] = "enqueue" /\ EnqueueMove(t)
  <2>1. EnqueueStep(t) \/ EnqueueRefused(t) \/ UNCHANGED accepted
    BY <1>3 DEF ThreadMove, Call, UserLock, Delegate, FutureDiscard, Step, TryLock, TryLockBusy,
                AcquireLock, AcquireFails, AcquireOrWait, GoToSleep, StayAwake, WakeUp,
                LockNow, LockQueue, LockGranted, Execute, HelperOpen, HelperExecute,
                FlushStep, FlushRunEntry, FlushEnd, Unlock, UnlockAndWake, Notify, FutureWait
  <2>2. CASE EnqueueStep(t)
    BY <2>2 DEF EnqueueStep, EnqueueLoad, CasRetry, ClaimEntry, WriteEntry, ClaimTail, WriteNoOp
  <2>3. CASE EnqueueRefused(t)
    BY <2>3 DEF EnqueueRefused, EnqueueClosed, ClaimNothing, PublishNoOp, queueVars
  <2> QED
    BY <2>1, <2>2, <2>3
<1> QED
  BY <1>1, <1>2, <1>3, QueuePart

\* Each operation has one owner until it has been run or accepted.
LEMMA OwnersNext == TypeInv /\ OwnersOK /\ [Next]_vars => OwnersOK'
<1> SUFFICES ASSUME TypeInv, OwnersOK, [Next]_vars PROVE OwnersOK'
  OBVIOUS
<1>1. CASE Next
  <2>1. PICK t \in Thread : ThreadMove(t)
    BY <1>1 DEF Next, ThreadMove
  <2>2. \A u \in Thread : u # t => pc'[u] = pc[u] /\ op'[u] = op[u]
    BY <2>1, Frame
  <2>3. NoOp \notin accepted /\ NoOp \notin accepted'
    <3>1. NoOp \notin Op
      BY QueueAssumption DEF QueueAssumption
    <3>2. accepted \subseteq Op /\ accepted' \subseteq Op
      BY <2>1, TypeStep DEF TypeInv, TypeOK, QueueTypeOK
    <3> QED
      BY <3>1, <3>2
  <2>4. CASE EnqueueAccepted(t)
    <3>1. accepted' = accepted \cup {op[t]} /\ pc[t] = "enqueue" /\ op[t] # NoOp
      BY <2>4 DEF EnqueueAccepted, Publish, TypeInv, LocalsOK
    <3>2. (pc'[t] = "future" /\ op'[t] = op[t]) \/ op'[t] = NoOp
      BY <2>4 DEF EnqueueAccepted, Finish, Goto, TypeInv, TypeOK, QueueTypeOK
    <3> QED
      BY <2>2, <2>3, <3>1, <3>2 DEF OwnersOK
  <2>5. CASE \E o \in Op : Delegate(t, o)
    <3>1. PICK o \in Op : Delegate(t, o)
      BY <2>5
    <3>2. op'[t] = o /\ accepted' = accepted /\ Unused(o)
      BY <3>1 DEF Delegate, queueVars, TypeInv, TypeOK, QueueTypeOK
    <3> QED
      BY <2>2, <3>2 DEF OwnersOK, Unused
  <2>6. CASE ~EnqueueAccepted(t) /\ ~(\E o \in Op : Delegate(t, o))
    <3>1. \/ op'[t] = NoOp
          \/ op'[t] = op[t] /\ (pc[t] = "future" => pc'[t] = "future")
      <4>1. CASE UserLock(t) \/ FutureDiscard(t)
        BY <4>1 DEF UserLock, FutureDiscard, Finish, Goto, TypeInv, TypeOK, QueueTypeOK
      <4>2. CASE Step(t)
        BY <2>6, <4>2
           DEF Step, Goto, Finish, NextRound, TryLock, TryLockBusy, EnqueueStep, EnqueueRefused,
               AcquireLock, AcquireFails, AcquireOrWait, GoToSleep, StayAwake, WakeUp,
               LockNow, LockQueue, LockGranted, Execute, HelperOpen, HelperExecute,
               FlushStep, FlushRunEntry, FlushEnd, Unlock, UnlockAndWake, Notify, FutureWait,
               TypeInv, TypeOK, QueueTypeOK
      <4> QED
        BY <2>1, <2>6, <4>1, <4>2 DEF ThreadMove, Call
    <3>2. accepted' \subseteq accepted
      BY <2>1, <2>6, AcceptedShrinks
    <3> QED
      BY <2>2, <2>3, <3>1, <3>2 DEF OwnersOK
  <2> QED
    BY <2>4, <2>5, <2>6
<1>2. CASE UNCHANGED vars
  BY <1>2 DEF vars, queueVars, OwnersOK
<1> QED
  BY <1>1, <1>2

-----------------------------------------------------------------------------
(* The composition *)

\* The session survives every step of an enqueue() call.
LEMMA EnqueueKeepsSession ==
  ASSUME TypeInv, SessionInv, OneSession, OwnersOK, NEW t \in Thread, ThreadMove(t),
         EnqueueStep(t) \/ EnqueueRefused(t) \/ EnqueueAccepted(t)
  PROVE  SessionInv'
<1>1. \A u \in Thread : u # t => SameLocals(u) /\ op'[u] = op[u]
  BY Frame DEF SameLocals
<1>2. pc[t] = "enqueue" /\ op[t] \in Op /\ op[t] \notin accepted
  BY DEF EnqueueStep, EnqueueRefused, EnqueueAccepted, OwnersOK, TypeInv, TypeOK, QueueTypeOK, LocalsOK
<1>3. counter' \in Nat
  BY TypeStep DEF TypeOK, QueueTypeOK
<1>4. ReqEntries[op[t]] \in 1..ENTRIES
  BY <1>2, QueueAssumption DEF QueueAssumption
<1>5. CASE EnqueueStep(t) /\ (EnqueueLoad(t) \/ CasRetry(t))
  <2>1. /\ UNCHANGED <<counter, entries, header, argument, slot, accepted>>
        /\ qpc[t] \in {"idle", "claim"} /\ qpc'[t] = "claim"
    BY <1>5 DEF EnqueueLoad, CasRetry, TypeInv, TypeOK, QueueTypeOK
  <2> QED
    BY <1>1, <2>1, QuietKeepsSession DEF InSession, SessionPc, FlushPc, WriterPc, SameLocals
<1>6. CASE EnqueueStep(t) /\ ClaimEntry(t)
  <2> DEFINE n == ReqEntries[op[t]]
  <2>1. op' = op
    BY <1>6 DEF EnqueueStep
  <2>2. counter < ENTRIES /\ counter' = counter + n /\ counter + n <= ENTRIES
    BY <1>4, <1>6, SlotFacts DEF ClaimEntry, Claim, Fits, TypeInv, TypeOK, QueueTypeOK
  <2>3. ClaimsSlot(t, n, "write")
    BY <1>3, <1>6, <2>2, SlotFacts DEF ClaimEntry, Claim, ClaimsSlot
  <2> QED
    BY <1>3, <1>4, <2>1, <2>2, <2>3, ClaimKeepsSession
<1>7. CASE EnqueueStep(t) /\ ClaimTail(t)
  <2> DEFINE n == ENTRIES - counter
  <2>1. op' = op
    BY <1>7 DEF EnqueueStep
  <2>2. counter < ENTRIES /\ n \in 1..ENTRIES /\ counter' >= ENTRIES /\ counter + n = ENTRIES
    BY <1>4, <1>7, SlotFacts DEF ClaimTail, Claim, Fits, TypeInv, TypeOK, QueueTypeOK
  <2>3. ClaimsSlot(t, n, "writeNoOp")
    BY <1>7, <2>2 DEF ClaimTail, Claim, ClaimsSlot
  <2> QED
    BY <1>3, <2>1, <2>2, <2>3, ClaimKeepsSession
<1>8. CASE EnqueueStep(t) /\ (WriteEntry(t) \/ WriteNoOp(t))
  <2>1. op' = op /\ qpc[t] \in {"write", "writeNoOp"}
    BY <1>8 DEF EnqueueStep, WriteEntry, WriteNoOp
  <2> QED
    BY <1>8, <2>1, WriteKeepsSession
<1>9. CASE EnqueueRefused(t) /\ (EnqueueClosed(t) \/ ClaimNothing(t))
  <2>1. /\ UNCHANGED <<entries, header, argument, slot, accepted>>
        /\ counter' = counter \/ (counter >= ENTRIES /\ counter' >= ENTRIES)
        /\ qpc[t] \in {"idle", "claim"} /\ qpc'[t] = "idle"
    BY <1>4, <1>9, SlotFacts DEF EnqueueClosed, ClaimNothing, Claim, queueVars, TypeInv, TypeOK, QueueTypeOK
  <2> QED
    BY <1>1, <2>1, QuietKeepsSession DEF InSession, SessionPc, FlushPc, WriterPc, SameLocals
<1>10. CASE EnqueueAccepted(t) \/ (EnqueueRefused(t) /\ PublishNoOp(t))
  BY <1>1, <1>2, <1>10, PublishKeepsSession DEF EnqueueAccepted
<1> QED
  BY <1>5, <1>6, <1>7, <1>8, <1>9, <1>10 DEF EnqueueStep, EnqueueRefused

\* The session survives every step of the helper.
LEMMA HelperKeepsSession ==
  ASSUME TypeInv, SessionInv, OneSession, HolderOK, NEW t \in Thread, ThreadMove(t),
         \/ HelperOpen(t) \/ HelperExecute(t) \/ FlushStep(t)
         \/ FlushRunEntry(t) \/ FlushEnd(t)
  PROVE  SessionInv'
<1>1. op' = op
  BY DEF HelperOpen, HelperExecute, FlushStep, FlushRunEntry, FlushEnd
<1>2. CASE HelperOpen(t)
  <2>1. ASSUME NEW u \in Thread, InSession(u) PROVE FALSE
    <3>1. pc[u] \in {"helperExec", "flush"} /\ holder = u /\ holder = t
      BY <1>2, <2>1 DEF HelperOpen, HolderOK, HoldingPc, TypeInv, LocalsOK, InSession, SessionPc
    <3> QED
      BY <1>2, <3>1 DEF HelperOpen
  <2> QED
    BY <1>1, <1>2, <2>1, OpenKeepsSession DEF HelperOpen
<1>3. CASE HelperExecute(t)
  BY <1>1, <1>3, EnterKeepsSession DEF HelperExecute
<1>4. CASE FlushStep(t)
  BY <1>1, <1>4, StartScanKeepsSession, LookKeepsSession DEF FlushStep
<1>5. CASE FlushRunEntry(t)
  BY <1>1, <1>5, RunKeepsSession DEF FlushRunEntry
<1>6. CASE FlushEnd(t)
  BY <1>1, <1>6, ClearKeepsSession DEF FlushEnd
<1> QED
  BY <1>2, <1>3, <1>4, <1>5, <1>6

\* Every other step leaves the queue alone.
LEMMA OtherKeepsSession ==
  ASSUME TypeInv, SessionInv, NEW t \in Thread, ThreadMove(t),
         ~EnqueueStep(t), ~EnqueueRefused(t), ~EnqueueAccepted(t),
         ~HelperOpen(t), ~HelperExecute(t), ~FlushStep(t), ~FlushRunEntry(t), ~FlushEnd(t)
  PROVE  SessionInv'
<1>1. UNCHANGED queueVars /\ pc[t] # "enqueue"
  BY DEF ThreadMove, Call, UserLock, Delegate, FutureDiscard, Step, TryLock, TryLockBusy,
         AcquireLock, AcquireFails, AcquireOrWait, GoToSleep, StayAwake, WakeUp, LockNow,
         LockQueue, LockGranted, Execute, Unlock, UnlockAndWake, Notify, FutureWait
<1>2. \A u \in Thread : SameLocals(u)
  BY <1>1 DEF queueVars, SameLocals
<1>3. \A u \in Thread : qpc[u] \in WriterPc => op'[u] = op[u]
  BY <1>1, Frame DEF TypeInv, LocalsOK, WriterPc, EnqueuePc
<1> QED
  BY <1>1, <1>2, <1>3, QuietKeepsSession DEF queueVars, InSession, SameLocals

\* The session invariant is inductive together with the others.
LEMMA SessionNext ==
  TypeInv /\ HolderOK /\ OwnersOK /\ SessionInv /\ [Next]_vars => SessionInv'
<1> SUFFICES ASSUME TypeInv, HolderOK, OwnersOK, SessionInv, [Next]_vars PROVE SessionInv'
  OBVIOUS
<1>1. CASE Next
  <2>1. PICK t \in Thread : ThreadMove(t)
    BY <1>1 DEF Next, ThreadMove
  <2> QED
    BY <2>1, SessionUnique, EnqueueKeepsSession, HelperKeepsSession, OtherKeepsSession
<1>2. CASE UNCHANGED vars
  BY <1>2, QuietKeepsSession DEF vars, queueVars, InSession, SameLocals
<1> QED
  BY <1>1, <1>2

\* With zeroed storage the helper, its session and every claim stay
\* consistent in all interleavings of enqueuers and helpers.
THEOREM SafetyInvCorrect == ZeroedStorage => (Spec => []SafetyInv)
<1> SUFFICES ASSUME ZeroedStorage PROVE Spec => []SafetyInv
  OBVIOUS
<1>1. Init => SafetyInv
  BY TypeInvInit, SessionInvInit
     DEF SafetyInv, Init, QueueInit, HolderOK, HoldingPc, OwnersOK
<1>2. SafetyInv /\ [Next]_vars => SafetyInv'
  BY TypeInvNext, HolderNext, OwnersNext, SessionNext DEF SafetyInv
<1> QED
  BY <1>1, <1>2, PTL DEF Spec

\* What the helper calls is a stored operation that has not run yet, with
\* the size it was stored with, whoever else is storing at the time.
THEOREM RunsWhatWasStoredCorrect == ZeroedStorage => (Spec => []RunsWhatWasStored)
<1>1. SafetyInv => RunsWhatWasStored
  <2> SUFFICES ASSUME SafetyInv, NEW t \in Thread, qpc[t] = "run"
               PROVE  /\ entries[index[t]] \in {"wrapper", "no_op"}
                      /\ entries[index[t]] = "wrapper" =>
                           /\ argument[index[t]] \in accepted
                           /\ header[index[t]] = ReqEntries[argument[index[t]]]
    BY DEF RunsWhatWasStored
  <2>1. InSession(t) /\ TypeInv /\ SessionInv
    BY DEF InSession, SessionPc, FlushPc, SafetyInv
  <2>2. /\ ScanOK(t) /\ AcceptedOK(t) /\ PublishedOK
        /\ Position(t) = index[t] /\ index[t] \in Slot
    BY <2>1, PositionFacts
  <2>3. entries[index[t]] \in {"wrapper", "no_op"} /\ header[index[t]] = slot[index[t]]
    BY <2>1, <2>2 DEF ScanOK, PublishedOK, TypeInv, TypeOK, QueueTypeOK
  <2>4. index[t] >= Position(t)
    BY <2>2, SlotFacts
  <2> QED
    BY <2>2, <2>3, <2>4 DEF AcceptedOK
<1> QED
  BY <1>1, SafetyInvCorrect, PTL

\* An accepted operation never waits for a call yet to come: the thread that
\* will run it is helping.
THEOREM NoLostOperationCorrect == ZeroedStorage => (Spec => []NoLostOperation)
<1>1. SafetyInv => NoLostOperation
  BY DEF SafetyInv, SessionInv, BetweenSessionsOK, NoLostOperation, Helping, InSession,
         SessionPc, TypeInv, LocalsOK
<1> QED
  BY <1>1, SafetyInvCorrect, PTL

=============================================================================
