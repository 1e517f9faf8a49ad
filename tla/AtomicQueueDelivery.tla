------------------------ MODULE AtomicQueueDelivery ------------------------
(***************************************************************************)
(* Theorems about the values in an AtomicQueue: every slot that is used is *)
(* one of the Vec, and no value is delivered twice, whatever a resize      *)
(* moves and however often pops and pushes lap each other.                 *)
(*                                                                         *)
(* The readers' half rests on Exclusion: a pop's slot belongs to the       *)
(* current Vec, so what it takes is what some push stored.  The writers'   *)
(* half needs none of it: a push into a freed Vec reaches no slot.         *)
(*                                                                         *)
(* Up to the first resize more holds, for any number of writers: no value  *)
(* is lost, the tickets of every slot balance, and NoWriters is the last   *)
(* word; with one writer its values are taken in the order it sent them.   *)
(* After a resize a ticket may name a slot of another Vec; the properties  *)
(* say nothing of that.                                                    *)
(***************************************************************************)
EXTENDS AtomicQueueProofs

\* A push holds the value of its call, which is nowhere else ...
HeldIsFresh ==
  \A w \in Writers : HoldsValue(w) =>
    sent[w] >= 1 /\ Value(w) \notin received /\ \A i \in Slots : buf[i] # Value(w)
\* ... and every value anywhere is one that was sent.
OnlySent ==
  /\ \A v \in received : v[2] <= sent[v[1]]
  /\ \A i \in Slots : buf[i] # NoVal => buf[i][2] <= sent[buf[i][1]]
WriterSlots ==
  /\ \A w \in Writers : pc[w] = "ticket" => seen[w] \in 1..cap
  /\ \A w \in Writers : pc[w] = "put" => idx[w] \in Slots

Delivery == DataTypeOK /\ HeldIsFresh /\ OnlySent /\ WriterSlots /\ AtMostOnce
IInv == Exclusion /\ Delivery

USE AQAssumption DEF Handles, Goto, SetAction, CasAction, queueVars, mapVars, posVars,
  scanVars, histVars, otherVars, vars

-----------------------------------------------------------------------------
(* Steps that touch no slot.                                               *)

\* Nobody begins to hold a value, and nobody computes the slot of a push.
KeepsData ==
  /\ UNCHANGED <<buf, cap, sent, received>>
  /\ \A w \in Writers : HoldsValue(w)' => HoldsValue(w)
  /\ \A w \in Writers : pc'[w] = "ticket" => pc[w] = "ticket" /\ seen'[w] = seen[w]
  /\ \A w \in Writers : pc'[w] = "put" => pc[w] = "put" /\ idx'[w] = idx[w]

\* Delivery is about the slots, the values and who holds one.
LEMMA DeliveryKept ==
  ASSUME Delivery, KeepsData
  PROVE  Delivery'
  <1>. USE DEF Delivery, KeepsData, Slots
  <1>1. DataTypeOK'
    BY DEF DataTypeOK, Values
  <1>2. HeldIsFresh'
    BY DEF HeldIsFresh, Value
  <1>3. OnlySent'
    BY DEF OnlySent
  <1>4. WriterSlots'
    BY DEF WriterSlots
  <1>5. AtMostOnce'
    BY DEF AtMostOnce
  <1>. QED
    BY <1>1, <1>2, <1>3, <1>4, <1>5

\* Of a reader's steps only Take touches a slot.
LEMMA ReaderKeepsData ==
  ASSUME PCTypeOK, NEW r \in Readers, ReaderMove(r), ~Take(r)
  PROVE  KeepsData
  <1>. USE DEF PCTypeOK, KeepsData, HoldsValue
  <1>1. CASE PopFront(r)
    BY <1>1 DEF PopFront
  <1>2. CASE EnterRead(r)
    BY <1>2 DEF EnterRead
  <1>3. CASE ClaimStart(r)
    BY <1>3 DEF ClaimStart
  <1>4. CASE FindEmpty(r)
    BY <1>4 DEF FindEmpty
  <1>5. CASE WritersRemain(r)
    BY <1>5 DEF WritersRemain
  <1>6. CASE FindClosed(r)
    BY <1>6 DEF FindClosed
  <1>7. CASE Sleep(r)
    BY <1>7 DEF Sleep
  <1>8. CASE SpuriousWake(r)
    BY <1>8 DEF SpuriousWake
  <1>9. CASE NotifyTaken(r)
    BY <1>9 DEF NotifyTaken, NotifyOne, GotoAndWake, Sleepers
  <1>10. CASE CountTaken(r)
    BY <1>10 DEF CountTaken
  <1>11. CASE LeaveRead(r)
    BY <1>11 DEF LeaveRead
  <1>12. CASE DropReader(r)
    BY <1>12 DEF DropReader
  <1>13. CASE RemoveReader(r)
    BY <1>13 DEF RemoveReader
  <1>14. ASSUME NEW c \in Readers, CloneReader(r, c) PROVE KeepsData
    BY <1>14 DEF CloneReader
  <1>15. ASSUME NEW c \in Readers, CountReader(r, c) PROVE KeepsData
    BY <1>15 DEF CountReader
  <1>. QED
    BY <1>1, <1>2, <1>3, <1>4, <1>5, <1>6, <1>7, <1>8, <1>9, <1>10, <1>11, <1>12, <1>13,
      <1>14, <1>15 DEF ReaderMove, ReaderClient, ReaderStep, PopStep

\* Of a writer's steps outside a resize, only the beginning of a push, its look at the
\* Vec, its ticket and its store do.
LEMMA BystanderKeepsData ==
  ASSUME PCTypeOK, NEW w \in Writers, Bystander(w),
         ~Push(w), ~LoadLen(w), ~ClaimEnd(w), ~PutValue(w)
  PROVE  KeepsData
  <1>. USE DEF PCTypeOK, KeepsData, HoldsValue, RequestPCs, ResizerPCs, ScanPCs
  <1>1. CASE DropWriter(w)
    BY <1>1 DEF DropWriter
  <1>2. CASE RemoveWriter(w)
    BY <1>2 DEF RemoveWriter
  <1>3. CASE EnterWake(w)
    BY <1>3 DEF EnterWake
  <1>4. CASE LoadStart(w)
    BY <1>4 DEF LoadStart
  <1>5. CASE LoadReaders(w)
    BY <1>5 DEF LoadReaders
  <1>6. CASE WakeSlot(w)
    BY <1>6 DEF WakeSlot, GotoAndWake, Sleepers
  <1>7. CASE LeaveWake(w)
    BY <1>7 DEF LeaveWake
  <1>8. CASE EnterWrite(w)
    BY <1>8 DEF EnterWrite
  <1>9. CASE PanicEnter(w)
    BY <1>9 DEF PanicEnter
  <1>10. CASE FindFull(w)
    BY <1>10 DEF FindFull
  <1>11. CASE PutStale(w)
    BY <1>11 DEF PutStale
  <1>12. CASE NotifyPut(w)
    BY <1>12 DEF NotifyPut, NotifyOne, GotoAndWake, Sleepers
  <1>13. CASE FreeWriter(w)
    BY <1>13 DEF FreeWriter
  <1>14. CASE CountPut(w)
    BY <1>14 DEF CountPut
  <1>15. CASE LoadAction(w)
    BY <1>15 DEF LoadAction
  <1>16. CASE MarkRequest(w)
    BY <1>16 DEF MarkRequest
  <1>17. CASE LoadStatus(w)
    BY <1>17 DEF LoadStatus
  <1>18. CASE LoseStatus(w)
    BY <1>18 DEF LoseStatus
  <1>19. CASE SeeActive(w)
    BY <1>19 DEF SeeActive
  <1>20. CASE RestoreAction(w)
    BY <1>20 DEF RestoreAction
  <1>21. ASSUME NEW c \in Writers, CloneWriter(w, c) PROVE KeepsData
    BY <1>21 DEF CloneWriter
  <1>22. ASSUME NEW c \in Writers, CountWriter(w, c) PROVE KeepsData
    BY <1>22 DEF CountWriter
  <1>. QED
    BY <1>1, <1>2, <1>3, <1>4, <1>5, <1>6, <1>7, <1>8, <1>9, <1>10, <1>11, <1>12, <1>13,
      <1>14, <1>15, <1>16, <1>17, <1>18, <1>19, <1>20, <1>21, <1>22
      DEF Bystander, WriterClient, PushStep, DropStep

\* Of a resize only the reallocation does: a resizer holds its value all along.
LEMMA ResizeKeepsData ==
  ASSUME PCTypeOK, NEW w \in Writers, Resizing(w), ~Reallocate(w)
  PROVE  KeepsData
  <1>. USE DEF PCTypeOK, KeepsData, HoldsValue, RequestPCs, ResizerPCs, ScanPCs
  <1>1. CASE WinStatus(w)
    BY <1>1 DEF WinStatus
  <1>2. CASE LockReaders(w)
    BY <1>2 DEF LockReaders
  <1>3. CASE LockWriters(w)
    BY <1>3 DEF LockWriters, Visit
  <1>4. CASE BlockHandle(w)
    BY <1>4 DEF BlockHandle, Visit
  <1>5. CASE NoticeRequest(w)
    BY <1>5 DEF NoticeRequest
  <1>6. CASE PanicScan(w)
    BY <1>6 DEF PanicScan
  <1>7. CASE RestoreHandle(w)
    BY <1>7 DEF RestoreHandle
  <1>8. CASE Activate(w)
    BY <1>8 DEF Activate
  <1>9. CASE Unlock(w)
    <2>1. CASE UnlockWriters(w)
      BY <2>1 DEF UnlockWriters
    <2>2. CASE UnlockReaders(w)
      BY <2>2 DEF UnlockReaders
    <2>. QED
      BY <1>9, <2>1, <2>2 DEF Unlock
  <1>. QED
    BY <1>1, <1>2, <1>3, <1>4, <1>5, <1>6, <1>7, <1>8, <1>9 DEF Resizing

-----------------------------------------------------------------------------
(* The six steps that do.                                                  *)

\* A value is a pair of its sender and a number.
LEMMA ValueShape ==
  ASSUME NEW v \in Values
  PROVE  v[1] \in Writers /\ v[2] \in Nat
  <1>1. PICK w \in Writers : v \in {<<w, n>> : n \in 1..MaxPush[w]}
    BY DEF Values
  <1>2. PICK n \in 1..MaxPush[w] : v = <<w, n>>
    BY <1>1
  <1>. QED
    BY <1>2

\* A new call takes the next number, which nothing that was sent has.
LEMMA PushDelivery ==
  ASSUME Delivery, PCTypeOK, NEW w \in Writers, Push(w)
  PROVE  Delivery'
  <1>. USE DEF Delivery, PCTypeOK, Push, Slots, DataTypeOK
  <1>1. sent' = [sent EXCEPT ![w] = @ + 1] /\ sent'[w] = sent[w] + 1
    OBVIOUS
  <1>2. DataTypeOK'
    <2>1. UNCHANGED <<buf, cap, received>> /\ sent[w] < MaxPush[w]
      OBVIOUS
    <2>2. sent' \in [Writers -> Nat] /\ \A v \in Writers : sent'[v] <= MaxPush[v]
      BY <1>1, <2>1
    <2>. QED
      BY <2>1, <2>2
  <1>3. OnlySent'
    <2>1. ASSUME NEW u \in Writers PROVE sent[u] \in Nat /\ sent'[u] \in Nat /\ sent[u] <= sent'[u]
      BY <1>1
    <2>2. ASSUME NEW v \in Values, v[2] <= sent[v[1]] PROVE v[2] <= sent'[v[1]]
      <3>. HIDE DEF Delivery, PCTypeOK, Push, Slots, DataTypeOK
      <3>1. v[1] \in Writers /\ v[2] \in Nat
        BY ValueShape
      <3>. QED
        BY <2>1, <2>2, <3>1
    <2>3. ASSUME NEW v \in received PROVE v[2] <= sent'[v[1]]
      <3>1. v \in Values /\ v[2] <= sent[v[1]]
        BY DEF OnlySent
      <3>. QED
        BY <2>2, <3>1
    <2>4. ASSUME NEW i \in Slots, buf[i] # NoVal PROVE buf[i][2] <= sent'[buf[i][1]]
      <3>1. buf[i] \in Values /\ buf[i][2] <= sent[buf[i][1]]
        BY <2>4 DEF OnlySent
      <3>. QED
        BY <2>2, <3>1
    <2>. QED
      BY <2>3, <2>4 DEF OnlySent
  <1>4. HeldIsFresh'
    <2>1. SUFFICES ASSUME NEW v \in Writers, HoldsValue(v)'
                   PROVE  /\ sent'[v] >= 1 /\ <<v, sent'[v]>> \notin received
                          /\ \A i \in Slots : buf[i] # <<v, sent'[v]>>
      BY DEF HeldIsFresh, Value
    <2>2. CASE v = w
      <3>1. <<v, sent'[v]>> \notin received
        BY <2>2 DEF OnlySent
      <3>2. ASSUME NEW i \in Slots PROVE buf[i] # <<v, sent'[v]>>
        <4>1. <<v, sent'[v]>> \in Values
          BY <2>2, <1>2 DEF Values
        <4>2. SUFFICES ASSUME buf[i] = <<v, sent'[v]>> PROVE FALSE
          OBVIOUS
        <4>3. buf[i] # NoVal
          BY <4>1, <4>2, AQAssumption
        <4>4. buf[i][2] <= sent[buf[i][1]]
          BY <4>3 DEF OnlySent
        <4>5. sent'[w] <= sent[w]
          BY <2>2, <4>2, <4>4
        <4>. QED
          BY <4>5, <1>1
      <3>. QED
        BY <2>2, <3>1, <3>2
    <2>3. CASE v # w
      BY <2>1, <2>3 DEF HeldIsFresh, HoldsValue, Value
    <2>. QED
      BY <2>2, <2>3
  <1>5. WriterSlots'
    BY DEF WriterSlots
  <1>6. AtMostOnce'
    BY DEF AtMostOnce
  <1>. QED
    BY <1>2, <1>3, <1>4, <1>5, <1>6

\* A push reads the length of the Vec that is there.
LEMMA LoadDelivery ==
  ASSUME Delivery, PCTypeOK, ControlTypeOK, NEW w \in Writers, LoadLen(w)
  PROVE  Delivery'
  <1>. USE DEF Delivery, PCTypeOK, ControlTypeOK, LoadLen, Slots
  <1>1. DataTypeOK'
    BY DEF DataTypeOK, Values
  <1>2. HeldIsFresh'
    BY DEF HeldIsFresh, HoldsValue, Value
  <1>3. OnlySent'
    BY DEF OnlySent
  <1>4. WriterSlots'
    BY DEF WriterSlots
  <1>5. AtMostOnce'
    BY DEF AtMostOnce
  <1>. QED
    BY <1>1, <1>2, <1>3, <1>4, <1>5

\* The ticket of a push gives a slot of the Vec: the length it divides by is that of
\* this Vec or of a shorter one.
LEMMA ClaimDelivery ==
  ASSUME Delivery, PCTypeOK, ControlTypeOK, NEW w \in Writers, ClaimEnd(w)
  PROVE  Delivery'
  <1>. USE DEF Delivery, PCTypeOK, ControlTypeOK, ClaimEnd, Slots
  <1>1. DataTypeOK'
    BY DEF DataTypeOK, Values
  <1>2. HeldIsFresh'
    BY DEF HeldIsFresh, HoldsValue, Value
  <1>3. OnlySent'
    BY DEF OnlySent
  <1>4. WriterSlots'
    <2>1. seen[w] \in 1..cap
      BY DEF WriterSlots
    <2>2. end % seen[w] \in 0..(seen[w] - 1)
      BY <2>1
    <2>3. end % seen[w] \in Slots
      BY <2>1, <2>2
    <2>. QED
      BY <2>3 DEF WriterSlots
  <1>5. AtMostOnce'
    BY DEF AtMostOnce
  <1>. QED
    BY <1>1, <1>2, <1>3, <1>4, <1>5

\* A push stores a value that is nowhere else, in an empty slot of the Vec.
LEMMA PutDelivery ==
  ASSUME Delivery, PCTypeOK, NEW w \in Writers, PutValue(w)
  PROVE  Delivery'
  <1>. USE DEF Delivery, PCTypeOK, PutValue, Slots, DataTypeOK
  <1>1. HoldsValue(w) /\ idx[w] \in Slots
    BY DEF HoldsValue, WriterSlots, Stale
  <1>2. Value(w) \in Values /\ Value(w) \notin received /\ \A i \in Slots : buf[i] # Value(w)
    BY <1>1 DEF HeldIsFresh, Values, Value
  <1>3. \A i \in Slots : buf'[i] = IF i = idx[w] THEN Value(w) ELSE buf[i]
    BY <1>1
  <1>4. DataTypeOK'
    BY <1>2 DEF Values
  <1>5. HeldIsFresh'
    BY <1>3 DEF HeldIsFresh, HoldsValue, Value, RequestPCs, ResizerPCs, ScanPCs
  <1>6. OnlySent'
    BY <1>2, <1>3 DEF OnlySent, Value
  <1>7. WriterSlots'
    BY DEF WriterSlots
  <1>8. AtMostOnce'
    BY <1>2, <1>3 DEF AtMostOnce
  <1>. QED
    BY <1>4, <1>5, <1>6, <1>7, <1>8

\* A pop takes from a slot of the Vec, and no other slot has the value.
LEMMA TakeDelivery ==
  ASSUME Delivery, PCTypeOK, ReaderSlots, NEW r \in Readers, Take(r)
  PROVE  Delivery'
  <1>. USE DEF Delivery, PCTypeOK, Take, Slots, DataTypeOK
  <1>1. idx[r] \in Slots /\ buf[idx[r]] \in Values
    BY DEF ReaderSlots, SlotPCs
  <1>2. \A i \in Slots : buf'[i] = IF i = idx[r] THEN NoVal ELSE buf[i]
    BY <1>1
  <1>3. DataTypeOK'
    BY <1>1 DEF Values
  <1>4. HeldIsFresh'
    <2>1. SUFFICES ASSUME NEW v \in Writers, HoldsValue(v)'
                   PROVE  /\ sent[v] >= 1 /\ Value(v) \notin received'
                          /\ \A i \in Slots : buf'[i] # Value(v)
      BY DEF HeldIsFresh, Value
    <2>2. HoldsValue(v)
      BY <2>1 DEF HoldsValue, RequestPCs, ResizerPCs, ScanPCs
    <2>3. sent[v] >= 1 /\ Value(v) \notin received /\ \A i \in Slots : buf[i] # Value(v)
      BY <2>2 DEF HeldIsFresh
    <2>4. Value(v) # NoVal
      <3>1. sent[v] \in 1..MaxPush[v]
        BY <2>3
      <3>. QED
        BY <3>1 DEF Values, Value
    <2>. QED
      BY <1>1, <1>2, <2>3, <2>4
  <1>5. OnlySent'
    BY <1>1, <1>2 DEF OnlySent
  <1>6. WriterSlots'
    BY DEF WriterSlots
  <1>7. AtMostOnce'
    BY <1>1, <1>2 DEF AtMostOnce
  <1>. QED
    BY <1>3, <1>4, <1>5, <1>6, <1>7

\* Every slot of the new Vec c, m long, is empty or a copy of a slot of the old
\* Vec b, n long, and of no other's.
MovedTo(b, n, c, m) ==
  /\ c = [i \in 0..(m - 1) |-> c[i]]
  /\ \A i \in 0..(m - 1) : c[i] = NoVal \/ \E j \in 0..(n - 1) : c[i] = b[j]
  /\ (\A j, k \in 0..(n - 1) : b[j] = b[k] /\ b[j] # NoVal => j = k) =>
       \A i, k \in 0..(m - 1) : c[i] = c[k] /\ c[i] # NoVal => i = k

\* The range that reallocate copies, wrapped round or not, names every slot once.
LEMMA ReallocatedMoves ==
  ASSUME NEW b, NEW n \in Nat \ {0}, NEW s \in 0..(n - 1), NEW e \in 0..(n - 1)
  PROVE  MovedTo(b, n, Reallocated(b, s, e, n, 2 * n), 2 * n)
  <1>. DEFINE from(i) == IF s + i < n THEN s + i ELSE s + i - n
              c == Reallocated(b, s, e, n, 2 * n)
  <1>1. Kept(s, e, n) \in 0..n
    BY DEF Kept
  <1>2. ASSUME NEW i \in 0..(2 * n - 1)
        PROVE  c[i] = IF i >= Kept(s, e, n) THEN NoVal ELSE b[from(i)]
    BY <1>1 DEF Reallocated
  <1>3. ASSUME NEW i \in 0..(n - 1) PROVE from(i) \in 0..(n - 1)
    OBVIOUS
  <1>4. ASSUME NEW i \in 0..(n - 1), NEW k \in 0..(n - 1), from(i) = from(k) PROVE i = k
    BY <1>4
  <1>5. c = [i \in 0..(2 * n - 1) |-> c[i]]
    BY DEF Reallocated
  <1>6. ASSUME NEW i \in 0..(2 * n - 1)
        PROVE  c[i] = NoVal \/ (i \in 0..(n - 1) /\ c[i] = b[from(i)])
    BY <1>1, <1>2
  <1>. HIDE DEF c, from
  <1>7. \A i \in 0..(2 * n - 1) : c[i] = NoVal \/ \E j \in 0..(n - 1) : c[i] = b[j]
    BY <1>3, <1>6
  <1>8. ASSUME \A j, k \in 0..(n - 1) : b[j] = b[k] /\ b[j] # NoVal => j = k,
               NEW i \in 0..(2 * n - 1), NEW k \in 0..(2 * n - 1), c[i] = c[k], c[i] # NoVal
        PROVE  i = k
    <2>1. /\ i \in 0..(n - 1) /\ c[i] = b[from(i)]
          /\ k \in 0..(n - 1) /\ c[k] = b[from(k)]
      BY <1>6, <1>8
    <2>2. from(i) = from(k)
      BY <1>3, <1>8, <2>1
    <2>. QED
      BY <1>4, <2>1, <2>2
  <1>. QED
    BY <1>5, <1>7, <1>8 DEF MovedTo, c

\* So a resize duplicates nothing.
LEMMA ReallocateDelivery ==
  ASSUME Delivery, PCTypeOK, ControlTypeOK, NEW w \in Writers, Reallocate(w)
  PROVE  Delivery'
  <1>. USE DEF Delivery, PCTypeOK, ControlTypeOK, Reallocate
  <1>1. start % cap \in 0..(cap - 1) /\ end % cap \in 0..(cap - 1)
    OBVIOUS
  <1>2. MovedTo(buf, cap, buf', 2 * cap)
    <2>. HIDE DEF Delivery, PCTypeOK
    <2>. QED
      BY <1>1, ReallocatedMoves
  <1>. Slots = 0..(cap - 1) /\ Slots' = 0..(2 * cap - 1)
    BY DEF Slots
  <1>3. DataTypeOK'
    <2>1. ASSUME NEW i \in 0..(2 * cap - 1) PROVE buf'[i] \in Values \cup {NoVal}
      BY <1>2 DEF MovedTo, DataTypeOK
    <2>2. buf' \in [Slots' -> Values \cup {NoVal}]
      <3>. HIDE DEF Delivery, PCTypeOK, ControlTypeOK, Reallocate
      <3>. QED
        BY <1>2, <2>1, Zenon DEF MovedTo
    <2>. QED
      BY <2>2 DEF DataTypeOK, Values
  <1>4. HeldIsFresh'
    <2>1. SUFFICES ASSUME NEW v \in Writers, HoldsValue(v)'
                   PROVE  /\ sent[v] >= 1 /\ Value(v) \notin received
                          /\ \A i \in Slots' : buf'[i] # Value(v)
      BY DEF HeldIsFresh, Value
    <2>2. HoldsValue(v)
      BY <2>1 DEF HoldsValue, RequestPCs, ResizerPCs, ScanPCs
    <2>3. sent[v] >= 1 /\ Value(v) \notin received /\ \A i \in Slots : buf[i] # Value(v)
      BY <2>2 DEF HeldIsFresh
    <2>4. Value(v) # NoVal
      <3>1. sent[v] \in 1..MaxPush[v]
        BY <2>3 DEF DataTypeOK
      <3>. HIDE DEF Delivery, PCTypeOK, ControlTypeOK, Reallocate
      <3>2. Value(v) \in {<<v, n>> : n \in 1..MaxPush[v]}
        BY <3>1 DEF Value
      <3>3. Value(v) \in Values
        BY <3>2 DEF Values
      <3>. QED
        BY <3>3
    <2>. HIDE DEF Delivery, PCTypeOK, ControlTypeOK, Reallocate
    <2>5. ASSUME NEW i \in Slots' PROVE buf'[i] # Value(v)
      <3>1. buf'[i] = NoVal \/ \E j \in Slots : buf'[i] = buf[j]
        BY <1>2 DEF MovedTo
      <3>. QED
        BY <2>3, <2>4, <3>1
    <2>. QED
      BY <2>3, <2>5
  <1>5. OnlySent'
    <2>1. ASSUME NEW i \in Slots', buf'[i] # NoVal PROVE buf'[i][2] <= sent[buf'[i][1]]
      <3>1. PICK j \in Slots : buf'[i] = buf[j]
        BY <1>2, <2>1 DEF MovedTo
      <3>2. buf[j] # NoVal => buf[j][2] <= sent[buf[j][1]]
        BY DEF OnlySent
      <3>. HIDE DEF Delivery, PCTypeOK, ControlTypeOK, Reallocate
      <3>. QED
        BY <2>1, <3>1, <3>2
    <2>. QED
      BY <2>1 DEF OnlySent
  <1>6. WriterSlots'
    <2>1. seen' = seen /\ idx' = idx /\ cap' = 2 * cap /\ cap \in Nat
      BY DEF posVars
    <2>2. ASSUME NEW v \in Writers, pc'[v] \in {"ticket", "put"} PROVE pc[v] = pc'[v]
      BY <2>2 DEF Goto
    <2>. HIDE DEF PCTypeOK, ControlTypeOK, Reallocate
    <2>. QED
      BY <2>1, <2>2 DEF WriterSlots
  <1>7. AtMostOnce'
    <2>1. ASSUME NEW i \in Slots' PROVE buf'[i] \notin received
      <3>1. buf'[i] = NoVal \/ \E j \in Slots : buf'[i] = buf[j]
        BY <1>2 DEF MovedTo
      <3>2. NoVal \notin received /\ \A j \in Slots : buf[j] \notin received
        BY DEF AtMostOnce, DataTypeOK
      <3>. QED
        BY <3>1, <3>2
    <2>. QED
      BY <1>2, <2>1 DEF MovedTo, AtMostOnce
  <1>. QED
    BY <1>3, <1>4, <1>5, <1>6, <1>7

-----------------------------------------------------------------------------
(* The invariant and the theorems.                                         *)

\* Every step keeps Delivery, a pop's because Exclusion holds before it.
LEMMA DeliveryStep ==
  ASSUME IInv, [Next]_vars
  PROVE  Delivery'
  <1>. USE DEF IInv, Exclusion
  <1>1. ASSUME NEW r \in Readers, ReaderMove(r) PROVE Delivery'
    BY <1>1, TakeDelivery, ReaderKeepsData, DeliveryKept
  <1>2. ASSUME NEW w \in Writers, Bystander(w) PROVE Delivery'
    BY <1>2, PushDelivery, LoadDelivery, ClaimDelivery, PutDelivery, BystanderKeepsData, DeliveryKept
  <1>3. ASSUME NEW w \in Writers, Resizing(w) PROVE Delivery'
    BY <1>3, ReallocateDelivery, ResizeKeepsData, DeliveryKept
  <1>4. ASSUME UNCHANGED vars PROVE Delivery'
    <2>1. KeepsData
      BY <1>4 DEF KeepsData, HoldsValue
    <2>. QED
      BY <2>1, DeliveryKept
  <1>. QED
    BY <1>1, <1>2, <1>3, <1>4, NextCases

\* Initially no value was sent.
LEMMA DeliveryInit ==
  ASSUME Init
  PROVE  Delivery
  BY DEF Init, InitQueue, Delivery, DataTypeOK, HeldIsFresh, OnlySent, WriterSlots, AtMostOnce,
    HoldsValue, RequestPCs, ResizerPCs, ScanPCs, Slots, Values

\* The inductive invariant: the resize protocol and where every value is.
THEOREM DeliveryInvariant == Spec => []IInv
  <1>1. Init => IInv
    BY ExclusionInit, DeliveryInit DEF IInv
  <1>2. IInv /\ [Next]_vars => IInv'
    BY ExclusionStep, DeliveryStep DEF IInv
  <1>. QED
    BY <1>1, <1>2, PTL DEF Spec

\* No slot outside the Vec is used, and only values that were pushed are popped.
THEOREM TypeCorrect == Spec => []TypeOK
  <1>1. IInv => TypeOK
    BY DEF IInv, Exclusion, Delivery, TypeOK
  <1>. QED
    BY <1>1, DeliveryInvariant, PTL

\* No value is in two slots of the Vec, nor in one after it was popped.
THEOREM DeliveredAtMostOnce == Spec => []AtMostOnce
  <1>1. IInv => AtMostOnce
    BY DEF IInv, Delivery
  <1>. QED
    BY <1>1, DeliveryInvariant, PTL

-----------------------------------------------------------------------------
(* Before the first resize: the sets the arguments count with.             *)

\* Everything the inductive invariants below say of the slots is about the first Vec:
\* a push that restored its flag over a resizer's may store into a Vec that was freed.
FirstInv == FirstVec /\ NoLossBeforeResize

\* The writers nWriters counts: a clone that is not counted yet is "born" while its
\* cloner is at "clone", so one of the two is counted.
LivePCs == WriterPCs \ ({"none", "born", "remove", "gone"} \cup WakePCs)
LiveWriters == {w \in Writers : pc[w] \in LivePCs}
Cloning == {w \in Writers : pc[w] = "clone"}
Born == {w \in Writers : pc[w] = "born"}
WritersCounted ==
  nWriters = Cardinality(LiveWriters) /\ Cardinality(Cloning) = Cardinality(Born)

\* A reader that holds a slot's Mutex, or sleeps on it, found the slot empty.
EmptyHeld == \A r \in Readers : pc[r] \in {"check", "sleep"} => buf[idx[r]] = NoVal

\* The pops and the pushes that have the ticket of a slot and have not used it, and the
\* tickets below n, of start or of end, that are for slot i.
PopPCs == {"lock", "check", "sleep", "wait"}
PutPCs == {"put"} \cup RequestPCs \cup ResizerPCs
Pops(i) == {r \in Readers : pc[r] \in PopPCs /\ idx[r] = i}
Pushes(i) == {w \in Writers : pc[w] \in PutPCs /\ idx[w] = i}
TicketsOf(n, i) == {t \in 0..(n - 1) : t % Cap = i}
Filled(i) == IF buf[i] = NoVal THEN 0 ELSE 1

\* Every ticket for a slot is waiting or was used: a push's to fill the slot, a pop's to
\* empty it, or to give up on it.  A pop gives up only at an empty slot, when no sender
\* is left to fill it.
Balanced(i, gaveUp) ==
  /\ Cardinality(Pops(i)) + gaveUp + Cardinality(TicketsOf(end, i)) =
       Cardinality(TicketsOf(start, i)) + Cardinality(Pushes(i)) + Filled(i)
  /\ gaveUp > 0 => nWriters = 0 /\ buf[i] = NoVal
TicketsFit == cap = Cap => \A i \in 0..(Cap - 1) : \E gaveUp \in Nat : Balanced(i, gaveUp)

Counts == WritersCounted /\ EmptyHeld /\ TicketsFit

\* With one writer tickets are taken in the order of the sends: n is the last value put
\* into slot i, if no ticket of that slot is between n's and end but those of a push
\* that has not put its value.
Entering(w) == IF pc[w] \in {"enter", "claim", "ticket"} THEN 1 ELSE 0
SendsInOrder == \A w \in Writers : end = sent[w] - Entering(w)
PutsInOrder == \A w \in Writers : pc[w] \in PutPCs => idx[w] = (sent[w] - 1) % Cap
LastPut(i, n) ==
  /\ (n - 1) % Cap = i
  /\ Cardinality(TicketsOf(end, i)) = Cardinality(TicketsOf(n, i)) + Cardinality(Pushes(i))
SlotsInOrder == \A i \in Slots : buf[i] # NoVal => LastPut(i, buf[i][2])
InOrder == cap = Cap => SendsInOrder /\ PutsInOrder /\ SlotsInOrder

-----------------------------------------------------------------------------
(* What most steps leave alone.                                            *)

\* Who holds a value, and where every other value is ...
KeepsHeld ==
  /\ UNCHANGED <<buf, cap, sent, received>>
  /\ \A w \in Writers : HoldsValue(w) => HoldsValue(w)'
\* ... the pops and the pushes that have a ticket, and for which slot ...
KeepsTickets ==
  /\ UNCHANGED <<buf, start, end>>
  /\ \A r \in Readers : pc'[r] \in PopPCs <=> pc[r] \in PopPCs
  /\ \A r \in Readers : pc[r] \in PopPCs => idx'[r] = idx[r]
KeepsPushes ==
  /\ \A w \in Writers : pc'[w] \in PutPCs <=> pc[w] \in PutPCs
  /\ \A w \in Writers : pc[w] \in PutPCs => idx'[w] = idx[w]
\* ... how far the sends are ahead of the tickets ...
KeepsSends ==
  /\ UNCHANGED <<sent, end>>
  /\ \A w \in Writers : pc'[w] \in {"enter", "claim", "ticket"} <=> pc[w] \in {"enter", "claim", "ticket"}
KeepsPlaces == KeepsHeld /\ KeepsTickets /\ KeepsPushes /\ KeepsSends
\* ... and which writers are live, cloning or born.
KeepsCount ==
  /\ UNCHANGED nWriters
  /\ \A w \in Writers : pc'[w] \in LivePCs <=> pc[w] \in LivePCs
  /\ \A w \in Writers : \A p \in {"clone", "born"} : pc'[w] = p <=> pc[w] = p

\* A reader changes no writer's place.
LEMMA ReaderKeepsCount ==
  ASSUME PCTypeOK, NEW r \in Readers, ReaderMove(r)
  PROVE  KeepsCount /\ KeepsPushes
  <1>. USE DEF PCTypeOK, KeepsCount, KeepsPushes
  <1>1. CASE PopFront(r)
    BY <1>1 DEF PopFront
  <1>2. CASE EnterRead(r)
    BY <1>2 DEF EnterRead
  <1>3. CASE ClaimStart(r)
    BY <1>3 DEF ClaimStart
  <1>4. CASE FindEmpty(r)
    BY <1>4 DEF FindEmpty
  <1>5. CASE Take(r)
    BY <1>5 DEF Take
  <1>6. CASE WritersRemain(r)
    BY <1>6 DEF WritersRemain
  <1>7. CASE FindClosed(r)
    BY <1>7 DEF FindClosed
  <1>8. CASE Sleep(r)
    BY <1>8 DEF Sleep
  <1>9. CASE SpuriousWake(r)
    BY <1>9 DEF SpuriousWake
  <1>10. CASE NotifyTaken(r)
    BY <1>10 DEF NotifyTaken, NotifyOne, GotoAndWake, Sleepers
  <1>11. CASE CountTaken(r)
    BY <1>11 DEF CountTaken
  <1>12. CASE LeaveRead(r)
    BY <1>12 DEF LeaveRead
  <1>13. CASE DropReader(r)
    BY <1>13 DEF DropReader
  <1>14. CASE RemoveReader(r)
    BY <1>14 DEF RemoveReader
  <1>15. ASSUME NEW c \in Readers, CloneReader(r, c) PROVE KeepsCount /\ KeepsPushes
    BY <1>15 DEF CloneReader
  <1>16. ASSUME NEW c \in Readers, CountReader(r, c) PROVE KeepsCount /\ KeepsPushes
    BY <1>16 DEF CountReader
  <1>. QED
    BY <1>1, <1>2, <1>3, <1>4, <1>5, <1>6, <1>7, <1>8, <1>9, <1>10, <1>11, <1>12, <1>13,
      <1>14, <1>15, <1>16
    DEF ReaderMove, ReaderClient, ReaderStep, PopStep

\* Of a reader's steps ClaimStart, Take and FindClosed begin or end a wait for a slot.
LEMMA ReaderKeepsTickets ==
  ASSUME PCTypeOK, ControlTypeOK, NEW r \in Readers, ReaderMove(r),
         ~ClaimStart(r), ~Take(r), ~FindClosed(r)
  PROVE  KeepsTickets
  <1>. USE DEF PCTypeOK, ControlTypeOK, KeepsTickets, PopPCs
  <1>1. CASE PopFront(r)
    BY <1>1 DEF PopFront
  <1>2. CASE EnterRead(r)
    BY <1>2 DEF EnterRead
  <1>3. CASE FindEmpty(r)
    BY <1>3 DEF FindEmpty
  <1>4. CASE WritersRemain(r)
    BY <1>4 DEF WritersRemain
  <1>5. CASE Sleep(r)
    BY <1>5 DEF Sleep
  <1>6. CASE SpuriousWake(r)
    BY <1>6 DEF SpuriousWake
  <1>7. CASE NotifyTaken(r)
    BY <1>7 DEF NotifyTaken, NotifyOne, GotoAndWake, Sleepers
  <1>8. CASE CountTaken(r)
    BY <1>8 DEF CountTaken
  <1>9. CASE LeaveRead(r)
    BY <1>9 DEF LeaveRead
  <1>10. CASE DropReader(r)
    BY <1>10 DEF DropReader
  <1>11. CASE RemoveReader(r)
    BY <1>11 DEF RemoveReader
  <1>12. ASSUME NEW c \in Readers, CloneReader(r, c) PROVE KeepsTickets
    BY <1>12 DEF CloneReader
  <1>13. ASSUME NEW c \in Readers, CountReader(r, c) PROVE KeepsTickets
    BY <1>13 DEF CountReader
  <1>. QED
    BY <1>1, <1>2, <1>3, <1>4, <1>5, <1>6, <1>7, <1>8, <1>9, <1>10, <1>11, <1>12, <1>13
    DEF ReaderMove, ReaderClient, ReaderStep, PopStep

\* Of a writer's, before the first resize, Push, ClaimEnd and PutValue move a value or
\* its ticket: no push is stale, and none restarts.
LEMMA BystanderKeepsPlaces ==
  ASSUME PCTypeOK, ControlTypeOK, cap = Cap, FirstFlags, NEW w \in Writers, Bystander(w),
         ~Push(w), ~ClaimEnd(w), ~PutValue(w)
  PROVE  KeepsPlaces
  <1>. USE DEF PCTypeOK, ControlTypeOK, KeepsPlaces, KeepsHeld, KeepsTickets, KeepsPushes,
    KeepsSends, HoldsValue, PopPCs, PutPCs, RequestPCs, ResizerPCs, ScanPCs
  <1>p. pc[w] \notin {"return", "retry"} /\ ~Stale(w) /\ pc'[w] # "panic"
    BY FirstBystander DEF FirstFlags, IdlePCs, BusyPCs, AskingPCs, Stale
  <1>1. CASE EnterWrite(w)
    BY <1>1, <1>p DEF EnterWrite
  <1>2. CASE PanicEnter(w) \/ LoadLen(w)
    <2>1. CASE PanicEnter(w)
      BY <2>1, <1>p DEF PanicEnter
    <2>2. CASE LoadLen(w)
      BY <2>2, <1>p DEF LoadLen
    <2>. QED
      BY <1>2, <2>1, <2>2
  <1>3. CASE FindFull(w)
    BY <1>3, <1>p DEF FindFull
  <1>4. CASE PutStale(w)
    BY <1>4, <1>p DEF PutStale
  <1>5. CASE NotifyPut(w)
    <2>1. UNCHANGED otherVars /\ pc[w] = "notify" /\ pc'[w] = "free"
      BY <1>5 DEF NotifyPut, NotifyOne, GotoAndWake
    <2>2. CASE pc' = [pc EXCEPT ![w] = "free"]
      BY <2>1, <2>2
    <2>3. CASE \E r \in Sleepers({idx[w]}) : GotoAndWake(w, "free", {r})
      <3>1. PICK r \in Readers : pc[r] = "wait" /\ GotoAndWake(w, "free", {r})
        BY <2>3 DEF Sleepers
      <3>2. pc' = [pc EXCEPT ![w] = "free", ![r] = "lock"]
        BY <3>1 DEF GotoAndWake
      <3>. QED
        BY <2>1, <3>1, <3>2
    <2>. QED
      BY <1>5, <1>p, <2>2, <2>3 DEF NotifyPut, NotifyOne
  <1>6. CASE FreeWriter(w)
    BY <1>6, <1>p DEF FreeWriter
  <1>7. CASE CountPut(w)
    BY <1>7, <1>p DEF CountPut
  <1>8. CASE LoadAction(w)
    BY <1>8, <1>p DEF LoadAction
  <1>9. CASE MarkRequest(w)
    BY <1>9, <1>p DEF MarkRequest
  <1>10. CASE LoadStatus(w)
    BY <1>10, <1>p DEF LoadStatus
  <1>11. CASE LoseStatus(w)
    BY <1>11, <1>p DEF LoseStatus
  <1>12. CASE SeeActive(w)
    BY <1>12, <1>p DEF SeeActive
  <1>13. CASE RestoreAction(w)
    BY <1>13, <1>p DEF RestoreAction
  <1>14. CASE DropWriter(w)
    BY <1>14, <1>p DEF DropWriter
  <1>15. CASE RemoveWriter(w)
    BY <1>15, <1>p DEF RemoveWriter
  <1>16. CASE EnterWake(w)
    BY <1>16, <1>p DEF EnterWake
  <1>17. CASE LoadStart(w)
    BY <1>17, <1>p DEF LoadStart
  <1>18. CASE LoadReaders(w)
    BY <1>18, <1>p DEF LoadReaders
  <1>19. CASE WakeSlot(w)
    BY <1>19, <1>p DEF WakeSlot, GotoAndWake, Sleepers
  <1>20. CASE LeaveWake(w)
    BY <1>20, <1>p DEF LeaveWake
  <1>21. ASSUME NEW c \in Writers, CloneWriter(w, c) PROVE KeepsPlaces
    BY <1>21, <1>p DEF CloneWriter
  <1>22. ASSUME NEW c \in Writers, CountWriter(w, c) PROVE KeepsPlaces
    BY <1>22, <1>p DEF CountWriter
  <1>. QED
    BY <1>1, <1>2, <1>3, <1>4, <1>5, <1>6, <1>7, <1>8, <1>9, <1>10, <1>11, <1>12, <1>13,
      <1>14, <1>15, <1>16, <1>17, <1>18, <1>19, <1>20, <1>21, <1>22
    DEF Bystander, WriterClient, PushStep, DropStep

\* A resizer keeps its value, and the ticket of its slot, until it replaces the Vec.
LEMMA ResizeKeepsPlaces ==
  ASSUME PCTypeOK, ControlTypeOK, cap = Cap, FirstFlags, StatusHeld, SavedFlags, Visits,
         NoReaderPanic, NEW w \in Writers, Resizing(w), ~Reallocate(w)
  PROVE  KeepsPlaces
  <1>. USE DEF PCTypeOK, ControlTypeOK, KeepsPlaces, KeepsHeld, KeepsTickets, KeepsPushes,
    KeepsSends, HoldsValue, PopPCs, PutPCs, RequestPCs, ResizerPCs, ScanPCs
  <1>p. pc[w] \notin {"unlock", "unlockr"} /\ pc'[w] # "panic"
    BY FirstResizing DEF FirstFlags, IdlePCs, BusyPCs, AskingPCs
  <1>1. CASE WinStatus(w)
    BY <1>1, <1>p DEF WinStatus
  <1>2. CASE LockReaders(w)
    BY <1>2, <1>p DEF LockReaders
  <1>3. CASE LockWriters(w)
    BY <1>3, <1>p DEF LockWriters, Visit
  <1>4. CASE BlockHandle(w)
    BY <1>4, <1>p DEF BlockHandle, Visit
  <1>5. CASE NoticeRequest(w)
    BY <1>5, <1>p DEF NoticeRequest
  <1>6. CASE PanicScan(w)
    BY <1>6, <1>p DEF PanicScan
  <1>7. CASE RestoreHandle(w)
    BY <1>7, <1>p DEF RestoreHandle
  <1>8. CASE Activate(w)
    BY <1>8, <1>p DEF Activate
  <1>9. CASE Unlock(w)
    <2>1. CASE UnlockWriters(w)
      BY <2>1, <1>p DEF UnlockWriters
    <2>2. CASE UnlockReaders(w)
      BY <2>2, <1>p DEF UnlockReaders
    <2>. QED
      BY <1>9, <2>1, <2>2 DEF Unlock
  <1>. QED
    BY <1>1, <1>2, <1>3, <1>4, <1>5, <1>6, <1>7, <1>8, <1>9
    DEF Resizing

\* A writer enters or leaves the count by a clone and a drop.
LEMMA BystanderKeepsCount ==
  ASSUME PCTypeOK, NEW w \in Writers, Bystander(w), ~DropWriter(w),
         \A c \in Writers : ~CloneWriter(w, c) /\ ~CountWriter(w, c)
  PROVE  KeepsCount
  <1>. USE DEF PCTypeOK, KeepsCount, LivePCs, WriterPCs, HandlePCs, RequestPCs, ResizerPCs, ScanPCs,
    WakePCs
  <1>1. CASE Push(w)
    BY <1>1 DEF Push
  <1>2. CASE EnterWrite(w)
    BY <1>2 DEF EnterWrite
  <1>3. CASE PanicEnter(w) \/ LoadLen(w)
    <2>1. CASE PanicEnter(w)
      BY <2>1 DEF PanicEnter
    <2>2. CASE LoadLen(w)
      BY <2>2 DEF LoadLen
    <2>. QED
      BY <1>3, <2>1, <2>2
  <1>4. CASE ClaimEnd(w)
    BY <1>4 DEF ClaimEnd
  <1>5. CASE PutValue(w)
    BY <1>5 DEF PutValue
  <1>6. CASE FindFull(w)
    BY <1>6 DEF FindFull
  <1>7. CASE PutStale(w)
    BY <1>7 DEF PutStale
  <1>8. CASE NotifyPut(w)
    BY <1>8 DEF NotifyPut, NotifyOne, GotoAndWake, Sleepers
  <1>9. CASE FreeWriter(w)
    BY <1>9 DEF FreeWriter
  <1>10. CASE CountPut(w)
    BY <1>10 DEF CountPut
  <1>11. CASE LoadAction(w)
    BY <1>11 DEF LoadAction
  <1>12. CASE MarkRequest(w)
    BY <1>12 DEF MarkRequest
  <1>13. CASE LoadStatus(w)
    BY <1>13 DEF LoadStatus
  <1>14. CASE LoseStatus(w)
    BY <1>14 DEF LoseStatus
  <1>15. CASE SeeActive(w)
    BY <1>15 DEF SeeActive
  <1>16. CASE RestoreAction(w)
    BY <1>16 DEF RestoreAction
  <1>17. CASE RemoveWriter(w)
    BY <1>17 DEF RemoveWriter
  <1>18. CASE EnterWake(w)
    BY <1>18 DEF EnterWake
  <1>19. CASE LoadStart(w)
    BY <1>19 DEF LoadStart
  <1>20. CASE LoadReaders(w)
    BY <1>20 DEF LoadReaders
  <1>21. CASE WakeSlot(w)
    BY <1>21 DEF WakeSlot, GotoAndWake, Sleepers
  <1>22. CASE LeaveWake(w)
    BY <1>22 DEF LeaveWake
  <1>. QED
    BY <1>1, <1>2, <1>3, <1>4, <1>5, <1>6, <1>7, <1>8, <1>9, <1>10, <1>11, <1>12, <1>13,
      <1>14, <1>15, <1>16, <1>17, <1>18, <1>19, <1>20, <1>21, <1>22
    DEF Bystander, WriterClient, PushStep, DropStep

\* A resizer is live throughout.
LEMMA ResizeKeepsCount ==
  ASSUME PCTypeOK, NEW w \in Writers, Resizing(w)
  PROVE  KeepsCount
  <1>. USE DEF PCTypeOK, KeepsCount, LivePCs, WriterPCs, HandlePCs, RequestPCs, ResizerPCs, ScanPCs,
    WakePCs
  <1>1. CASE WinStatus(w)
    BY <1>1 DEF WinStatus
  <1>2. CASE LockReaders(w)
    BY <1>2 DEF LockReaders
  <1>3. CASE LockWriters(w)
    BY <1>3 DEF LockWriters, Visit
  <1>4. CASE BlockHandle(w)
    BY <1>4 DEF BlockHandle, Visit
  <1>5. CASE NoticeRequest(w)
    BY <1>5 DEF NoticeRequest
  <1>6. CASE PanicScan(w)
    BY <1>6 DEF PanicScan
  <1>7. CASE Reallocate(w)
    BY <1>7 DEF Reallocate
  <1>8. CASE RestoreHandle(w)
    BY <1>8 DEF RestoreHandle
  <1>9. CASE Activate(w)
    BY <1>9 DEF Activate
  <1>10. CASE Unlock(w)
    <2>1. CASE UnlockWriters(w)
      BY <2>1 DEF UnlockWriters
    <2>2. CASE UnlockReaders(w)
      BY <2>2 DEF UnlockReaders
    <2>. QED
      BY <1>10, <2>1, <2>2 DEF Unlock
  <1>. QED
    BY <1>1, <1>2, <1>3, <1>4, <1>5, <1>6, <1>7, <1>8, <1>9, <1>10
    DEF Resizing

-----------------------------------------------------------------------------
(* No value is lost before the first resize.                               *)

\* NoLoss is about the values and who holds one.
LEMMA LossKept ==
  ASSUME NoLoss, KeepsHeld
  PROVE  NoLoss'
  BY DEF NoLoss, KeepsHeld, Slots

\* A value that is pushed is held by its push ...
LEMMA PushLoss ==
  ASSUME PCTypeOK, DataTypeOK, NoLoss, NEW w \in Writers, Push(w)
  PROVE  NoLoss'
  <1>1. /\ UNCHANGED <<buf, cap, received>> /\ sent' = [sent EXCEPT ![w] = sent[w] + 1]
        /\ pc[w] = "idle" /\ pc' = [pc EXCEPT ![w] = "enter"]
    BY DEF Push
  <1>2. HoldsValue(w)' /\ ~HoldsValue(w)
    BY <1>1 DEF HoldsValue, PCTypeOK, RequestPCs, ResizerPCs, ScanPCs
  <1>3. \A v \in Writers : v # w => HoldsValue(v)' = HoldsValue(v) /\ sent'[v] = sent[v]
    BY <1>1 DEF HoldsValue, PCTypeOK, DataTypeOK
  <1>4. sent[w] \in Nat /\ sent'[w] = sent[w] + 1
    BY <1>1 DEF DataTypeOK
  <1>5. ASSUME NEW n \in 1..sent'[w]
        PROVE  <<w, n>> \in received \/ (\E i \in Slots : buf[i] = <<w, n>>) \/ n = sent'[w]
    <2>1. CASE n \in 1..sent[w]
      BY <1>2, <2>1 DEF NoLoss
    <2>. QED
      BY <1>4, <2>1
  <1>6. ASSUME NEW v \in Writers, v # w, NEW n \in 1..sent'[v]
        PROVE  \/ <<v, n>> \in received
               \/ \E i \in Slots : buf[i] = <<v, n>>
               \/ n = sent'[v] /\ HoldsValue(v)'
    BY <1>3, <1>6 DEF NoLoss
  <1>. HIDE DEF Push
  <1>. QED
    BY <1>1, <1>2, <1>5, <1>6 DEF NoLoss, Slots

\* ... until it is in an empty slot of the Vec ...
LEMMA PutLoss ==
  ASSUME PCTypeOK, DataTypeOK, WriterSlots, NoLoss, NEW w \in Writers, PutValue(w)
  PROVE  NoLoss'
  <1>1. /\ UNCHANGED <<cap, sent, received>> /\ buf' = [buf EXCEPT ![idx[w]] = Value(w)]
        /\ idx[w] \in Slots /\ buf[idx[w]] = NoVal /\ pc' = [pc EXCEPT ![w] = "notify"]
    BY DEF PutValue, WriterSlots, Stale, Slots
  <1>2. buf'[idx[w]] = <<w, sent[w]>> /\ \A i \in Slots : buf[i] # NoVal => buf'[i] = buf[i]
    BY <1>1 DEF DataTypeOK, Value
  <1>3. \A v \in Writers : v # w => HoldsValue(v)' = HoldsValue(v)
    BY <1>1 DEF HoldsValue, PCTypeOK
  <1>4. SUFFICES ASSUME NEW v \in Writers, NEW n \in 1..sent[v]
                 PROVE  \/ <<v, n>> \in received
                        \/ \E i \in Slots : buf'[i] = <<v, n>>
                        \/ n = sent[v] /\ HoldsValue(v)'
    BY <1>1 DEF NoLoss, Slots
  <1>5. <<v, n>> # NoVal
    <2>1. n \in 1..MaxPush[v]
      BY DEF DataTypeOK
    <2>2. <<v, n>> \in Values
      BY <2>1 DEF Values
    <2>. QED
      BY <2>2
  <1>6. CASE v = w /\ n = sent[w]
    BY <1>1, <1>2, <1>6
  <1>7. CASE ~(v = w /\ n = sent[w])
    <2>1. \/ <<v, n>> \in received
          \/ \E i \in Slots : buf[i] = <<v, n>>
          \/ n = sent[v] /\ HoldsValue(v)
      BY DEF NoLoss
    <2>. QED
      BY <1>2, <1>3, <1>5, <1>7, <2>1
  <1>. QED
    BY <1>6, <1>7

\* ... and there until it is received.
LEMMA TakeLoss ==
  ASSUME PCTypeOK, DataTypeOK, ReaderSlots, NoLoss, NEW r \in Readers, Take(r)
  PROVE  NoLoss'
  <1>1. /\ UNCHANGED <<cap, sent>> /\ buf' = [buf EXCEPT ![idx[r]] = NoVal]
        /\ idx[r] \in Slots /\ received' = received \cup {buf[idx[r]]}
        /\ \A w \in Writers : pc'[w] = pc[w]
    BY DEF Take, ReaderSlots, SlotPCs, PCTypeOK
  <1>2. \A i \in Slots : i # idx[r] => buf'[i] = buf[i]
    BY <1>1 DEF DataTypeOK
  <1>3. \A w \in Writers : HoldsValue(w)' = HoldsValue(w)
    BY <1>1 DEF HoldsValue
  <1>4. SUFFICES ASSUME NEW w \in Writers, NEW n \in 1..sent[w]
                 PROVE  \/ <<w, n>> \in received'
                        \/ \E i \in Slots : buf'[i] = <<w, n>>
                        \/ n = sent[w] /\ HoldsValue(w)'
    BY <1>1 DEF NoLoss, Slots
  <1>5. \/ <<w, n>> \in received
        \/ \E i \in Slots : buf[i] = <<w, n>>
        \/ n = sent[w] /\ HoldsValue(w)
    BY DEF NoLoss
  <1>. QED
    BY <1>1, <1>2, <1>3, <1>5

\* Vecs only grow: the capacity is the first one only before the first resize.
LEMMA CapGrows ==
  ASSUME PCTypeOK, ControlTypeOK, [Next]_vars
  PROVE  cap' \in Nat /\ cap' >= cap
  <1>0. cap \in Nat /\ cap >= cap
    BY DEF ControlTypeOK
  <1>1. ASSUME NEW r \in Readers, ReaderMove(r) PROVE cap' \in Nat /\ cap' >= cap
    BY <1>0, <1>1, ReaderKeepsWriters DEF KeepsWriters
  <1>2. ASSUME NEW w \in Writers, Bystander(w) PROVE cap' \in Nat /\ cap' >= cap
    BY <1>0, <1>2, BystanderFrame DEF KeepsResizers
  <1>3. ASSUME NEW w \in Writers, Resizing(w) PROVE cap' \in Nat /\ cap' >= cap
    <2>1. CASE Reallocate(w)
      BY <2>1 DEF Reallocate, ControlTypeOK
    <2>2. CASE ~Reallocate(w)
      BY <1>3, <2>2, ResizeKeepsData DEF KeepsData, ControlTypeOK
    <2>. QED
      BY <2>1, <2>2
  <1>4. ASSUME UNCHANGED vars PROVE cap' \in Nat /\ cap' >= cap
    BY <1>0, <1>4
  <1>. HIDE DEF vars
  <1>. QED
    BY <1>1, <1>2, <1>3, <1>4, NextCases, Zenon

\* So every step does: the first one to replace the Vec ends what FirstInv says.
LEMMA FirstStep ==
  ASSUME IInv, NoReaderPanic, FirstInv, [Next]_vars
  PROVE  FirstInv'
  <1>. USE DEF IInv, Exclusion, Delivery, FirstInv, FirstVec, NoLossBeforeResize
  <1>a. cap \in Nat /\ Cap \in Nat /\ cap >= Cap /\ cap' \in Nat /\ cap' >= cap
    BY CapGrows DEF ControlTypeOK
  <1>b. cap' >= Cap /\ (cap' = Cap => cap = Cap)
    BY <1>a
  <1>. SUFFICES ASSUME cap = Cap
                PROVE  \/ cap' # Cap
                       \/ cap' = Cap /\ FirstFlags' /\ NoLoss'
    BY <1>b
  <1>1. ASSUME NEW r \in Readers, ReaderMove(r) PROVE cap' = Cap /\ FirstFlags' /\ NoLoss'
    <2>1. KeepsWriters /\ cap' = Cap /\ FirstFlags'
      BY <1>1, ReaderKeepsWriters, FirstKept DEF KeepsWriters
    <2>2. CASE Take(r)
      BY <2>1, <2>2, TakeLoss
    <2>3. CASE ~Take(r)
      <3>1. KeepsHeld
        BY <1>1, <2>1, <2>3, ReaderKeepsData DEF KeepsHeld, KeepsData, KeepsWriters, HoldsValue
      <3>. QED
        BY <2>1, <3>1, LossKept
    <2>. QED
      BY <2>2, <2>3
  <1>2. ASSUME NEW w \in Writers, Bystander(w) PROVE cap' = Cap /\ FirstFlags' /\ NoLoss'
    <2>1. cap' = Cap /\ FirstFlags'
      BY <1>2, FirstBystander
    <2>2. CASE Push(w) \/ PutValue(w)
      BY <2>1, <2>2, PushLoss, PutLoss
    <2>3. CASE ~Push(w) /\ ~PutValue(w)
      <3>1. CASE ClaimEnd(w)
        <4>1. KeepsHeld
          BY <3>1 DEF ClaimEnd, KeepsHeld, HoldsValue, PCTypeOK
        <4>. QED
          BY <2>1, <4>1, LossKept
      <3>2. CASE ~ClaimEnd(w)
        BY <1>2, <2>1, <2>3, <3>2, BystanderKeepsPlaces, LossKept DEF KeepsPlaces
      <3>. QED
        BY <3>1, <3>2
    <2>. QED
      BY <2>1, <2>2, <2>3
  <1>3. ASSUME NEW w \in Writers, Resizing(w), ~Reallocate(w)
        PROVE  cap' = Cap /\ FirstFlags' /\ NoLoss'
    BY <1>3, FirstResizing, ResizeKeepsPlaces, LossKept DEF KeepsPlaces
  <1>4. ASSUME NEW w \in Writers, Reallocate(w) PROVE cap' # Cap
    BY <1>4, <1>a DEF Reallocate
  <1>5. ASSUME UNCHANGED vars PROVE cap' = Cap /\ FirstFlags' /\ NoLoss'
    <2>1. KeepsWriters /\ KeepsHeld
      BY <1>5 DEF KeepsWriters, KeepsHeld, HoldsValue
    <2>. QED
      BY <2>1, FirstKept, LossKept DEF KeepsWriters
  <1>. QED
    BY <1>1, <1>2, <1>3, <1>4, <1>5, NextCases

-----------------------------------------------------------------------------
(* The count of the writers, and the slots found empty.                    *)

\* The library's theorems on cardinalities ask that the handles are finitely many.
LEMMA FiniteHandles == IsFiniteSet(Readers) /\ IsFiniteSet(Writers)
  BY FS_Subset

\* The count follows the set of the live writers.
LEMMA CountKept ==
  ASSUME WritersCounted, KeepsCount
  PROVE  WritersCounted'
  <1>1. LiveWriters' = LiveWriters /\ Cloning' = Cloning /\ Born' = Born
    BY DEF KeepsCount, LiveWriters, Cloning, Born
  <1>. QED
    BY <1>1 DEF WritersCounted, KeepsCount

\* A clone is counted by CountWriter, after its cloner gave it an identity; a drop
\* takes its writer out of the count at once, and wakes the readers after that.
LEMMA CountStep ==
  ASSUME PCTypeOK, ControlTypeOK, WritersCounted, [Next]_vars
  PROVE  WritersCounted'
  <1>0. /\ IsFiniteSet(LiveWriters) /\ IsFiniteSet(Cloning) /\ IsFiniteSet(Born)
        /\ Cardinality(LiveWriters) \in Nat /\ Cardinality(Cloning) \in Nat
        /\ Cardinality(Born) \in Nat
    BY FiniteHandles, FS_Subset, FS_CardinalityType DEF LiveWriters, Cloning, Born
  <1>1. ASSUME NEW w \in Writers, DropWriter(w) PROVE WritersCounted'
    <2>1. /\ nWriters' = nWriters - 1 /\ pc[w] \in {"idle", "panic"}
          /\ pc' = [pc EXCEPT ![w] = "remove"]
      BY <1>1 DEF DropWriter
    <2>2. /\ w \in LiveWriters /\ LiveWriters' = LiveWriters \ {w}
          /\ Cloning' = Cloning /\ Born' = Born
      BY <2>1 DEF PCTypeOK, LiveWriters, Cloning, Born, LivePCs, WriterPCs, HandlePCs, WakePCs
    <2>3. Cardinality(LiveWriters') = Cardinality(LiveWriters) - 1
      BY <1>0, <2>2, FS_RemoveElement
    <2>. QED
      BY <2>1, <2>2, <2>3 DEF WritersCounted
  <1>2. ASSUME NEW w \in Writers, NEW c \in Writers, CloneWriter(w, c) PROVE WritersCounted'
    <2>1. /\ UNCHANGED nWriters /\ pc[w] = "idle" /\ pc[c] = "none" /\ w # c
          /\ pc'[w] = "clone" /\ pc'[c] = "born"
          /\ \A v \in Writers : v \notin {w, c} => pc'[v] = pc[v]
      BY <1>2 DEF CloneWriter, PCTypeOK
    <2>2. /\ LiveWriters' = LiveWriters
          /\ w \notin Cloning /\ Cloning' = Cloning \cup {w}
          /\ c \notin Born /\ Born' = Born \cup {c}
      BY <2>1 DEF LiveWriters, Cloning, Born, LivePCs, WriterPCs, HandlePCs, WakePCs
    <2>3. /\ Cardinality(Cloning') = Cardinality(Cloning) + 1
          /\ Cardinality(Born') = Cardinality(Born) + 1
      BY <1>0, <2>2, FS_AddElement
    <2>. QED
      BY <2>1, <2>2, <2>3 DEF WritersCounted
  <1>3. ASSUME NEW w \in Writers, NEW c \in Writers, CountWriter(w, c) PROVE WritersCounted'
    <2>1. /\ nWriters' = nWriters + 1 /\ pc[w] = "clone" /\ pc[c] = "born" /\ w # c
          /\ pc'[w] = "idle" /\ pc'[c] = "idle"
          /\ \A v \in Writers : v \notin {w, c} => pc'[v] = pc[v]
      BY <1>3 DEF CountWriter, PCTypeOK
    <2>2. /\ c \notin LiveWriters /\ LiveWriters' = LiveWriters \cup {c}
          /\ w \in Cloning /\ Cloning' = Cloning \ {w}
          /\ c \in Born /\ Born' = Born \ {c}
      BY <2>1 DEF LiveWriters, Cloning, Born, LivePCs, WriterPCs, HandlePCs, WakePCs
    <2>3. /\ Cardinality(LiveWriters') = Cardinality(LiveWriters) + 1
          /\ Cardinality(Cloning') = Cardinality(Cloning) - 1
          /\ Cardinality(Born') = Cardinality(Born) - 1
      BY <1>0, <2>2, FS_AddElement, FS_RemoveElement
    <2>. QED
      BY <2>1, <2>2, <2>3 DEF WritersCounted
  <1>4. ASSUME NEW r \in Readers, ReaderMove(r) PROVE WritersCounted'
    BY <1>4, ReaderKeepsCount, CountKept
  <1>5. ASSUME NEW w \in Writers, Bystander(w) PROVE WritersCounted'
    BY <1>1, <1>2, <1>3, <1>5, BystanderKeepsCount, CountKept
  <1>6. ASSUME NEW w \in Writers, Resizing(w) PROVE WritersCounted'
    BY <1>6, ResizeKeepsCount, CountKept
  <1>7. ASSUME UNCHANGED vars PROVE WritersCounted'
    <2>1. KeepsCount
      BY <1>7 DEF KeepsCount
    <2>. QED
      BY <2>1, CountKept
  <1>. QED
    BY <1>4, <1>5, <1>6, <1>7, NextCases

\* While a reader holds the Mutex of a slot it found empty nobody fills the slot.
LEMMA EmptyHeldStep ==
  ASSUME IInv, EmptyHeld, [Next]_vars
  PROVE  EmptyHeld'
  <1>. USE DEF IInv, Exclusion, Delivery
  <1>0. buf \in [Slots -> Values \cup {NoVal}]
    BY DEF DataTypeOK
  <1>1. ASSUME UNCHANGED buf,
               \A r \in Readers : pc'[r] \in {"check", "sleep"} =>
                 pc[r] \in {"check", "sleep"} /\ idx'[r] = idx[r]
        PROVE  EmptyHeld'
    BY <1>1 DEF EmptyHeld
  <1>2. ASSUME NEW h \in Handles, ~SlotLocked(idx[h]),
               \A i \in Slots : i # idx[h] => buf'[i] = buf[i],
               \A r \in Readers : pc'[r] \in {"check", "sleep"} =>
                 pc[r] \in {"check", "sleep"} /\ idx'[r] = idx[r]
        PROVE  EmptyHeld'
    <2>1. SUFFICES ASSUME NEW r \in Readers, pc'[r] \in {"check", "sleep"}
                   PROVE  buf'[idx'[r]] = NoVal
      BY DEF EmptyHeld
    <2>2. pc[r] \in {"check", "sleep"} /\ idx'[r] = idx[r] /\ buf[idx[r]] = NoVal
      BY <1>2, <2>1 DEF EmptyHeld
    <2>3. idx[r] # idx[h] /\ idx[r] \in Slots
      BY <1>2, <2>2 DEF SlotLocked, ReaderSlots, SlotPCs
    <2>. QED
      BY <1>2, <2>2, <2>3
  <1>3. ASSUME NEW r \in Readers, ReaderMove(r) PROVE EmptyHeld'
    <2>1. CASE Take(r)
      BY <1>0, <1>2, <2>1 DEF Take, PCTypeOK
    <2>2. CASE FindEmpty(r)
      BY <2>2 DEF FindEmpty, EmptyHeld, PCTypeOK
    <2>3. CASE ClaimStart(r)
      BY <1>1, <2>3 DEF ClaimStart, PCTypeOK, ControlTypeOK
    <2>4. CASE FindClosed(r) \/ WritersRemain(r)
      BY <1>1, <2>4 DEF FindClosed, WritersRemain, PCTypeOK
    <2>5. ASSUME ~Take(r), ~FindEmpty(r), ~ClaimStart(r), ~FindClosed(r), ~WritersRemain(r)
          PROVE  EmptyHeld'
      <3>1. KeepsTickets
        BY <1>3, <2>5, ReaderKeepsTickets
      <3>2. \A q \in Readers : pc'[q] \in {"check", "sleep"} => pc[q] \in {"check", "sleep"}
        BY <1>3, <2>5 DEF PCTypeOK, ReaderMove, ReaderClient, ReaderStep, PopStep, PopFront,
          EnterRead, Sleep, SpuriousWake, NotifyTaken, NotifyOne, GotoAndWake, Sleepers, CountTaken,
          LeaveRead, DropReader, RemoveReader, CloneReader, CountReader
      <3>. QED
        BY <1>1, <3>1, <3>2 DEF KeepsTickets, PopPCs
    <2>. QED
      BY <1>3, <2>1, <2>2, <2>3, <2>4, <2>5
  <1>4. ASSUME NEW w \in Writers, Bystander(w) PROVE EmptyHeld'
    <2>1. /\ \A r \in Readers : idx'[r] = idx[r]
          /\ \A r \in Readers : pc'[r] \in {"check", "sleep"} => pc[r] \in {"check", "sleep"}
      BY <1>4, BystanderFrame DEF KeepsReaders
    <2>2. CASE PutValue(w)
      BY <1>0, <1>2, <2>1, <2>2 DEF PutValue
    <2>3. CASE ~PutValue(w)
      <3>1. UNCHANGED buf
        BY <1>4, <2>3, BystanderKeepsData DEF KeepsData, Push, LoadLen, ClaimEnd
      <3>. QED
        BY <1>1, <2>1, <3>1
    <2>. QED
      BY <2>2, <2>3
  <1>5. ASSUME NEW w \in Writers, Resizing(w) PROVE EmptyHeld'
    <2>1. CASE Reallocate(w)
      <3>1. \A r \in Readers : pc[r] \notin SlotPCs
        BY <2>1, ReaderExclusionHolds DEF Reallocate, ReaderExclusion, Reallocating, InsideReader
      <3>2. \A r \in Readers : pc'[r] = pc[r]
        BY <2>1 DEF Reallocate, PCTypeOK
      <3>. QED
        BY <3>1, <3>2 DEF EmptyHeld, SlotPCs
    <2>2. CASE ~Reallocate(w)
      <3>1. UNCHANGED buf
        BY <1>5, <2>2, ResizeKeepsData DEF KeepsData
      <3>2. \A r \in Readers : idx'[r] = idx[r] /\ pc'[r] = pc[r]
        BY <1>5, <2>2 DEF PCTypeOK, Resizing, WinStatus, LockReaders, LockWriters, BlockHandle,
          Visit, NoticeRequest, PanicScan, RestoreHandle, Activate, Unlock, UnlockWriters, UnlockReaders
      <3>. QED
        BY <1>1, <3>1, <3>2
    <2>. QED
      BY <2>1, <2>2
  <1>6. ASSUME UNCHANGED vars PROVE EmptyHeld'
    BY <1>1, <1>6
  <1>. QED
    BY <1>3, <1>4, <1>5, <1>6, NextCases

\* A count of 0 means that no writer can ever push again.
LEMMA LiveIsCounted ==
  ASSUME PCTypeOK, WritersCounted
  PROVE  /\ nWriters \in Nat
         /\ nWriters = 0 <=> LiveWriters = {}
         /\ LiveWriters = {} => \A w \in Writers : NoSender(w)
  <1>1. /\ IsFiniteSet(LiveWriters) /\ IsFiniteSet(Cloning) /\ IsFiniteSet(Born)
        /\ Cardinality(LiveWriters) \in Nat
    BY FiniteHandles, FS_Subset, FS_CardinalityType DEF LiveWriters, Cloning, Born
  <1>2. nWriters \in Nat /\ (nWriters = 0 <=> LiveWriters = {})
    BY <1>1, FS_EmptySet DEF WritersCounted
  <1>3. Cloning = {} <=> Born = {}
    BY <1>1, FS_EmptySet DEF WritersCounted
  <1>4. ASSUME LiveWriters = {}, NEW w \in Writers PROVE NoSender(w)
    <2>1. Cloning = {}
      BY <1>4 DEF Cloning, LiveWriters, LivePCs, WriterPCs, HandlePCs, WakePCs
    <2>2. pc[w] # "born"
      BY <1>3, <2>1 DEF Born
    <2>. QED
      BY <1>4, <2>2 DEF NoSender, LiveWriters, LivePCs, PCTypeOK
  <1>. QED
    BY <1>2, <1>4

-----------------------------------------------------------------------------
(* The tickets of a slot before the first resize.                          *)

\* The next ticket is for slot n % Cap, and tickets are never taken back.
LEMMA TicketsGrow ==
  ASSUME NEW n \in Nat, NEW i
  PROVE  /\ IsFiniteSet(TicketsOf(n, i)) /\ Cardinality(TicketsOf(n, i)) \in Nat
         /\ Cardinality(TicketsOf(n + 1, i)) =
              Cardinality(TicketsOf(n, i)) + (IF n % Cap = i THEN 1 ELSE 0)
         /\ \A m \in Nat : m <= n => Cardinality(TicketsOf(m, i)) <= Cardinality(TicketsOf(n, i))
  <1>1. IsFiniteSet(TicketsOf(n, i)) /\ Cardinality(TicketsOf(n, i)) \in Nat
    <2>1. IsFiniteSet(0..(n - 1))
      BY FS_Interval
    <2>2. TicketsOf(n, i) \subseteq 0..(n - 1)
      BY DEF TicketsOf
    <2>. QED
      BY <2>1, <2>2, FS_Subset, FS_CardinalityType
  <1>2. ASSUME NEW m \in Nat, m <= n
        PROVE  Cardinality(TicketsOf(m, i)) <= Cardinality(TicketsOf(n, i))
    <2>1. TicketsOf(m, i) \subseteq TicketsOf(n, i)
      BY <1>2 DEF TicketsOf
    <2>. QED
      BY <1>1, <2>1, FS_Subset
  <1>3. CASE n % Cap = i
    <2>1. TicketsOf(n + 1, i) = TicketsOf(n, i) \cup {n} /\ n \notin TicketsOf(n, i)
      BY <1>3 DEF TicketsOf
    <2>. QED
      BY <1>1, <1>2, <1>3, <2>1, FS_AddElement
  <1>4. CASE n % Cap # i
    <2>1. TicketsOf(n + 1, i) = TicketsOf(n, i)
      BY <1>4 DEF TicketsOf
    <2>. QED
      BY <1>1, <1>2, <1>4, <2>1
  <1>. QED
    BY <1>3, <1>4

\* What a push stores is a value.
LEMMA PutNotNone ==
  ASSUME DataTypeOK, HeldIsFresh, NEW w \in Writers, PutValue(w)
  PROVE  Value(w) # NoVal
  <1>1. sent[w] \in 1..MaxPush[w]
    BY DEF PutValue, HeldIsFresh, HoldsValue, DataTypeOK
  <1>2. Value(w) \in Values
    BY <1>1 DEF Values, Value
  <1>. QED
    BY <1>2

\* The balance of a slot is about its tickets and who has them.
LEMMA TicketsKept ==
  ASSUME NEW i, NEW gaveUp \in Nat, Balanced(i, gaveUp), KeepsTickets, KeepsPushes,
         UNCHANGED nWriters \/ gaveUp = 0
  PROVE  Balanced(i, gaveUp)'
  <1>1. Pops(i)' = Pops(i) /\ Pushes(i)' = Pushes(i)
    BY DEF Pops, Pushes, KeepsTickets, KeepsPushes
  <1>. QED
    BY <1>1 DEF Balanced, Filled, KeepsTickets

\* A pop's ticket is used when it takes, and given up when no writer is left.
LEMMA TicketsReader ==
  ASSUME PCTypeOK, ControlTypeOK, DataTypeOK, EmptyHeld, ReaderSlots, WritersCounted, cap = Cap,
         NEW r \in Readers, ReaderMove(r),
         NEW i \in 0..(Cap - 1), NEW gaveUp \in Nat, Balanced(i, gaveUp)
  PROVE  \E n \in Nat : Balanced(i, n)'
  <1>0. /\ IsFiniteSet(Pops(i)) /\ Cardinality(Pops(i)) \in Nat
        /\ Cardinality(Pushes(i)) \in Nat /\ i \in Slots /\ start \in Nat /\ end \in Nat
        /\ Cardinality(TicketsOf(start, i)) \in Nat /\ Cardinality(TicketsOf(end, i)) \in Nat
    <2>1. IsFiniteSet(Pops(i)) /\ IsFiniteSet(Pushes(i))
      BY FiniteHandles, FS_Subset DEF Pops, Pushes
    <2>2. start \in Nat /\ end \in Nat
      BY DEF ControlTypeOK
    <2>. QED
      BY <2>1, <2>2, FS_CardinalityType, TicketsGrow DEF Slots
  <1>a. KeepsCount /\ KeepsPushes
    BY ReaderKeepsCount
  <1>b. Pushes(i)' = Pushes(i) /\ UNCHANGED nWriters
    BY <1>a DEF Pushes, KeepsPushes, KeepsCount
  <1>1. CASE ClaimStart(r)
    <2>1. UNCHANGED <<buf, end>> /\ start' = start + 1 /\ r \notin Pops(i)
      BY <1>1 DEF ClaimStart, Pops, PopPCs
    <2>2. Pops(i)' = IF start % Cap = i THEN Pops(i) \cup {r} ELSE Pops(i)
      BY <1>1 DEF ClaimStart, Pops, PopPCs, PCTypeOK, ControlTypeOK
    <2>3. Cardinality(Pops(i)') = Cardinality(Pops(i)) + (IF start % Cap = i THEN 1 ELSE 0)
      <3>1. Cardinality(Pops(i) \cup {r}) = Cardinality(Pops(i)) + 1
        BY <1>0, <2>1, FS_AddElement
      <3>2. CASE start % Cap = i
        BY <2>2, <3>1, <3>2
      <3>3. CASE start % Cap # i
        BY <1>0, <2>2, <3>3
      <3>. QED
        BY <3>2, <3>3
    <2>4. Cardinality(TicketsOf(start + 1, i)) =
            Cardinality(TicketsOf(start, i)) + (IF start % Cap = i THEN 1 ELSE 0)
      BY <1>0, TicketsGrow
    <2>5. Balanced(i, gaveUp)'
      BY <1>0, <1>b, <2>1, <2>3, <2>4 DEF Balanced, Filled
    <2>. QED
      BY <2>5
  <1>2. CASE Take(r)
    <2>1. /\ UNCHANGED <<start, end, idx>> /\ buf' = [buf EXCEPT ![idx[r]] = NoVal]
          /\ buf[idx[r]] # NoVal /\ idx[r] \in Slots
      BY <1>2 DEF Take, ReaderSlots, SlotPCs
    <2>2. Pops(i)' = Pops(i) \ {r} /\ (r \in Pops(i) <=> idx[r] = i)
      BY <1>2 DEF Take, Pops, PopPCs, PCTypeOK
    <2>3. CASE idx[r] = i
      <3>1. Cardinality(Pops(i)') = Cardinality(Pops(i)) - 1
        <4>1. r \in Pops(i) /\ Pops(i)' = Pops(i) \ {r}
          BY <2>2, <2>3
        <4>2. Cardinality(Pops(i) \ {r}) = Cardinality(Pops(i)) - 1
          BY <1>0, <4>1, FS_RemoveElement
        <4>. QED
          BY <4>1, <4>2
      <3>2. Filled(i) = 1 /\ Filled(i)' = 0 /\ buf'[i] = NoVal
        BY <2>1, <2>3 DEF Filled, DataTypeOK
      <3>3. Balanced(i, gaveUp)'
        BY <1>0, <1>b, <2>1, <3>1, <3>2 DEF Balanced
      <3>. QED
        BY <3>3
    <2>4. CASE idx[r] # i
      <3>1. Pops(i)' = Pops(i) /\ buf'[i] = buf[i]
        BY <1>0, <2>1, <2>2, <2>4 DEF DataTypeOK
      <3>2. Balanced(i, gaveUp)'
        BY <1>b, <2>1, <3>1 DEF Balanced, Filled
      <3>. QED
        BY <3>2
    <2>. QED
      BY <2>3, <2>4
  <1>3. CASE FindClosed(r)
    <2>1. /\ UNCHANGED <<start, end, idx, buf>> /\ buf[idx[r]] = NoVal /\ nWriters = 0
      BY <1>3, LiveIsCounted DEF FindClosed, EmptyHeld, HasWriters
    <2>2. Pops(i)' = Pops(i) \ {r} /\ (r \in Pops(i) <=> idx[r] = i)
      BY <1>3 DEF FindClosed, Pops, PopPCs, PCTypeOK
    <2>3. CASE idx[r] = i
      <3>1. Cardinality(Pops(i)') = Cardinality(Pops(i)) - 1
        <4>1. r \in Pops(i) /\ Pops(i)' = Pops(i) \ {r}
          BY <2>2, <2>3
        <4>2. Cardinality(Pops(i) \ {r}) = Cardinality(Pops(i)) - 1
          BY <1>0, <4>1, FS_RemoveElement
        <4>. QED
          BY <4>1, <4>2
      <3>2. Balanced(i, gaveUp + 1)'
        BY <1>0, <1>b, <2>1, <2>3, <3>1 DEF Balanced, Filled
      <3>. QED
        BY <3>2
    <2>4. CASE idx[r] # i
      <3>1. Pops(i)' = Pops(i)
        BY <2>2, <2>4
      <3>2. Balanced(i, gaveUp)'
        BY <1>b, <2>1, <3>1 DEF Balanced, Filled
      <3>. QED
        BY <3>2
    <2>. QED
      BY <2>3, <2>4
  <1>4. CASE ~ClaimStart(r) /\ ~Take(r) /\ ~FindClosed(r)
    <2>1. Balanced(i, gaveUp)'
      BY <1>4, <1>a, <1>b, ReaderKeepsTickets, TicketsKept
    <2>. QED
      BY <2>1
  <1>. QED
    BY <1>1, <1>2, <1>3, <1>4

\* A push's ticket is used when it puts; while it has one no pop has given up.
LEMMA TicketsBystander ==
  ASSUME PCTypeOK, ControlTypeOK, DataTypeOK, HeldIsFresh, WriterSlots, WritersCounted,
         cap = Cap, FirstFlags, NEW w \in Writers, Bystander(w),
         NEW i \in 0..(Cap - 1), NEW gaveUp \in Nat, Balanced(i, gaveUp)
  PROVE  Balanced(i, gaveUp)'
  <1>0. /\ IsFiniteSet(Pushes(i)) /\ Cardinality(Pops(i)) \in Nat
        /\ Cardinality(Pushes(i)) \in Nat /\ i \in Slots /\ start \in Nat /\ end \in Nat
        /\ Cardinality(TicketsOf(start, i)) \in Nat /\ Cardinality(TicketsOf(end, i)) \in Nat
    <2>1. IsFiniteSet(Pops(i)) /\ IsFiniteSet(Pushes(i))
      BY FiniteHandles, FS_Subset DEF Pops, Pushes
    <2>2. start \in Nat /\ end \in Nat
      BY DEF ControlTypeOK
    <2>. QED
      BY <2>1, <2>2, FS_CardinalityType, TicketsGrow DEF Slots
  <1>a. pc[w] \in LivePCs => gaveUp = 0
    <2>1. pc[w] \in LivePCs => nWriters # 0
      BY LiveIsCounted DEF LiveWriters
    <2>. QED
      BY <2>1 DEF Balanced
  <1>b. KeepsReaders
    BY BystanderFrame
  <1>1. CASE ClaimEnd(w)
    <2>0. gaveUp = 0
      BY <1>1, <1>a DEF ClaimEnd, LivePCs, WriterPCs, HandlePCs, WakePCs
    <2>1. UNCHANGED <<buf, start>> /\ end' = end + 1 /\ w \notin Pushes(i) /\ Pops(i)' = Pops(i)
      BY <1>1 DEF ClaimEnd, Pushes, Pops, PutPCs, RequestPCs, ResizerPCs, ScanPCs, PCTypeOK,
        ControlTypeOK
    <2>2. Pushes(i)' = IF end % Cap = i THEN Pushes(i) \cup {w} ELSE Pushes(i)
      <3>1. idx' = [idx EXCEPT ![w] = end % Cap] /\ pc' = [pc EXCEPT ![w] = "put"]
        BY <1>1 DEF ClaimEnd, FirstFlags
      <3>2. pc[w] \notin PutPCs /\ pc'[w] \in PutPCs
        BY <1>1, <3>1 DEF ClaimEnd, PutPCs, RequestPCs, ResizerPCs, ScanPCs, PCTypeOK
      <3>. QED
        BY <3>1, <3>2 DEF Pushes, PCTypeOK, ControlTypeOK
    <2>3. Cardinality(Pushes(i)') = Cardinality(Pushes(i)) + (IF end % Cap = i THEN 1 ELSE 0)
      <3>1. Cardinality(Pushes(i) \cup {w}) = Cardinality(Pushes(i)) + 1
        BY <1>0, <2>1, FS_AddElement
      <3>2. CASE end % Cap = i
        BY <2>2, <3>1, <3>2
      <3>3. CASE end % Cap # i
        BY <1>0, <2>2, <3>3
      <3>. QED
        BY <3>2, <3>3
    <2>4. Cardinality(TicketsOf(end + 1, i)) =
            Cardinality(TicketsOf(end, i)) + (IF end % Cap = i THEN 1 ELSE 0)
      BY <1>0, TicketsGrow
    <2>. QED
      BY <1>0, <2>0, <2>1, <2>3, <2>4 DEF Balanced, Filled
  <1>2. CASE PutValue(w)
    <2>0. gaveUp = 0
      BY <1>2, <1>a DEF PutValue, LivePCs, WriterPCs, HandlePCs, WakePCs
    <2>1. /\ UNCHANGED <<start, end, idx>> /\ buf' = [buf EXCEPT ![idx[w]] = Value(w)]
          /\ buf[idx[w]] = NoVal /\ idx[w] \in Slots /\ Pops(i)' = Pops(i)
      BY <1>2 DEF PutValue, Pops, WriterSlots, Stale, Slots, PCTypeOK
    <2>2. Pushes(i)' = Pushes(i) \ {w} /\ (w \in Pushes(i) <=> idx[w] = i)
      BY <1>2 DEF PutValue, Pushes, PutPCs, RequestPCs, ResizerPCs, ScanPCs, PCTypeOK
    <2>3. CASE idx[w] = i
      <3>1. Cardinality(Pushes(i)') = Cardinality(Pushes(i)) - 1
        <4>1. w \in Pushes(i) /\ Pushes(i)' = Pushes(i) \ {w}
          BY <2>2, <2>3
        <4>2. Cardinality(Pushes(i) \ {w}) = Cardinality(Pushes(i)) - 1
          BY <1>0, <4>1, FS_RemoveElement
        <4>. QED
          BY <4>1, <4>2
      <3>2. Filled(i) = 0 /\ Filled(i)' = 1
        <4>1. buf'[i] = Value(w)
          BY <2>1, <2>3 DEF DataTypeOK
        <4>2. Value(w) # NoVal
          BY <1>2, PutNotNone
        <4>. QED
          BY <2>1, <2>3, <4>1, <4>2 DEF Filled
      <3>. QED
        BY <1>0, <2>0, <2>1, <3>1, <3>2 DEF Balanced
    <2>4. CASE idx[w] # i
      <3>1. Pushes(i)' = Pushes(i) /\ buf'[i] = buf[i]
        BY <1>0, <2>1, <2>2, <2>4 DEF DataTypeOK
      <3>. QED
        BY <2>0, <2>1, <3>1 DEF Balanced, Filled
    <2>. QED
      BY <2>3, <2>4
  <1>3. CASE ~ClaimEnd(w) /\ ~PutValue(w)
    <2>1. KeepsTickets /\ KeepsPushes
      <3>1. CASE Push(w)
        BY <3>1 DEF Push, PCTypeOK, KeepsTickets, KeepsPushes, PopPCs, PutPCs, RequestPCs,
          ResizerPCs, ScanPCs
      <3>2. CASE ~Push(w)
        BY <1>3, <3>2, BystanderKeepsPlaces DEF KeepsPlaces
      <3>. QED
        BY <3>1, <3>2
    <2>2. UNCHANGED nWriters \/ gaveUp = 0
      <3>1. CASE DropWriter(w) \/ \E c \in Writers : CloneWriter(w, c) \/ CountWriter(w, c)
        BY <3>1, <1>a DEF DropWriter, CloneWriter, CountWriter, LivePCs, WriterPCs, HandlePCs,
          WakePCs
      <3>2. CASE ~(DropWriter(w) \/ \E c \in Writers : CloneWriter(w, c) \/ CountWriter(w, c))
        BY <3>2, BystanderKeepsCount DEF KeepsCount
      <3>. QED
        BY <3>1, <3>2
    <2>. QED
      BY <2>1, <2>2, TicketsKept
  <1>. QED
    BY <1>1, <1>2, <1>3

\* A resize changes no balance before it replaces the Vec.
LEMMA TicketsStep ==
  ASSUME IInv, NoReaderPanic, FirstInv, Counts, [Next]_vars
  PROVE  TicketsFit'
  <1>. USE DEF IInv, Exclusion, Delivery, FirstInv, FirstVec, Counts
  <1>a. cap \in Nat /\ Cap \in Nat /\ cap >= Cap /\ cap' \in Nat /\ cap' >= cap
    BY CapGrows DEF ControlTypeOK
  <1>b. cap' = Cap => cap = Cap
    BY <1>a
  <1>. SUFFICES ASSUME cap = Cap, cap' = Cap, NEW i \in 0..(Cap - 1)
                PROVE  \E n \in Nat : Balanced(i, n)'
    BY <1>b DEF TicketsFit
  <1>c. PICK gaveUp \in Nat : Balanced(i, gaveUp)
    BY DEF TicketsFit
  <1>1. ASSUME NEW r \in Readers, ReaderMove(r) PROVE \E n \in Nat : Balanced(i, n)'
    BY <1>1, <1>c, TicketsReader
  <1>2. ASSUME NEW w \in Writers, Bystander(w) PROVE \E n \in Nat : Balanced(i, n)'
    <2>1. Balanced(i, gaveUp)'
      BY <1>2, <1>c, TicketsBystander
    <2>. QED
      BY <2>1
  <1>3. ASSUME NEW w \in Writers, Resizing(w) PROVE \E n \in Nat : Balanced(i, n)'
    <2>1. ~Reallocate(w)
      <3>1. Reallocate(w) => cap' # Cap
        BY <1>a DEF Reallocate
      <3>. QED
        BY <3>1
    <2>2. KeepsTickets /\ KeepsPushes
      BY <1>3, <2>1, ResizeKeepsPlaces DEF KeepsPlaces
    <2>3. UNCHANGED nWriters
      BY <1>3, ResizeKeepsCount DEF KeepsCount
    <2>4. Balanced(i, gaveUp)'
      BY <1>c, <2>2, <2>3, TicketsKept
    <2>. QED
      BY <2>4
  <1>4. ASSUME UNCHANGED vars PROVE \E n \in Nat : Balanced(i, n)'
    <2>1. KeepsTickets /\ KeepsPushes /\ UNCHANGED nWriters
      BY <1>4 DEF KeepsTickets, KeepsPushes
    <2>2. Balanced(i, gaveUp)'
      BY <1>c, <2>1, TicketsKept
    <2>. QED
      BY <2>2
  <1>. QED
    BY <1>1, <1>2, <1>3, <1>4, NextCases

-----------------------------------------------------------------------------
(* Before the first resize: the invariant and the theorems.                *)

\* Initially no ticket is taken, and the first writers are counted.
LEMMA FirstVecInit == Init => FirstInv /\ Counts
  <1>. SUFFICES ASSUME Init PROVE FirstInv /\ Counts
    OBVIOUS
  <1>1. FirstFlags /\ cap = Cap
    BY DEF Init, InitQueue, FirstFlags, IdlePCs, BusyPCs, AskingPCs
  <1>2. NoLoss
    BY DEF Init, InitQueue, NoLoss
  <1>3. LiveWriters = FirstWriters /\ Cloning = {} /\ Born = {}
    BY DEF Init, InitQueue, LiveWriters, Cloning, Born, LivePCs, WriterPCs, HandlePCs, WakePCs
  <1>4. WritersCounted
    BY <1>3 DEF Init, InitQueue, WritersCounted
  <1>5. EmptyHeld
    BY DEF Init, InitQueue, EmptyHeld
  <1>6. ASSUME NEW i \in 0..(Cap - 1) PROVE Balanced(i, 0)
    <2>1. Pops(i) = {} /\ Pushes(i) = {}
      BY DEF Init, InitQueue, Pops, Pushes, PopPCs, PutPCs, RequestPCs, ResizerPCs, ScanPCs
    <2>2. Cardinality(Pops(i)) = 0 /\ Cardinality(Pushes(i)) = 0
      BY <2>1, FS_EmptySet
    <2>3. Filled(i) = 0 /\ start = 0 /\ end = 0
      BY DEF Init, InitQueue, Filled
    <2>4. Cardinality(TicketsOf(0, i)) \in Nat
      BY TicketsGrow
    <2>. QED
      BY <2>2, <2>3, <2>4 DEF Balanced
  <1>7. TicketsFit
    BY <1>6 DEF TicketsFit
  <1>. QED
    BY <1>1, <1>2, <1>4, <1>5, <1>7 DEF FirstInv, FirstVec, NoLossBeforeResize, Counts

\* Every step keeps the counts in step with the places.
LEMMA FirstCountsStep ==
  ASSUME IInv, NoReaderPanic, FirstInv, Counts, [Next]_vars
  PROVE  Counts'
  <1>1. WritersCounted'
    BY CountStep DEF IInv, Exclusion, Counts
  <1>2. EmptyHeld'
    BY EmptyHeldStep DEF Counts
  <1>3. TicketsFit'
    BY TicketsStep
  <1>. QED
    BY <1>1, <1>2, <1>3 DEF Counts

\* The inductive invariant of the first Vec, for any number of writers and readers.
THEOREM FirstVecInvariant == Spec => [](FirstInv /\ Counts)
  <1>1. Init => FirstInv /\ Counts
    BY FirstVecInit
  <1>2. IInv /\ NoReaderPanic /\ FirstInv /\ Counts /\ [Next]_vars => (FirstInv /\ Counts)'
    BY FirstStep, FirstCountsStep
  <1>. QED
    BY <1>1, <1>2, DeliveryInvariant, ReadersNeverPanic, PTL DEF Spec

\* Before the first resize no value that was pushed is lost.
THEOREM NothingLostBeforeResize == Spec => []NoLossBeforeResize
  <1>1. FirstInv => NoLossBeforeResize
    BY DEF FirstInv
  <1>. QED
    BY <1>1, FirstVecInvariant, PTL

\* Only FindClosed counts a result NoWriters.
LEMMA ClosedByFindClosed ==
  ASSUME ControlTypeOK, [Next]_vars, NEW r \in Readers, closed'[r] # closed[r]
  PROVE  FindClosed(r)
  <1>1. ASSUME NEW q \in Readers, ReaderMove(q), ~FindClosed(q) PROVE UNCHANGED closed
    BY <1>1 DEF ReaderMove, ReaderClient, ReaderStep, PopStep, PopFront, EnterRead, ClaimStart,
      FindEmpty, Take, WritersRemain, Sleep, SpuriousWake, NotifyTaken, CountTaken, LeaveRead,
      DropReader, RemoveReader, CloneReader, CountReader
  <1>2. ASSUME NEW q \in Readers, FindClosed(q), q # r PROVE FALSE
    BY <1>2 DEF FindClosed, ControlTypeOK
  <1>3. ASSUME NEW w \in Writers, Bystander(w) PROVE UNCHANGED closed
    BY <1>3 DEF Bystander, WriterClient, PushStep, DropStep, Push, EnterWrite, PanicEnter, LoadLen, ClaimEnd,
      PutValue, FindFull, PutStale, NotifyPut, FreeWriter, CountPut, LoadAction, MarkRequest,
      LoadStatus, LoseStatus, SeeActive, RestoreAction, DropWriter, RemoveWriter, EnterWake,
      LoadStart, LoadReaders, WakeSlot, LeaveWake, CloneWriter, CountWriter
  <1>4. ASSUME NEW w \in Writers, Resizing(w) PROVE UNCHANGED closed
    BY <1>4 DEF Resizing, WinStatus, LockReaders, LockWriters, BlockHandle, NoticeRequest,
      PanicScan, Reallocate, RestoreHandle, Activate, Unlock, UnlockWriters, UnlockReaders
  <1>5. ASSUME UNCHANGED vars PROVE UNCHANGED closed
    BY <1>5
  <1>. QED
    BY <1>1, <1>2, <1>3, <1>4, <1>5, NextCases

\* A pop that gives up has a ticket for an empty slot that no push has: so pops have
\* taken more tickets than pushes, and each full slot has a pop that waits for it.
LEMMA ClosedStep ==
  ASSUME IInv, Counts, [Next]_vars, NEW r \in Readers, cap = Cap, closed'[r] # closed[r]
  PROVE  NothingLeft(r) /\ \A w \in Writers : NoSender(w)
  <1>. USE DEF IInv, Exclusion, Counts
  <1>1. FindClosed(r)
    BY ClosedByFindClosed
  <1>2. /\ pc[r] = "check" /\ buf[idx[r]] = NoVal /\ idx[r] \in Slots /\ Slots = 0..(Cap - 1)
        /\ LiveWriters = {} /\ \A w \in Writers : NoSender(w)
    <2>1. pc[r] = "check" /\ ~HasWriters
      BY <1>1 DEF FindClosed
    <2>2. buf[idx[r]] = NoVal /\ idx[r] \in Slots /\ Slots = 0..(Cap - 1)
      BY <2>1 DEF EmptyHeld, ReaderSlots, SlotPCs, Slots
    <2>. QED
      BY <2>1, <2>2, LiveIsCounted DEF HasWriters
  <1>3. start \in Nat /\ end \in Nat
    BY DEF ControlTypeOK
  <1>4. \A i : /\ IsFiniteSet(Pops(i)) /\ Cardinality(Pops(i)) \in Nat
               /\ Pops(i) # {} <=> Cardinality(Pops(i)) # 0
    <2>1. \A i : IsFiniteSet(Pops(i))
      BY FiniteHandles, FS_Subset DEF Pops
    <2>. QED
      BY <2>1, FS_CardinalityType, FS_EmptySet
  <1>5. \A i : Cardinality(Pushes(i)) = 0
    <2>1. \A i : Pushes(i) = {}
      BY <1>2 DEF Pushes, LiveWriters, LivePCs, WriterPCs, HandlePCs, WakePCs, PutPCs, RequestPCs,
        ResizerPCs, ScanPCs
    <2>. QED
      BY <2>1, FS_EmptySet
  <1>6. end < start
    <2>1. PICK gaveUp \in Nat : Balanced(idx[r], gaveUp)
      BY <1>2 DEF TicketsFit
    <2>2. r \in Pops(idx[r])
      BY <1>2 DEF Pops, PopPCs
    <2>3. Cardinality(Pops(idx[r])) \in Nat /\ Cardinality(Pops(idx[r])) # 0
      BY <1>4, <2>2
    <2>4. /\ Cardinality(TicketsOf(start, idx[r])) \in Nat
          /\ Cardinality(TicketsOf(end, idx[r])) \in Nat
          /\ start <= end =>
               Cardinality(TicketsOf(start, idx[r])) <= Cardinality(TicketsOf(end, idx[r]))
      BY <1>3, TicketsGrow
    <2>5. /\ Cardinality(Pops(idx[r])) + gaveUp + Cardinality(TicketsOf(end, idx[r])) =
               Cardinality(TicketsOf(start, idx[r])) + Cardinality(Pushes(idx[r])) + 0
      BY <1>2, <2>1 DEF Balanced, Filled
    <2>6. Cardinality(Pushes(idx[r])) = 0
      BY <1>5
    <2>. QED
      BY <1>3, <2>3, <2>4, <2>5, <2>6
  <1>7. ASSUME NEW i \in Slots, buf[i] # NoVal PROVE Claimed(i, r)
    <2>1. PICK gaveUp \in Nat : Balanced(i, gaveUp)
      BY <1>2 DEF TicketsFit
    <2>2. /\ Cardinality(TicketsOf(start, i)) \in Nat /\ Cardinality(TicketsOf(end, i)) \in Nat
          /\ Cardinality(TicketsOf(end, i)) <= Cardinality(TicketsOf(start, i))
      BY <1>3, <1>6, TicketsGrow
    <2>3. gaveUp = 0 /\ Filled(i) = 1 /\ Cardinality(Pushes(i)) = 0
      BY <1>5, <1>7, <2>1 DEF Balanced, Filled
    <2>4. Cardinality(Pops(i)) # 0
      BY <1>4, <2>1, <2>2, <2>3 DEF Balanced
    <2>5. PICK q \in Readers : pc[q] \in PopPCs /\ idx[q] = i
      BY <1>4, <2>4 DEF Pops
    <2>. QED
      BY <1>2, <1>7, <2>5 DEF Claimed, PopPCs
  <1>. QED
    BY <1>2, <1>7 DEF NothingLeft

\* Before the first resize NoWriters is the last word: nothing is in the queue that no
\* pop has claimed, and no sender can come.
THEOREM ClosedIsTheLastWord == Spec => ClosedIsFinal
  <1>1. IInv /\ FirstInv /\ Counts /\ [Next]_vars =>
          [\A r \in Readers : cap = Cap /\ closed'[r] # closed[r] =>
             NothingLeft(r) /\ \A w \in Writers : NoSender(w)]_vars
    BY ClosedStep
  <1>. QED
    BY <1>1, DeliveryInvariant, FirstVecInvariant, PTL DEF Spec, ClosedIsFinal

-----------------------------------------------------------------------------
(* One sender's order before the first resize.                             *)

\* InOrder is about the sends, the tickets of the pushes and the values in the slots.
LEMMA OrderKept ==
  ASSUME cap = Cap, cap' = Cap, InOrder, KeepsSends, KeepsPushes,
         \A i \in Slots : buf'[i] = NoVal \/ buf'[i] = buf[i]
  PROVE  InOrder'
  <1>1. SendsInOrder'
    BY DEF InOrder, SendsInOrder, Entering, KeepsSends
  <1>2. PutsInOrder'
    BY DEF InOrder, PutsInOrder, KeepsSends, KeepsPushes
  <1>3. \A i : Pushes(i)' = Pushes(i)
    BY DEF Pushes, KeepsPushes
  <1>4. SlotsInOrder'
    BY <1>3 DEF InOrder, SlotsInOrder, LastPut, Slots, KeepsSends
  <1>. QED
    BY <1>1, <1>2, <1>4 DEF InOrder

\* A push begins the next send ...
LEMMA OrderPush ==
  ASSUME OneWriter, PCTypeOK, DataTypeOK, cap = Cap, InOrder, NEW w \in Writers, Push(w)
  PROVE  InOrder'
  <1>1. /\ UNCHANGED <<cap, buf, end, idx>> /\ pc[w] = "idle" /\ pc' = [pc EXCEPT ![w] = "enter"]
        /\ sent' = [sent EXCEPT ![w] = sent[w] + 1] /\ sent[w] \in Nat
    BY DEF Push, DataTypeOK
  <1>2. pc'[w] = "enter" /\ sent'[w] = sent[w] + 1
    BY <1>1 DEF PCTypeOK, DataTypeOK
  <1>3. SendsInOrder'
    BY <1>1, <1>2 DEF OneWriter, InOrder, SendsInOrder, Entering
  <1>4. \A i : Pushes(i)' = Pushes(i)
    BY <1>1, <1>2 DEF OneWriter, Pushes, PutPCs, RequestPCs, ResizerPCs, ScanPCs
  <1>5. PutsInOrder'
    BY <1>2 DEF OneWriter, PutsInOrder, PutPCs, RequestPCs, ResizerPCs, ScanPCs
  <1>6. SlotsInOrder'
    BY <1>1, <1>4 DEF InOrder, SlotsInOrder, LastPut, Slots
  <1>. QED
    BY <1>3, <1>5, <1>6 DEF InOrder

\* ... its ticket is that send's ...
LEMMA OrderClaim ==
  ASSUME OneWriter, PCTypeOK, ControlTypeOK, DataTypeOK, cap = Cap, FirstFlags, InOrder,
    NEW w \in Writers, ClaimEnd(w)
  PROVE  InOrder'
  <1>1. /\ UNCHANGED <<cap, buf, sent>> /\ pc[w] = "ticket" /\ pc'[w] = "put"
        /\ end' = end + 1 /\ idx'[w] = end % Cap /\ sent[w] \in Nat /\ end \in Nat
    BY DEF ClaimEnd, PCTypeOK, ControlTypeOK, DataTypeOK, FirstFlags
  <1>2. end = sent[w] - 1
    BY <1>1 DEF InOrder, SendsInOrder, Entering
  <1>3. SendsInOrder'
    BY <1>1, <1>2 DEF OneWriter, SendsInOrder, Entering
  <1>4. PutsInOrder'
    BY <1>1, <1>2 DEF OneWriter, PutsInOrder
  <1>5. ASSUME NEW i
        PROVE  Cardinality(Pushes(i)') = Cardinality(Pushes(i)) + (IF end % Cap = i THEN 1 ELSE 0)
    <2>1. Pushes(i) = {} /\ Cardinality(Pushes(i)) = 0
      <3>1. Pushes(i) = {}
        BY <1>1 DEF OneWriter, Pushes, PutPCs, RequestPCs, ResizerPCs, ScanPCs
      <3>. QED
        BY <3>1, FS_EmptySet
    <2>2. CASE end % Cap = i
      <3>1. Pushes(i)' = {w}
        BY <1>1, <2>2 DEF OneWriter, Pushes, PutPCs
      <3>2. Cardinality({w}) = 1
        BY FS_Singleton, Zenon
      <3>. QED
        BY <2>1, <2>2, <3>1, <3>2
    <2>3. CASE end % Cap # i
      <3>1. Pushes(i)' = {}
        BY <1>1, <2>3 DEF OneWriter, Pushes
      <3>. QED
        BY <2>1, <2>3, <3>1, FS_EmptySet
    <2>. QED
      BY <2>2, <2>3
  <1>6. ASSUME NEW i \in Slots, buf[i] # NoVal PROVE LastPut(i, buf[i][2])'
    <2>1. LastPut(i, buf[i][2])
      BY <1>6 DEF InOrder, SlotsInOrder
    <2>2. Cardinality(TicketsOf(end + 1, i)) =
            Cardinality(TicketsOf(end, i)) + (IF end % Cap = i THEN 1 ELSE 0)
      BY <1>1, TicketsGrow
    <2>3. buf[i][2] \in Nat
      <3>1. buf[i] \in Values
        BY <1>6 DEF DataTypeOK
      <3>. QED
        BY <3>1, ValueShape
    <2>4. Cardinality(TicketsOf(buf[i][2], i)) \in Nat /\ Cardinality(TicketsOf(end, i)) \in Nat
      BY <1>1, <2>3, TicketsGrow
    <2>5. Cardinality(Pushes(i)) \in Nat
      BY FiniteHandles, FS_Subset, FS_CardinalityType DEF Pushes
    <2>. QED
      BY <1>1, <1>5, <2>1, <2>2, <2>4, <2>5 DEF LastPut
  <1>7. SlotsInOrder'
    BY <1>1, <1>6 DEF SlotsInOrder, Slots
  <1>. QED
    BY <1>3, <1>4, <1>7 DEF InOrder

\* ... and its value is the last one put into its slot.
LEMMA OrderPut ==
  ASSUME OneWriter, PCTypeOK, ControlTypeOK, DataTypeOK, WriterSlots, cap = Cap, InOrder,
    NEW w \in Writers, PutValue(w)
  PROVE  InOrder'
  <1>1. /\ UNCHANGED <<cap, end, sent, idx>> /\ pc[w] = "put" /\ pc'[w] = "notify"
        /\ buf' = [buf EXCEPT ![idx[w]] = <<w, sent[w]>>] /\ idx[w] \in Slots
        /\ sent[w] \in Nat /\ end \in Nat
    BY DEF PutValue, PCTypeOK, ControlTypeOK, DataTypeOK, Value, WriterSlots, Stale, Slots
  <1>2. end = sent[w] /\ idx[w] = (sent[w] - 1) % Cap
    BY <1>1 DEF InOrder, SendsInOrder, PutsInOrder, Entering, PutPCs
  <1>3. SendsInOrder'
    BY <1>1, <1>2 DEF OneWriter, SendsInOrder, Entering
  <1>4. PutsInOrder'
    BY <1>1 DEF OneWriter, PutsInOrder, PutPCs, RequestPCs, ResizerPCs, ScanPCs
  <1>5. ASSUME NEW i PROVE Cardinality(Pushes(i)') = 0
    <2>1. Pushes(i)' = {}
      BY <1>1 DEF OneWriter, Pushes, PutPCs, RequestPCs, ResizerPCs, ScanPCs
    <2>. QED
      BY <2>1, FS_EmptySet
  <1>6. ASSUME NEW i \in Slots, buf'[i] # NoVal PROVE LastPut(i, buf[i][2])'
    <2>1. CASE i = idx[w]
      <3>1. buf'[i][2] = sent[w]
        BY <1>1, <2>1 DEF DataTypeOK
      <3>2. Cardinality(TicketsOf(end, i)) \in Nat
        BY <1>1, TicketsGrow
      <3>. QED
        BY <1>1, <1>2, <1>5, <2>1, <3>1, <3>2 DEF LastPut
    <2>2. CASE i # idx[w]
      <3>1. buf'[i] = buf[i]
        BY <1>1, <2>2 DEF DataTypeOK
      <3>2. LastPut(i, buf[i][2])
        BY <1>6, <3>1 DEF InOrder, SlotsInOrder
      <3>3. Pushes(i) = {}
        BY <2>2 DEF OneWriter, Pushes
      <3>4. Cardinality(Pushes(i)) = 0
        BY <3>3, FS_EmptySet
      <3>. QED
        BY <1>1, <1>5, <3>1, <3>2, <3>4 DEF LastPut
    <2>. QED
      BY <2>1, <2>2
  <1>7. SlotsInOrder'
    BY <1>1, <1>6 DEF SlotsInOrder, Slots
  <1>. QED
    BY <1>3, <1>4, <1>7 DEF InOrder

\* So every step of the one writer and of the readers keeps the order.
LEMMA OrderStep ==
  ASSUME OneWriter, IInv, NoReaderPanic, FirstInv, InOrder, [Next]_vars
  PROVE  InOrder'
  <1>. USE DEF IInv, Exclusion, Delivery, FirstInv, FirstVec
  <1>a. cap \in Nat /\ Cap \in Nat /\ cap >= Cap /\ cap' \in Nat /\ cap' >= cap
    BY CapGrows DEF ControlTypeOK
  <1>b. cap' = Cap => cap = Cap
    BY <1>a
  <1>. SUFFICES ASSUME cap = Cap, cap' = Cap PROVE InOrder'
    BY <1>b DEF InOrder
  <1>1. ASSUME NEW r \in Readers, ReaderMove(r) PROVE InOrder'
    <2>1. KeepsPushes /\ KeepsWriters
      BY <1>1, ReaderKeepsCount, ReaderKeepsWriters
    <2>2. UNCHANGED <<sent, end>>
      BY <1>1 DEF ReaderMove, ReaderClient, ReaderStep, PopStep, PopFront, EnterRead, ClaimStart,
        FindEmpty, Take, WritersRemain, FindClosed, Sleep, SpuriousWake, NotifyTaken, CountTaken,
        LeaveRead, DropReader, RemoveReader, CloneReader, CountReader
    <2>3. \A i \in Slots : buf'[i] = NoVal \/ buf'[i] = buf[i]
      <3>1. CASE Take(r)
        BY <3>1 DEF Take, DataTypeOK
      <3>2. CASE ~Take(r)
        BY <1>1, <3>2, ReaderKeepsData DEF KeepsData
      <3>. QED
        BY <3>1, <3>2
    <2>. QED
      BY <2>1, <2>2, <2>3, OrderKept DEF KeepsSends, KeepsWriters
  <1>2. ASSUME NEW w \in Writers, Bystander(w) PROVE InOrder'
    <2>1. CASE Push(w) \/ ClaimEnd(w) \/ PutValue(w)
      BY <2>1, OrderPush, OrderClaim, OrderPut
    <2>2. CASE ~Push(w) /\ ~ClaimEnd(w) /\ ~PutValue(w)
      <3>1. KeepsSends /\ KeepsPushes /\ UNCHANGED buf
        BY <1>2, <2>2, BystanderKeepsPlaces DEF KeepsPlaces, KeepsTickets
      <3>. QED
        BY <3>1, OrderKept
    <2>. QED
      BY <2>1, <2>2
  <1>3. ASSUME NEW w \in Writers, Resizing(w) PROVE InOrder'
    <2>1. ~Reallocate(w)
      <3>1. Reallocate(w) => cap' # Cap
        BY <1>a DEF Reallocate
      <3>. QED
        BY <3>1
    <2>2. KeepsSends /\ KeepsPushes /\ UNCHANGED buf
      BY <1>3, <2>1, ResizeKeepsPlaces DEF KeepsPlaces, KeepsTickets
    <2>. QED
      BY <2>2, OrderKept
  <1>4. ASSUME UNCHANGED vars PROVE InOrder'
    <2>1. KeepsSends /\ KeepsPushes /\ UNCHANGED buf
      BY <1>4 DEF KeepsSends, KeepsPushes
    <2>. QED
      BY <2>1, OrderKept
  <1>. QED
    BY <1>1, <1>2, <1>3, <1>4, NextCases

\* Initially nothing was sent.
LEMMA OrderInit == Init => InOrder
  <1>. SUFFICES ASSUME Init PROVE InOrder
    OBVIOUS
  <1>1. SendsInOrder
    BY DEF Init, InitQueue, SendsInOrder, Entering
  <1>2. PutsInOrder
    BY DEF Init, InitQueue, PutsInOrder, PutPCs, RequestPCs, ResizerPCs, ScanPCs
  <1>3. SlotsInOrder
    BY DEF Init, InitQueue, SlotsInOrder, Slots
  <1>. QED
    BY <1>1, <1>2, <1>3 DEF InOrder

\* A pop that takes value n of slot j has a ticket not before n's: so tickets for every
\* slot of an earlier value are taken too, and a slot that is full has a pop waiting.
LEMMA TakeInOrder ==
  ASSUME IInv, Counts, InOrder, cap = Cap, NEW r \in Readers, Take(r),
         NEW i \in Slots, buf[i] # NoVal, buf[i][2] < buf[idx[r]][2]
  PROVE  Claimed(i, r)
  <1>. USE DEF IInv, Exclusion, Delivery, Counts
  <1>. DEFINE j == idx[r]
              n == buf[j][2]
              m == buf[i][2]
  <1>1. /\ j \in Slots /\ buf[j] # NoVal /\ Slots = 0..(Cap - 1) /\ r \in Pops(j)
        /\ start \in Nat /\ end \in Nat
    BY DEF Take, ReaderSlots, SlotPCs, Slots, Pops, PopPCs, ControlTypeOK
  <1>2. n \in Nat /\ n > 0 /\ m \in Nat /\ m < n
    <2>1. buf[j] \in Values /\ buf[i] \in Values
      BY <1>1 DEF DataTypeOK
    <2>2. n \in Nat /\ m \in Nat
      BY <2>1, ValueShape
    <2>. QED
      BY <2>2
  <1>3. LastPut(j, n) /\ LastPut(i, m)
    BY <1>1 DEF InOrder, SlotsInOrder
  <1>4. \A k : /\ IsFiniteSet(Pops(k)) /\ Cardinality(Pops(k)) \in Nat
               /\ Pops(k) # {} <=> Cardinality(Pops(k)) # 0
               /\ Cardinality(Pushes(k)) \in Nat
    <2>1. \A k : IsFiniteSet(Pops(k)) /\ IsFiniteSet(Pushes(k))
      BY FiniteHandles, FS_Subset DEF Pops, Pushes
    <2>. QED
      BY <2>1, FS_CardinalityType, FS_EmptySet
  <1>5. ASSUME NEW k \in Slots, buf[k] # NoVal
        PROVE  Cardinality(Pops(k)) + Cardinality(TicketsOf(end, k)) =
                 Cardinality(TicketsOf(start, k)) + Cardinality(Pushes(k)) + 1
    <2>1. PICK gaveUp \in Nat : Balanced(k, gaveUp)
      BY <1>1 DEF TicketsFit
    <2>2. gaveUp = 0 /\ Filled(k) = 1
      BY <1>5, <2>1 DEF Balanced, Filled
    <2>. QED
      BY <1>4, <2>1, <2>2 DEF Balanced
  <1>. HIDE DEF n, m, j
  <1>6. \A k : \A x \in Nat : Cardinality(TicketsOf(x, k)) \in Nat
    BY TicketsGrow
  <1>7. Cardinality(TicketsOf(start, j)) >= Cardinality(TicketsOf(n, j))
    <2>1. Cardinality(Pops(j)) \in Nat /\ Cardinality(Pops(j)) # 0
      BY <1>1, <1>4
    <2>2. Cardinality(Pops(j)) + Cardinality(TicketsOf(end, j)) =
            Cardinality(TicketsOf(start, j)) + Cardinality(Pushes(j)) + 1
      BY <1>1, <1>5
    <2>3. Cardinality(TicketsOf(end, j)) = Cardinality(TicketsOf(n, j)) + Cardinality(Pushes(j))
      BY <1>3 DEF LastPut
    <2>4. /\ Cardinality(Pushes(j)) \in Nat /\ Cardinality(TicketsOf(end, j)) \in Nat
          /\ Cardinality(TicketsOf(start, j)) \in Nat /\ Cardinality(TicketsOf(n, j)) \in Nat
      BY <1>1, <1>2, <1>4, <1>6
    <2>. QED
      BY <2>1, <2>2, <2>3, <2>4
  <1>8. start >= n
    <2>1. n - 1 \in Nat /\ (n - 1) + 1 = n /\ (n - 1) % Cap = j
      BY <1>2, <1>3 DEF LastPut
    <2>2. Cardinality(TicketsOf(n, j)) = Cardinality(TicketsOf(n - 1, j)) + 1
      BY <2>1, TicketsGrow
    <2>3. start <= n - 1 =>
            Cardinality(TicketsOf(start, j)) <= Cardinality(TicketsOf(n - 1, j))
      BY <1>1, <2>1, TicketsGrow
    <2>4. Cardinality(TicketsOf(start, j)) \in Nat /\ Cardinality(TicketsOf(n - 1, j)) \in Nat
      BY <1>1, <1>6, <2>1
    <2>. QED
      BY <1>1, <1>2, <1>7, <2>2, <2>3, <2>4
  <1>9. Pops(i) # {}
    <2>1. Cardinality(TicketsOf(m, i)) <= Cardinality(TicketsOf(start, i))
      BY <1>1, <1>2, <1>8, TicketsGrow
    <2>2. Cardinality(Pops(i)) + Cardinality(TicketsOf(end, i)) =
            Cardinality(TicketsOf(start, i)) + Cardinality(Pushes(i)) + 1
      BY <1>5
    <2>3. Cardinality(TicketsOf(end, i)) = Cardinality(TicketsOf(m, i)) + Cardinality(Pushes(i))
      BY <1>3 DEF LastPut
    <2>4. /\ Cardinality(Pushes(i)) \in Nat /\ Cardinality(TicketsOf(end, i)) \in Nat
          /\ Cardinality(TicketsOf(start, i)) \in Nat /\ Cardinality(TicketsOf(m, i)) \in Nat
      BY <1>1, <1>2, <1>4, <1>6
    <2>5. Cardinality(Pops(i)) # 0
      BY <2>1, <2>2, <2>3, <2>4
    <2>. QED
      BY <1>4, <2>5
  <1>10. PICK q \in Readers : pc[q] \in PopPCs /\ idx[q] = i
    BY <1>9 DEF Pops
  <1>11. i # j
    BY <1>2 DEF n, m
  <1>. QED
    BY <1>10, <1>11 DEF Claimed, PopPCs, j

\* Before the first resize one sender's values are taken in the order they were sent,
\* but for those that another pop has claimed already.
THEOREM OneSendersOrder ==
  ASSUME OneWriter
  PROVE  Spec => OrderBeforeResize
  <1>1. OneWriter /\ IInv /\ NoReaderPanic /\ FirstInv /\ InOrder /\ [Next]_vars => InOrder'
    BY OrderStep
  <1>2. IInv /\ Counts /\ InOrder /\ [Next]_vars =>
          [cap = Cap => \A r \in Readers : \A v \in received' \ received : Take(r) =>
             \A i \in Slots : buf[i] # NoVal /\ buf[i][1] = v[1] /\ buf[i][2] < v[2] =>
               Claimed(i, r)]_vars
    <2>1. SUFFICES ASSUME IInv, Counts, InOrder, cap = Cap,
                          NEW r \in Readers, NEW v \in received' \ received, Take(r),
                          NEW i \in Slots, buf[i] # NoVal, buf[i][2] < v[2]
                   PROVE  Claimed(i, r)
      OBVIOUS
    <2>2. v = buf[idx[r]]
      BY <2>1 DEF Take
    <2>. QED
      BY <2>1, <2>2, TakeInOrder
  <1>. QED
    BY <1>1, <1>2, OrderInit, DeliveryInvariant, ReadersNeverPanic, FirstVecInvariant, PTL
    DEF Spec, OrderBeforeResize
-----------------------------------------------------------------------------
(* The first resize: it finds every writer of the map outside the Vec.     *)

\* A writer that is not in the map has no handle, or is dropping it.
WritersInMap == \A w \in Writers : w \notin writers => pc[w] \in {"none", "gone"} \cup WakePCs
\* The writers whose flags a resizer has saved are blocked; of those in the map it
\* leaves out none.
WritersBlocked ==
  /\ \A u, w \in Writers : saved[u][w] # NoAction => action[w] = "ExternallyBlocked"
  /\ \A u \in Writers : pc[u] = "scan" => \A v \in writers : v \in todo[u] \/ saved[u][v] # NoAction
  /\ \A u \in Writers : pc[u] = "realloc" => \A v \in writers : saved[u][v] # NoAction
Blocked == WritersInMap /\ WritersBlocked
FirstBlocked == cap = Cap => Blocked

\* What readers and stuttering steps leave alone.
LEMMA BlockedKept ==
  ASSUME Blocked, KeepsWriters, UNCHANGED <<writers, todo>>
  PROVE  Blocked'
  BY DEF Blocked, WritersInMap, WritersBlocked, KeepsWriters

\* A writer moves, and where its flag is blocked it leaves it so.
OwnMove(w) ==
  /\ UNCHANGED <<writers, saved, todo>>
  /\ \A v \in Writers \ {w} : pc'[v] = pc[v] /\ action'[v] = action[v]
  /\ action[w] = "ExternallyBlocked" => action'[w] = "ExternallyBlocked"
  /\ pc'[w] \notin {"scan", "realloc"}
  /\ pc'[w] \notin {"none", "gone"} \cup WakePCs => pc[w] \notin {"none", "gone"} \cup WakePCs
LEMMA BlockedMove ==
  ASSUME Blocked, NEW w \in Writers, OwnMove(w)
  PROVE  Blocked'
  <1>1. WritersInMap'
    BY DEF Blocked, WritersInMap, OwnMove
  <1>2. WritersBlocked'
    BY DEF Blocked, WritersBlocked, OwnMove
  <1>. QED
    BY <1>1, <1>2 DEF Blocked

\* So does every writer but one that resizes, and one that enters or leaves the map: its
\* flag says where it is.
LEMMA BystanderMove ==
  ASSUME PCTypeOK, ControlTypeOK, FirstFlags, NEW w \in Writers, Bystander(w),
         ~RemoveWriter(w), \A c \in Writers : ~CloneWriter(w, c) /\ ~CountWriter(w, c)
  PROVE  OwnMove(w)
  <1>b. /\ pc[w] \in BusyPCs => action[w] # "ExternallyBlocked"
        /\ pc[w] \notin {"return", "retry"}
    BY DEF FirstFlags, IdlePCs, BusyPCs, AskingPCs
  <1>. USE <1>b DEF PCTypeOK, ControlTypeOK, BusyPCs, OwnMove, WakePCs
  <1>1. CASE Push(w)
    BY <1>1 DEF Push
  <1>2. CASE EnterWrite(w)
    BY <1>2 DEF EnterWrite
  <1>3. CASE PanicEnter(w) \/ LoadLen(w)
    <2>1. CASE PanicEnter(w)
      BY <2>1 DEF PanicEnter
    <2>2. CASE LoadLen(w)
      BY <2>2 DEF LoadLen
    <2>. QED
      BY <1>3, <2>1, <2>2
  <1>4. CASE ClaimEnd(w)
    BY <1>4 DEF ClaimEnd
  <1>5. CASE PutValue(w)
    BY <1>5 DEF PutValue
  <1>6. CASE FindFull(w)
    BY <1>6 DEF FindFull
  <1>7. CASE PutStale(w)
    BY <1>7 DEF PutStale
  <1>8. CASE NotifyPut(w)
    <2>1. UNCHANGED otherVars /\ pc[w] = "notify"
      BY <1>8 DEF NotifyPut
    <2>2. pc'[w] = "free" /\ \A v \in Writers \ {w} : pc'[v] = pc[v]
      BY <1>8 DEF NotifyPut, NotifyOne, GotoAndWake, Sleepers
    <2>. QED
      BY <2>1, <2>2
  <1>9. CASE FreeWriter(w)
    BY <1>9 DEF FreeWriter
  <1>10. CASE CountPut(w)
    BY <1>10 DEF CountPut
  <1>11. CASE LoadAction(w)
    BY <1>11 DEF LoadAction
  <1>12. CASE MarkRequest(w)
    BY <1>12 DEF MarkRequest
  <1>13. CASE LoadStatus(w)
    BY <1>13 DEF LoadStatus
  <1>14. CASE LoseStatus(w)
    BY <1>14 DEF LoseStatus
  <1>15. CASE SeeActive(w)
    BY <1>15 DEF SeeActive
  <1>16. CASE RestoreAction(w)
    BY <1>16 DEF RestoreAction
  <1>17. CASE DropWriter(w)
    BY <1>17 DEF DropWriter
  <1>18. CASE EnterWake(w)
    BY <1>18 DEF EnterWake
  <1>19. CASE LoadStart(w)
    BY <1>19 DEF LoadStart
  <1>20. CASE LoadReaders(w)
    BY <1>20 DEF LoadReaders
  <1>21. CASE WakeSlot(w)
    BY <1>21 DEF WakeSlot, GotoAndWake, Sleepers
  <1>22. CASE LeaveWake(w)
    BY <1>22 DEF LeaveWake
  <1>. QED
    BY <1>1, <1>2, <1>3, <1>4, <1>5, <1>6, <1>7, <1>8, <1>9, <1>10, <1>11, <1>12, <1>13,
      <1>14, <1>15, <1>16, <1>17, <1>18, <1>19, <1>20, <1>21, <1>22
    DEF Bystander, WriterClient, PushStep, DropStep

\* The map changes only while nobody holds it, so under no loop of exclusive.
LEMMA BlockedBystander ==
  ASSUME PCTypeOK, ControlTypeOK, FirstFlags, Blocked, NEW w \in Writers, Bystander(w)
  PROVE  Blocked'
  <1>1. CASE RemoveWriter(w)
    <2>1. /\ pc' = [pc EXCEPT ![w] = "wenter"] /\ writers' = writers \ {w}
          /\ UNCHANGED <<action, saved, todo>>
      BY <1>1 DEF RemoveWriter
    <2>. QED
      BY <2>1 DEF Blocked, WritersInMap, WritersBlocked, PCTypeOK, WakePCs
  <1>2. ASSUME NEW c \in Writers, CloneWriter(w, c) PROVE Blocked'
    <2>1. /\ pc' = [pc EXCEPT ![w] = "clone", ![c] = "born"] /\ writers' = writers \cup {c}
          /\ UNCHANGED <<action, saved, todo>> /\ pc[w] = "idle"
      BY <1>2 DEF CloneWriter
    <2>2. \A v \in Writers : pc[v] \notin {"scan", "realloc"}
      BY <1>2 DEF CloneWriter, WritersLocked, ScanPCs
    <2>. QED
      BY <2>1, <2>2 DEF Blocked, WritersInMap, WritersBlocked, PCTypeOK, WakePCs
  <1>3. ASSUME NEW c \in Writers, CountWriter(w, c) PROVE Blocked'
    <2>1. /\ pc' = [pc EXCEPT ![w] = "idle", ![c] = "idle"]
          /\ UNCHANGED <<writers, action, saved, todo>> /\ pc[w] = "clone" /\ pc[c] = "born"
      BY <1>3 DEF CountWriter
    <2>. QED
      BY <2>1 DEF Blocked, WritersInMap, WritersBlocked, PCTypeOK, WakePCs
  <1>4. CASE ~RemoveWriter(w) /\ \A c \in Writers : ~CloneWriter(w, c) /\ ~CountWriter(w, c)
    BY <1>4, BystanderMove, BlockedMove
  <1>. QED
    BY <1>1, <1>2, <1>3, <1>4

\* The loops of exclusive save and block one handle after the other, those of the map
\* that they hold.
LEMMA BlockedResizing ==
  ASSUME PCTypeOK, ControlTypeOK, FirstFlags, Blocked, NEW w \in Writers, Resizing(w),
         ~Reallocate(w)
  PROVE  Blocked'
  <1>. USE DEF PCTypeOK, ControlTypeOK, Blocked, WritersInMap, WritersBlocked, WakePCs
  <1>p. pc[w] \notin {"restore", "activate", "unlock", "unlockr"}
    BY DEF FirstFlags, IdlePCs, BusyPCs, AskingPCs
  <1>1. CASE WinStatus(w)
    BY <1>1 DEF WinStatus
  <1>2. CASE LockReaders(w)
    BY <1>2 DEF LockReaders
  <1>3. CASE LockWriters(w)
    <2>1. /\ pc[w] = "lockw" /\ UNCHANGED <<action, writers, saved>>
          /\ todo' = [todo EXCEPT ![w] = readers \cup writers]
      BY <1>3 DEF LockWriters, Visit, Scanned
    <2>2. \/ pc' = [pc EXCEPT ![w] = "scan"]
          \/ pc' = [pc EXCEPT ![w] = "realloc"] /\ writers = {}
      BY <1>3 DEF LockWriters, Visit, Scanned
    <2>. QED
      BY <2>1, <2>2
  <1>4. CASE BlockHandle(w)
    <2>1. /\ pc[w] = "scan" /\ UNCHANGED writers
          /\ action' = [action EXCEPT ![cur[w]] = "ExternallyBlocked"]
          /\ saved' = [saved EXCEPT ![w][cur[w]] = ex[w]]
          /\ todo' = [todo EXCEPT ![w] = todo[w] \ {cur[w]}]
          /\ ex[w] # NoAction
      BY <1>4 DEF BlockHandle, Visit, Actions, NoAction
    <2>2. \/ pc' = [pc EXCEPT ![w] = "scan"]
          \/ pc' = [pc EXCEPT ![w] = "realloc"] /\ todo'[w] = {}
      BY <1>4, <2>1 DEF BlockHandle, Visit
    <2>3. \A v \in writers : v \in todo'[w] \/ saved'[w][v] # NoAction
      BY <2>1
    <2>4. WritersInMap'
      BY <2>1, <2>2
    <2>5. \A u, v \in Writers : saved'[u][v] # NoAction => action'[v] = "ExternallyBlocked"
      BY <2>1
    <2>. QED
      BY <2>1, <2>2, <2>3, <2>4, <2>5
  <1>5. CASE NoticeRequest(w)
    BY <1>5 DEF NoticeRequest
  <1>6. CASE PanicScan(w)
    BY <1>6 DEF PanicScan
  <1>7. CASE RestoreHandle(w)
    BY <1>7, <1>p DEF RestoreHandle
  <1>8. CASE Activate(w)
    BY <1>8, <1>p DEF Activate
  <1>9. CASE Unlock(w)
    BY <1>9, <1>p DEF Unlock, UnlockWriters, UnlockReaders
  <1>. QED
    BY <1>1, <1>2, <1>3, <1>4, <1>5, <1>6, <1>7, <1>8, <1>9 DEF Resizing

\* Every step before the first resize keeps the writers blocked; the next ends that time.
LEMMA BlockedStep ==
  ASSUME IInv, FirstInv, FirstBlocked, [Next]_vars
  PROVE  FirstBlocked'
  <1>. USE DEF IInv, Exclusion, FirstInv, FirstVec
  <1>a. cap \in Nat /\ Cap \in Nat /\ cap >= Cap /\ cap' \in Nat /\ cap' >= cap
    BY CapGrows DEF ControlTypeOK
  <1>b. cap' = Cap => cap = Cap
    BY <1>a
  <1>. SUFFICES ASSUME cap = Cap, cap' = Cap PROVE Blocked'
    BY <1>b DEF FirstBlocked
  <1>c. Blocked /\ FirstFlags
    BY DEF FirstBlocked
  <1>1. ASSUME NEW r \in Readers, ReaderMove(r) PROVE Blocked'
    <2>1. KeepsWriters
      BY <1>1, ReaderKeepsWriters
    <2>2. UNCHANGED <<writers, todo>>
      BY <1>1 DEF ReaderMove, ReaderClient, ReaderStep, PopStep, PopFront, EnterRead,
        ClaimStart, FindEmpty, Take, WritersRemain, FindClosed, Sleep, SpuriousWake, NotifyTaken,
        CountTaken, LeaveRead, DropReader, RemoveReader, CloneReader, CountReader
    <2>. QED
      BY <1>c, <2>1, <2>2, BlockedKept
  <1>2. ASSUME NEW w \in Writers, Bystander(w) PROVE Blocked'
    BY <1>2, <1>c, BlockedBystander
  <1>3. ASSUME NEW w \in Writers, Resizing(w) PROVE Blocked'
    <2>1. Reallocate(w) => cap' # Cap
      BY <1>a DEF Reallocate
    <2>. QED
      BY <1>3, <1>c, <2>1, BlockedResizing
  <1>4. ASSUME UNCHANGED vars PROVE Blocked'
    <2>1. KeepsWriters /\ UNCHANGED <<writers, todo>>
      BY <1>4 DEF KeepsWriters
    <2>. QED
      BY <1>c, <2>1, BlockedKept
  <1>. QED
    BY <1>1, <1>2, <1>3, <1>4, NextCases

\* Initially the first writers are in the map and nobody resizes.
LEMMA BlockedInit == Init => FirstBlocked
  BY DEF Init, InitQueue, FirstBlocked, Blocked, WritersInMap, WritersBlocked

\* While the first resize replaces the Vec no pop and no push has a reference into it,
\* for any number of readers and of writers: a writer of the map is blocked, where its
\* flag says that it does not push, and one outside the map has no push to make.
THEOREM FirstResizeAlone == Spec => []FirstResizeExclusive
  <1>1. IInv /\ FirstInv /\ FirstBlocked /\ [Next]_vars => FirstBlocked'
    BY BlockedStep
  <1>2. IInv /\ FirstInv /\ FirstBlocked => FirstResizeExclusive
    <2>. SUFFICES ASSUME IInv, FirstInv, FirstBlocked, cap = Cap, NEW w \in Writers,
                         pc[w] = "realloc"
                  PROVE  (\A r \in Readers : ~InsideReader(r)) /\ \A v \in Writers : ~Pushing(v)
      BY DEF FirstResizeExclusive, ExclusiveResize, Reallocating
    <2>1. \A r \in Readers : ~InsideReader(r)
      BY ReaderExclusionHolds DEF IInv, Exclusion, ReaderExclusion, Reallocating
    <2>2. ASSUME NEW v \in Writers PROVE ~Pushing(v)
      <3>1. CASE v \in writers
        <4>1. action[v] = "ExternallyBlocked"
          BY <3>1 DEF FirstBlocked, Blocked, WritersBlocked
        <4>. QED
          BY <4>1 DEF FirstInv, FirstVec, FirstFlags, IdlePCs, AskingPCs, Pushing
      <3>2. CASE v \notin writers
        BY <3>2 DEF FirstBlocked, Blocked, WritersInMap, WakePCs, Pushing
      <3>. QED
        BY <3>1, <3>2
    <2>. QED
      BY <2>1, <2>2
  <1>. QED
    BY <1>1, <1>2, BlockedInit, DeliveryInvariant, FirstVecInvariant, PTL DEF Spec
=============================================================================
