------------------------- MODULE AtomicQueueProofs -------------------------
(***************************************************************************)
(* Theorems about AtomicQueue, for any number of handles, any capacity and *)
(* any bounds.                                                             *)
(*                                                                         *)
(* Exclusion is what the resize protocol guarantees: it relates the status *)
(* word, the flag of every reader and the two local records of the resizer *)
(* (the handles left to visit and the flags saved), none of which names    *)
(* another.  AtomicQueueDelivery builds on it.                             *)
(*                                                                         *)
(* The flags of the writers obey no such rule: a push restores what it     *)
(* read over what a resizer has saved.  Up to the first resize they say    *)
(* where every writer is, and with one writer they always do.              *)
(***************************************************************************)
EXTENDS AtomicQueue, FiniteSetTheorems, TLAPS

\* A resize is in progress at w: from the compare_exchange on the status until
\* the status is restored.
Active(w) == pc[w] \in ResizerPCs \ {"unlock", "unlockr"}
\* Where the saved flags of w are in use.
Saving(w) == pc[w] \in {"scan", "realloc", "restore"}
\* A pop between its two changes of the flag.
ReadingPCs == {"claim", "count", "leave"} \cup SlotPCs
\* A resizer panicked: the status is never restored.
Wedged == status = "WaitingToResize" /\ \A w \in Writers : ~Active(w)

StatusHeld ==
  /\ OneResizer
  /\ \A w \in Writers : Active(w) => status = "WaitingToResize"

SavedWhileSaving ==
  \A w \in Writers : ~Saving(w) => \A h \in Handles : saved[w][h] = NoAction
SavedAreBlocked ==
  \A w \in Writers : \A r \in Readers : saved[w][r] # NoAction =>
    saved[w][r] = "Idle" /\ action[r] = "ExternallyBlocked"
BlockedAreSaved ==
  \A r \in Readers : action[r] = "ExternallyBlocked" =>
    Wedged \/ \E w \in Writers : saved[w][r] # NoAction
SavedFlags == SavedWhileSaving /\ SavedAreBlocked /\ BlockedAreSaved

Visits ==
  /\ \A w \in Writers : pc[w] = "scan" =>
       /\ cur[w] \in todo[w]
       /\ cur[w] \in Readers => ex[w] = "Idle"
       /\ \A h \in todo[w] : saved[w][h] = NoAction
       /\ \A r \in readers : r \in todo[w] \/ saved[w][r] # NoAction
  /\ \A w \in Writers : pc[w] = "realloc" => \A r \in readers : saved[w][r] # NoAction
  /\ \A w \in Writers : pc[w] = "restore" =>
       todo[w] = {h \in Handles : saved[w][h] # NoAction}

ReaderFlags ==
  /\ \A r \in Readers : action[r] \in {"Idle", "Reading", "ExternallyBlocked"}
  /\ \A r \in Readers : action[r] = "Reading" <=> pc[r] \in ReadingPCs
  /\ \A r \in Readers : r \notin readers => pc[r] \in {"none", "gone"}

ReaderSlots ==
  \A r \in Readers : pc[r] \in SlotPCs => seen[r] = cap /\ idx[r] \in Slots

Exclusion ==
  PCTypeOK /\ ControlTypeOK /\ StatusHeld /\ SavedFlags /\ Visits /\ ReaderFlags /\ ReaderSlots

-----------------------------------------------------------------------------
(* The steps of Next, sorted by what they can do to a resize.              *)

ReaderMove(r) == ReaderClient(r) \/ ReaderStep(r) \/ SpuriousWake(r)
Resizing(w) ==
  \/ WinStatus(w) \/ LockReaders(w) \/ LockWriters(w) \/ BlockHandle(w)
  \/ NoticeRequest(w) \/ PanicScan(w) \/ Reallocate(w) \/ RestoreHandle(w)
  \/ Activate(w) \/ Unlock(w)
Bystander(w) ==
  \/ WriterClient(w) \/ PushStep(w) \/ DropStep(w) \/ LoadAction(w) \/ MarkRequest(w)
  \/ LoadStatus(w) \/ LoseStatus(w) \/ SeeActive(w) \/ RestoreAction(w)
  \/ \E c \in Writers : CountWriter(w, c)

USE AQAssumption DEF Handles, Goto, SetAction, CasAction, queueVars, mapVars, posVars,
  scanVars, histVars, otherVars, vars

\* A step is a reader's, a resizing one of a writer, another one of a writer, or
\* a stutter.
LEMMA NextCases ==
  ASSUME [Next]_vars, NEW P,
         \A r \in Readers : ReaderMove(r) => P,
         \A w \in Writers : Bystander(w) => P,
         \A w \in Writers : Resizing(w) => P,
         UNCHANGED vars => P
  PROVE  P
  BY DEF Next, ReaderMove, Resizing, Bystander, WriterStep, ResizeStep

\* The handle a loop of exclusive turns to next is one of those left.
LEMMA FirstIn == \A S : First(S) \subseteq S
  BY DEF First

-----------------------------------------------------------------------------
(* Types.                                                                  *)

\* No step of a reader takes a thread to a place its code does not have ...
LEMMA ReaderPCType ==
  ASSUME PCTypeOK, NEW r \in Readers, ReaderMove(r)
  PROVE  PCTypeOK'
  <1>. USE DEF PCTypeOK, ReaderPCs, HandlePCs
  <1>1. CASE PopFront(r)
    BY <1>1 DEF PopFront
  <1>2. CASE EnterRead(r)
    BY <1>2 DEF EnterRead
  <1>3. CASE ClaimStart(r)
    BY <1>3 DEF ClaimStart
  <1>4. CASE FindEmpty(r)
    BY <1>4 DEF FindEmpty
  <1>5. CASE Take(r)
    BY <1>5 DEF Take
  <1>6. CASE WritersRemain(r)
    BY <1>6 DEF WritersRemain
  <1>7. CASE FindClosed(r)
    BY <1>7 DEF FindClosed
  <1>8. CASE Sleep(r)
    BY <1>8 DEF Sleep
  <1>9. CASE SpuriousWake(r)
    BY <1>9 DEF SpuriousWake
  <1>10. CASE NotifyTaken(r)
    BY <1>10 DEF NotifyTaken, NotifyOne, GotoAndWake, Sleepers
  <1>11. CASE CountTaken(r)
    BY <1>11 DEF CountTaken
  <1>12. CASE LeaveRead(r)
    BY <1>12 DEF LeaveRead
  <1>13. CASE DropReader(r)
    BY <1>13 DEF DropReader
  <1>14. CASE RemoveReader(r)
    BY <1>14 DEF RemoveReader
  <1>15. ASSUME NEW c \in Readers, CloneReader(r, c) PROVE PCTypeOK'
    BY <1>15 DEF CloneReader
  <1>16. ASSUME NEW c \in Readers, CountReader(r, c) PROVE PCTypeOK'
    BY <1>16 DEF CountReader
  <1>. QED
    BY <1>1, <1>2, <1>3, <1>4, <1>5, <1>6, <1>7, <1>8, <1>9, <1>10, <1>11, <1>12,
      <1>13, <1>14, <1>15, <1>16
    DEF ReaderMove, ReaderClient, ReaderStep, PopStep

\* ... nor does a step of a writer outside a resize ...
LEMMA BystanderPCType ==
  ASSUME PCTypeOK, NEW w \in Writers, Bystander(w)
  PROVE  PCTypeOK'
  <1>. USE DEF PCTypeOK, ReaderPCs, WriterPCs, HandlePCs, RequestPCs, ScanPCs,
    ResizerPCs, WakePCs
  <1>1. CASE Push(w)
    BY <1>1 DEF Push
  <1>2. CASE EnterWrite(w)
    BY <1>2 DEF EnterWrite
  <1>3. CASE PanicEnter(w) \/ LoadLen(w)
    <2>1. CASE PanicEnter(w)
      BY <2>1 DEF PanicEnter
    <2>2. CASE LoadLen(w)
      BY <2>2 DEF LoadLen
    <2>. QED
      BY <1>3, <2>1, <2>2
  <1>4. CASE ClaimEnd(w)
    BY <1>4 DEF ClaimEnd
  <1>5. CASE PutValue(w)
    BY <1>5 DEF PutValue
  <1>6. CASE FindFull(w)
    BY <1>6 DEF FindFull
  <1>7. CASE PutStale(w)
    BY <1>7 DEF PutStale
  <1>8. CASE NotifyPut(w)
    BY <1>8 DEF NotifyPut, NotifyOne, GotoAndWake, Sleepers
  <1>9. CASE FreeWriter(w)
    BY <1>9 DEF FreeWriter
  <1>10. CASE CountPut(w)
    BY <1>10 DEF CountPut
  <1>11. CASE LoadAction(w)
    BY <1>11 DEF LoadAction
  <1>12. CASE MarkRequest(w)
    BY <1>12 DEF MarkRequest
  <1>13. CASE LoadStatus(w)
    BY <1>13 DEF LoadStatus
  <1>14. CASE LoseStatus(w)
    BY <1>14 DEF LoseStatus
  <1>15. CASE SeeActive(w)
    BY <1>15 DEF SeeActive
  <1>16. CASE RestoreAction(w)
    BY <1>16 DEF RestoreAction
  <1>17. CASE DropWriter(w)
    BY <1>17 DEF DropWriter
  <1>18. CASE RemoveWriter(w)
    BY <1>18 DEF RemoveWriter
  <1>19. CASE EnterWake(w)
    BY <1>19 DEF EnterWake
  <1>20. CASE LoadStart(w)
    BY <1>20 DEF LoadStart
  <1>21. CASE LoadReaders(w)
    BY <1>21 DEF LoadReaders
  <1>22. CASE WakeSlot(w)
    BY <1>22 DEF WakeSlot, GotoAndWake, Sleepers
  <1>23. CASE LeaveWake(w)
    BY <1>23 DEF LeaveWake
  <1>24. ASSUME NEW c \in Writers, CloneWriter(w, c) PROVE PCTypeOK'
    BY <1>24 DEF CloneWriter
  <1>25. ASSUME NEW c \in Writers, CountWriter(w, c) PROVE PCTypeOK'
    BY <1>25 DEF CountWriter
  <1>. QED
    BY <1>1, <1>2, <1>3, <1>4, <1>5, <1>6, <1>7, <1>8, <1>9, <1>10, <1>11, <1>12,
      <1>13, <1>14, <1>15, <1>16, <1>17, <1>18, <1>19, <1>20, <1>21, <1>22, <1>23,
      <1>24, <1>25
    DEF Bystander, WriterClient, PushStep, DropStep

\* ... nor a step of a resize.
LEMMA ResizePCType ==
  ASSUME PCTypeOK, NEW w \in Writers, Resizing(w)
  PROVE  PCTypeOK'
  <1>. USE DEF PCTypeOK, ReaderPCs, WriterPCs, HandlePCs, RequestPCs, ScanPCs,
    ResizerPCs, WakePCs
  <1>1. CASE WinStatus(w)
    BY <1>1 DEF WinStatus
  <1>2. CASE LockReaders(w)
    BY <1>2 DEF LockReaders
  <1>3. CASE LockWriters(w)
    BY <1>3 DEF LockWriters, Visit, First, Scanned
  <1>4. CASE BlockHandle(w)
    BY <1>4 DEF BlockHandle, Visit, First
  <1>5. CASE NoticeRequest(w)
    BY <1>5 DEF NoticeRequest
  <1>6. CASE PanicScan(w)
    BY <1>6 DEF PanicScan
  <1>7. CASE Reallocate(w)
    BY <1>7 DEF Reallocate
  <1>8. CASE RestoreHandle(w)
    BY <1>8 DEF RestoreHandle, First
  <1>9. CASE Activate(w)
    BY <1>9 DEF Activate
  <1>10. CASE Unlock(w)
    <2>1. CASE UnlockWriters(w)
      BY <2>1 DEF UnlockWriters
    <2>2. CASE UnlockReaders(w)
      BY <2>2 DEF UnlockReaders
    <2>. QED
      BY <1>10, <2>1, <2>2 DEF Unlock
  <1>. QED
    BY <1>1, <1>2, <1>3, <1>4, <1>5, <1>6, <1>7, <1>8, <1>9, <1>10
    DEF Resizing

\* The counters, flags and local variables keep their types under a reader ...
LEMMA ReaderControlType ==
  ASSUME ControlTypeOK, NEW r \in Readers, ReaderMove(r)
  PROVE  ControlTypeOK'
  <1>. USE DEF ControlTypeOK, Actions
  <1>1. CASE PopFront(r)
    BY <1>1 DEF PopFront
  <1>2. CASE EnterRead(r)
    BY <1>2 DEF EnterRead
  <1>3. CASE ClaimStart(r)
    BY <1>3 DEF ClaimStart
  <1>4. CASE FindEmpty(r)
    BY <1>4 DEF FindEmpty
  <1>5. CASE Take(r)
    BY <1>5 DEF Take
  <1>6. CASE WritersRemain(r)
    BY <1>6 DEF WritersRemain
  <1>7. CASE FindClosed(r)
    BY <1>7 DEF FindClosed
  <1>8. CASE Sleep(r)
    BY <1>8 DEF Sleep
  <1>9. CASE SpuriousWake(r)
    BY <1>9 DEF SpuriousWake
  <1>10. CASE NotifyTaken(r)
    BY <1>10 DEF NotifyTaken, NotifyOne, GotoAndWake, Sleepers
  <1>11. CASE CountTaken(r)
    BY <1>11 DEF CountTaken
  <1>12. CASE LeaveRead(r)
    BY <1>12 DEF LeaveRead
  <1>13. CASE DropReader(r)
    BY <1>13 DEF DropReader
  <1>14. CASE RemoveReader(r)
    BY <1>14 DEF RemoveReader
  <1>15. ASSUME NEW c \in Readers, CloneReader(r, c) PROVE ControlTypeOK'
    BY <1>15 DEF CloneReader
  <1>16. ASSUME NEW c \in Readers, CountReader(r, c) PROVE ControlTypeOK'
    BY <1>16 DEF CountReader
  <1>. QED
    BY <1>1, <1>2, <1>3, <1>4, <1>5, <1>6, <1>7, <1>8, <1>9, <1>10, <1>11, <1>12,
      <1>13, <1>14, <1>15, <1>16
    DEF ReaderMove, ReaderClient, ReaderStep, PopStep

\* ... under a writer outside a resize ...
LEMMA BystanderControlType ==
  ASSUME ControlTypeOK, NEW w \in Writers, Bystander(w)
  PROVE  ControlTypeOK'
  <1>. USE DEF ControlTypeOK, Actions
  <1>1. CASE Push(w)
    BY <1>1 DEF Push
  <1>2. CASE EnterWrite(w)
    BY <1>2 DEF EnterWrite
  <1>3. CASE PanicEnter(w) \/ LoadLen(w)
    <2>1. CASE PanicEnter(w)
      BY <2>1 DEF PanicEnter
    <2>2. CASE LoadLen(w)
      BY <2>2 DEF LoadLen
    <2>. QED
      BY <1>3, <2>1, <2>2
  <1>4. CASE ClaimEnd(w)
    <2>1. end % seen[w] \in Int /\ end + 1 \in Nat
      OBVIOUS
    <2>. DEFINE i == end % seen[w]
    <2>2. idx' = [idx EXCEPT ![w] = i] /\ end' = end + 1
      BY <1>4 DEF ClaimEnd
    <2>3. i \in Int
      BY <2>1
    <2>. HIDE DEF i
    <2>. QED
      BY <1>4, <2>1, <2>2, <2>3 DEF ClaimEnd
  <1>5. CASE PutValue(w)
    BY <1>5 DEF PutValue
  <1>6. CASE FindFull(w)
    BY <1>6 DEF FindFull
  <1>7. CASE PutStale(w)
    BY <1>7 DEF PutStale
  <1>8. CASE NotifyPut(w)
    BY <1>8 DEF NotifyPut, NotifyOne, GotoAndWake, Sleepers
  <1>9. CASE FreeWriter(w)
    BY <1>9 DEF FreeWriter
  <1>10. CASE CountPut(w)
    BY <1>10 DEF CountPut
  <1>11. CASE LoadAction(w)
    BY <1>11 DEF LoadAction
  <1>12. CASE MarkRequest(w)
    BY <1>12 DEF MarkRequest
  <1>13. CASE LoadStatus(w)
    BY <1>13 DEF LoadStatus
  <1>14. CASE LoseStatus(w)
    BY <1>14 DEF LoseStatus
  <1>15. CASE SeeActive(w)
    BY <1>15 DEF SeeActive
  <1>16. CASE RestoreAction(w)
    BY <1>16 DEF RestoreAction
  <1>17. CASE DropWriter(w)
    BY <1>17 DEF DropWriter
  <1>18. CASE RemoveWriter(w)
    BY <1>18 DEF RemoveWriter
  <1>19. CASE EnterWake(w)
    BY <1>19 DEF EnterWake
  <1>20. CASE LoadStart(w)
    BY <1>20 DEF LoadStart
  <1>21. CASE LoadReaders(w)
    BY <1>21 DEF LoadReaders
  <1>22. CASE WakeSlot(w)
    BY <1>22 DEF WakeSlot, GotoAndWake, Sleepers
  <1>23. CASE LeaveWake(w)
    BY <1>23 DEF LeaveWake
  <1>24. ASSUME NEW c \in Writers, CloneWriter(w, c) PROVE ControlTypeOK'
    BY <1>24 DEF CloneWriter
  <1>25. ASSUME NEW c \in Writers, CountWriter(w, c) PROVE ControlTypeOK'
    BY <1>25 DEF CountWriter
  <1>. QED
    BY <1>1, <1>2, <1>3, <1>4, <1>5, <1>6, <1>7, <1>8, <1>9, <1>10, <1>11, <1>12,
      <1>13, <1>14, <1>15, <1>16, <1>17, <1>18, <1>19, <1>20, <1>21, <1>22, <1>23,
      <1>24, <1>25
    DEF Bystander, WriterClient, PushStep, DropStep

\* ... when a resizer turns to its next handle ...
LEMMA VisitType ==
  ASSUME ControlTypeOK, NEW w \in Writers, NEW S \in SUBSET Handles, Visit(w, S)
  PROVE  /\ todo' \in [Writers -> SUBSET Handles]
         /\ cur' \in [Writers -> Handles]
         /\ ex' \in [Writers -> Actions]
  <1>1. CASE S = {}
    BY <1>1 DEF ControlTypeOK, Visit, Actions
  <1>2. CASE S # {}
    <2>1. PICK h \in First(S) : cur' = [cur EXCEPT ![w] = h]
      BY <1>2 DEF Visit
    <2>2. h \in Handles
      BY FirstIn
    <2>. QED
      BY <1>2, <2>1, <2>2 DEF ControlTypeOK, Visit, Actions
  <1>. QED
    BY <1>1, <1>2

\* ... and under a resize: a saved flag that is restored is a flag.
LEMMA ResizeControlType ==
  ASSUME ControlTypeOK, Visits, NEW w \in Writers, Resizing(w)
  PROVE  ControlTypeOK'
  <1>. USE DEF ControlTypeOK, Actions, Statuses, NoAction
  <1>1. CASE WinStatus(w)
    BY <1>1 DEF WinStatus
  <1>2. CASE LockReaders(w)
    BY <1>2 DEF LockReaders
  <1>3. CASE LockWriters(w)
    <2>1. readers \cup writers \in SUBSET Handles
      OBVIOUS
    <2>. QED
      BY <1>3, <2>1, VisitType DEF LockWriters, Scanned
  <1>4. CASE BlockHandle(w)
    <2>1. todo[w] \ {cur[w]} \in SUBSET Handles
      OBVIOUS
    <2>2. /\ action' \in [Handles -> Actions]
          /\ saved' \in [Writers -> [Handles -> Actions \cup {NoAction}]]
      BY <1>4 DEF BlockHandle
    <2>. QED
      BY <1>4, <2>1, <2>2, VisitType DEF BlockHandle
  <1>5. CASE NoticeRequest(w)
    BY <1>5 DEF NoticeRequest
  <1>6. CASE PanicScan(w)
    BY <1>6 DEF PanicScan
  <1>7. CASE Reallocate(w)
    BY <1>7 DEF Reallocate
  <1>8. CASE RestoreHandle(w)
    <2>1. PICK h \in First(todo[w]) :
            /\ SetAction(h, saved[w][h])
            /\ todo' = [todo EXCEPT ![w] = todo[w] \ {h}]
            /\ saved' = [saved EXCEPT ![w][h] = NoAction]
      BY <1>8 DEF RestoreHandle
    <2>2. h \in Handles /\ saved[w][h] \in Actions
      BY <1>8, FirstIn DEF RestoreHandle, Visits
    <2>3. /\ action' \in [Handles -> Actions]
          /\ todo' \in [Writers -> SUBSET Handles]
          /\ saved' \in [Writers -> [Handles -> Actions \cup {NoAction}]]
      BY <2>1, <2>2
    <2>. QED
      BY <1>8, <2>3 DEF RestoreHandle
  <1>9. CASE Activate(w)
    BY <1>9 DEF Activate
  <1>10. CASE Unlock(w)
    <2>1. CASE UnlockWriters(w)
      BY <2>1 DEF UnlockWriters
    <2>2. CASE UnlockReaders(w)
      BY <2>2 DEF UnlockReaders
    <2>. QED
      BY <1>10, <2>1, <2>2 DEF Unlock
  <1>. QED
    BY <1>1, <1>2, <1>3, <1>4, <1>5, <1>6, <1>7, <1>8, <1>9, <1>10
    DEF Resizing

-----------------------------------------------------------------------------
(* What most steps leave alone.                                            *)

\* The state of every resizer.
KeepsResizers ==
  /\ UNCHANGED <<cap, status, scanVars>>
  /\ \A v \in Writers : \A p \in ResizerPCs : pc'[v] = p <=> pc[v] = p
\* The flags and the slots of the readers; a sleeper may wake up.
KeepsReaders ==
  /\ readers' = readers
  /\ \A r \in Readers :
       /\ action'[r] = action[r] /\ idx'[r] = idx[r] /\ seen'[r] = seen[r]
       /\ pc'[r] = pc[r] \/ (pc[r] = "wait" /\ pc'[r] = "lock")
\* No reader is blocked or freed, and the map of readers does not change under
\* a resizer.
KeepsBlocked ==
  /\ \A r \in Readers : action'[r] = "ExternallyBlocked" <=> action[r] = "ExternallyBlocked"
  /\ \A w \in Writers : Saving(w) => readers' = readers

\* A reader changes nothing a resizer works on, and no flag that is blocked.
LEMMA ReaderFrame ==
  ASSUME PCTypeOK, ControlTypeOK, NEW r \in Readers, ReaderMove(r)
  PROVE  KeepsResizers /\ KeepsBlocked
  <1>. USE DEF PCTypeOK, ControlTypeOK, KeepsResizers, KeepsBlocked, ReadersLocked,
    ScanPCs, Saving
  <1>1. CASE PopFront(r)
    BY <1>1 DEF PopFront
  <1>2. CASE EnterRead(r)
    BY <1>2 DEF EnterRead
  <1>3. CASE ClaimStart(r)
    BY <1>3 DEF ClaimStart
  <1>4. CASE FindEmpty(r)
    BY <1>4 DEF FindEmpty
  <1>5. CASE Take(r)
    BY <1>5 DEF Take
  <1>6. CASE WritersRemain(r)
    BY <1>6 DEF WritersRemain
  <1>7. CASE FindClosed(r)
    BY <1>7 DEF FindClosed
  <1>8. CASE Sleep(r)
    BY <1>8 DEF Sleep
  <1>9. CASE SpuriousWake(r)
    BY <1>9 DEF SpuriousWake
  <1>10. CASE NotifyTaken(r)
    BY <1>10 DEF NotifyTaken, NotifyOne, GotoAndWake, Sleepers
  <1>11. CASE CountTaken(r)
    BY <1>11 DEF CountTaken
  <1>12. CASE LeaveRead(r)
    BY <1>12 DEF LeaveRead
  <1>13. CASE DropReader(r)
    BY <1>13 DEF DropReader
  <1>14. CASE RemoveReader(r)
    BY <1>14 DEF RemoveReader
  <1>15. ASSUME NEW c \in Readers, CloneReader(r, c) PROVE KeepsResizers /\ KeepsBlocked
    BY <1>15 DEF CloneReader
  <1>16. ASSUME NEW c \in Readers, CountReader(r, c) PROVE KeepsResizers /\ KeepsBlocked
    BY <1>16 DEF CountReader
  <1>. QED
    BY <1>1, <1>2, <1>3, <1>4, <1>5, <1>6, <1>7, <1>8, <1>9, <1>10, <1>11, <1>12,
      <1>13, <1>14, <1>15, <1>16
    DEF ReaderMove, ReaderClient, ReaderStep, PopStep

\* A writer outside a resize touches no reader but to wake one up.
LEMMA BystanderFrame ==
  ASSUME PCTypeOK, ControlTypeOK, NEW w \in Writers, Bystander(w)
  PROVE  KeepsResizers /\ KeepsReaders
  <1>. USE DEF PCTypeOK, ControlTypeOK, KeepsResizers, KeepsReaders, ResizerPCs, ScanPCs
  <1>1. CASE Push(w)
    BY <1>1 DEF Push
  <1>2. CASE EnterWrite(w)
    BY <1>2 DEF EnterWrite
  <1>3. CASE PanicEnter(w) \/ LoadLen(w)
    <2>1. CASE PanicEnter(w)
      BY <2>1 DEF PanicEnter
    <2>2. CASE LoadLen(w)
      BY <2>2 DEF LoadLen
    <2>. QED
      BY <1>3, <2>1, <2>2
  <1>4. CASE ClaimEnd(w)
    BY <1>4 DEF ClaimEnd
  <1>5. CASE PutValue(w)
    BY <1>5 DEF PutValue
  <1>6. CASE FindFull(w)
    BY <1>6 DEF FindFull
  <1>7. CASE PutStale(w)
    BY <1>7 DEF PutStale
  <1>8. CASE NotifyPut(w)
    BY <1>8 DEF NotifyPut, NotifyOne, GotoAndWake, Sleepers
  <1>9. CASE FreeWriter(w)
    BY <1>9 DEF FreeWriter
  <1>10. CASE CountPut(w)
    BY <1>10 DEF CountPut
  <1>11. CASE LoadAction(w)
    BY <1>11 DEF LoadAction
  <1>12. CASE MarkRequest(w)
    BY <1>12 DEF MarkRequest
  <1>13. CASE LoadStatus(w)
    BY <1>13 DEF LoadStatus
  <1>14. CASE LoseStatus(w)
    BY <1>14 DEF LoseStatus
  <1>15. CASE SeeActive(w)
    BY <1>15 DEF SeeActive
  <1>16. CASE RestoreAction(w)
    BY <1>16 DEF RestoreAction
  <1>17. CASE DropWriter(w)
    BY <1>17 DEF DropWriter
  <1>18. CASE RemoveWriter(w)
    BY <1>18 DEF RemoveWriter
  <1>19. CASE EnterWake(w)
    BY <1>19 DEF EnterWake
  <1>20. CASE LoadStart(w)
    BY <1>20 DEF LoadStart
  <1>21. CASE LoadReaders(w)
    BY <1>21 DEF LoadReaders
  <1>22. CASE WakeSlot(w)
    BY <1>22 DEF WakeSlot, GotoAndWake, Sleepers
  <1>23. CASE LeaveWake(w)
    BY <1>23 DEF LeaveWake
  <1>24. ASSUME NEW c \in Writers, CloneWriter(w, c) PROVE KeepsResizers /\ KeepsReaders
    BY <1>24 DEF CloneWriter
  <1>25. ASSUME NEW c \in Writers, CountWriter(w, c) PROVE KeepsResizers /\ KeepsReaders
    BY <1>25 DEF CountWriter
  <1>. QED
    BY <1>1, <1>2, <1>3, <1>4, <1>5, <1>6, <1>7, <1>8, <1>9, <1>10, <1>11, <1>12,
      <1>13, <1>14, <1>15, <1>16, <1>17, <1>18, <1>19, <1>20, <1>21, <1>22, <1>23,
      <1>24, <1>25
    DEF Bystander, WriterClient, PushStep, DropStep

\* Only blocking and restoring change the flag of another handle.
LEMMA ResizeFrame ==
  ASSUME PCTypeOK, ControlTypeOK, NEW w \in Writers, Resizing(w),
         ~BlockHandle(w), ~RestoreHandle(w)
  PROVE  KeepsReaders
  <1>. USE DEF PCTypeOK, ControlTypeOK, KeepsReaders
  <1>1. CASE WinStatus(w)
    BY <1>1 DEF WinStatus
  <1>2. CASE LockReaders(w)
    BY <1>2 DEF LockReaders
  <1>3. CASE LockWriters(w)
    BY <1>3 DEF LockWriters, Visit, First, Scanned
  <1>4. CASE NoticeRequest(w)
    BY <1>4 DEF NoticeRequest
  <1>5. CASE PanicScan(w)
    BY <1>5 DEF PanicScan
  <1>6. CASE Reallocate(w)
    BY <1>6 DEF Reallocate
  <1>7. CASE Activate(w)
    BY <1>7 DEF Activate
  <1>8. CASE Unlock(w)
    <2>1. CASE UnlockWriters(w)
      BY <2>1 DEF UnlockWriters
    <2>2. CASE UnlockReaders(w)
      BY <2>2 DEF UnlockReaders
    <2>. QED
      BY <1>8, <2>1, <2>2 DEF Unlock
  <1>. QED
    BY <1>1, <1>2, <1>3, <1>4, <1>5, <1>6, <1>7, <1>8
    DEF Resizing

-----------------------------------------------------------------------------
(* Exclusion is inductive.                                                 *)

\* StatusHeld depends on the resizers alone.
LEMMA StatusHeldKept ==
  ASSUME StatusHeld, KeepsResizers
  PROVE  StatusHeld'
  BY DEF StatusHeld, OneResizer, Active, KeepsResizers

\* SavedFlags depends on the resizers and on which flags are blocked.
LEMMA SavedFlagsKept ==
  ASSUME SavedFlags, KeepsResizers, KeepsBlocked
  PROVE  SavedFlags'
  BY DEF SavedFlags, SavedWhileSaving, SavedAreBlocked, BlockedAreSaved, Saving,
    Wedged, Active, KeepsResizers, KeepsBlocked, ResizerPCs, ScanPCs

\* Visits depends on the resizers and on the map of readers, which they hold.
LEMMA VisitsKept ==
  ASSUME Visits, KeepsResizers, \A w \in Writers : Saving(w) => readers' = readers
  PROVE  Visits'
  BY DEF Visits, Saving, KeepsResizers, ResizerPCs, ScanPCs

\* ReaderFlags survives the steps that leave the readers alone.
LEMMA ReaderFlagsKept ==
  ASSUME ReaderFlags, KeepsReaders
  PROVE  ReaderFlags'
  BY DEF ReaderFlags, KeepsReaders, ReadingPCs, SlotPCs

\* So does ReaderSlots, as long as the Vec stays.
LEMMA ReaderSlotsKept ==
  ASSUME ReaderSlots, KeepsReaders, cap' = cap
  PROVE  ReaderSlots'
  BY DEF ReaderSlots, KeepsReaders, SlotPCs, Slots

\* The compare_exchange admits a resizer only when there is none.
LEMMA StatusHeldResizing ==
  ASSUME PCTypeOK, ControlTypeOK, StatusHeld, NEW w \in Writers, Resizing(w)
  PROVE  StatusHeld'
  <1>. USE DEF PCTypeOK, ControlTypeOK, StatusHeld, OneResizer, Active, ResizerPCs,
    ScanPCs
  <1>1. CASE WinStatus(w)
    BY <1>1 DEF WinStatus
  <1>2. CASE LockReaders(w)
    BY <1>2 DEF LockReaders
  <1>3. CASE LockWriters(w)
    <2>1. /\ pc[w] = "lockw" /\ UNCHANGED status
          /\ pc' = [pc EXCEPT ![w] = pc'[w]] /\ pc'[w] \in {"scan", "realloc"}
      BY <1>3 DEF LockWriters, Visit
    <2>. QED
      BY <2>1
  <1>4. CASE BlockHandle(w)
    <2>1. /\ pc[w] = "scan" /\ UNCHANGED status
          /\ pc' = [pc EXCEPT ![w] = pc'[w]] /\ pc'[w] \in {"scan", "realloc"}
      BY <1>4 DEF BlockHandle, Visit
    <2>. QED
      BY <2>1
  <1>5. CASE NoticeRequest(w)
    BY <1>5 DEF NoticeRequest
  <1>6. CASE PanicScan(w)
    BY <1>6 DEF PanicScan
  <1>7. CASE Reallocate(w)
    BY <1>7 DEF Reallocate
  <1>8. CASE RestoreHandle(w)
    BY <1>8 DEF RestoreHandle, First
  <1>9. CASE Activate(w)
    BY <1>9 DEF Activate
  <1>10. CASE Unlock(w)
    <2>1. CASE UnlockWriters(w)
      BY <2>1 DEF UnlockWriters
    <2>2. CASE UnlockReaders(w)
      BY <2>2 DEF UnlockReaders
    <2>. QED
      BY <1>10, <2>1, <2>2 DEF Unlock
  <1>. QED
    BY <1>1, <1>2, <1>3, <1>4, <1>5, <1>6, <1>7, <1>8, <1>9, <1>10
    DEF Resizing

\* Every flag saved by exclusive is given back before release ends.
LEMMA SavedWhileSavingResizing ==
  ASSUME PCTypeOK, ControlTypeOK, StatusHeld, SavedFlags, Visits, ReaderFlags,
    NEW w \in Writers, Resizing(w)
  PROVE  SavedWhileSaving'
  <1>. USE DEF ControlTypeOK, PCTypeOK, SavedFlags, SavedWhileSaving, Visits, Saving,
    NoAction
  <1>1. CASE WinStatus(w)
    BY <1>1 DEF WinStatus
  <1>2. CASE LockReaders(w)
    BY <1>2 DEF LockReaders
  <1>3. CASE LockWriters(w)
    BY <1>3, SMTT(30) DEF LockWriters, Visit, First, Scanned
  <1>4. CASE BlockHandle(w)
    BY <1>4 DEF BlockHandle, Visit, First
  <1>5. CASE NoticeRequest(w)
    BY <1>5 DEF NoticeRequest
  <1>6. CASE PanicScan(w)
    BY <1>6 DEF PanicScan
  <1>7. CASE Reallocate(w)
    BY <1>7 DEF Reallocate
  <1>8. CASE RestoreHandle(w)
    BY <1>8 DEF RestoreHandle, First
  <1>9. CASE Activate(w)
    BY <1>9 DEF Activate
  <1>10. CASE Unlock(w)
    <2>1. CASE UnlockWriters(w)
      BY <2>1 DEF UnlockWriters
    <2>2. CASE UnlockReaders(w)
      BY <2>2 DEF UnlockReaders
    <2>. QED
      BY <1>10, <2>1, <2>2 DEF Unlock
  <1>. QED
    BY <1>1, <1>2, <1>3, <1>4, <1>5, <1>6, <1>7, <1>8, <1>9, <1>10
    DEF Resizing

\* A reader's flag is saved only from Idle, and is blocked until it is restored.
LEMMA SavedAreBlockedResizing ==
  ASSUME PCTypeOK, ControlTypeOK, StatusHeld, SavedFlags, Visits, ReaderFlags,
    NEW w \in Writers, Resizing(w)
  PROVE  SavedAreBlocked'
  <1>. USE DEF PCTypeOK, ControlTypeOK, StatusHeld, OneResizer, SavedFlags,
    SavedWhileSaving, SavedAreBlocked, Visits, ReaderFlags, Active, Saving,
    ResizerPCs, ScanPCs, NoAction, Actions
  <1>1. CASE WinStatus(w)
    BY <1>1 DEF WinStatus
  <1>2. CASE LockReaders(w)
    BY <1>2 DEF LockReaders
  <1>3. CASE LockWriters(w)
    BY <1>3 DEF LockWriters, Visit, First, Scanned
  <1>4. CASE BlockHandle(w)
    BY <1>4 DEF BlockHandle, Visit, First
  <1>5. CASE NoticeRequest(w)
    BY <1>5 DEF NoticeRequest
  <1>6. CASE PanicScan(w)
    BY <1>6 DEF PanicScan
  <1>7. CASE Reallocate(w)
    BY <1>7 DEF Reallocate
  <1>8. CASE RestoreHandle(w)
    <2>1. PICK h \in Handles :
            /\ action' = [action EXCEPT ![h] = saved[w][h]]
            /\ saved' = [saved EXCEPT ![w][h] = NoAction]
      <3>1. PICK h \in First(todo[w]) :
              /\ action' = [action EXCEPT ![h] = saved[w][h]]
              /\ saved' = [saved EXCEPT ![w][h] = NoAction]
        BY <1>8, Zenon DEF RestoreHandle
      <3>2. h \in todo[w] /\ todo[w] \subseteq Handles
        BY FirstIn
      <3>. QED
        BY <3>1, <3>2
    <2>2. pc[w] = "restore"
      BY <1>8 DEF RestoreHandle
    <2>3. ASSUME NEW u \in Writers, NEW r \in Readers, saved'[u][r] # NoAction
          PROVE  saved'[u][r] = "Idle" /\ action'[r] = "ExternallyBlocked"
      <3>1. saved[u][r] # NoAction /\ (u = w => r # h) /\ saved'[u][r] = saved[u][r]
        BY <2>1, <2>3
      <3>2. Active(u) /\ Active(w)
        BY <2>2, <3>1
      <3>3. u = w
        BY <3>2
      <3>. QED
        BY <2>1, <3>1, <3>3
    <2>. QED
      BY <2>3
  <1>9. CASE Activate(w)
    BY <1>9 DEF Activate
  <1>10. CASE Unlock(w)
    <2>1. CASE UnlockWriters(w)
      BY <2>1 DEF UnlockWriters
    <2>2. CASE UnlockReaders(w)
      BY <2>2 DEF UnlockReaders
    <2>. QED
      BY <1>10, <2>1, <2>2 DEF Unlock
  <1>. QED
    BY <1>1, <1>2, <1>3, <1>4, <1>5, <1>6, <1>7, <1>8, <1>9, <1>10
    DEF Resizing

\* A blocked flag of a reader is one that a resizer will restore, unless the
\* resizer panicked.
LEMMA BlockedAreSavedResizing ==
  ASSUME PCTypeOK, ControlTypeOK, StatusHeld, SavedFlags, Visits, ReaderFlags,
    NEW w \in Writers, Resizing(w)
  PROVE  BlockedAreSaved'
  <1>. USE DEF PCTypeOK, ControlTypeOK, StatusHeld, OneResizer, SavedFlags,
    SavedWhileSaving, SavedAreBlocked, BlockedAreSaved, Visits, ReaderFlags, Wedged,
    Active, Saving, ResizerPCs, ScanPCs, NoAction, Actions
  <1>1. CASE WinStatus(w)
    BY <1>1 DEF WinStatus
  <1>2. CASE LockReaders(w)
    BY <1>2 DEF LockReaders
  <1>3. CASE LockWriters(w)
    BY <1>3 DEF LockWriters, Visit, First, Scanned
  <1>4. CASE BlockHandle(w)
    BY <1>4 DEF BlockHandle, Visit, First
  <1>5. CASE NoticeRequest(w)
    BY <1>5 DEF NoticeRequest
  <1>6. CASE PanicScan(w)
    BY <1>6 DEF PanicScan
  <1>7. CASE Reallocate(w)
    BY <1>7 DEF Reallocate
  <1>8. CASE RestoreHandle(w)
    <2>1. PICK h \in First(todo[w]) :
            /\ SetAction(h, saved[w][h])
            /\ saved' = [saved EXCEPT ![w][h] = NoAction]
      BY <1>8 DEF RestoreHandle
    <2>2. h \in Handles /\ Active(w) /\ saved[w][h] # NoAction
      BY <1>8, FirstIn DEF RestoreHandle
    <2>3. SUFFICES ASSUME NEW r \in Readers, action'[r] = "ExternallyBlocked"
                   PROVE  \E v \in Writers : saved'[v][r] # NoAction
      OBVIOUS
    <2>4. r # h
      BY <2>1, <2>2, <2>3 DEF SavedAreBlocked
    <2>5. PICK v \in Writers : saved[v][r] # NoAction
      BY <2>1, <2>2, <2>3, <2>4
    <2>. QED
      BY <2>1, <2>2, <2>4, <2>5
  <1>9. CASE Activate(w)
    <2>1. SUFFICES ASSUME NEW r \in Readers,
      action'[r] = "ExternallyBlocked" PROVE FALSE
      OBVIOUS
    <2>2. PICK v \in Writers : saved[v][r] # NoAction
      BY <1>9, <2>1 DEF Activate
    <2>3. Active(v) /\ Active(w) /\ ~Saving(w)
      BY <1>9, <2>2 DEF Activate
    <2>. QED
      BY <2>2, <2>3
  <1>10. CASE Unlock(w)
    <2>1. CASE UnlockWriters(w)
      BY <2>1 DEF UnlockWriters
    <2>2. CASE UnlockReaders(w)
      BY <2>2 DEF UnlockReaders
    <2>. QED
      BY <1>10, <2>1, <2>2 DEF Unlock
  <1>. QED
    BY <1>1, <1>2, <1>3, <1>4, <1>5, <1>6, <1>7, <1>8, <1>9, <1>10
    DEF Resizing

\* The two loops of exclusive block every reader of the map they hold.
LEMMA VisitsResizing ==
  ASSUME PCTypeOK, ControlTypeOK, StatusHeld, SavedFlags, Visits, ReaderFlags,
    NEW w \in Writers, Resizing(w)
  PROVE  Visits'
  <1>. USE DEF PCTypeOK, ControlTypeOK, StatusHeld, OneResizer, SavedFlags,
    SavedWhileSaving, Visits, ReaderFlags, Active, Saving, ResizerPCs, ScanPCs,
    NoAction, Actions
  <1>1. CASE WinStatus(w)
    BY <1>1 DEF WinStatus
  <1>2. CASE LockReaders(w)
    BY <1>2 DEF LockReaders
  <1>3. CASE LockWriters(w)
    <2>1. /\ \A h \in Handles : saved'[w][h] = NoAction
          /\ readers' = readers
      <3>1. pc[w] = "lockw" /\ saved' = saved /\ readers' = readers
        BY <1>3 DEF LockWriters
      <3>2. \A h \in Handles : saved[w][h] = NoAction
        BY <3>1, SMTT(30)
      <3>. QED
        BY <3>1, <3>2
    <2>2. CASE readers \cup writers = {}
      BY <1>3, <2>1, <2>2 DEF LockWriters, Visit, Scanned
    <2>3. CASE readers \cup writers # {}
      <3>1. PICK h \in First(readers \cup writers) : cur' = [cur EXCEPT ![w] = h]
        BY <1>3, <2>3 DEF LockWriters, Visit, Scanned
      <3>2. h \in readers \cup writers
        BY FirstIn
      <3>3. /\ pc' = [pc EXCEPT ![w] = "scan"]
            /\ todo' = [todo EXCEPT ![w] = readers \cup writers]
            /\ ex' = [ex EXCEPT ![w] = "Idle"]
            /\ UNCHANGED saved
        BY <1>3, <2>3 DEF LockWriters, Visit, Scanned
      <3>. QED
        BY <2>1, <3>1, <3>2, <3>3
    <2>. QED
      BY <2>2, <2>3
  <1>4. CASE BlockHandle(w)
    BY <1>4 DEF BlockHandle, Visit, First
  <1>5. CASE NoticeRequest(w)
    <2>1. /\ UNCHANGED <<pc, todo, cur, saved, readers, action>>
          /\ ex' = [ex EXCEPT ![w] = "ResizeRequested"]
          /\ action[cur[w]] = "ResizeRequested"
      BY <1>5 DEF NoticeRequest
    <2>2. cur[w] \notin Readers
      BY <2>1
    <2>. QED
      BY <2>1, <2>2
  <1>6. CASE PanicScan(w)
    BY <1>6 DEF PanicScan
  <1>7. CASE Reallocate(w)
    BY <1>7 DEF Reallocate
  <1>8. CASE RestoreHandle(w)
    BY <1>8 DEF RestoreHandle, First
  <1>9. CASE Activate(w)
    BY <1>9 DEF Activate
  <1>10. CASE Unlock(w)
    <2>1. CASE UnlockWriters(w)
      BY <2>1 DEF UnlockWriters
    <2>2. CASE UnlockReaders(w)
      BY <2>2 DEF UnlockReaders
    <2>. QED
      BY <1>10, <2>1, <2>2 DEF Unlock
  <1>. QED
    BY <1>1, <1>2, <1>3, <1>4, <1>5, <1>6, <1>7, <1>8, <1>9, <1>10
    DEF Resizing

\* A reader's own steps keep its flag in step with its place in pop_front_wait.
LEMMA ReaderFlagsReader ==
  ASSUME PCTypeOK, ControlTypeOK, ReaderFlags, NEW r \in Readers, ReaderMove(r)
  PROVE  ReaderFlags'
  <1>. USE DEF PCTypeOK, ControlTypeOK, ReaderFlags, ReadingPCs, SlotPCs
  <1>1. CASE PopFront(r)
    BY <1>1 DEF PopFront
  <1>2. CASE EnterRead(r)
    BY <1>2 DEF EnterRead
  <1>3. CASE ClaimStart(r)
    BY <1>3 DEF ClaimStart
  <1>4. CASE FindEmpty(r)
    BY <1>4 DEF FindEmpty
  <1>5. CASE Take(r)
    BY <1>5 DEF Take
  <1>6. CASE WritersRemain(r)
    BY <1>6 DEF WritersRemain
  <1>7. CASE FindClosed(r)
    BY <1>7 DEF FindClosed
  <1>8. CASE Sleep(r)
    BY <1>8 DEF Sleep
  <1>9. CASE SpuriousWake(r)
    BY <1>9 DEF SpuriousWake
  <1>10. CASE NotifyTaken(r)
    <2>1. UNCHANGED <<action, readers>> /\ pc[r] = "notify"
      BY <1>10 DEF NotifyTaken
    <2>2. CASE pc' = [pc EXCEPT ![r] = "count"]
      BY <2>1, <2>2
    <2>3. CASE \E q \in Sleepers({idx[r]}) : GotoAndWake(r, "count", {q})
      <3>1. PICK q \in Sleepers({idx[r]}) : GotoAndWake(r, "count", {q})
        BY <2>3
      <3>2. q \in Readers /\ pc[q] = "wait"
        BY DEF Sleepers
      <3>. QED
        BY <2>1, <3>1, <3>2 DEF GotoAndWake
    <2>. QED
      BY <1>10, <2>2, <2>3 DEF NotifyTaken, NotifyOne
  <1>11. CASE CountTaken(r)
    BY <1>11 DEF CountTaken
  <1>12. CASE LeaveRead(r)
    BY <1>12 DEF LeaveRead
  <1>13. CASE DropReader(r)
    BY <1>13 DEF DropReader
  <1>14. CASE RemoveReader(r)
    BY <1>14 DEF RemoveReader
  <1>15. ASSUME NEW c \in Readers, CloneReader(r, c) PROVE ReaderFlags'
    BY <1>15 DEF CloneReader
  <1>16. ASSUME NEW c \in Readers, CountReader(r, c) PROVE ReaderFlags'
    BY <1>16 DEF CountReader
  <1>. QED
    BY <1>1, <1>2, <1>3, <1>4, <1>5, <1>6, <1>7, <1>8, <1>9, <1>10, <1>11, <1>12,
      <1>13, <1>14, <1>15, <1>16
    DEF ReaderMove, ReaderClient, ReaderStep, PopStep

\* A resizer blocks only readers that are outside the queue.
LEMMA ReaderFlagsBlocking ==
  ASSUME PCTypeOK, ControlTypeOK, StatusHeld, SavedFlags, Visits, ReaderFlags,
    NEW w \in Writers,
         BlockHandle(w) \/ RestoreHandle(w)
  PROVE  ReaderFlags'
  <1>. USE DEF PCTypeOK, ControlTypeOK, StatusHeld, SavedFlags, SavedAreBlocked,
    Visits, ReaderFlags, ReadingPCs, SlotPCs, NoAction, Actions
  <1>1. CASE BlockHandle(w)
    <2>1. action' = [action EXCEPT ![cur[w]] = "ExternallyBlocked"] /\ action[cur[w]] = ex[w]
      BY <1>1 DEF BlockHandle
    <2>2. \A r \in Readers : pc'[r] = pc[r]
      BY <1>1 DEF BlockHandle, Visit
    <2>3. cur[w] \in Readers => ex[w] = "Idle"
      BY <1>1 DEF BlockHandle
    <2>. QED
      BY <1>1, <2>1, <2>2, <2>3 DEF BlockHandle
  <1>2. CASE RestoreHandle(w)
    BY <1>2 DEF RestoreHandle, First
  <1>. QED
    BY <1>1, <1>2

\* A pop computes its index for the Vec it then uses.
LEMMA ReaderSlotsReader ==
  ASSUME PCTypeOK, ControlTypeOK, ReaderSlots, NEW r \in Readers, ReaderMove(r)
  PROVE  ReaderSlots'
  <1>. USE DEF PCTypeOK, ControlTypeOK, ReaderSlots, SlotPCs, Slots
  <1>1. CASE PopFront(r)
    BY <1>1 DEF PopFront
  <1>2. CASE EnterRead(r)
    BY <1>2 DEF EnterRead
  <1>3. CASE ClaimStart(r)
    BY <1>3 DEF ClaimStart
  <1>4. CASE FindEmpty(r)
    BY <1>4 DEF FindEmpty
  <1>5. CASE Take(r)
    BY <1>5 DEF Take
  <1>6. CASE WritersRemain(r)
    BY <1>6 DEF WritersRemain
  <1>7. CASE FindClosed(r)
    BY <1>7 DEF FindClosed
  <1>8. CASE Sleep(r)
    BY <1>8 DEF Sleep
  <1>9. CASE SpuriousWake(r)
    BY <1>9 DEF SpuriousWake
  <1>10. CASE NotifyTaken(r)
    BY <1>10 DEF NotifyTaken, NotifyOne, GotoAndWake, Sleepers
  <1>11. CASE CountTaken(r)
    BY <1>11 DEF CountTaken
  <1>12. CASE LeaveRead(r)
    BY <1>12 DEF LeaveRead
  <1>13. CASE DropReader(r)
    BY <1>13 DEF DropReader
  <1>14. CASE RemoveReader(r)
    BY <1>14 DEF RemoveReader
  <1>15. ASSUME NEW c \in Readers, CloneReader(r, c) PROVE ReaderSlots'
    BY <1>15 DEF CloneReader
  <1>16. ASSUME NEW c \in Readers, CountReader(r, c) PROVE ReaderSlots'
    BY <1>16 DEF CountReader
  <1>. QED
    BY <1>1, <1>2, <1>3, <1>4, <1>5, <1>6, <1>7, <1>8, <1>9, <1>10, <1>11, <1>12,
      <1>13, <1>14, <1>15, <1>16
    DEF ReaderMove, ReaderClient, ReaderStep, PopStep

\* When the Vec is replaced every reader of the map is blocked, so outside.
LEMMA ReaderExclusionHolds ==
  ASSUME PCTypeOK, ControlTypeOK, SavedFlags, Visits, ReaderFlags
  PROVE  ReaderExclusion
  <1>1. SUFFICES ASSUME NEW w \in Writers, pc[w] = "realloc", NEW r \in Readers
                 PROVE  ~InsideReader(r)
    BY DEF ReaderExclusion, Reallocating
  <1>2. CASE r \in readers
    <2>1. saved[w][r] # NoAction
      BY <1>1, <1>2 DEF Visits
    <2>2. action[r] = "ExternallyBlocked"
      BY <2>1 DEF SavedFlags, SavedAreBlocked
    <2>. QED
      BY <2>2 DEF ReaderFlags, ReadingPCs, InsideReader
  <1>3. CASE r \notin readers
    BY <1>3 DEF ReaderFlags, InsideReader, SlotPCs
  <1>. QED
    BY <1>2, <1>3

\* Hence no pop holds a slot of a Vec that is replaced.
LEMMA ReaderSlotsResizing ==
  ASSUME Exclusion, NEW w \in Writers, Resizing(w)
  PROVE  ReaderSlots'
  <1>. USE DEF Exclusion
  <1>1. CASE Reallocate(w)
    <2>1. \A r \in Readers : pc[r] \notin SlotPCs
      BY <1>1, ReaderExclusionHolds DEF Reallocate, ReaderExclusion, Reallocating,
        InsideReader
    <2>2. \A r \in Readers : pc'[r] = pc[r]
      BY <1>1 DEF Reallocate, PCTypeOK
    <2>. QED
      BY <2>1, <2>2 DEF ReaderSlots
  <1>2. CASE BlockHandle(w) \/ RestoreHandle(w)
    <2>1. UNCHANGED <<cap, idx, seen>> /\ \A r \in Readers : pc'[r] = pc[r]
      BY <1>2 DEF BlockHandle, RestoreHandle, Visit, PCTypeOK
    <2>. QED
      BY <2>1 DEF ReaderSlots, Slots
  <1>3. CASE ~Reallocate(w) /\ ~BlockHandle(w) /\ ~RestoreHandle(w)
    <2>1. KeepsReaders
      BY <1>3, ResizeFrame
    <2>2. cap' = cap
      BY <1>3 DEF Resizing, WinStatus, LockReaders, LockWriters, NoticeRequest,
        PanicScan, Activate,
                  Unlock, UnlockWriters, UnlockReaders
    <2>. QED
      BY <2>1, <2>2, ReaderSlotsKept
  <1>. QED
    BY <1>1, <1>2, <1>3

\* One case per kind of step; the conjuncts are the lemmas above.
LEMMA ExclusionStep ==
  ASSUME Exclusion, [Next]_vars
  PROVE  Exclusion'
  <1>1. ASSUME NEW r \in Readers, ReaderMove(r) PROVE Exclusion'
    <2>1. KeepsResizers /\ KeepsBlocked
      BY <1>1, ReaderFrame DEF Exclusion
    <2>2. PCTypeOK' /\ ControlTypeOK'
      BY <1>1, ReaderPCType, ReaderControlType DEF Exclusion
    <2>3. StatusHeld' /\ SavedFlags' /\ Visits'
      BY <2>1, StatusHeldKept, SavedFlagsKept, VisitsKept DEF Exclusion, KeepsBlocked
    <2>4. ReaderFlags' /\ ReaderSlots'
      BY <1>1, ReaderFlagsReader, ReaderSlotsReader DEF Exclusion
    <2>. QED
      BY <2>2, <2>3, <2>4 DEF Exclusion
  <1>2. ASSUME NEW w \in Writers, Bystander(w) PROVE Exclusion'
    <2>1. KeepsResizers /\ KeepsReaders
      BY <1>2, BystanderFrame DEF Exclusion
    <2>2. PCTypeOK' /\ ControlTypeOK'
      BY <1>2, BystanderPCType, BystanderControlType DEF Exclusion
    <2>3. KeepsBlocked
      BY <2>1 DEF KeepsReaders, KeepsBlocked
    <2>4. StatusHeld' /\ SavedFlags' /\ Visits'
      BY <2>1, <2>3, StatusHeldKept, SavedFlagsKept, VisitsKept DEF Exclusion,
        KeepsBlocked
    <2>5. ReaderFlags' /\ ReaderSlots'
      BY <2>1, ReaderFlagsKept, ReaderSlotsKept DEF Exclusion, KeepsResizers
    <2>. QED
      BY <2>2, <2>4, <2>5 DEF Exclusion
  <1>3. ASSUME NEW w \in Writers, Resizing(w) PROVE Exclusion'
    <2>1. PCTypeOK' /\ ControlTypeOK' /\ StatusHeld'
      BY <1>3, ResizePCType, ResizeControlType, StatusHeldResizing DEF Exclusion
    <2>2. SavedFlags'
      BY <1>3, SavedWhileSavingResizing, SavedAreBlockedResizing,
        BlockedAreSavedResizing
      DEF Exclusion, SavedFlags
    <2>3. Visits' /\ ReaderSlots'
      BY <1>3, VisitsResizing, ReaderSlotsResizing DEF Exclusion
    <2>4. ReaderFlags'
      BY <1>3, ResizeFrame, ReaderFlagsKept, ReaderFlagsBlocking DEF Exclusion
    <2>. QED
      BY <2>1, <2>2, <2>3, <2>4 DEF Exclusion
  <1>4. CASE UNCHANGED vars
    BY <1>4 DEF Exclusion, PCTypeOK, ControlTypeOK, StatusHeld, OneResizer, Active,
      SavedFlags,
                SavedWhileSaving, SavedAreBlocked, BlockedAreSaved, Wedged, Saving,
                  Visits,
                ReaderFlags, ReaderSlots, Slots
  <1>. QED
    BY <1>1, <1>2, <1>3, <1>4, NextCases

\* Initially no flag is saved and no resize is under way.
LEMMA ExclusionInit ==
  ASSUME Init
  PROVE  Exclusion
  <1>1. Cardinality(FirstReaders) \in Nat /\ Cardinality(FirstWriters) \in Nat
    BY FS_Subset, FS_CardinalityType
  <1>2. PCTypeOK
    BY DEF Init, InitQueue, PCTypeOK, ReaderPCs, WriterPCs, HandlePCs
  <1>3. ControlTypeOK
    BY <1>1 DEF Init, InitQueue, ControlTypeOK, Statuses, Actions
  <1>4. StatusHeld /\ SavedFlags /\ Visits
    BY DEF Init, InitQueue, StatusHeld, OneResizer, Active, ResizerPCs, ScanPCs, SavedFlags,
      SavedWhileSaving,
           SavedAreBlocked, BlockedAreSaved, Visits
  <1>5. ReaderFlags /\ ReaderSlots
    BY DEF Init, InitQueue, ReaderFlags, ReadingPCs, SlotPCs, ReaderSlots
  <1>. QED
    BY <1>2, <1>3, <1>4, <1>5 DEF Exclusion

\* No resizer inspects a reader that another one blocked.
LEMMA NoReaderPanicHolds ==
  ASSUME Exclusion
  PROVE  NoReaderPanic
  <1>1. ASSUME NEW r \in Readers
        PROVE  /\ pc[r] = "enter" => action[r] \in {"Idle", "ExternallyBlocked"}
               /\ pc[r] = "leave" => action[r] = "Reading"
    BY DEF Exclusion, ReaderFlags, ReadingPCs, SlotPCs
  <1>2. ASSUME NEW w \in Writers, pc[w] = "scan", cur[w] \in Readers
        PROVE  action[cur[w]] # "ExternallyBlocked"
    <2>1. SUFFICES ASSUME action[cur[w]] = "ExternallyBlocked" PROVE FALSE
      OBVIOUS
    <2>2. Active(w)
      BY <1>2 DEF Active, ResizerPCs, ScanPCs
    <2>3. PICK v \in Writers : saved[v][cur[w]] # NoAction
      BY <1>2, <2>1, <2>2 DEF Exclusion, SavedFlags, BlockedAreSaved, Wedged
    <2>4. Active(v)
      BY <1>2, <2>3 DEF Exclusion, SavedFlags, SavedWhileSaving, Saving,
        Active, ResizerPCs,
                              ScanPCs
    <2>5. v = w
      BY <2>2, <2>4 DEF Exclusion, StatusHeld, OneResizer, Active
    <2>. QED
      BY <1>2, <2>3, <2>5 DEF Exclusion, Visits
  <1>. QED
    BY <1>1, <1>2 DEF NoReaderPanic, Exclusion, ReaderFlags

-----------------------------------------------------------------------------
(* The flags of the writers.                                               *)

\* A writer outside a push; in one, or waking the readers as it drops; and in
\* one that asks for a resize, before the Vec is replaced.
IdlePCs == {"none", "born", "idle", "clone", "enter", "count", "remove", "gone", "wenter"}
BusyPCs ==
  {"claim", "ticket", "put", "notify", "free", "load", "mark", "wstart", "wcount", "wwake", "wfree"}
AskingPCs == {"status", "cas", "await", "await2", "lockr", "lockw", "scan", "realloc"}

\* Before the first resize a writer's flag says where the writer is, unless the one
\* resizer has blocked it: nobody restores a flag over another's change.
FirstFlags ==
  /\ \A w \in Writers :
       \/ pc[w] \in IdlePCs /\ action[w] \in {"Idle", "ExternallyBlocked"}
       \/ pc[w] \in BusyPCs /\ action[w] = "Writing"
       \/ pc[w] \in AskingPCs /\ action[w] \in {"ResizeRequested", "ExternallyBlocked"}
  /\ \A w \in Writers : seen[w] = Cap
  /\ \A w \in Writers : pc[w] \in {"await", "await2"} => status = "WaitingToResize"
  /\ \A w \in Writers : pc[w] = "scan" => ex[w] \in {"Idle", "ResizeRequested"}
  /\ \A w \in Writers : action[w] = "ExternallyBlocked" =>
       \E u \in Writers : saved[u][w] # NoAction
FirstVec == cap >= Cap /\ (cap = Cap => FirstFlags)

\* A writer that is alone has a busy flag from EnterWrite to FreeWriter, or the
\* flag it saved of itself is: what it restores is never stale.
OneWriter == \A v, w \in Writers : v = w
PushPCs == {"claim", "ticket", "put", "notify", "free"} \cup RequestPCs \cup ResizerPCs
Busy == {"Writing", "ResizeRequested"}
OwnFlag ==
  \A w \in Writers :
    /\ pc[w] # "panic"
    /\ pc[w] \in IdlePCs => action[w] = "Idle"
    /\ pc[w] \in PushPCs =>
         IF saved[w][w] = NoAction THEN action[w] \in Busy ELSE saved[w][w] \in Busy
    /\ pc[w] \in RequestPCs \ {"load"} => old[w] \in Busy

\* What a reader leaves of the writers' state: all of it.
KeepsWriters ==
  /\ UNCHANGED <<cap, status, ex, saved>>
  /\ \A w \in Writers : pc'[w] = pc[w] /\ action'[w] = action[w] /\ seen'[w] = seen[w]

\* No step of a reader changes a writer's place or flag.
LEMMA ReaderKeepsWriters ==
  ASSUME PCTypeOK, ControlTypeOK, NEW r \in Readers, ReaderMove(r)
  PROVE  KeepsWriters
  <1>. USE DEF PCTypeOK, ControlTypeOK, KeepsWriters
  <1>1. CASE PopFront(r)
    BY <1>1 DEF PopFront
  <1>2. CASE EnterRead(r)
    BY <1>2 DEF EnterRead
  <1>3. CASE ClaimStart(r)
    BY <1>3 DEF ClaimStart
  <1>4. CASE FindEmpty(r)
    BY <1>4 DEF FindEmpty
  <1>5. CASE Take(r)
    BY <1>5 DEF Take
  <1>6. CASE WritersRemain(r)
    BY <1>6 DEF WritersRemain
  <1>7. CASE FindClosed(r)
    BY <1>7 DEF FindClosed
  <1>8. CASE Sleep(r)
    BY <1>8 DEF Sleep
  <1>9. CASE SpuriousWake(r)
    BY <1>9 DEF SpuriousWake
  <1>10. CASE NotifyTaken(r)
    BY <1>10 DEF NotifyTaken, NotifyOne, GotoAndWake, Sleepers
  <1>11. CASE CountTaken(r)
    BY <1>11 DEF CountTaken
  <1>12. CASE LeaveRead(r)
    BY <1>12 DEF LeaveRead
  <1>13. CASE DropReader(r)
    BY <1>13 DEF DropReader
  <1>14. CASE RemoveReader(r)
    BY <1>14 DEF RemoveReader
  <1>15. ASSUME NEW c \in Readers, CloneReader(r, c) PROVE KeepsWriters
    BY <1>15 DEF CloneReader
  <1>16. ASSUME NEW c \in Readers, CountReader(r, c) PROVE KeepsWriters
    BY <1>16 DEF CountReader
  <1>. QED
    BY <1>1, <1>2, <1>3, <1>4, <1>5, <1>6, <1>7, <1>8, <1>9, <1>10, <1>11, <1>12, <1>13,
      <1>14, <1>15, <1>16
    DEF ReaderMove, ReaderClient, ReaderStep, PopStep

\* FirstFlags depends on the writers alone.
LEMMA FirstKept ==
  ASSUME FirstFlags, KeepsWriters
  PROVE  FirstFlags'
  BY DEF FirstFlags, KeepsWriters

\* A writer outside a resize changes its own flag as it moves; none of its moves
\* before the first resize ends in a panic.
LEMMA FirstBystander ==
  ASSUME PCTypeOK, ControlTypeOK, cap = Cap, FirstFlags, NEW w \in Writers, Bystander(w)
  PROVE  FirstFlags' /\ cap' = cap
  <1>. USE DEF PCTypeOK, ControlTypeOK, FirstFlags, IdlePCs, BusyPCs, AskingPCs, Stale
  <1>1. CASE Push(w)
    BY <1>1 DEF Push
  <1>2. CASE EnterWrite(w)
    BY <1>2 DEF EnterWrite
  <1>3. CASE PanicEnter(w) \/ LoadLen(w)
    <2>1. CASE PanicEnter(w)
      BY <2>1 DEF PanicEnter
    <2>2. CASE LoadLen(w)
      BY <2>2 DEF LoadLen
    <2>. QED
      BY <1>3, <2>1, <2>2
  <1>4. CASE ClaimEnd(w)
    BY <1>4 DEF ClaimEnd
  <1>5. CASE PutValue(w)
    BY <1>5 DEF PutValue
  <1>6. CASE FindFull(w)
    BY <1>6 DEF FindFull
  <1>7. CASE PutStale(w)
    BY <1>7 DEF PutStale
  <1>8. CASE NotifyPut(w)
    <2>1. UNCHANGED otherVars /\ pc[w] = "notify"
      BY <1>8 DEF NotifyPut
    <2>2. pc'[w] = "free" /\ \A v \in Writers \ {w} : pc'[v] = pc[v]
      BY <1>8 DEF NotifyPut, NotifyOne, GotoAndWake, Sleepers
    <2>. QED
      BY <2>1, <2>2
  <1>9. CASE FreeWriter(w)
    BY <1>9 DEF FreeWriter
  <1>10. CASE CountPut(w)
    BY <1>10 DEF CountPut
  <1>11. CASE LoadAction(w)
    BY <1>11 DEF LoadAction
  <1>12. CASE MarkRequest(w)
    BY <1>12 DEF MarkRequest
  <1>13. CASE LoadStatus(w)
    BY <1>13 DEF LoadStatus
  <1>14. CASE LoseStatus(w)
    BY <1>14 DEF LoseStatus
  <1>15. CASE SeeActive(w)
    BY <1>15 DEF SeeActive
  <1>16. CASE RestoreAction(w)
    BY <1>16 DEF RestoreAction
  <1>17. CASE DropWriter(w)
    BY <1>17 DEF DropWriter
  <1>18. CASE RemoveWriter(w)
    BY <1>18 DEF RemoveWriter
  <1>19. CASE EnterWake(w)
    BY <1>19 DEF EnterWake
  <1>20. CASE LoadStart(w)
    BY <1>20 DEF LoadStart
  <1>21. CASE LoadReaders(w)
    BY <1>21 DEF LoadReaders
  <1>22. CASE WakeSlot(w)
    BY <1>22 DEF WakeSlot, GotoAndWake, Sleepers
  <1>23. CASE LeaveWake(w)
    BY <1>23 DEF LeaveWake
  <1>24. ASSUME NEW c \in Writers, CloneWriter(w, c) PROVE FirstFlags' /\ cap' = cap
    BY <1>24 DEF CloneWriter
  <1>25. ASSUME NEW c \in Writers, CountWriter(w, c) PROVE FirstFlags' /\ cap' = cap
    BY <1>25 DEF CountWriter
  <1>. QED
    BY <1>1, <1>2, <1>3, <1>4, <1>5, <1>6, <1>7, <1>8, <1>9, <1>10, <1>11, <1>12, <1>13,
      <1>14, <1>15, <1>16, <1>17, <1>18, <1>19, <1>20, <1>21, <1>22, <1>23, <1>24,
      <1>25
    DEF Bystander, WriterClient, PushStep, DropStep

\* A resizer blocks a writer only from Idle or ResizeRequested, and finds none blocked.
LEMMA FirstResizing ==
  ASSUME PCTypeOK, ControlTypeOK, cap = Cap, FirstFlags, StatusHeld, SavedFlags, Visits,
    NoReaderPanic, NEW w \in Writers, Resizing(w), ~Reallocate(w)
  PROVE  FirstFlags' /\ cap' = cap
  <1>. USE DEF PCTypeOK, ControlTypeOK, FirstFlags, IdlePCs, BusyPCs, AskingPCs
  <1>1. CASE WinStatus(w)
    BY <1>1 DEF WinStatus
  <1>2. CASE LockReaders(w)
    BY <1>2 DEF LockReaders
  <1>3. CASE LockWriters(w)
    <2>1. /\ pc' = [pc EXCEPT ![w] = pc'[w]] /\ pc'[w] \in {"scan", "realloc"}
          /\ ex' = [ex EXCEPT ![w] = "Idle"]
      BY <1>3 DEF LockWriters, Visit
    <2>2. pc[w] = "lockw" /\ UNCHANGED <<cap, status, action, seen, saved>>
      BY <1>3 DEF LockWriters
    <2>. QED
      BY <2>1, <2>2
  <1>4. CASE BlockHandle(w)
    <2>1. /\ pc' = [pc EXCEPT ![w] = pc'[w]] /\ pc'[w] \in {"scan", "realloc"}
          /\ ex' = [ex EXCEPT ![w] = "Idle"]
      BY <1>4 DEF BlockHandle, Visit
    <2>2. /\ pc[w] = "scan" /\ UNCHANGED <<cap, status, seen>>
          /\ action[cur[w]] = ex[w] /\ ex[w] \in {"Idle", "ResizeRequested"}
          /\ action' = [action EXCEPT ![cur[w]] = "ExternallyBlocked"]
          /\ saved' = [saved EXCEPT ![w][cur[w]] = ex[w]]
      BY <1>4 DEF BlockHandle
    <2>3. /\ \A u \in Writers : \A h \in Handles : saved[u][h] # NoAction => saved'[u][h] # NoAction
          /\ saved'[w][cur[w]] # NoAction
      BY <2>2 DEF NoAction
    <2>4. \A v \in Writers :
            \/ pc'[v] \in IdlePCs /\ action'[v] \in {"Idle", "ExternallyBlocked"}
            \/ pc'[v] \in BusyPCs /\ action'[v] = "Writing"
            \/ pc'[v] \in AskingPCs /\ action'[v] \in {"ResizeRequested", "ExternallyBlocked"}
      BY <2>1, <2>2
    <2>5. \A v \in Writers : action'[v] = "ExternallyBlocked" =>
            \E u \in Writers : saved'[u][v] # NoAction
      <3>1. SUFFICES ASSUME NEW v \in Writers, action'[v] = "ExternallyBlocked", v # cur[w]
                     PROVE  \E u \in Writers : saved'[u][v] # NoAction
        BY <2>3
      <3>2. PICK u \in Writers : saved[u][v] # NoAction
        BY <2>2, <3>1
      <3>. QED
        BY <2>3, <3>2
    <2>. QED
      BY <2>1, <2>2, <2>4, <2>5
  <1>5. CASE NoticeRequest(w)
    BY <1>5 DEF NoticeRequest
  <1>6. CASE PanicScan(w)
    <2>0. pc[w] = "scan" /\ action[cur[w]] = "ExternallyBlocked"
      BY <1>6 DEF PanicScan
    <2>1. cur[w] \in Writers
      BY <2>0 DEF NoReaderPanic
    <2>2. PICK u \in Writers : saved[u][cur[w]] # NoAction
      BY <2>0, <2>1
    <2>3. Active(u) /\ Active(w)
      BY <2>0, <2>2 DEF SavedFlags, SavedWhileSaving, Saving, Active, ResizerPCs, ScanPCs
    <2>4. u = w
      BY <2>3 DEF StatusHeld, OneResizer, Active
    <2>. QED
      BY <2>0, <2>2, <2>4 DEF Visits
  <1>7. CASE RestoreHandle(w)
    BY <1>7 DEF RestoreHandle, First
  <1>8. CASE Activate(w)
    BY <1>8 DEF Activate
  <1>9. CASE Unlock(w)
    <2>1. CASE UnlockWriters(w)
      BY <2>1 DEF UnlockWriters
    <2>2. CASE UnlockReaders(w)
      BY <2>2 DEF UnlockReaders
    <2>. QED
      BY <1>9, <2>1, <2>2 DEF Unlock
  <1>. QED
    BY <1>1, <1>2, <1>3, <1>4, <1>5, <1>6, <1>7, <1>8, <1>9
    DEF Resizing

\* A reader leaves a writer's flag, and what the writer remembers of it, alone.
LEMMA OwnFlagReader ==
  ASSUME PCTypeOK, ControlTypeOK, OwnFlag, NEW r \in Readers, ReaderMove(r)
  PROVE  OwnFlag'
  <1>1. KeepsWriters
    BY ReaderKeepsWriters
  <1>2. UNCHANGED old
    BY DEF ReaderMove, ReaderClient, ReaderStep, PopStep, PopFront, EnterRead,
      ClaimStart, FindEmpty, Take, WritersRemain, FindClosed, Sleep, SpuriousWake, NotifyTaken,
      CountTaken, LeaveRead, DropReader, RemoveReader, CloneReader, CountReader
  <1>. QED
    BY <1>1, <1>2 DEF OwnFlag, KeepsWriters

\* The only writer's own steps keep its flag in step with its place ...
LEMMA OwnFlagBystander ==
  ASSUME OneWriter, PCTypeOK, ControlTypeOK, SavedWhileSaving, OwnFlag,
    NEW w \in Writers, Bystander(w)
  PROVE  OwnFlag'
  <1>s. \A v \in Writers : pc[v] \notin {"scan", "realloc", "restore"} => saved[v][v] = NoAction
    BY DEF SavedWhileSaving, Saving
  <1>. USE <1>s DEF OneWriter, PCTypeOK, ControlTypeOK, OwnFlag, IdlePCs, PushPCs, RequestPCs,
    ResizerPCs, ScanPCs, Busy
  <1>1. CASE Push(w)
    BY <1>1 DEF Push
  <1>2. CASE EnterWrite(w)
    BY <1>2 DEF EnterWrite
  <1>3. CASE PanicEnter(w) \/ LoadLen(w)
    <2>1. CASE PanicEnter(w)
      BY <2>1 DEF PanicEnter
    <2>2. CASE LoadLen(w)
      BY <2>2 DEF LoadLen
    <2>. QED
      BY <1>3, <2>1, <2>2
  <1>4. CASE ClaimEnd(w)
    BY <1>4 DEF ClaimEnd
  <1>5. CASE PutValue(w)
    BY <1>5 DEF PutValue
  <1>6. CASE FindFull(w)
    BY <1>6 DEF FindFull
  <1>7. CASE PutStale(w)
    BY <1>7 DEF PutStale
  <1>8. CASE NotifyPut(w)
    <2>1. UNCHANGED otherVars /\ pc[w] = "notify"
      BY <1>8 DEF NotifyPut
    <2>2. pc'[w] = "free" /\ \A v \in Writers \ {w} : pc'[v] = pc[v]
      BY <1>8 DEF NotifyPut, NotifyOne, GotoAndWake, Sleepers
    <2>. QED
      BY <2>1, <2>2
  <1>9. CASE FreeWriter(w)
    BY <1>9 DEF FreeWriter
  <1>10. CASE CountPut(w)
    BY <1>10 DEF CountPut
  <1>11. CASE LoadAction(w)
    BY <1>11 DEF LoadAction
  <1>12. CASE MarkRequest(w)
    BY <1>12 DEF MarkRequest
  <1>13. CASE LoadStatus(w)
    BY <1>13 DEF LoadStatus
  <1>14. CASE LoseStatus(w)
    BY <1>14 DEF LoseStatus
  <1>15. CASE SeeActive(w)
    BY <1>15 DEF SeeActive
  <1>16. CASE RestoreAction(w)
    BY <1>16 DEF RestoreAction
  <1>17. CASE DropWriter(w)
    BY <1>17 DEF DropWriter
  <1>18. CASE RemoveWriter(w)
    BY <1>18 DEF RemoveWriter
  <1>19. CASE EnterWake(w)
    BY <1>19 DEF EnterWake
  <1>20. CASE LoadStart(w)
    BY <1>20 DEF LoadStart
  <1>21. CASE LoadReaders(w)
    BY <1>21 DEF LoadReaders
  <1>22. CASE WakeSlot(w)
    BY <1>22 DEF WakeSlot, GotoAndWake, Sleepers
  <1>23. CASE LeaveWake(w)
    BY <1>23 DEF LeaveWake
  <1>24. ASSUME NEW c \in Writers, CloneWriter(w, c) PROVE OwnFlag'
    BY <1>24 DEF CloneWriter
  <1>25. ASSUME NEW c \in Writers, CountWriter(w, c) PROVE OwnFlag'
    BY <1>25 DEF CountWriter
  <1>. QED
    BY <1>1, <1>2, <1>3, <1>4, <1>5, <1>6, <1>7, <1>8, <1>9, <1>10, <1>11, <1>12, <1>13,
      <1>14, <1>15, <1>16, <1>17, <1>18, <1>19, <1>20, <1>21, <1>22, <1>23, <1>24,
      <1>25
    DEF Bystander, WriterClient, PushStep, DropStep

\* ... those of its resize too: it saves a busy flag of itself and restores that.
LEMMA OwnFlagResizing ==
  ASSUME OneWriter, PCTypeOK, ControlTypeOK, SavedWhileSaving, Visits, NoReaderPanic, OwnFlag,
    NEW w \in Writers, Resizing(w)
  PROVE  OwnFlag'
  <1>s. \A v \in Writers : pc[v] \notin {"scan", "realloc", "restore"} => saved[v][v] = NoAction
    BY DEF SavedWhileSaving, Saving
  <1>. USE <1>s DEF OneWriter, PCTypeOK, ControlTypeOK, OwnFlag, IdlePCs, PushPCs, RequestPCs,
    ResizerPCs, ScanPCs, Busy
  <1>1. CASE WinStatus(w)
    BY <1>1 DEF WinStatus
  <1>2. CASE LockReaders(w)
    BY <1>2 DEF LockReaders
  <1>3. CASE LockWriters(w)
    <2>1. pc' = [pc EXCEPT ![w] = pc'[w]] /\ pc'[w] \in {"scan", "realloc"}
      BY <1>3 DEF LockWriters, Visit
    <2>2. pc[w] = "lockw" /\ UNCHANGED <<action, old, saved>>
      BY <1>3 DEF LockWriters
    <2>. QED
      BY <2>1, <2>2
  <1>4. CASE BlockHandle(w)
    <2>1. pc' = [pc EXCEPT ![w] = pc'[w]] /\ pc'[w] \in {"scan", "realloc"}
      BY <1>4 DEF BlockHandle, Visit
    <2>2. /\ pc[w] = "scan" /\ UNCHANGED old /\ action[cur[w]] = ex[w]
          /\ action' = [action EXCEPT ![cur[w]] = "ExternallyBlocked"]
          /\ saved' = [saved EXCEPT ![w][cur[w]] = ex[w]]
      BY <1>4 DEF BlockHandle
    <2>3. saved[w][cur[w]] = NoAction
      BY <2>2 DEF Visits
    <2>4. CASE cur[w] = w
      <3>1. saved'[w][w] = action[w] /\ action[w] \in Busy
        BY <2>2, <2>3, <2>4
      <3>. QED
        BY <2>1, <2>2, <3>1 DEF NoAction
    <2>5. CASE cur[w] # w
      <3>1. saved'[w][w] = saved[w][w] /\ action'[w] = action[w]
        BY <2>2, <2>5
      <3>. QED
        BY <2>1, <2>2, <3>1
    <2>. QED
      BY <2>4, <2>5
  <1>5. CASE NoticeRequest(w)
    BY <1>5 DEF NoticeRequest
  <1>6. CASE PanicScan(w)
    <2>0. pc[w] = "scan" /\ action[cur[w]] = "ExternallyBlocked"
      BY <1>6 DEF PanicScan
    <2>1. cur[w] = w
      BY <2>0 DEF NoReaderPanic
    <2>2. saved[w][w] = NoAction
      BY <2>0, <2>1 DEF Visits
    <2>. QED
      BY <2>0, <2>1, <2>2
  <1>7. CASE Reallocate(w)
    BY <1>7 DEF Reallocate
  <1>8. CASE RestoreHandle(w)
    <2>1. PICK h \in First(todo[w]) :
            /\ SetAction(h, saved[w][h])
            /\ saved' = [saved EXCEPT ![w][h] = NoAction]
            /\ Goto(w, IF todo[w] = {h} THEN "activate" ELSE "restore")
      BY <1>8 DEF RestoreHandle
    <2>2. h \in Handles /\ saved[w][h] # NoAction /\ pc[w] = "restore" /\ UNCHANGED old
      BY <1>8, FirstIn DEF RestoreHandle, Visits
    <2>3. CASE h = w
      BY <2>1, <2>2, <2>3
    <2>4. CASE h # w
      <3>1. saved'[w][w] = saved[w][w] /\ action'[w] = action[w]
        BY <2>1, <2>2, <2>4
      <3>. QED
        BY <2>1, <2>2, <3>1
    <2>. QED
      BY <2>3, <2>4
  <1>9. CASE Activate(w)
    BY <1>9 DEF Activate
  <1>10. CASE Unlock(w)
    <2>1. CASE UnlockWriters(w)
      BY <2>1 DEF UnlockWriters
    <2>2. CASE UnlockReaders(w)
      BY <2>2 DEF UnlockReaders
    <2>. QED
      BY <1>10, <2>1, <2>2 DEF Unlock
  <1>. QED
    BY <1>1, <1>2, <1>3, <1>4, <1>5, <1>6, <1>7, <1>8, <1>9, <1>10
    DEF Resizing

\* So every step does.
LEMMA OwnFlagStep ==
  ASSUME OneWriter, Exclusion, NoReaderPanic, OwnFlag, [Next]_vars
  PROVE  OwnFlag'
  <1>. USE DEF Exclusion, SavedFlags
  <1>1. ASSUME NEW r \in Readers, ReaderMove(r) PROVE OwnFlag'
    BY <1>1, OwnFlagReader
  <1>2. ASSUME NEW w \in Writers, Bystander(w) PROVE OwnFlag'
    BY <1>2, OwnFlagBystander
  <1>3. ASSUME NEW w \in Writers, Resizing(w) PROVE OwnFlag'
    BY <1>3, OwnFlagResizing
  <1>4. ASSUME UNCHANGED vars PROVE OwnFlag'
    BY <1>4 DEF OwnFlag
  <1>. QED
    BY <1>1, <1>2, <1>3, <1>4, NextCases

-----------------------------------------------------------------------------
(* What is proved of the resize protocol.                                  *)

\* The control state stays consistent on every run, whatever the handles do.
THEOREM ExclusionInvariant == Spec => []Exclusion
  <1>1. Init => Exclusion
    BY ExclusionInit
  <1>2. Exclusion /\ [Next]_vars => Exclusion'
    BY ExclusionStep
  <1>. QED
    BY <1>1, <1>2, PTL DEF Spec

\* While a resizer replaces the Vec no reader is between its entry and its last
\* use of a slot, for any number of readers and writers (exclusive, queue.rs).
THEOREM ReadersExcluded == Spec => []ReaderExclusion
  <1>1. Exclusion => ReaderExclusion
    BY ReaderExclusionHolds DEF Exclusion
  <1>. QED
    BY <1>1, ExclusionInvariant, PTL

\* A pop uses one Vec only: the slot it sleeps on is never freed under it.
THEOREM ReadersNeverStale == Spec => []ReaderInCurrentVec
  <1>1. Exclusion => ReaderInCurrentVec
    BY DEF Exclusion, ReaderSlots, ReaderInCurrentVec, Stale
  <1>. QED
    BY <1>1, ExclusionInvariant, PTL

\* At most one writer resizes at a time.
THEOREM ResizerUnique == Spec => []OneResizer
  <1>1. Exclusion => OneResizer
    BY DEF Exclusion, StatusHeld
  <1>. QED
    BY <1>1, ExclusionInvariant, PTL

\* No unreachable! arm about the flag of a reader is reached.
THEOREM ReadersNeverPanic == Spec => []NoReaderPanic
  <1>1. Exclusion => NoReaderPanic
    BY NoReaderPanicHolds
  <1>. QED
    BY <1>1, ExclusionInvariant, PTL

\* With one sender no unreachable! arm about a writer's flag is reached.
THEOREM AloneNeverPanics ==
  ASSUME OneWriter
  PROVE  Spec => []NoWriterPanic
  <1>1. Init => OwnFlag
    BY DEF Init, InitQueue, OwnFlag, IdlePCs, PushPCs, RequestPCs, ResizerPCs, ScanPCs
  <1>2. Exclusion /\ NoReaderPanic /\ OwnFlag /\ [Next]_vars => OwnFlag'
    BY OwnFlagStep
  <1>3. OwnFlag => NoWriterPanic
    BY DEF OwnFlag, NoWriterPanic
  <1>. QED
    BY <1>1, <1>2, <1>3, ExclusionInvariant, ReadersNeverPanic, PTL
    DEF Spec
=============================================================================
