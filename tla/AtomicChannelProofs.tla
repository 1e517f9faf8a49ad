------------------------ MODULE AtomicChannelProofs ------------------------
(***************************************************************************)
(* Theorems about the channel of version 4: to its queue it is a client    *)
(* like any other, so that what is proved of AtomicQueue holds in it; and  *)
(* a send answers for the receivers there are.                             *)
(***************************************************************************)
EXTENDS AtomicChannel, AtomicQueueDelivery, FiniteSetTheorems

USE AQAssumption DEF Handles, Goto, SetAction, CasAction, queueVars, mapVars, posVars,
  scanVars, histVars, otherVars, vars, channelVars, allVars

\* Every step of the channel is a step of its queue or leaves the queue alone.
LEMMA ChannelStep ==
  ASSUME [ChannelNext]_allVars
  PROVE  [Next]_vars
  <1>1. CASE QueueStep
    BY <1>1 DEF QueueStep, Next
  <1>2. ASSUME NEW h \in Handles, Clone(h) PROVE Next
    BY <1>2 DEF Clone, Next, ReaderClient, WriterClient
  <1>3. ASSUME NEW h \in Handles, Drop(h) PROVE Next
    BY <1>3 DEF Drop, Next, ReaderClient, WriterClient
  <1>4. ASSUME NEW h \in Handles, CountClone(h) \/ CountDrop(h) PROVE UNCHANGED vars
    BY <1>4 DEF CountClone, CountDrop
  <1>5. ASSUME NEW w \in Writers, Admit(w) \/ Refuse(w) \/ ReturnClosed(w)
        PROVE  UNCHANGED vars
    BY <1>5 DEF Admit, Refuse, ReturnClosed
  <1>6. ASSUME NEW w \in Writers, Send(w) PROVE Next
    BY <1>6 DEF Send, Next, WriterClient
  <1>7. ASSUME NEW r \in Readers, Recv(r) PROVE Next
    BY <1>7 DEF Recv, Next, ReaderClient
  <1>. QED
    BY <1>1, <1>2, <1>3, <1>4, <1>5, <1>6, <1>7 DEF ChannelNext

\* The channel refines the queue with its free client: counting first and calling
\* the queue later is one of the things that client may do.
THEOREM ChannelRefines == ChannelSpec => Spec
  <1>1. ChannelInit => Init
    BY DEF ChannelInit
  <1>. QED
    BY <1>1, ChannelStep, PTL DEF ChannelSpec, Spec

\* In the channel as in the queue, no value is delivered twice.
THEOREM ChannelDeliversAtMostOnce == ChannelSpec => []AtMostOnce
  BY ChannelRefines, DeliveredAtMostOnce, PTL

-----------------------------------------------------------------------------
(* The count of receivers: one for each that has not begun to drop, and one *)
(* for each clone that is counted and not yet made.                        *)

Here(r) == pc[r] \notin {"none", "remove", "gone"}
Counted == {r \in Readers : Here(r) /\ call[r] # "drop"}
Promised == {r \in Readers : call[r] = "clone"}
CallsFit ==
  /\ call \in [Handles -> Calls]
  /\ \A r \in Readers :
       /\ call[r] = "clone" => pc[r] = "idle"
       /\ pc[r] \in {"none", "born"} => call[r] = "out"
CountsFit == receivers = Cardinality(Counted) + Cardinality(Promised)

\* What a step of the queue does to a reader that is not in a call of the queue.
KeepsPlace(r) ==
  /\ pc[r] \in {"idle", "none", "gone"} => pc'[r] = pc[r]
  /\ pc[r] = "remove" => pc'[r] \in {"remove", "gone"}
  /\ Here(r) => Here(r)' /\ (pc'[r] = "born" => pc[r] = "born")

\* The queue's own steps create and drop nobody.
LEMMA ReaderStepPlaces ==
  ASSUME PCTypeOK, NEW r \in Readers, ReaderStep(r) \/ SpuriousWake(r), NEW q \in Readers
  PROVE  KeepsPlace(q)
  <1>. USE DEF PCTypeOK, KeepsPlace, Here
  <1>1. CASE PopStep(r)
    <2>1. CASE EnterRead(r) \/ ClaimStart(r) \/ FindEmpty(r) \/ Take(r)
      BY <2>1 DEF EnterRead, ClaimStart, FindEmpty, Take
    <2>2. CASE WritersRemain(r) \/ FindClosed(r) \/ Sleep(r)
      BY <2>2 DEF WritersRemain, FindClosed, Sleep
    <2>3. CASE NotifyTaken(r)
      BY <2>3 DEF NotifyTaken, NotifyOne, GotoAndWake, Sleepers
    <2>4. CASE CountTaken(r) \/ LeaveRead(r)
      BY <2>4 DEF CountTaken, LeaveRead
    <2>. QED
      BY <1>1, <2>1, <2>2, <2>3, <2>4 DEF PopStep
  <1>2. CASE RemoveReader(r)
    BY <1>2 DEF RemoveReader
  <1>3. ASSUME NEW c \in Readers, CountReader(r, c) PROVE KeepsPlace(q)
    BY <1>3 DEF CountReader
  <1>4. CASE SpuriousWake(r)
    BY <1>4 DEF SpuriousWake
  <1>. QED
    BY <1>1, <1>2, <1>3, <1>4 DEF ReaderStep

\* A resize changes the flags of the readers, not who there is.
LEMMA WriterStepPlaces ==
  ASSUME PCTypeOK, ControlTypeOK, NEW w \in Writers, WriterStep(w), NEW q \in Readers
  PROVE  KeepsPlace(q)
  <1>1. CASE BlockHandle(w)
    BY <1>1 DEF BlockHandle, Visit, First, PCTypeOK, KeepsPlace, Here
  <1>2. CASE RestoreHandle(w)
    BY <1>2 DEF RestoreHandle, First, PCTypeOK, KeepsPlace, Here
  <1>3. CASE ~BlockHandle(w) /\ ~RestoreHandle(w)
    <2>1. Bystander(w) \/ Resizing(w)
      BY DEF WriterStep, ResizeStep, Bystander, Resizing
    <2>2. KeepsReaders
      BY <1>3, <2>1, BystanderFrame, ResizeFrame
    <2>. QED
      BY <2>2 DEF KeepsReaders, KeepsPlace, Here
  <1>. QED
    BY <1>1, <1>2, <1>3

\* So no step of the queue moves a reader between the places that the count is about.
LEMMA QueueStepPlaces ==
  ASSUME PCTypeOK, ControlTypeOK, QueueStep, NEW q \in Readers
  PROVE  KeepsPlace(q)
  BY ReaderStepPlaces, WriterStepPlaces DEF QueueStep

-----------------------------------------------------------------------------
\* A call stays with the thread that makes it.
LEMMA CallsStep ==
  ASSUME PCTypeOK, ControlTypeOK, CallsFit, [ChannelNext]_allVars
  PROVE  CallsFit'
  <1>. USE DEF CallsFit, Calls, Becomes, PCTypeOK
  <1>1. CASE QueueStep
    BY <1>1, QueueStepPlaces DEF QueueStep, KeepsPlace, Here
  <1>2. ASSUME NEW h \in Handles, CountClone(h) \/ CountDrop(h) PROVE CallsFit'
    BY <1>2 DEF CountClone, CountDrop
  <1>3. ASSUME NEW h \in Handles, Clone(h) PROVE CallsFit'
    BY <1>3 DEF Clone, CloneReader, CloneWriter
  <1>4. ASSUME NEW h \in Handles, Drop(h) PROVE CallsFit'
    BY <1>4 DEF Drop, DropReader, DropWriter
  <1>5. ASSUME NEW w \in Writers, Admit(w) \/ Refuse(w) \/ ReturnClosed(w)
        PROVE  CallsFit'
    BY <1>5 DEF Admit, Refuse, ReturnClosed
  <1>6. ASSUME NEW w \in Writers, Send(w) PROVE CallsFit'
    BY <1>6 DEF Send, Push
  <1>7. ASSUME NEW r \in Readers, Recv(r) PROVE CallsFit'
    BY <1>7 DEF Recv, PopFront
  <1>8. CASE UNCHANGED allVars
    BY <1>8
  <1>. QED
    BY <1>1, <1>2, <1>3, <1>4, <1>5, <1>6, <1>7, <1>8 DEF ChannelNext

\* Both sets are finite and have a size.
LEMMA ReadersFinite ==
  /\ IsFiniteSet(Readers)
  /\ \A S \in SUBSET Readers : IsFiniteSet(S) /\ Cardinality(S) \in Nat
  <1>1. IsFiniteSet(Readers)
    BY FS_Subset
  <1>. QED
    BY <1>1, FS_Subset, FS_CardinalityType

\* One receiver more or less.
LEMMA SizeOfMore ==
  ASSUME NEW S \in SUBSET Readers, NEW r, r \notin S
  PROVE  Cardinality(S \cup {r}) = Cardinality(S) + 1
  BY ReadersFinite, FS_AddElement

\* And one less.
LEMMA SizeOfLess ==
  ASSUME NEW S \in SUBSET Readers, NEW r \in S
  PROVE  Cardinality(S \ {r}) = Cardinality(S) - 1
  BY ReadersFinite, FS_RemoveElement

\* The count is that of the two sets after every step.
LEMMA CountsStep ==
  ASSUME PCTypeOK, ControlTypeOK, CallsFit, CountsFit, [ChannelNext]_allVars
  PROVE  CountsFit'
  <1>. USE DEF CountsFit, Becomes
  <1>. DEFINE Unmoved == UNCHANGED <<Counted, Promised, receivers>>
  <1>1. CASE QueueStep
    <2>1. \A q \in Readers : (Here(q)' <=> Here(q))
      BY <1>1, QueueStepPlaces DEF KeepsPlace, Here
    <2>2. Unmoved
      BY <1>1, <2>1 DEF QueueStep, Counted, Promised
    <2>. QED
      BY <2>2
  <1>2. ASSUME NEW h \in Handles, CountClone(h) PROVE CountsFit'
    <2>1. CASE h \in Readers
      <3>1. Counted' = Counted /\ Promised' = Promised \cup {h} /\ h \notin Promised
        BY <1>2, <2>1 DEF CountClone, Counted, Promised, CallsFit, Here
      <3>2. Cardinality(Promised') = Cardinality(Promised) + 1
        BY <3>1, SizeOfMore DEF Promised
      <3>3. Cardinality(Counted) \in Nat /\ Cardinality(Promised) \in Nat
        BY ReadersFinite DEF Counted, Promised
      <3>. QED
        BY <1>2, <2>1, <3>1, <3>2, <3>3 DEF CountClone, Count
    <2>2. CASE h \notin Readers
      <3>1. Unmoved
        BY <1>2, <2>2 DEF CountClone, Count, Counted, Promised, CallsFit, Here
      <3>. QED
        BY <3>1
    <2>. QED
      BY <2>1, <2>2
  <1>3. ASSUME NEW h \in Handles, Clone(h) PROVE CountsFit'
    <2>1. ASSUME h \in Readers, NEW c \in Readers, CloneReader(h, c) PROVE CountsFit'
      <3>1. /\ Counted' = Counted \cup {c} /\ c \notin Counted
            /\ Promised' = Promised \ {h} /\ h \in Promised
        BY <1>3, <2>1 DEF Clone, CloneReader, Counted, Promised, CallsFit, PCTypeOK, Here
      <3>2. /\ Cardinality(Counted') = Cardinality(Counted) + 1
            /\ Cardinality(Promised') = Cardinality(Promised) - 1
        <4>1. Counted \in SUBSET Readers /\ Promised \in SUBSET Readers
          BY DEF Counted, Promised
        <4>. QED
          BY <3>1, <4>1, SizeOfMore, SizeOfLess
      <3>3. Cardinality(Counted) \in Nat /\ Cardinality(Promised) \in Nat
        BY ReadersFinite DEF Counted, Promised
      <3>. QED
        BY <1>3, <3>2, <3>3 DEF Clone
    <2>2. ASSUME h \in Writers, NEW c \in Writers, CloneWriter(h, c) PROVE CountsFit'
      <3>1. Unmoved
        BY <1>3, <2>2 DEF Clone, CloneWriter, Counted, Promised, CallsFit, PCTypeOK, Here
      <3>. QED
        BY <3>1
    <2>. QED
      BY <1>3, <2>1, <2>2 DEF Clone
  <1>4. ASSUME NEW h \in Handles, CountDrop(h) PROVE CountsFit'
    <2>1. CASE h \in Readers
      <3>1. Promised' = Promised /\ Counted' = Counted \ {h} /\ h \in Counted
        BY <1>4, <2>1 DEF CountDrop, Counted, Promised, CallsFit, Here
      <3>2. Cardinality(Counted') = Cardinality(Counted) - 1
        <4>1. Counted \in SUBSET Readers
          BY DEF Counted
        <4>. QED
          BY <3>1, <4>1, SizeOfLess
      <3>3. Cardinality(Counted) \in Nat /\ Cardinality(Promised) \in Nat
        BY ReadersFinite DEF Counted, Promised
      <3>. QED
        BY <1>4, <2>1, <3>1, <3>2, <3>3 DEF CountDrop, Count
    <2>2. CASE h \notin Readers
      <3>1. Unmoved
        BY <1>4, <2>2 DEF CountDrop, Count, Counted, Promised, CallsFit, Here
      <3>. QED
        BY <3>1
    <2>. QED
      BY <2>1, <2>2
  <1>5. ASSUME NEW h \in Handles, Drop(h) PROVE Unmoved
    BY <1>5 DEF Drop, DropReader, DropWriter, Counted, Promised, PCTypeOK, Here
  <1>6. ASSUME NEW w \in Writers, Admit(w) \/ Refuse(w) \/ ReturnClosed(w)
        PROVE  Unmoved
    BY <1>6 DEF Admit, Refuse, ReturnClosed, CallsFit, Counted, Promised, Here
  <1>7. ASSUME NEW w \in Writers, Send(w) PROVE Unmoved
    BY <1>7 DEF Send, Push, CallsFit, PCTypeOK, Counted, Promised, Here
  <1>8. ASSUME NEW r \in Readers, Recv(r) PROVE Unmoved
    BY <1>8 DEF Recv, PopFront, PCTypeOK, Counted, Promised, Here
  <1>9. CASE UNCHANGED allVars
    BY <1>9 DEF Counted, Promised, Here
  <1>. QED
    BY <1>1, <1>2, <1>3, <1>4, <1>5, <1>6, <1>7, <1>8, <1>9 DEF ChannelNext

\* The first receivers are counted and no clone is promised.
LEMMA CountsInit ==
  ASSUME ChannelInit
  PROVE  CallsFit /\ CountsFit
  <1>1. CallsFit
    BY DEF ChannelInit, Init, InitQueue, CallsFit, Calls
  <1>2. Counted = FirstReaders /\ Promised = {}
    BY DEF ChannelInit, Init, InitQueue, Counted, Promised, Here
  <1>3. IsFiniteSet(FirstReaders) /\ Cardinality(FirstReaders) \in Nat
    BY ReadersFinite
  <1>. QED
    BY <1>1, <1>2, <1>3, FS_EmptySet DEF ChannelInit, CountsFit

\* The count of receivers is exact at every moment, and the calls fit the places of
\* their threads.
THEOREM ReceiversCounted == ChannelSpec => [](CallsFit /\ CountsFit)
  <1>1. ChannelInit => CallsFit /\ CountsFit
    BY CountsInit
  <1>2. PCTypeOK /\ ControlTypeOK /\ CallsFit /\ CountsFit /\ [ChannelNext]_allVars
          => (CallsFit /\ CountsFit)'
    BY CallsStep, CountsStep
  <1>3. Exclusion => PCTypeOK /\ ControlTypeOK
    BY DEF Exclusion
  <1>. QED
    BY <1>1, <1>2, <1>3, ChannelRefines, ExclusionInvariant, PTL DEF ChannelSpec

\* For any number of handles a send is refused only when no receiver is left, and
\* goes on to push only while there is one.
THEOREM SendsAnswerForReceivers == ChannelSpec => SendSeesReceivers
  <1>1. CallsFit /\ CountsFit =>
          \A w \in Writers : (Admit(w) => SomeReceiver) /\ (Refuse(w) => ~SomeReceiver)
    <2>. SUFFICES ASSUME CallsFit, CountsFit, NEW w \in Writers
                  PROVE  (Admit(w) => SomeReceiver) /\ (Refuse(w) => ~SomeReceiver)
      OBVIOUS
    <2>1. Promised \subseteq Counted
      BY DEF CallsFit, Promised, Counted, Here
    <2>2. SomeReceiver <=> Counted # {}
      BY DEF SomeReceiver, Counted, Here
    <2>3. Cardinality(Counted) = 0 <=> Counted = {}
      BY ReadersFinite, FS_EmptySet DEF Counted
    <2>4. Cardinality(Promised) = 0 <=> Promised = {}
      BY ReadersFinite, FS_EmptySet DEF Promised
    <2>5. Cardinality(Counted) \in Nat /\ Cardinality(Promised) \in Nat
      BY ReadersFinite DEF Counted, Promised
    <2>6. receivers = 0 <=> Counted = {}
      BY <2>1, <2>3, <2>4, <2>5 DEF CountsFit
    <2>. QED
      BY <2>2, <2>6 DEF Admit, Refuse
  <1>. QED
    BY <1>1, ReceiversCounted, PTL DEF SendSeesReceivers
=============================================================================
