-------------------------- MODULE MutexChannelProofs --------------------------
(***************************************************************************)
(* Theorem: versions 1 and 2 implement the contract, Channel, for any      *)
(* number of handles and of sends.                                         *)
(*                                                                         *)
(* The contract asks whether a handle is there, the code whether a count   *)
(* is zero.  The invariant is that the two counts are those of the handles *)
(* in being; it is what Push, SendClosed and RecvClosed need.              *)
(***************************************************************************)
EXTENDS MutexChannel, FiniteSetTheorems, TLAPS

SenderPCs == {"none", "idle", "send", "sent", "refused", "gone"}
ReceiverPCs == {"none", "idle", "recv", "received", "closed", "gone"}
PCTypeOK ==
  /\ pc \in [Handles -> SenderPCs \cup ReceiverPCs]
  /\ \A s \in Senders : pc[s] \in SenderPCs
  /\ \A r \in Receivers : pc[r] \in ReceiverPCs

LiveSenders == {s \in Senders : pc[s] \notin {"none", "gone"}}
LiveReceivers == {r \in Receivers : pc[r] \notin {"none", "gone"}}
CountsOK ==
  senders = Cardinality(LiveSenders) /\ receivers = Cardinality(LiveReceivers)

Inv == PCTypeOK /\ CountsOK

USE MutexAssumption DEF Handles

-----------------------------------------------------------------------------
(* The invariant.                                                          *)

\* Sets of handles are finite, and have one handle more or less.
LEMMA Sizes ==
  ASSUME NEW All, IsFiniteSet(All), NEW S \in SUBSET All
  PROVE  /\ Cardinality(S) \in Nat /\ (Cardinality(S) = 0 <=> S = {})
         /\ \A h : h \notin S => Cardinality(S \cup {h}) = Cardinality(S) + 1
         /\ \A h \in S : Cardinality(S \ {h}) = Cardinality(S) - 1
  <1>1. IsFiniteSet(S)
    BY FS_Subset
  <1>2. Cardinality(S) \in Nat /\ (Cardinality(S) = 0 <=> S = {})
    BY <1>1, FS_CardinalityType, FS_EmptySet
  <1>3. ASSUME NEW h, h \notin S PROVE Cardinality(S \cup {h}) = Cardinality(S) + 1
    BY <1>1, <1>3, FS_AddElement
  <1>4. ASSUME NEW h \in S PROVE Cardinality(S \ {h}) = Cardinality(S) - 1
    BY <1>1, FS_RemoveElement
  <1>. QED
    BY <1>2, <1>3, <1>4

\* Both counts start with the handles there are.
LEMMA InvInit == Init => Inv
  <1>. SUFFICES ASSUME Init PROVE Inv
    OBVIOUS
  <1>1. PCTypeOK
    BY DEF Init, PCTypeOK, SenderPCs, ReceiverPCs
  <1>2. LiveSenders = FirstSenders /\ LiveReceivers = FirstReceivers
    BY DEF Init, LiveSenders, LiveReceivers
  <1>. QED
    BY <1>1, <1>2 DEF Init, Inv, CountsOK

\* A clone or a drop changes one of the sets by its handle, and the count by one; any
\* other step leaves who is there alone.
LEMMA InvStep == Inv /\ [Next]_vars => Inv'
  <1>. SUFFICES ASSUME Inv, [Next]_vars PROVE Inv'
    OBVIOUS
  <1>. USE DEF Inv, PCTypeOK, Move
  <1>1. ASSUME NEW s \in Senders, NEW c \in Senders, CloneSender(s, c) PROVE Inv'
    <2>1. LiveSenders' = LiveSenders \cup {c} /\ c \notin LiveSenders
      BY <1>1 DEF CloneSender, LiveSenders
    <2>2. LiveReceivers' = LiveReceivers
      BY <1>1 DEF CloneSender, LiveReceivers
    <2>3. PCTypeOK'
      BY <1>1 DEF CloneSender, SenderPCs, ReceiverPCs
    <2>. QED
      BY <1>1, <2>1, <2>2, <2>3, Sizes DEF CloneSender, CountsOK, LiveSenders
  <1>2. ASSUME NEW r \in Receivers, NEW c \in Receivers, CloneReceiver(r, c) PROVE Inv'
    <2>1. LiveReceivers' = LiveReceivers \cup {c} /\ c \notin LiveReceivers
      BY <1>2 DEF CloneReceiver, LiveReceivers
    <2>2. LiveSenders' = LiveSenders
      BY <1>2 DEF CloneReceiver, LiveSenders
    <2>3. PCTypeOK'
      BY <1>2 DEF CloneReceiver, SenderPCs, ReceiverPCs
    <2>. QED
      BY <1>2, <2>1, <2>2, <2>3, Sizes DEF CloneReceiver, CountsOK, LiveReceivers
  <1>3. ASSUME NEW s \in Senders, DropSender(s) PROVE Inv'
    <2>1. LiveSenders' = LiveSenders \ {s} /\ s \in LiveSenders
      BY <1>3 DEF DropSender, LiveSenders
    <2>2. LiveReceivers' = LiveReceivers
      BY <1>3 DEF DropSender, LiveReceivers
    <2>3. PCTypeOK'
      BY <1>3 DEF DropSender, SenderPCs, ReceiverPCs
    <2>4. LiveSenders \in SUBSET Senders
      BY DEF LiveSenders
    <2>5. Cardinality(LiveSenders') = Cardinality(LiveSenders) - 1
      BY <2>1, <2>4, Sizes
    <2>. QED
      BY <1>3, <2>2, <2>3, <2>5 DEF DropSender, CountsOK
  <1>4. ASSUME NEW r \in Receivers, DropReceiver(r) PROVE Inv'
    <2>1. LiveReceivers' = LiveReceivers \ {r} /\ r \in LiveReceivers
      BY <1>4 DEF DropReceiver, LiveReceivers
    <2>2. LiveSenders' = LiveSenders
      BY <1>4 DEF DropReceiver, LiveSenders
    <2>3. PCTypeOK'
      BY <1>4 DEF DropReceiver, SenderPCs, ReceiverPCs
    <2>4. LiveReceivers \in SUBSET Receivers
      BY DEF LiveReceivers
    <2>5. Cardinality(LiveReceivers') = Cardinality(LiveReceivers) - 1
      BY <2>1, <2>4, Sizes
    <2>. QED
      BY <1>4, <2>2, <2>3, <2>5 DEF DropReceiver, CountsOK
  <1>5. ASSUME PCTypeOK', LiveSenders' = LiveSenders, LiveReceivers' = LiveReceivers,
               UNCHANGED <<senders, receivers>>
        PROVE  Inv'
    BY <1>5 DEF CountsOK
  <1>6. ASSUME NEW s \in Senders, Send(s) \/ SenderStep(s) PROVE Inv'
    <2>1. PCTypeOK' /\ UNCHANGED <<senders, receivers>>
      BY <1>6 DEF Send, SenderStep, Push, SendClosed, Return, SenderPCs, ReceiverPCs
    <2>2. LiveSenders' = LiveSenders /\ LiveReceivers' = LiveReceivers
      BY <1>6 DEF Send, SenderStep, Push, SendClosed, Return, LiveSenders, LiveReceivers
    <2>. QED
      BY <1>5, <2>1, <2>2
  <1>7. ASSUME NEW r \in Receivers, Recv(r) \/ ReceiverStep(r) PROVE Inv'
    <2>1. PCTypeOK' /\ UNCHANGED <<senders, receivers>>
      BY <1>7 DEF Recv, ReceiverStep, Remove, RecvClosed, Return, SenderPCs, ReceiverPCs
    <2>2. LiveSenders' = LiveSenders /\ LiveReceivers' = LiveReceivers
      BY <1>7 DEF Recv, ReceiverStep, Remove, RecvClosed, Return, LiveSenders, LiveReceivers
    <2>. QED
      BY <1>5, <2>1, <2>2
  <1>8. CASE UNCHANGED vars
    BY <1>5, <1>8 DEF vars, LiveSenders, LiveReceivers
  <1>. QED
    BY <1>1, <1>2, <1>3, <1>4, <1>6, <1>7, <1>8 DEF Next, SenderClient, ReceiverClient

-----------------------------------------------------------------------------
(* The refinement.                                                         *)

Abstract == [h \in Handles |-> State(h)]

\* What the contract sees of a move of one handle.
LEMMA MoveRefines ==
  ASSUME PCTypeOK, NEW h \in Handles, NEW from, NEW to, Move(h, from, to)
  PROVE  Abstract' = [Abstract EXCEPT ![h] = State(h)']
  BY DEF PCTypeOK, Abstract, Move, State

\* Who is there, as the contract sees it.
LEMMA LivenessOfHandles ==
  ASSUME Inv
  PROVE  /\ \A h \in Handles : Contract!Live(h) <=> pc[h] \notin {"none", "gone"}
         /\ Contract!SomeReceiver <=> receivers # 0
         /\ Contract!SomeSender <=> senders # 0
         /\ senders \in Nat /\ receivers \in Nat
  <1>1. \A h \in Handles : Contract!Live(h) <=> pc[h] \notin {"none", "gone"}
    BY DEF Inv, PCTypeOK, SenderPCs, ReceiverPCs, Contract!Live, State
  <1>2. /\ Cardinality(LiveReceivers) \in Nat
        /\ Cardinality(LiveReceivers) = 0 <=> LiveReceivers = {}
    BY Sizes DEF LiveReceivers
  <1>3. /\ Cardinality(LiveSenders) \in Nat
        /\ Cardinality(LiveSenders) = 0 <=> LiveSenders = {}
    BY Sizes DEF LiveSenders
  <1>4. Contract!SomeReceiver <=> LiveReceivers # {}
    BY <1>1 DEF Contract!SomeReceiver, LiveReceivers
  <1>5. Contract!SomeSender <=> LiveSenders # {}
    BY <1>1 DEF Contract!SomeSender, LiveSenders
  <1>. QED
    BY <1>1, <1>2, <1>3, <1>4, <1>5 DEF Inv, CountsOK

\* Every step of a handle is the step of the contract that the comment of State
\* announces.
LEMMA StepRefines == Inv /\ [Next]_vars => [Contract!Next]_Contract!vars
  <1>. SUFFICES ASSUME Inv, Next PROVE Contract!Next
    BY DEF vars, Contract!vars, State
  <1>. USE DEF Inv, PCTypeOK
  <1>1. ASSUME NEW s \in Senders, SenderClient(s) \/ SenderStep(s) PROVE Contract!Next
    <2>1. CASE Send(s)
      <3>1. Contract!CallSend(s)
        BY <2>1, MoveRefines DEF Send, Move, Contract!CallSend, Contract!Become, Abstract, State
      <3>. QED
        BY <3>1 DEF Contract!Next
    <2>2. CASE DropSender(s)
      <3>1. Contract!DropHandle(s)
        BY <2>2, MoveRefines
        DEF DropSender, Move, Contract!DropHandle, Contract!Become, Abstract, State
      <3>. QED
        BY <3>1 DEF Contract!Next, Contract!Handles
    <2>3. ASSUME NEW c \in Senders, CloneSender(s, c) PROVE Contract!Next
      <3>1. Contract!Clone(s, c)
        BY <2>3, MoveRefines
        DEF CloneSender, Move, Contract!Clone, Contract!Become, Abstract, State
      <3>. QED
        BY <3>1 DEF Contract!Next
    <2>4. CASE Push(s)
      <3>1. Contract!SomeReceiver
        BY <2>4, LivenessOfHandles DEF Push
      <3>2. Contract!Accept(s)
        BY <2>4, <3>1, MoveRefines
        DEF Push, Move, Contract!Accept, Contract!Become, Abstract, State
      <3>. QED
        BY <3>2 DEF Contract!Next
    <2>5. CASE SendClosed(s)
      <3>1. ~Contract!SomeReceiver
        BY <2>5, LivenessOfHandles DEF SendClosed
      <3>2. Contract!Refuse(s)
        BY <2>5, <3>1, MoveRefines
        DEF SendClosed, Move, Contract!Refuse, Contract!Become, Abstract, State
      <3>. QED
        BY <3>2 DEF Contract!Next
    <2>6. CASE Return(s)
      <3>1. Contract!Return(s)
        BY <2>6, MoveRefines DEF Return, Move, Contract!Return, Contract!Become, Abstract, State
      <3>. QED
        BY <3>1 DEF Contract!Next, Contract!Handles
    <2>. QED
      BY <1>1, <2>1, <2>2, <2>3, <2>4, <2>5, <2>6 DEF SenderClient, SenderStep
  <1>2. ASSUME NEW r \in Receivers, ReceiverClient(r) \/ ReceiverStep(r) PROVE Contract!Next
    <2>1. CASE Recv(r)
      <3>1. Contract!CallRecv(r)
        BY <2>1, MoveRefines DEF Recv, Move, Contract!CallRecv, Contract!Become, Abstract, State
      <3>. QED
        BY <3>1 DEF Contract!Next
    <2>2. CASE DropReceiver(r)
      <3>1. Contract!DropHandle(r)
        BY <2>2, MoveRefines
        DEF DropReceiver, Move, Contract!DropHandle, Contract!Become, Abstract, State
      <3>. QED
        BY <3>1 DEF Contract!Next, Contract!Handles
    <2>3. ASSUME NEW c \in Receivers, CloneReceiver(r, c) PROVE Contract!Next
      <3>1. Contract!Clone(r, c)
        BY <2>3, MoveRefines
        DEF CloneReceiver, Move, Contract!Clone, Contract!Become, Abstract, State
      <3>. QED
        BY <3>1 DEF Contract!Next
    <2>4. CASE Remove(r)
      <3>1. Contract!Receive(r)
        BY <2>4, MoveRefines DEF Remove, Move, Contract!Receive, Contract!Become, Abstract, State
      <3>. QED
        BY <3>1 DEF Contract!Next
    <2>5. CASE RecvClosed(r)
      <3>1. ~Contract!SomeSender
        BY <2>5, LivenessOfHandles DEF RecvClosed
      <3>2. Contract!Close(r)
        BY <2>5, <3>1, MoveRefines
        DEF RecvClosed, Move, Contract!Close, Contract!Become, Abstract, State
      <3>. QED
        BY <3>2 DEF Contract!Next
    <2>6. CASE Return(r)
      <3>1. Contract!Return(r)
        BY <2>6, MoveRefines DEF Return, Move, Contract!Return, Contract!Become, Abstract, State
      <3>. QED
        BY <3>1 DEF Contract!Next, Contract!Handles
    <2>. QED
      BY <1>2, <2>1, <2>2, <2>3, <2>4, <2>5, <2>6 DEF ReceiverClient, ReceiverStep
  <1>. QED
    BY <1>1, <1>2 DEF Next

\* The counts are those of the handles in being.
THEOREM CountsCorrect == Spec => []Inv
  BY InvInit, InvStep, PTL DEF Spec

\* Versions 1 and 2 implement the contract: a run of theirs is one of Channel, so
\* that values leave in the order in which they were accepted, each once, and a call
\* is refused or closed only for the reason the traits give.
THEOREM MutexChannelRefines == Spec => ImplementsChannel
  <1>1. Init => Contract!Init
    BY DEF Init, Contract!Init, Contract!Handles, State
  <1>. QED
    BY <1>1, StepRefines, CountsCorrect, PTL DEF Spec, ImplementsChannel, Contract!Spec
=============================================================================
