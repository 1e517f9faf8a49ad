----------------------------- MODULE MutexChannel -----------------------------
(***************************************************************************)
(* mpmc_rs::v1 and v2: one Mutex around the queue and the two counts.  The *)
(* two versions differ in the container only (Vec, VecDeque).  A call is   *)
(* one critical section; recv busy-waits, so an iteration that finds       *)
(* nothing and a sender left changes nothing.                              *)
(*                                                                         *)
(* Bound: MaxSend calls of send by each sender.                            *)
(***************************************************************************)
EXTENDS Naturals, Sequences, FiniteSets

CONSTANTS Senders, Receivers, FirstSenders, FirstReceivers, MaxSend

Handles == Senders \cup Receivers

ASSUME MutexAssumption ==
  /\ IsFiniteSet(Senders) /\ IsFiniteSet(Receivers) /\ Senders \cap Receivers = {}
  /\ FirstSenders \subseteq Senders /\ FirstReceivers \subseteq Receivers
  /\ MaxSend \in Nat

VARIABLES
  queue, senders, receivers,   \* ChannelInner
  pc,
  sent, received               \* sends begun; the values in the order of removal

vars == <<queue, senders, receivers, pc, sent, received>>

Move(h, from, to) == pc[h] = from /\ pc' = [pc EXCEPT ![h] = to]

CloneSender(s, c) ==
  /\ pc[s] = "idle" /\ Move(c, "none", "idle")
  /\ senders' = senders + 1
  /\ UNCHANGED <<queue, receivers, sent, received>>

CloneReceiver(r, c) ==
  /\ pc[r] = "idle" /\ Move(c, "none", "idle")
  /\ receivers' = receivers + 1
  /\ UNCHANGED <<queue, senders, sent, received>>

BugDropSender(s) ==
  /\ Move(s, "idle", "gone")
  /\ UNCHANGED <<queue, senders, receivers, sent, received>>
DropSender(s) ==
  /\ Move(s, "idle", "gone")
  /\ senders' = senders - 1
  /\ UNCHANGED <<queue, receivers, sent, received>>

DropReceiver(r) ==
  /\ Move(r, "idle", "gone")
  /\ receivers' = receivers - 1
  /\ UNCHANGED <<queue, senders, sent, received>>

Send(s) ==
  /\ sent[s] < MaxSend
  /\ Move(s, "idle", "send")
  /\ sent' = [sent EXCEPT ![s] = @ + 1]
  /\ UNCHANGED <<queue, senders, receivers, received>>

Push(s) ==
  /\ receivers > 0
  /\ Move(s, "send", "sent")
  /\ queue' = Append(queue, <<s, sent[s]>>)
  /\ UNCHANGED <<senders, receivers, sent, received>>

SendClosed(s) ==
  /\ receivers = 0
  /\ Move(s, "send", "refused")
  /\ UNCHANGED <<queue, senders, receivers, sent, received>>

Recv(r) ==
  /\ Move(r, "idle", "recv")
  /\ UNCHANGED <<queue, senders, receivers, sent, received>>

BugRemove(r) ==
  /\ queue # <<>>
  /\ Move(r, "recv", "received")
  /\ received' = Append(received, queue[Len(queue)])
  /\ queue' = SubSeq(queue, 1, Len(queue) - 1)
  /\ UNCHANGED <<senders, receivers, sent>>
Remove(r) ==
  /\ queue # <<>>
  /\ Move(r, "recv", "received")
  /\ received' = Append(received, Head(queue))
  /\ queue' = Tail(queue)
  /\ UNCHANGED <<senders, receivers, sent>>

RecvClosed(r) ==
  /\ queue = <<>> /\ senders = 0
  /\ Move(r, "recv", "closed")
  /\ UNCHANGED <<queue, senders, receivers, sent, received>>

Return(h) ==
  /\ pc[h] \in {"sent", "refused", "received", "closed"} /\ Move(h, pc[h], "idle")
  /\ UNCHANGED <<queue, senders, receivers, sent, received>>

Init ==
  /\ queue = <<>> /\ received = <<>>
  /\ senders = Cardinality(FirstSenders) /\ receivers = Cardinality(FirstReceivers)
  /\ pc = [h \in Handles |->
             IF h \in FirstSenders \cup FirstReceivers THEN "idle" ELSE "none"]
  /\ sent = [s \in Senders |-> 0]

SenderStep(s) == Push(s) \/ SendClosed(s) \/ Return(s)
ReceiverStep(r) == Remove(r) \/ RecvClosed(r) \/ Return(r)
SenderClient(s) == Send(s) \/ DropSender(s) \/ \E c \in Senders : CloneSender(s, c)
ReceiverClient(r) == Recv(r) \/ DropReceiver(r) \/ \E c \in Receivers : CloneReceiver(r, c)

Next ==
  \/ \E s \in Senders : SenderClient(s) \/ SenderStep(s)
  \/ \E r \in Receivers : ReceiverClient(r) \/ ReceiverStep(r)

Spec == Init /\ [][Next]_vars

\* A caller blocked on the mutex gets it in the end.
FairSpec ==
  /\ Spec
  /\ \A s \in Senders : WF_vars(SenderStep(s))
  /\ \A r \in Receivers : WF_vars(ReceiverStep(r))

-----------------------------------------------------------------------------

\* The contract, each critical section being the moment a call takes effect.
State(h) ==
  CASE pc[h] \in {"send", "recv"} -> "called"
    [] pc[h] = "sent" -> "accepted"
    [] OTHER -> pc[h]
Contract == INSTANCE Channel WITH state <- [h \in Handles |-> State(h)]

\* v1 and v2 are channels: every run of theirs is one of Channel.
ImplementsChannel == Contract!Spec

\* With the last sender gone every recv returns, although it busy-waits.
RecvReturnsWhenClosed ==
  \A r \in Receivers :
    (\A s \in Senders : pc[s] \in {"none", "gone"}) /\ pc[r] = "recv" ~> pc[r] # "recv"
=============================================================================
