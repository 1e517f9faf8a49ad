---------------------------- MODULE AtomicChannel ----------------------------
(***************************************************************************)
(* The channel of version 4 (v4.rs): a Sender or Receiver is a handle of   *)
(* AtomicQueue and a share of ChannelInner, whose counts it keeps.  The    *)
(* queue's own steps are those of AtomicQueue; here are the steps that a   *)
(* call of the channel adds before it calls the queue.                     *)
(*                                                                         *)
(* b_send and b_recv differ in the length they read first.  The handles    *)
(* are a bound on the clones.                                              *)
(*                                                                         *)
(* A definition whose name begins with Bug is a variant of the one that    *)
(* follows it, with a mistake that the properties have to notice.          *)
(***************************************************************************)
EXTENDS AtomicQueue

VARIABLES
  receivers, senders,   \* ChannelInner
  call                  \* what the thread of a handle has done of its call

channelVars == <<receivers, senders, call>>
allVars == <<vars, channelVars>>

Calls == {"out", "clone", "drop", "push", "refused"}

Becomes(h, from, to) == call[h] = from /\ call' = [call EXCEPT ![h] = to]
Count(h, n) ==
  /\ receivers' = IF h \in Readers THEN receivers + n ELSE receivers
  /\ senders' = IF h \in Writers THEN senders + n ELSE senders

\* The handles of the side of h that no clone has been promised.
SideOf(h) == IF h \in Readers THEN Readers ELSE Writers
Spare(h) ==
  Cardinality({c \in SideOf(h) : pc[c] = "none"})
    > Cardinality({g \in SideOf(h) : call[g] = "clone"})

-----------------------------------------------------------------------------
(* Clone and Drop: the count first, then the handle.                       *)

BugCountClone(h) ==
  /\ pc[h] = "idle" /\ Spare(h)
  /\ Becomes(h, "out", "clone")
  /\ UNCHANGED <<vars, receivers, senders>>
CountClone(h) ==
  /\ pc[h] = "idle" /\ Spare(h)
  /\ Becomes(h, "out", "clone") /\ Count(h, 1)
  /\ UNCHANGED vars

Clone(h) ==
  /\ Becomes(h, "clone", "out")
  /\ \/ h \in Readers /\ \E c \in Readers : CloneReader(h, c)
     \/ h \in Writers /\ \E c \in Writers : CloneWriter(h, c)
  /\ UNCHANGED <<receivers, senders>>

\* Also when a panic unwinds.
CountDrop(h) ==
  /\ pc[h] \in {"idle", "panic"}
  /\ Becomes(h, "out", "drop") /\ Count(h, -1)
  /\ UNCHANGED vars

\* The fields after the value itself.
Drop(h) ==
  /\ call[h] = "drop"
  /\ \/ h \in Readers /\ DropReader(h)
     \/ h \in Writers /\ DropWriter(h)
  /\ UNCHANGED channelVars

-----------------------------------------------------------------------------
(* BlockingSend::send and BlockingReceive::recv.                           *)

Admit(w) ==
  /\ pc[w] = "idle" /\ receivers # 0 /\ sent[w] < MaxPush[w]
  /\ Becomes(w, "out", "push")
  /\ UNCHANGED <<vars, receivers, senders>>

Refuse(w) ==
  /\ pc[w] = "idle" /\ receivers = 0
  /\ Becomes(w, "out", "refused")
  /\ UNCHANGED <<vars, receivers, senders>>

ReturnClosed(w) ==
  /\ Becomes(w, "refused", "out")
  /\ UNCHANGED <<vars, receivers, senders>>

Send(w) ==
  /\ Becomes(w, "push", "out") /\ Push(w)
  /\ UNCHANGED <<receivers, senders>>

Recv(r) ==
  /\ call[r] = "out" /\ PopFront(r)
  /\ UNCHANGED channelVars

-----------------------------------------------------------------------------
QueueStep ==
  /\ \/ \E r \in Readers : ReaderStep(r) \/ SpuriousWake(r)
     \/ \E w \in Writers : WriterStep(w)
  /\ UNCHANGED channelVars

ChannelInit ==
  /\ Init
  /\ receivers = Cardinality(FirstReaders) /\ senders = Cardinality(FirstWriters)
  /\ call = [h \in Handles |-> "out"]

ChannelNext ==
  \/ QueueStep
  \/ \E h \in Handles : CountClone(h) \/ Clone(h) \/ CountDrop(h) \/ Drop(h)
  \/ \E w \in Writers : Admit(w) \/ Refuse(w) \/ ReturnClosed(w) \/ Send(w)
  \/ \E r \in Readers : Recv(r)

ChannelSpec == ChannelInit /\ [][ChannelNext]_allVars

-----------------------------------------------------------------------------
(* Properties.                                                             *)

SomeReceiver ==
  \E r \in Readers : pc[r] \notin {"none", "remove", "gone"} /\ call[r] # "drop"

\* What the contract (Channel) says of the two outcomes of a send: it is refused only
\* when no receiver is left, and it may go on to push only while there is one.
SendSeesReceivers ==
  [][\A w \in Writers : (Admit(w) => SomeReceiver) /\ (Refuse(w) => ~SomeReceiver)]_allVars
=============================================================================
