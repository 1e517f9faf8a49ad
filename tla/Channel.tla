------------------------------- MODULE Channel -------------------------------
(***************************************************************************)
(* What a caller may rely on when it uses a Sender and a Receiver through  *)
(* BlockingSend and BlockingReceive (mpmc_rs::lib), whichever version made *)
(* them: a first-in first-out queue, in which every call takes effect at   *)
(* one moment between its call and its return.                             *)
(*                                                                         *)
(*  - A send is refused only if no receiver was left at that moment.  One  *)
(*    that saw a receiver may still be accepted after the last one is gone *)
(*    (Admit), since the versions look at the count before they push.      *)
(*  - A recv returns Closed only if at one moment the queue was empty and  *)
(*    no sender was left.                                                  *)
(*                                                                         *)
(* Which receiver gets which value is left open: `received` lists the      *)
(* values in the order in which they leave the queue.                      *)
(***************************************************************************)
EXTENDS Naturals, Sequences

CONSTANTS Senders, Receivers, FirstSenders, FirstReceivers

Handles == Senders \cup Receivers

VARIABLES
  queue,      \* the values sent and not yet received
  received,   \* the values that left the queue, in that order
  sent,       \* sends called by each sender
  state       \* where each handle is in its life and in its current call

vars == <<queue, received, sent, state>>

SenderStates == {"none", "idle", "called", "admitted", "accepted", "refused", "gone"}
ReceiverStates == {"none", "idle", "called", "received", "closed", "gone"}

Live(h) == state[h] \notin {"none", "gone"}
SomeReceiver == \E r \in Receivers : Live(r)
SomeSender == \E s \in Senders : Live(s)

Become(h, from, to) == state[h] \in from /\ state' = [state EXCEPT ![h] = to]

Clone(h, c) ==
  /\ state[h] = "idle"
  /\ Become(c, {"none"}, "idle")
  /\ UNCHANGED <<queue, received, sent>>

DropHandle(h) ==
  /\ Become(h, {"idle"}, "gone")
  /\ UNCHANGED <<queue, received, sent>>

CallSend(s) ==
  /\ Become(s, {"idle"}, "called")
  /\ sent' = [sent EXCEPT ![s] = @ + 1]
  /\ UNCHANGED <<queue, received>>

Admit(s) ==
  /\ SomeReceiver
  /\ Become(s, {"called"}, "admitted")
  /\ UNCHANGED <<queue, received, sent>>

Accept(s) ==
  /\ Become(s, {"admitted"} \cup (IF SomeReceiver THEN {"called"} ELSE {}), "accepted")
  /\ queue' = Append(queue, <<s, sent[s]>>)
  /\ UNCHANGED <<received, sent>>

Refuse(s) ==
  /\ ~SomeReceiver
  /\ Become(s, {"called"}, "refused")
  /\ UNCHANGED <<queue, received, sent>>

CallRecv(r) ==
  /\ Become(r, {"idle"}, "called")
  /\ UNCHANGED <<queue, received, sent>>

Receive(r) ==
  /\ queue # <<>>
  /\ Become(r, {"called"}, "received")
  /\ received' = Append(received, Head(queue))
  /\ queue' = Tail(queue)
  /\ UNCHANGED sent

Close(r) ==
  /\ queue = <<>> /\ ~SomeSender
  /\ Become(r, {"called"}, "closed")
  /\ UNCHANGED <<queue, received, sent>>

Return(h) ==
  /\ Become(h, {"accepted", "refused", "received", "closed"}, "idle")
  /\ UNCHANGED <<queue, received, sent>>

Init ==
  /\ queue = <<>> /\ received = <<>>
  /\ sent = [s \in Senders |-> 0]
  /\ state = [h \in Handles |->
                IF h \in FirstSenders \cup FirstReceivers THEN "idle" ELSE "none"]

Next ==
  \/ \E s \in Senders :
       \/ CallSend(s) \/ Admit(s) \/ Accept(s) \/ Refuse(s)
       \/ \E c \in Senders : Clone(s, c)
  \/ \E r \in Receivers :
       \/ CallRecv(r) \/ Receive(r) \/ Close(r)
       \/ \E c \in Receivers : Clone(r, c)
  \/ \E h \in Handles : DropHandle(h) \/ Return(h)

Spec == Init /\ [][Next]_vars
=============================================================================
