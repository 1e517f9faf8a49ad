------------------------------- MODULE RwQueue -------------------------------
(***************************************************************************)
(* mpmc_rs::v5: the slots and tickets of v4 under a parking_lot RwLock.  A *)
(* pop holds it shared for as long as it lasts, asleep or not; a push      *)
(* holds the one upgradable share; a resize upgrades it to exclusive.      *)
(*                                                                         *)
(* Who holds the RwLock is read off the program counters.  A writer that   *)
(* waits for its upgrade already shuts out new readers.                    *)
(*                                                                         *)
(* Bounds: MaxSend[s] calls of send by sender s, MaxClosed calls of recv   *)
(* per receiver that return Closed.  The flag resizes.2 is never reset, so *)
(* there is at most one resize and the capacity needs no bound.            *)
(***************************************************************************)
EXTENDS Integers, FiniteSets

CONSTANTS Senders, Receivers, FirstSenders, FirstReceivers,
          Cap, MaxSend, MaxClosed,
          NoVal   \* None, the content of an empty slot

Handles == Senders \cup Receivers
Values == UNION {{<<s, n>> : n \in 1..MaxSend[s]} : s \in Senders}

ASSUME RQAssumption ==
  /\ Senders \cap Receivers = {}
  /\ FirstSenders \subseteq Senders /\ FirstReceivers \subseteq Receivers
  /\ IsFiniteSet(Handles)
  /\ Cap \in Nat \ {0} /\ MaxClosed \in Nat
  /\ MaxSend \in [Senders -> Nat]
  /\ NoVal \notin Values

VARIABLES
  buf, cap,              \* the Vec: its slots and its length
  start, end, len,       \* AtomicIsize
  resizes, resizing,     \* resizes.0 and resizes.2 of the queue
  senders, receivers,    \* ChannelInner
  pc,
  idx,                   \* the slot a push or a pop works on
  known,                 \* AtomicQueueHandle.resizes of every sender
  span,                  \* wake_reads: num_readers
  sent, got, closed      \* sends begun, values received, Closed results

vecVars    == <<buf, cap>>
ticketVars == <<start, end>>
resizeVars == <<resizes, resizing>>
countVars  == <<senders, receivers>>
histVars   == <<sent, got, closed>>
vars == <<pc, vecVars, ticketVars, len, resizeVars, countVars, idx, known, span, histVars>>

SharedPCs == {"claim", "lock", "check", "sleep", "wait", "notify", "count", "scan"}
PushPCs == {"claim", "put", "notify", "count"}
RequestPCs == {"try", "compare", "upgrade", "resize", "bump", "announce", "await", "asleep"}
WakePCs == {"load", "enter", "scan"}
ReceiverPCs == {"none", "idle", "read", "gone"} \cup SharedPCs \cup WakePCs
SenderPCs == {"none", "idle", "send", "push", "request", "panic", "gone"} \cup
  PushPCs \cup RequestPCs \cup WakePCs

Slots == 0..(cap - 1)
Own(s) == <<s, sent[s]>>

Goto(h, to) == pc' = [pc EXCEPT ![h] = to]
At(h, from, to) == pc[h] = from /\ Goto(h, to)

\* RwLock: shared by pops and by wake_reads, upgradable by a push or a resizer.
Shared == {r \in Receivers : pc[r] \in SharedPCs} \cup {s \in Senders : pc[s] = "scan"}
Upgradable == {s \in Senders : pc[s] \in PushPCs \cup RequestPCs}
WriterBit == \E s \in Senders : pc[s] \in {"upgrade", "resize"}
CanRead == ~WriterBit
CanReadUpgradable == ~WriterBit /\ Upgradable = {}

\* A slot's Mutex is held across steps by a pop that found it empty.
SlotLocked(i) == \E r \in Receivers : pc[r] \in {"check", "sleep"} /\ idx[r] = i

\* Condvar of a slot.
Sleepers(S) == {r \in Receivers : pc[r] = "wait" /\ idx[r] \in S}
GotoAndWake(h, to, S) ==
  pc' = [g \in Handles |-> IF g = h THEN to ELSE IF g \in S THEN "lock" ELSE pc[g]]
NotifyOne(h, to, i) ==
  \/ Sleepers({i}) = {} /\ Goto(h, to)
  \/ \E r \in Sleepers({i}) : GotoAndWake(h, to, {r})

-----------------------------------------------------------------------------
(* Clone and Drop; both kinds of handle run wake_reads when dropped.       *)

CloneSender(s, c) ==
  /\ pc[s] = "idle" /\ At(c, "none", "idle")
  /\ senders' = senders + 1
  /\ known' = [known EXCEPT ![c] = known[s]]
  /\ UNCHANGED <<vecVars, ticketVars, len, resizeVars, receivers, idx, span, histVars>>

CloneReceiver(r, c) ==
  /\ pc[r] = "idle" /\ At(c, "none", "idle")
  /\ receivers' = receivers + 1
  /\ UNCHANGED <<vecVars, ticketVars, len, resizeVars, senders, idx, known, span, histVars>>

\* A panic unwinds through the same Drop.
DropSender(s) ==
  /\ pc[s] \in {"idle", "panic"} /\ Goto(s, "load")
  /\ senders' = senders - 1
  /\ UNCHANGED <<vecVars, ticketVars, len, resizeVars, receivers, idx, known, span, histVars>>

DropReceiver(r) ==
  /\ At(r, "idle", "load")
  /\ receivers' = receivers - 1
  /\ UNCHANGED <<vecVars, ticketVars, len, resizeVars, senders, idx, known, span, histVars>>

LoadReceivers(h) ==
  /\ At(h, "load", "enter")
  /\ span' = [span EXCEPT ![h] = receivers]
  /\ UNCHANGED <<vecVars, ticketVars, len, resizeVars, countVars, idx, known, histVars>>

EnterWake(h) ==
  /\ At(h, "enter", "scan")
  /\ CanRead
  /\ UNCHANGED <<vecVars, ticketVars, len, resizeVars, countVars, idx, known, span, histVars>>

\* The two loads and the notifications are one step: a sleeper wakes up at any
\* moment anyway (Timeout), so no interleaving of the loop is lost.
WakeReads(h) ==
  /\ pc[h] = "scan"
  /\ LET s == (start - span[h]) % cap
         e == end % cap
         S == IF s > e THEN s..(cap - 1) \cup 0..(e - 1) ELSE s..(e - 1)
     IN GotoAndWake(h, "gone", Sleepers(S))
  /\ UNCHANGED <<vecVars, ticketVars, len, resizeVars, countVars, idx, known, span, histVars>>

-----------------------------------------------------------------------------
(* Receiver::recv and pop_front_wait_with_check.                           *)

Recv(r) ==
  /\ closed[r] < MaxClosed
  /\ At(r, "idle", "read")
  /\ UNCHANGED <<vecVars, ticketVars, len, resizeVars, countVars, idx, known, span, histVars>>

Read(r) ==
  /\ At(r, "read", "claim")
  /\ CanRead
  /\ UNCHANGED <<vecVars, ticketVars, len, resizeVars, countVars, idx, known, span, histVars>>

BugClaimStart(r) ==
  /\ At(r, "claim", "lock")
  /\ idx' = [idx EXCEPT ![r] = start]
  /\ start' = start + 1
  /\ UNCHANGED <<vecVars, end, len, resizeVars, countVars, known, span, histVars>>
ClaimStart(r) ==
  /\ At(r, "claim", "lock")
  /\ idx' = [idx EXCEPT ![r] = start % cap]
  /\ start' = start + 1
  /\ UNCHANGED <<vecVars, end, len, resizeVars, countVars, known, span, histVars>>

FindEmpty(r) ==
  /\ At(r, "lock", "check")
  /\ ~SlotLocked(idx[r]) /\ buf[idx[r]] = NoVal
  /\ UNCHANGED <<vecVars, ticketVars, len, resizeVars, countVars, idx, known, span, histVars>>

Take(r) ==
  /\ At(r, "lock", "notify")
  /\ ~SlotLocked(idx[r]) /\ buf[idx[r]] # NoVal
  /\ buf' = [buf EXCEPT ![idx[r]] = NoVal]
  /\ got' = got \cup {buf[idx[r]]}
  /\ UNCHANGED <<cap, ticketVars, len, resizeVars, countVars, idx, known, span,
                 sent, closed>>

SendersRemain(r) ==
  /\ At(r, "check", "sleep")
  /\ senders > 0
  /\ UNCHANGED <<vecVars, ticketVars, len, resizeVars, countVars, idx, known, span, histVars>>

BugFindClosed(r) ==
  /\ At(r, "check", "idle")
  /\ senders < 2
  /\ closed' = [closed EXCEPT ![r] = @ + 1]
  /\ UNCHANGED <<vecVars, ticketVars, len, resizeVars, countVars, idx, known, span, sent, got>>
FindClosed(r) ==
  /\ At(r, "check", "idle")
  /\ senders = 0
  /\ closed' = [closed EXCEPT ![r] = @ + 1]
  /\ UNCHANGED <<vecVars, ticketVars, len, resizeVars, countVars, idx, known, span, sent, got>>

Sleep(r) ==
  /\ At(r, "sleep", "wait")
  /\ UNCHANGED <<vecVars, ticketVars, len, resizeVars, countVars, idx, known, span, histVars>>

\* "HACK: Periodic wake-ups": the wait ends after 100 ms.
BugTimeout(r) ==
  /\ At(r, "wait", "lock") /\ buf[idx[r]] # NoVal
  /\ UNCHANGED <<vecVars, ticketVars, len, resizeVars, countVars, idx, known, span, histVars>>
Timeout(r) ==
  /\ At(r, "wait", "lock")
  /\ UNCHANGED <<vecVars, ticketVars, len, resizeVars, countVars, idx, known, span, histVars>>

NotifyTaken(r) ==
  /\ pc[r] = "notify"
  /\ NotifyOne(r, "count", idx[r])
  /\ UNCHANGED <<vecVars, ticketVars, len, resizeVars, countVars, idx, known, span, histVars>>

\* The share of the RwLock drops with the guard at the return.
CountTaken(r) ==
  /\ At(r, "count", "idle")
  /\ len' = len - 1
  /\ UNCHANGED <<vecVars, ticketVars, resizeVars, countVars, idx, known, span, histVars>>

-----------------------------------------------------------------------------
(* Sender::send and push.                                                  *)

Send(s) ==
  /\ sent[s] < MaxSend[s]
  /\ At(s, "idle", "send")
  /\ sent' = [sent EXCEPT ![s] = @ + 1]
  /\ UNCHANGED <<vecVars, ticketVars, len, resizeVars, countVars, idx, known, span, got, closed>>

\* SendError::Closed gives the value back to the caller.
LoadReceiversToSend(s) ==
  /\ pc[s] = "send" /\ Goto(s, IF receivers = 0 THEN "idle" ELSE "push")
  /\ UNCHANGED <<vecVars, ticketVars, len, resizeVars, countVars, idx, known, span, histVars>>

ReadUpgradable(s) ==
  /\ At(s, "push", "claim")
  /\ CanReadUpgradable
  /\ UNCHANGED <<vecVars, ticketVars, len, resizeVars, countVars, idx, known, span, histVars>>

ClaimEnd(s) ==
  /\ At(s, "claim", "put")
  /\ idx' = [idx EXCEPT ![s] = end % cap]
  /\ end' = end + 1
  /\ UNCHANGED <<vecVars, start, len, resizeVars, countVars, known, span, histVars>>

PutValue(s) ==
  /\ At(s, "put", "notify")
  /\ ~SlotLocked(idx[s]) /\ buf[idx[s]] = NoVal
  /\ buf' = [buf EXCEPT ![idx[s]] = Own(s)]
  /\ UNCHANGED <<cap, ticketVars, len, resizeVars, countVars, idx, known, span, histVars>>

NotifyPut(s) ==
  /\ pc[s] = "notify"
  /\ NotifyOne(s, "count", idx[s])
  /\ UNCHANGED <<vecVars, ticketVars, len, resizeVars, countVars, idx, known, span, histVars>>

CountPut(s) ==
  /\ At(s, "count", "idle")
  /\ len' = len + 1
  /\ UNCHANGED <<vecVars, ticketVars, resizeVars, countVars, idx, known, span, histVars>>

\* Both guards drop before the resize is requested, so pops may come between.
FindFull(s) ==
  /\ At(s, "put", "request")
  /\ ~SlotLocked(idx[s]) /\ buf[idx[s]] # NoVal
  /\ UNCHANGED <<vecVars, ticketVars, len, resizeVars, countVars, idx, known, span, histVars>>

-----------------------------------------------------------------------------
(* request_resize_block.                                                   *)

RequestResize(s) ==
  /\ At(s, "request", "try")
  /\ CanReadUpgradable
  /\ UNCHANGED <<vecVars, ticketVars, len, resizeVars, countVars, idx, known, span, histVars>>

WinFlag(s) ==
  /\ At(s, "try", "compare")
  /\ ~resizing
  /\ resizing' = TRUE
  /\ UNCHANGED <<vecVars, ticketVars, len, resizes, countVars, idx, known, span, histVars>>

LoseFlag(s) ==
  /\ At(s, "try", "await")
  /\ resizing
  /\ UNCHANGED <<vecVars, ticketVars, len, resizeVars, countVars, idx, known, span, histVars>>

CompareResizes(s) ==
  /\ pc[s] = "compare" /\ Goto(s, IF resizes = known[s] THEN "upgrade" ELSE "push")
  /\ known' = [known EXCEPT ![s] = resizes]
  /\ UNCHANGED <<vecVars, ticketVars, len, resizeVars, countVars, idx, span, histVars>>

BugUpgrade(s) ==
  /\ At(s, "upgrade", "resize")
  /\ UNCHANGED <<vecVars, ticketVars, len, resizeVars, countVars, idx, known, span, histVars>>
Upgrade(s) ==
  /\ At(s, "upgrade", "resize")
  /\ Shared = {}
  /\ UNCHANGED <<vecVars, ticketVars, len, resizeVars, countVars, idx, known, span, histVars>>

\* AtomicQueueHandle::reallocate: slots s..=e, or s..cap then 0..=e, move to the
\* front of a Vec twice as long; the others are dropped.
BugKept(s, e) == IF s > e THEN cap - s + e + 2 ELSE e - s + 1
Kept(s, e) == IF s > e THEN cap - s + e + 1 ELSE e - s + 1
Reallocated(s, e) ==
  [i \in 0..(2 * cap - 1) |->
     IF i >= Kept(s, e) THEN NoVal
     ELSE IF s + i < cap THEN buf[s + i] ELSE buf[s + i - cap]]

\* start and end are taken modulo the number of values, not of slots.
Resize(s) ==
  /\ At(s, "resize", "bump")
  /\ len # 0
  /\ buf' = Reallocated(start % len, end % len)
  /\ cap' = 2 * cap
  /\ UNCHANGED <<ticketVars, len, resizeVars, countVars, idx, known, span, histVars>>

\* rem_euclid by zero.  The unwinding gives the RwLock back.
PanicResize(s) ==
  /\ At(s, "resize", "panic")
  /\ len = 0
  /\ UNCHANGED <<vecVars, ticketVars, len, resizeVars, countVars, idx, known, span, histVars>>

CountResize(s) ==
  /\ At(s, "bump", "announce")
  /\ resizes' = resizes + 1
  /\ UNCHANGED <<vecVars, ticketVars, len, resizing, countVars, idx, known, span, histVars>>

\* notify_all; the upgradable share drops and the push starts over.
Announce(s) ==
  /\ pc[s] = "announce"
  /\ pc' = [h \in Handles |-> IF h = s THEN "push" ELSE IF pc[h] = "asleep" THEN "await" ELSE pc[h]]
  /\ UNCHANGED <<vecVars, ticketVars, len, resizeVars, countVars, idx, known, span, histVars>>

\* A loop without an exit, in which the upgradable share is kept.
SeeNoResize(s) ==
  /\ At(s, "await", "asleep")
  /\ resizes = known[s]
  /\ UNCHANGED <<vecVars, ticketVars, len, resizeVars, countVars, idx, known, span, histVars>>

SeeResize(s) ==
  /\ pc[s] = "await"
  /\ resizes # known[s]
  /\ known' = [known EXCEPT ![s] = resizes]
  /\ UNCHANGED <<pc, vecVars, ticketVars, len, resizeVars, countVars, idx, span, histVars>>

-----------------------------------------------------------------------------
Init ==
  /\ cap = Cap /\ buf = [i \in 0..(Cap - 1) |-> NoVal]
  /\ start = 0 /\ end = 0 /\ len = 0
  /\ resizes = 0 /\ resizing = FALSE
  /\ senders = Cardinality(FirstSenders) /\ receivers = Cardinality(FirstReceivers)
  /\ pc = [h \in Handles |->
             IF h \in FirstSenders \cup FirstReceivers THEN "idle" ELSE "none"]
  /\ idx = [h \in Handles |-> 0]
  /\ known = [s \in Senders |-> 0]
  /\ span = [h \in Handles |-> 0]
  /\ sent = [s \in Senders |-> 0]
  /\ got = {}
  /\ closed = [r \in Receivers |-> 0]

WakeStep(h) == LoadReceivers(h) \/ EnterWake(h) \/ WakeReads(h)

ReceiverStep(r) ==
  \/ Read(r) \/ ClaimStart(r) \/ FindEmpty(r) \/ Take(r) \/ SendersRemain(r)
  \/ FindClosed(r) \/ Sleep(r) \/ Timeout(r) \/ NotifyTaken(r) \/ CountTaken(r)
  \/ WakeStep(r)

SenderStep(s) ==
  \/ LoadReceiversToSend(s) \/ ReadUpgradable(s) \/ ClaimEnd(s) \/ PutValue(s)
  \/ NotifyPut(s) \/ CountPut(s) \/ FindFull(s)
  \/ RequestResize(s) \/ WinFlag(s) \/ LoseFlag(s) \/ CompareResizes(s) \/ Upgrade(s)
  \/ Resize(s) \/ PanicResize(s) \/ CountResize(s) \/ Announce(s)
  \/ SeeNoResize(s) \/ SeeResize(s)
  \/ WakeStep(s)

ReceiverClient(r) == Recv(r) \/ DropReceiver(r) \/ \E c \in Receivers : CloneReceiver(r, c)
SenderClient(s) == Send(s) \/ DropSender(s) \/ \E c \in Senders : CloneSender(s, c)

Next ==
  \/ \E r \in Receivers : ReceiverClient(r) \/ ReceiverStep(r)
  \/ \E s \in Senders : SenderClient(s) \/ SenderStep(s)

Spec == Init /\ [][Next]_vars

\* A thread that can take a step again and again takes one: parking_lot hands
\* its locks on, and a timed wait ends.  A panic unwinds.
Fairness ==
  /\ \A r \in Receivers : SF_vars(ReceiverStep(r))
  /\ \A s \in Senders : SF_vars(SenderStep(s) \/ (pc[s] = "panic" /\ DropSender(s)))
FairSpec == Spec /\ Fairness

-----------------------------------------------------------------------------
(* Properties.                                                             *)

\* Every variable has its type: no slot is read outside the Vec.
TypeOK ==
  /\ cap \in {Cap, 2 * Cap} /\ buf \in [Slots -> Values \cup {NoVal}]
  /\ start \in Nat /\ end \in Nat /\ len \in Int
  /\ resizes \in 0..1 /\ resizing \in BOOLEAN
  /\ senders \in Nat /\ receivers \in Nat
  /\ pc \in [Handles -> ReceiverPCs \cup SenderPCs]
  /\ \A r \in Receivers : pc[r] \in ReceiverPCs
  /\ \A s \in Senders : pc[s] \in SenderPCs
  /\ idx \in [Handles -> Nat]
  /\ \A h \in Handles : pc[h] \in {"lock", "check", "sleep", "wait", "put", "notify"} =>
       idx[h] \in Slots
  /\ known \in [Senders -> 0..1] /\ span \in [Handles -> Nat]
  /\ sent \in [Senders -> Nat] /\ \A s \in Senders : sent[s] <= MaxSend[s]
  /\ got \subseteq Values
  /\ closed \in [Receivers -> 0..MaxClosed]

\* A value is in at most one slot, and in none once it was received, whatever
\* range the resize moved (reallocate).
AtMostOnce ==
  /\ \A i, j \in Slots : buf[i] = buf[j] /\ buf[i] # NoVal => i = j
  /\ \A i \in Slots : buf[i] \notin got

\* len lags behind the slots while a push or a pop is between the two; once a
\* resizer has its exclusive lock len is exact, and never negative.
LenCountsValues ==
  (\E s \in Senders : pc[s] = "resize") =>
     len = Cardinality({i \in Slots : buf[i] # NoVal})

\* A pop is under way on slot i by a receiver other than r.
Claimed(i, r) ==
  \E q \in Receivers \ {r} : pc[q] \in {"lock", "check", "sleep", "wait"} /\ idx[q] = i

\* Until a push meets a full slot, and so uses up a ticket for nothing, the Closed
\* of recv is final: every value left is claimed by another pop, and no send is
\* under way or can begin.
NeverFull == ~resizing /\ \A s \in Senders : pc[s] \notin {"request", "try"}
Sending(s) == pc[s] \in {"send", "push", "request"} \cup PushPCs \cup RequestPCs
ClosedIsFinal ==
  [][\A r \in Receivers : NeverFull /\ closed'[r] # closed[r] =>
       /\ \A i \in Slots : buf[i] # NoVal => Claimed(i, r)
       /\ \A s \in Senders : ~Sending(s)]_vars

\* With the last sender gone every recv returns, one that had already checked the
\* count or slept as well: a missed notification costs at most one period.
Receiving(r) == pc[r] \in {"read", "claim", "lock", "check", "sleep", "wait"}
RecvReturnsWhenClosed ==
  \A r \in Receivers :
    (\A s \in Senders : pc[s] \in {"none", "gone"}) /\ Receiving(r) ~> pc[r] = "idle"

\* "Queue detected full at this instant.  Wait for resize and retry." (push)
PushReturns == \A s \in Senders : pc[s] = "push" ~> pc[s] = "idle"
=============================================================================
