--------------------------- MODULE RwQueueProofs ---------------------------
(***************************************************************************)
(* Theorems about RwQueue, for any senders, receivers and capacity and any *)
(* number of sends: no value is lost to a second copy, the resizer reads   *)
(* the true number of values, and Closed is the last word of a queue that  *)
(* never was full.                                                         *)
(*                                                                         *)
(* Most steps only move a thread on (Quiet); the lemmas treat these as one *)
(* and look closely at the few that touch what threads share.              *)
(***************************************************************************)
EXTENDS RwQueue, FiniteSetTheorems, TLAPS

USE DEF vecVars, ticketVars, resizeVars, countVars, histVars, vars

\* A handle counts from its clone until its drop.
LivePCs == (ReceiverPCs \cup SenderPCs) \ ({"none", "gone"} \cup WakePCs)
LiveSenders == {s \in Senders : pc[s] \in LivePCs}
LiveReceivers == {r \in Receivers : pc[r] \in LivePCs}
HandlesCounted ==
  /\ senders = Cardinality(LiveSenders) /\ receivers = Cardinality(LiveReceivers)

\* A sender that calls send has put its value nowhere yet.
UnsentPCs == {"send", "push", "claim", "put", "request"} \cup RequestPCs
Placed(v) == v \in got \/ \E i \in Slots : buf[i] = v
SendsFit ==
  /\ \A s \in Senders : pc[s] \in UnsentPCs => sent[s] > 0
  /\ \A s \in Senders : \A n \in 1..MaxSend[s] : Placed(<<s, n>>) =>
       n <= sent[s] /\ (pc[s] \in UnsentPCs => n # sent[s])

\* A recv that runs may still return Closed (the bound MaxClosed).
RecvsFit == \A r \in Receivers : Receiving(r) => closed[r] < MaxClosed

\* The RwLock and the Mutex of a slot.
LocksHold ==
  /\ \A s, t \in Upgradable : s = t
  /\ \A s \in Senders : pc[s] = "resize" => Shared = {}
  /\ \A r \in Receivers : pc[r] \in {"check", "sleep"} => buf[idx[r]] = NoVal

\* The flag of the one resize, which nobody takes back.
OneResize ==
  /\ \A s \in Senders :
       pc[s] \in {"compare", "upgrade", "resize", "bump", "announce"} => resizing
  /\ ~resizing \/ (\E s \in Senders : pc[s] \in {"compare", "upgrade", "resize"}) =>
       cap = Cap /\ resizes = 0
  /\ \A s \in Senders : pc[s] = "bump" => resizes = 0

\* Values put and not counted, values taken and not counted.
Full == {i \in Slots : buf[i] # NoVal}
PutUncounted == {s \in Senders : pc[s] \in {"notify", "count"}}
TakenUncounted == {r \in Receivers : pc[r] \in {"notify", "count"}}
LenFits ==
  cap = Cap => Cardinality(Full) = len + Cardinality(PutUncounted) - Cardinality(TakenUncounted)

\* Before the first full slot the n-th ticket of a push meets the n-th of a pop; every
\* pop that gave up its slot did so after the last send.
TicketsOf(n, i) == {t \in 0..(n - 1) : t % Cap = i}
Pops(i) == {r \in Receivers : pc[r] \in {"lock", "check", "sleep", "wait"} /\ idx[r] = i}
Pushes(i) == {s \in Senders : pc[s] = "put" /\ idx[s] = i}
Filled(i) == IF buf[i] = NoVal THEN 0 ELSE 1
Balanced(i, gaveUp) ==
  /\ Cardinality(Pops(i)) + gaveUp + Cardinality(TicketsOf(end, i)) =
       Cardinality(TicketsOf(start, i)) + Cardinality(Pushes(i)) + Filled(i)
  /\ gaveUp > 0 => senders = 0 /\ buf[i] = NoVal
TicketsFit == NeverFull => \A i \in 0..(Cap - 1) : \E gaveUp \in Nat : Balanced(i, gaveUp)

Inv ==
  /\ TypeOK /\ HandlesCounted /\ SendsFit /\ RecvsFit
  /\ LocksHold /\ OneResize /\ LenFits /\ TicketsFit
  /\ AtMostOnce

-----------------------------------------------------------------------------
\* The handles, and where each may be.
LEMMA Names ==
  /\ IsFiniteSet(Handles) /\ Handles = Senders \cup Receivers /\ Senders \cap Receivers = {}
  /\ IsFiniteSet(Senders) /\ IsFiniteSet(Receivers) /\ Cap \in Nat \ {0} /\ NoVal \notin Values
  <1>1. Senders \subseteq Handles /\ Receivers \subseteq Handles
    BY DEF Handles
  <1>2. IsFiniteSet(Senders) /\ IsFiniteSet(Receivers)
    BY <1>1, RQAssumption, FS_Subset
  <1>. QED
    BY <1>2, RQAssumption DEF Handles

\* What a step does to the threads that do not take it: it may wake them.
OthersStay(h) ==
  /\ pc' = [g \in Handles |-> pc'[g]]
  /\ \A g \in Handles \ {h} :
       \/ pc'[g] = pc[g]
       \/ g \in Receivers /\ pc[g] = "wait" /\ pc'[g] = "lock"
       \/ g \in Senders /\ pc[g] = "asleep" /\ pc'[g] = "await"

\* The steps that change nothing but where threads are (and what a sender knows of
\* resizes, and the locals of wake_reads).
QuietEdge(h) ==
  \/ /\ h \in Receivers
     /\ <<pc[h], pc'[h]>> \in
          {<<"check", "sleep">>, <<"sleep", "wait">>, <<"wait", "lock">>, <<"notify", "count">>}
  \/ /\ h \in Senders
     /\ <<pc[h], pc'[h]>> \in
          {<<"send", "idle">>, <<"send", "push">>, <<"notify", "count">>, <<"put", "request">>,
           <<"compare", "upgrade">>, <<"compare", "push">>, <<"announce", "push">>,
           <<"resize", "panic">>, <<"await", "asleep">>, <<"await", "await">>}
  \/ <<pc[h], pc'[h]>> \in {<<"load", "enter">>, <<"scan", "gone">>}
  \/ pc[h] = "enter" /\ pc'[h] = "scan" /\ CanRead
  \/ h \in Receivers /\ pc[h] = "idle" /\ pc'[h] = "read" /\ closed[h] < MaxClosed
  \/ h \in Receivers /\ pc[h] = "read" /\ pc'[h] = "claim" /\ CanRead
  \/ h \in Receivers /\ pc[h] = "lock" /\ pc'[h] = "check" /\ buf[idx[h]] = NoVal
  \/ h \in Senders /\ pc[h] = "push" /\ pc'[h] = "claim" /\ CanReadUpgradable
  \/ h \in Senders /\ pc[h] = "request" /\ pc'[h] = "try" /\ CanReadUpgradable
  \/ h \in Senders /\ pc[h] = "try" /\ pc'[h] = "await" /\ resizing
  \/ h \in Senders /\ pc[h] = "upgrade" /\ pc'[h] = "resize" /\ Shared = {}
Quiet(h) ==
  /\ QuietEdge(h) /\ OthersStay(h)
  /\ UNCHANGED <<vecVars, ticketVars, len, resizeVars, countVars, idx, histVars>>
ReceiverActs(r) ==
  \/ \E c \in Receivers : CloneReceiver(r, c)
  \/ DropReceiver(r) \/ ClaimStart(r) \/ Take(r) \/ FindClosed(r) \/ CountTaken(r)
SenderActs(s) ==
  \/ \E c \in Senders : CloneSender(s, c)
  \/ DropSender(s) \/ Send(s) \/ ClaimEnd(s) \/ PutValue(s) \/ CountPut(s)
  \/ WinFlag(s) \/ Resize(s) \/ CountResize(s)

\* Going somewhere, alone or waking others, leaves the rest where they are.
LEMMA Going ==
  ASSUME TypeOK, NEW h \in Handles, NEW to
  PROVE  /\ Goto(h, to) => pc'[h] = to /\ OthersStay(h)
         /\ \A S : GotoAndWake(h, to, Sleepers(S)) => pc'[h] = to /\ OthersStay(h)
         /\ \A i : NotifyOne(h, to, i) => pc'[h] = to /\ OthersStay(h)
  <1>1. pc = [g \in Handles |-> pc[g]] /\ Receivers \subseteq Handles
    BY DEF TypeOK, Handles
  <1>2. Goto(h, to) => pc'[h] = to /\ OthersStay(h)
    BY <1>1 DEF Goto, OthersStay
  <1>3. ASSUME NEW S, NEW T \in SUBSET Sleepers(S), GotoAndWake(h, to, T)
        PROVE  pc'[h] = to /\ OthersStay(h)
    BY <1>1, <1>3 DEF GotoAndWake, OthersStay, Sleepers
  <1>4. ASSUME NEW i, NotifyOne(h, to, i) PROVE pc'[h] = to /\ OthersStay(h)
    BY <1>2, <1>3, <1>4 DEF NotifyOne
  <1>. QED
    BY <1>2, <1>3, <1>4

\* Every step is one of these.
LEMMA StepKinds ==
  ASSUME TypeOK, [Next]_vars
  PROVE  \/ UNCHANGED vars
         \/ \E h \in Handles : Quiet(h)
         \/ \E r \in Receivers : ReceiverActs(r)
         \/ \E s \in Senders : SenderActs(s)
  <1>0. Senders \subseteq Handles /\ Receivers \subseteq Handles
    BY DEF Handles
  <1>. USE <1>0 DEF At, Quiet, QuietEdge
  <1>1. ASSUME NEW h \in Handles, WakeStep(h) PROVE Quiet(h)
    <2>1. CASE LoadReceivers(h)
      BY <2>1, Going DEF LoadReceivers
    <2>2. CASE EnterWake(h)
      BY <2>2, Going DEF EnterWake
    <2>3. CASE WakeReads(h)
      BY <2>3, Going DEF WakeReads
    <2>. QED
      BY <1>1, <2>1, <2>2, <2>3 DEF WakeStep
  <1>2. ASSUME NEW r \in Receivers, Recv(r) \/ ReceiverStep(r) PROVE Quiet(r) \/ ReceiverActs(r)
    <2>1. CASE Recv(r)
      BY <2>1, Going DEF Recv
    <2>2. CASE Read(r)
      BY <2>2, Going DEF Read
    <2>3. CASE FindEmpty(r)
      BY <2>3, Going DEF FindEmpty
    <2>4. CASE SendersRemain(r)
      BY <2>4, Going DEF SendersRemain
    <2>5. CASE Sleep(r)
      BY <2>5, Going DEF Sleep
    <2>6. CASE Timeout(r)
      BY <2>6, Going DEF Timeout
    <2>7. CASE NotifyTaken(r)
      BY <2>7, Going DEF NotifyTaken
    <2>. QED
      BY <1>1, <1>2, <2>1, <2>2, <2>3, <2>4, <2>5, <2>6, <2>7 DEF ReceiverStep, ReceiverActs
  <1>3. ASSUME NEW s \in Senders, SenderStep(s) PROVE Quiet(s) \/ SenderActs(s)
    <2>1. CASE LoadReceiversToSend(s)
      BY <2>1, Going DEF LoadReceiversToSend
    <2>2. CASE ReadUpgradable(s)
      BY <2>2, Going DEF ReadUpgradable
    <2>3. CASE NotifyPut(s)
      BY <2>3, Going DEF NotifyPut
    <2>4. CASE FindFull(s)
      BY <2>4, Going DEF FindFull
    <2>5. CASE RequestResize(s)
      BY <2>5, Going DEF RequestResize
    <2>6. CASE LoseFlag(s)
      BY <2>6, Going DEF LoseFlag
    <2>7. CASE CompareResizes(s)
      BY <2>7, Going DEF CompareResizes
    <2>8. CASE Upgrade(s)
      BY <2>8, Going DEF Upgrade
    <2>9. CASE PanicResize(s)
      BY <2>9, Going DEF PanicResize
    <2>10. CASE Announce(s)
      <3>1. pc'[s] = "push" /\ OthersStay(s)
        BY <2>10 DEF Announce, OthersStay, TypeOK, ReceiverPCs, SharedPCs, WakePCs, Handles
      <3>. QED
        BY <2>10, <3>1 DEF Announce
    <2>11. CASE SeeNoResize(s)
      BY <2>11, Going DEF SeeNoResize
    <2>12. CASE SeeResize(s)
      <3>1. OthersStay(s)
        BY <2>12 DEF SeeResize, OthersStay, TypeOK
      <3>. QED
        BY <2>12, <3>1 DEF SeeResize
    <2>. QED
      BY <1>1, <1>3, <2>1, <2>2, <2>3, <2>4, <2>5, <2>6, <2>7, <2>8, <2>9, <2>10, <2>11, <2>12
      DEF SenderStep, SenderActs
  <1>. QED
    BY <1>2, <1>3 DEF Next, ReceiverClient, SenderClient, ReceiverActs, SenderActs

-----------------------------------------------------------------------------
(* Types.                                                                  *)

\* A quiet step leaves every thread at a place of its own, and on a slot if it needs one.
LEMMA QuietTypes ==
  ASSUME TypeOK, NEW h \in Handles, Quiet(h)
  PROVE  /\ pc' \in [Handles -> ReceiverPCs \cup SenderPCs]
         /\ \A r \in Receivers : pc'[r] \in ReceiverPCs
         /\ \A s \in Senders : pc'[s] \in SenderPCs
         /\ \A g \in Handles : pc'[g] \in {"lock", "check", "sleep", "wait", "put", "notify"} =>
              idx[g] \in Slots
  <1>. USE DEF ReceiverPCs, SenderPCs, SharedPCs, WakePCs, PushPCs, RequestPCs
  <1>1. pc' = [g \in Handles |-> pc'[g]]
    BY DEF Quiet, OthersStay
  <1>2. \A r \in Receivers : r \notin Senders /\ r \in Handles
    BY Names
  <1>3. ASSUME NEW r \in Receivers PROVE pc'[r] \in ReceiverPCs
    BY <1>2 DEF TypeOK, Quiet, QuietEdge, OthersStay
  <1>4. ASSUME NEW s \in Senders PROVE pc'[s] \in SenderPCs
    BY <1>2, Names DEF TypeOK, Quiet, QuietEdge, OthersStay
  <1>5. ASSUME NEW g \in Handles,
               pc'[g] \in {"lock", "check", "sleep", "wait", "put", "notify"}
        PROVE  pc[g] \in {"lock", "check", "sleep", "wait", "put", "notify"}
    BY <1>5 DEF Quiet, QuietEdge, OthersStay
  <1>. QED
    BY <1>1, <1>3, <1>4, <1>5 DEF TypeOK, Handles

\* What a sender knows of resizes, and the range of wake_reads.
LEMMA LocalTypes ==
  ASSUME TypeOK, [Next]_vars
  PROVE  known' \in [Senders -> 0..1] /\ span' \in [Handles -> Nat]
  <1>0. /\ known \in [Senders -> 0..1] /\ span \in [Handles -> Nat]
        /\ resizes \in 0..1 /\ receivers \in Nat
    BY DEF TypeOK
  <1>1. CASE UNCHANGED <<known, span>>
    BY <1>0, <1>1
  <1>2. ASSUME NEW h \in Handles, WakeStep(h)
        PROVE  known' \in [Senders -> 0..1] /\ span' \in [Handles -> Nat]
    BY <1>0, <1>2 DEF WakeStep, LoadReceivers, EnterWake, WakeReads
  <1>3. ASSUME NEW r \in Receivers, ReceiverClient(r) \/ (ReceiverStep(r) /\ ~WakeStep(r))
        PROVE  UNCHANGED <<known, span>>
    BY <1>3 DEF ReceiverClient, ReceiverStep, Recv, Read, ClaimStart, FindEmpty, Take,
      SendersRemain, FindClosed, Sleep, Timeout, NotifyTaken, CountTaken, CloneReceiver,
      DropReceiver
  <1>4. ASSUME NEW s \in Senders,
               CompareResizes(s) \/ SeeResize(s) \/ \E c \in Senders : CloneSender(s, c)
        PROVE  known' \in [Senders -> 0..1] /\ span' \in [Handles -> Nat]
    BY <1>0, <1>4 DEF CompareResizes, SeeResize, CloneSender
  <1>5. ASSUME NEW s \in Senders, Send(s) \/ DropSender(s) \/ (SenderStep(s) /\ ~WakeStep(s)),
               ~CompareResizes(s), ~SeeResize(s)
        PROVE  UNCHANGED <<known, span>>
    BY <1>5 DEF SenderStep, Send, DropSender, LoadReceiversToSend, ReadUpgradable, ClaimEnd,
      PutValue, NotifyPut, CountPut, FindFull, RequestResize, WinFlag, LoseFlag, Upgrade, Resize,
      PanicResize, CountResize, Announce, SeeNoResize
  <1>. QED
    BY <1>1, <1>2, <1>3, <1>4, <1>5 DEF Next, SenderClient, Handles

\* A ticket modulo the capacity is a slot.
LEMMA SlotsAre ==
  ASSUME TypeOK
  PROVE  /\ cap \in Nat \ {0} /\ Slots = 0..(cap - 1)
         /\ start % cap \in Slots /\ end % cap \in Slots
         /\ \A i \in Slots : buf[i] \in Values \cup {NoVal}
  BY Names DEF TypeOK, Slots

\* What a sender is about to put is a value.
LEMMA OwnIsValue ==
  ASSUME TypeOK, SendsFit, NEW s \in Senders, pc[s] \in UnsentPCs
  PROVE  Own(s) \in Values
  <1>1. sent[s] \in 1..MaxSend[s]
    BY RQAssumption DEF TypeOK, SendsFit
  <1>. QED
    BY <1>1 DEF Own, Values

\* What reallocate keeps is what was in the slots, and nothing twice.
LEMMA ReallocatedIs ==
  ASSUME TypeOK, NEW s \in 0..(cap - 1), NEW e \in 0..(cap - 1)
  PROVE  /\ Reallocated(s, e) \in [0..(2 * cap - 1) -> Values \cup {NoVal}]
         /\ \A i \in 0..(2 * cap - 1) : Reallocated(s, e)[i] # NoVal =>
              \E k \in Slots : Reallocated(s, e)[i] = buf[k] /\ (k = s + i \/ k = s + i - cap)
         /\ \A i, j \in 0..(2 * cap - 1) :
              Reallocated(s, e)[i] # NoVal /\ Reallocated(s, e)[j] # NoVal /\ i # j =>
              \E k, m \in Slots :
                k # m /\ Reallocated(s, e)[i] = buf[k] /\ Reallocated(s, e)[j] = buf[m]
  <1>0. cap \in Nat \ {0} /\ Slots = 0..(cap - 1) /\ \A i \in Slots : buf[i] \in Values \cup {NoVal}
    BY SlotsAre
  <1>. DEFINE from(i) == IF s + i < cap THEN s + i ELSE s + i - cap
              R == Reallocated(s, e)
  <1>1. Kept(s, e) \in 0..cap
    BY <1>0 DEF Kept
  <1>2. ASSUME NEW i \in 0..(2 * cap - 1), i < Kept(s, e)
        PROVE  from(i) \in Slots /\ R[i] = buf[from(i)] /\ i \in 0..(cap - 1)
    <2>1. i \in 0..(cap - 1)
      BY <1>0, <1>1, <1>2
    <2>2. from(i) \in Slots
      BY <1>0, <2>1
    <2>3. R[i] = buf[from(i)]
      BY <1>0, <1>1, <1>2, <2>1 DEF Reallocated
    <2>. QED
      BY <2>1, <2>2, <2>3
  <1>3. ASSUME NEW i \in 0..(2 * cap - 1), ~(i < Kept(s, e)) PROVE R[i] = NoVal
    BY <1>0, <1>1, <1>3 DEF Reallocated
  <1>4. \A i, j \in 0..(cap - 1) : i # j => from(i) # from(j)
    BY <1>0
  <1>5. \A i \in 0..(2 * cap - 1) : R[i] \in Values \cup {NoVal}
    BY <1>0, <1>2, <1>3
  <1>6. R = [i \in 0..(2 * cap - 1) |-> R[i]]
    BY DEF Reallocated
  <1>7. R \in [0..(2 * cap - 1) -> Values \cup {NoVal}]
    BY <1>5, <1>6
  <1>. HIDE DEF R
  <1>8. \A i \in 0..(2 * cap - 1) : R[i] # NoVal =>
          \E k \in Slots : R[i] = buf[k] /\ (k = s + i \/ k = s + i - cap)
    BY <1>2, <1>3
  <1>9. \A i, j \in 0..(2 * cap - 1) : R[i] # NoVal /\ R[j] # NoVal /\ i # j =>
          \E k, m \in Slots : k # m /\ R[i] = buf[k] /\ R[j] = buf[m]
    <2>. HIDE DEF from
    <2>. QED
      BY <1>2, <1>3, <1>4
  <1>. QED
    BY <1>7, <1>8, <1>9 DEF R

\* The full slots can be counted.
LEMMA FullIs ==
  ASSUME TypeOK
  PROVE  IsFiniteSet(Full) /\ Cardinality(Full) \in 0..cap /\ IsFiniteSet(Slots)
  <1>1. cap \in Nat \ {0} /\ Slots = 0..(cap - 1) /\ Full \subseteq Slots
    BY SlotsAre DEF Full
  <1>2. IsFiniteSet(0..(cap - 1)) /\ Cardinality(0..(cap - 1)) = cap
    BY <1>1, FS_Interval
  <1>3. IsFiniteSet(Full) /\ Cardinality(Full) <= cap /\ Cardinality(Full) \in Nat
    BY <1>1, <1>2, FS_Subset, FS_CardinalityType
  <1>. QED
    BY <1>1, <1>2, <1>3

\* The resizer is alone with the queue: no push or pop is between its slot and len.
LEMMA LenIsExact ==
  ASSUME TypeOK, LocksHold, OneResize, LenFits, NEW s \in Senders, pc[s] = "resize"
  PROVE  len = Cardinality(Full)
  <1>1. PutUncounted = {}
    BY DEF LocksHold, Upgradable, PutUncounted, PushPCs, RequestPCs
  <1>2. TakenUncounted = {}
    BY DEF LocksHold, Shared, SharedPCs, TakenUncounted
  <1>3. Cardinality({}) = 0
    BY FS_EmptySet
  <1>4. Cardinality(Full) \in Nat /\ len \in Int /\ cap = Cap
    BY FullIs DEF TypeOK, OneResize
  <1>. QED
    BY <1>1, <1>2, <1>3, <1>4 DEF LenFits

\* So both ends of the range it moves are slots of the old Vec.
LEMMA ResizeRange ==
  ASSUME TypeOK, LocksHold, OneResize, LenFits, NEW s \in Senders, Resize(s)
  PROVE  \E a, e \in 0..(cap - 1) : buf' = Reallocated(a, e)
  <1>0. len = Cardinality(Full) /\ len # 0
    BY LenIsExact DEF Resize, At
  <1>0a. Cardinality(Full) \in 0..cap /\ cap \in Nat
    BY FullIs, SlotsAre
  <1>1. len \in 1..cap /\ start \in Nat /\ end \in Nat /\ cap \in Nat
    BY <1>0, <1>0a DEF TypeOK
  <1>2. start % len \in 0..(cap - 1) /\ end % len \in 0..(cap - 1)
    BY <1>1
  <1>. QED
    BY <1>2 DEF Resize

\* Every step keeps the types.
LEMMA TypesStep ==
  ASSUME TypeOK, HandlesCounted', SendsFit, RecvsFit, LocksHold, OneResize, LenFits, [Next]_vars
  PROVE  TypeOK'
  <1>0. /\ Senders \subseteq Handles /\ Receivers \subseteq Handles /\ Senders \cap Receivers = {}
        /\ Handles = Senders \cup Receivers /\ Cap \in Nat \ {0}
    BY Names
  <1>1. /\ pc \in [Handles -> ReceiverPCs \cup SenderPCs] /\ start \in Nat /\ end \in Nat
        /\ idx \in [Handles -> Nat] /\ len \in Int /\ sent \in [Senders -> Nat]
        /\ got \subseteq Values /\ closed \in [Receivers -> 0..MaxClosed]
        /\ buf \in [Slots -> Values \cup {NoVal}] /\ cap \in {Cap, 2 * Cap}
        /\ resizes \in 0..1 /\ resizing \in BOOLEAN /\ \A s \in Senders : sent[s] <= MaxSend[s]
    BY DEF TypeOK
  <1>2. known' \in [Senders -> 0..1] /\ span' \in [Handles -> Nat]
    BY LocalTypes
  <1>3. senders' \in Nat /\ receivers' \in Nat
    <2>1. IsFiniteSet(LiveSenders') /\ IsFiniteSet(LiveReceivers')
      BY Names, FS_Subset DEF LiveSenders, LiveReceivers
    <2>. QED
      BY <2>1, FS_CardinalityType DEF HandlesCounted
  <1>. USE DEF At, Goto, ReceiverPCs, SenderPCs, SharedPCs, WakePCs, PushPCs, RequestPCs
  <1>4. CASE UNCHANGED vars
    BY <1>4 DEF TypeOK, Slots
  <1>5. ASSUME NEW h \in Handles, Quiet(h) PROVE TypeOK'
    <2>1. UNCHANGED <<vecVars, ticketVars, len, resizeVars, idx, histVars>>
      BY <1>5 DEF Quiet
    <2>. QED
      BY <1>1, <1>2, <1>3, <1>5, <2>1, QuietTypes DEF TypeOK, Slots
  <1>6. ASSUME NEW r \in Receivers, NEW c \in Receivers, CloneReceiver(r, c) PROVE TypeOK'
    BY <1>0, <1>1, <1>2, <1>3, <1>6 DEF CloneReceiver, TypeOK, Slots
  <1>7. ASSUME NEW r \in Receivers, DropReceiver(r) PROVE TypeOK'
    BY <1>0, <1>1, <1>2, <1>3, <1>7 DEF DropReceiver, TypeOK, Slots
  <1>8. ASSUME NEW r \in Receivers, ClaimStart(r) PROVE TypeOK'
    BY <1>0, <1>1, <1>2, <1>3, <1>8, SlotsAre DEF ClaimStart, TypeOK, Slots
  <1>9. ASSUME NEW r \in Receivers, Take(r) PROVE TypeOK'
    <2>1. idx[r] \in Slots /\ buf[idx[r]] \in Values
      BY <1>0, <1>9 DEF Take, TypeOK
    <2>2. buf' \in [Slots -> Values \cup {NoVal}] /\ got' \subseteq Values /\ Slots' = Slots
      BY <1>1, <1>9, <2>1 DEF Take, Slots
    <2>. QED
      BY <1>0, <1>1, <1>2, <1>3, <1>9, <2>2 DEF Take, TypeOK
  <1>10. ASSUME NEW r \in Receivers, FindClosed(r) PROVE TypeOK'
    <2>1. closed' \in [Receivers -> 0..MaxClosed]
      BY <1>1, <1>10, RQAssumption DEF FindClosed, RecvsFit, Receiving
    <2>. QED
      BY <1>0, <1>1, <1>2, <1>3, <1>10, <2>1 DEF FindClosed, TypeOK, Slots
  <1>11. ASSUME NEW r \in Receivers, CountTaken(r) PROVE TypeOK'
    BY <1>0, <1>1, <1>2, <1>3, <1>11 DEF CountTaken, TypeOK, Slots
  <1>12. ASSUME NEW s \in Senders, NEW c \in Senders, CloneSender(s, c) PROVE TypeOK'
    BY <1>0, <1>1, <1>2, <1>3, <1>12 DEF CloneSender, TypeOK, Slots
  <1>13. ASSUME NEW s \in Senders, DropSender(s) PROVE TypeOK'
    BY <1>0, <1>1, <1>2, <1>3, <1>13 DEF DropSender, TypeOK, Slots
  <1>14. ASSUME NEW s \in Senders, Send(s) PROVE TypeOK'
    <2>1. sent' \in [Senders -> Nat] /\ \A t \in Senders : sent'[t] <= MaxSend[t]
      <3>1. sent[s] < MaxSend[s] /\ sent' = [sent EXCEPT ![s] = @ + 1]
        BY <1>14 DEF Send
      <3>2. \A t \in Senders : MaxSend[t] \in Nat /\ sent[t] \in Nat
        BY <1>1, RQAssumption
      <3>. QED
        BY <1>1, <3>1, <3>2
    <2>. QED
      BY <1>0, <1>1, <1>2, <1>3, <1>14, <2>1 DEF Send, TypeOK, Slots
  <1>15. ASSUME NEW s \in Senders, ClaimEnd(s) PROVE TypeOK'
    BY <1>0, <1>1, <1>2, <1>3, <1>15, SlotsAre DEF ClaimEnd, TypeOK, Slots
  <1>16. ASSUME NEW s \in Senders, PutValue(s) PROVE TypeOK'
    <2>1. Own(s) \in Values
      BY <1>16, OwnIsValue DEF PutValue, UnsentPCs
    <2>. QED
      BY <1>0, <1>1, <1>2, <1>3, <1>16, <2>1 DEF PutValue, TypeOK, Slots
  <1>17. ASSUME NEW s \in Senders, CountPut(s) PROVE TypeOK'
    BY <1>0, <1>1, <1>2, <1>3, <1>17 DEF CountPut, TypeOK, Slots
  <1>18. ASSUME NEW s \in Senders, WinFlag(s) PROVE TypeOK'
    BY <1>0, <1>1, <1>2, <1>3, <1>18 DEF WinFlag, TypeOK, Slots
  <1>19. ASSUME NEW s \in Senders, Resize(s) PROVE TypeOK'
    <2>1. PICK a \in 0..(cap - 1), e \in 0..(cap - 1) : buf' = Reallocated(a, e)
      BY <1>19, ResizeRange
    <2>2. cap' = 2 * cap /\ cap = Cap /\ Slots' = 0..(2 * cap - 1)
      BY <1>19 DEF Resize, OneResize, Slots
    <2>3. buf' \in [Slots' -> Values \cup {NoVal}]
      BY <2>1, <2>2, ReallocatedIs
    <2>4. Slots \subseteq Slots'
      BY <1>0, <2>2 DEF Slots
    <2>. QED
      BY <1>0, <1>1, <1>2, <1>3, <1>19, <2>2, <2>3, <2>4 DEF Resize, TypeOK
  <1>20. ASSUME NEW s \in Senders, CountResize(s) PROVE TypeOK'
    BY <1>0, <1>1, <1>2, <1>3, <1>20 DEF CountResize, TypeOK, Slots, OneResize
  <1>. QED
    BY <1>4, <1>5, <1>6, <1>7, <1>8, <1>9, <1>10, <1>11, <1>12, <1>13, <1>14, <1>15, <1>16,
      <1>17, <1>18, <1>19, <1>20, StepKinds DEF ReceiverActs, SenderActs

-----------------------------------------------------------------------------
(* The handles, the locks, the flag.                                       *)

\* Only a clone and a drop change which handles are live, and they count it.
LEMMA HandlesStep == TypeOK /\ HandlesCounted /\ [Next]_vars => HandlesCounted'
  <1>. SUFFICES ASSUME TypeOK, HandlesCounted, [Next]_vars PROVE HandlesCounted'
    OBVIOUS
  <1>0. /\ Senders \subseteq Handles /\ Receivers \subseteq Handles /\ Senders \cap Receivers = {}
        /\ Handles = Senders \cup Receivers /\ DOMAIN pc = Handles
    BY Names DEF TypeOK
  <1>1. IsFiniteSet(LiveSenders) /\ IsFiniteSet(LiveReceivers)
    BY Names, FS_Subset DEF LiveSenders, LiveReceivers
  <1>. USE DEF At, Goto, LivePCs, ReceiverPCs, SenderPCs, SharedPCs, WakePCs, PushPCs, RequestPCs
  <1>2. CASE \E s \in Senders : \E c \in Senders : CloneSender(s, c)
    <2>1. PICK s \in Senders, c \in Senders : CloneSender(s, c)
      BY <1>2
    <2>2. LiveReceivers' = LiveReceivers /\ UNCHANGED receivers
      BY <1>0, <2>1 DEF CloneSender, LiveReceivers
    <2>3. LiveSenders' = LiveSenders \cup {c} /\ c \notin LiveSenders /\ senders' = senders + 1
      BY <1>0, <2>1 DEF CloneSender, LiveSenders
    <2>. QED
      BY <1>1, <2>2, <2>3, FS_AddElement DEF HandlesCounted
  <1>3. CASE \E r \in Receivers : \E c \in Receivers : CloneReceiver(r, c)
    <2>1. PICK r \in Receivers, c \in Receivers : CloneReceiver(r, c)
      BY <1>3
    <2>2. LiveSenders' = LiveSenders /\ UNCHANGED senders
      BY <1>0, <2>1 DEF CloneReceiver, LiveSenders
    <2>3. /\ LiveReceivers' = LiveReceivers \cup {c} /\ c \notin LiveReceivers
          /\ receivers' = receivers + 1
      BY <1>0, <2>1 DEF CloneReceiver, LiveReceivers
    <2>. QED
      BY <1>1, <2>2, <2>3, FS_AddElement DEF HandlesCounted
  <1>4. ASSUME NEW s \in Senders, DropSender(s) PROVE HandlesCounted'
    <2>2. LiveReceivers' = LiveReceivers /\ UNCHANGED receivers
      BY <1>0, <1>4 DEF DropSender, LiveReceivers
    <2>3. LiveSenders' = LiveSenders \ {s} /\ s \in LiveSenders /\ senders' = senders - 1
      BY <1>0, <1>4 DEF DropSender, LiveSenders
    <2>. QED
      BY <1>1, <2>2, <2>3, FS_RemoveElement DEF HandlesCounted
  <1>5. ASSUME NEW r \in Receivers, DropReceiver(r) PROVE HandlesCounted'
    <2>2. LiveSenders' = LiveSenders /\ UNCHANGED senders
      BY <1>0, <1>5 DEF DropReceiver, LiveSenders
    <2>3. LiveReceivers' = LiveReceivers \ {r} /\ r \in LiveReceivers /\ receivers' = receivers - 1
      BY <1>0, <1>5 DEF DropReceiver, LiveReceivers
    <2>. QED
      BY <1>1, <2>2, <2>3, FS_RemoveElement DEF HandlesCounted
  <1>6. ASSUME UNCHANGED countVars, \A h \in Handles : pc'[h] \in LivePCs <=> pc[h] \in LivePCs
        PROVE  HandlesCounted'
    BY <1>0, <1>6 DEF HandlesCounted, LiveSenders, LiveReceivers
  <1>7. CASE UNCHANGED vars
    BY <1>6, <1>7
  <1>8. ASSUME NEW h \in Handles, Quiet(h) PROVE HandlesCounted'
    BY <1>6, <1>8 DEF Quiet, QuietEdge, OthersStay
  <1>9. ASSUME NEW r \in Receivers, ClaimStart(r) \/ Take(r) \/ FindClosed(r) \/ CountTaken(r)
        PROVE  HandlesCounted'
    BY <1>0, <1>6, <1>9 DEF ClaimStart, Take, FindClosed, CountTaken
  <1>10. ASSUME NEW s \in Senders, \/ Send(s) \/ ClaimEnd(s) \/ PutValue(s) \/ CountPut(s)
                                   \/ WinFlag(s) \/ Resize(s) \/ CountResize(s)
         PROVE  HandlesCounted'
    BY <1>0, <1>6, <1>10
    DEF Send, ClaimEnd, PutValue, CountPut, WinFlag, Resize, CountResize
  <1>. QED
    BY <1>2, <1>3, <1>4, <1>5, <1>7, <1>8, <1>9, <1>10, StepKinds DEF ReceiverActs, SenderActs

\* One upgradable share; none but the resizer once it has upgraded; and a slot found empty
\* stays so for as long as the pop that found it keeps its Mutex.
LEMMA LocksStep == TypeOK /\ LocksHold /\ [Next]_vars => LocksHold'
  <1>. SUFFICES ASSUME TypeOK, LocksHold, [Next]_vars PROVE LocksHold'
    OBVIOUS
  <1>0. /\ Senders \subseteq Handles /\ Receivers \subseteq Handles /\ Senders \cap Receivers = {}
        /\ Handles = Senders \cup Receivers /\ DOMAIN pc = Handles /\ DOMAIN buf = Slots
    BY Names DEF TypeOK
  <1>. USE DEF At, Goto, SharedPCs, PushPCs, RequestPCs
  \* The step of a handle that takes no lock of the queue.
  <1>1. ASSUME NEW h \in Handles, OthersStay(h),
               h \in Senders =>
                 /\ pc'[h] \in PushPCs \cup RequestPCs => pc[h] \in PushPCs \cup RequestPCs
                 /\ pc'[h] = "resize" => pc[h] = "resize"
                 /\ pc'[h] = "scan" => pc[h] = "scan" \/ CanRead,
               h \in Receivers /\ pc'[h] \in SharedPCs => pc[h] \in SharedPCs \/ CanRead
        PROVE  /\ \A s, t \in Upgradable' : s = t
               /\ \A s \in Senders : pc'[s] = "resize" => Shared' = {}
    <2>1. Upgradable' \subseteq Upgradable
      BY <1>0, <1>1 DEF OthersStay, Upgradable
    <2>2. \A s \in Senders : pc'[s] = "resize" => pc[s] = "resize"
      BY <1>0, <1>1 DEF OthersStay
    <2>3. (\E s \in Senders : pc[s] = "resize") => ~CanRead
      BY DEF CanRead, WriterBit
    <2>4. (\E s \in Senders : pc[s] = "resize") => Shared' \subseteq Shared
      BY <1>0, <1>1, <2>3 DEF OthersStay, Shared
    <2>. QED
      BY <2>1, <2>2, <2>4 DEF LocksHold
  <1>2. CASE UNCHANGED vars
    BY <1>2 DEF LocksHold, Upgradable, Shared
  <1>3. ASSUME NEW h \in Handles, Quiet(h) PROVE LocksHold'
    <2>1. \A r \in Receivers : pc'[r] \in {"check", "sleep"} => buf[idx[r]] = NoVal
      BY <1>0, <1>3 DEF Quiet, QuietEdge, OthersStay, LocksHold
    <2>2. CASE h \in Senders /\ pc[h] \in {"push", "request"} /\ pc'[h] \in {"claim", "try"}
                /\ CanReadUpgradable
      <3>1. Upgradable' \subseteq {h} /\ WriterBit' = FALSE
        BY <1>0, <1>3, <2>2 DEF Quiet, OthersStay, Upgradable, CanReadUpgradable, WriterBit
      <3>. QED
        BY <1>3, <2>1, <3>1 DEF Quiet, LocksHold, WriterBit
    <2>3. CASE h \in Senders /\ pc[h] = "upgrade" /\ pc'[h] = "resize" /\ Shared = {}
      <3>1. Upgradable' \subseteq Upgradable /\ Shared' = {}
        BY <1>0, <1>3, <2>3 DEF Quiet, OthersStay, Upgradable, Shared
      <3>. QED
        BY <1>3, <2>1, <3>1 DEF Quiet, LocksHold
    <2>4. CASE h \in Receivers
      BY <1>0, <1>1, <1>3, <2>1, <2>4 DEF Quiet, QuietEdge, LocksHold
    <2>5. CASE h \in Senders /\ pc'[h] \notin {"claim", "try", "resize"}
      BY <1>0, <1>1, <1>3, <2>1, <2>5 DEF Quiet, QuietEdge, LocksHold
    <2>. QED
      BY <1>0, <1>3, <2>2, <2>3, <2>4, <2>5 DEF Quiet, QuietEdge
  <1>4. ASSUME NEW r \in Receivers, ReceiverActs(r) PROVE LocksHold'
    <2>1. CASE \E c \in Receivers : CloneReceiver(r, c)
      <3>1. PICK c \in Receivers : CloneReceiver(r, c)
        BY <2>1
      <3>2. OthersStay(c)
        BY <1>0, <3>1, Going DEF CloneReceiver
      <3>. QED
        BY <1>0, <1>1, <3>1, <3>2 DEF CloneReceiver, LocksHold
    <2>2. CASE DropReceiver(r)
      BY <1>0, <1>1, <2>2, Going DEF DropReceiver, LocksHold
    <2>3. CASE ClaimStart(r)
      <3>1. \A q \in Receivers : pc'[q] \in {"check", "sleep"} =>
              pc[q] \in {"check", "sleep"} /\ idx'[q] = idx[q]
        BY <1>0, <2>3 DEF ClaimStart, TypeOK
      <3>. QED
        BY <1>0, <1>1, <2>3, <3>1, Going DEF ClaimStart, LocksHold
    <2>4. CASE Take(r)
      <3>1. /\ buf' = [buf EXCEPT ![idx[r]] = NoVal] /\ UNCHANGED idx
            /\ pc[r] = "lock" /\ pc'[r] = "notify" /\ OthersStay(r) /\ idx[r] \in Slots
        BY <1>0, <2>4, Going DEF Take, TypeOK
      <3>2. \A q \in Receivers : pc'[q] \in {"check", "sleep"} => buf'[idx[q]] = NoVal
        BY <1>0, <3>1 DEF LocksHold, OthersStay, TypeOK
      <3>. QED
        BY <1>0, <1>1, <3>1, <3>2 DEF LocksHold
    <2>5. CASE FindClosed(r)
      BY <1>0, <1>1, <2>5, Going DEF FindClosed, LocksHold
    <2>6. CASE CountTaken(r)
      BY <1>0, <1>1, <2>6, Going DEF CountTaken, LocksHold
    <2>. QED
      BY <1>4, <2>1, <2>2, <2>3, <2>4, <2>5, <2>6 DEF ReceiverActs
  <1>5. ASSUME NEW s \in Senders, SenderActs(s) PROVE LocksHold'
    <2>1. CASE \E c \in Senders : CloneSender(s, c)
      <3>1. PICK c \in Senders : CloneSender(s, c)
        BY <2>1
      <3>2. OthersStay(c)
        BY <1>0, <3>1, Going DEF CloneSender
      <3>. QED
        BY <1>0, <1>1, <3>1, <3>2 DEF CloneSender, LocksHold
    <2>2. CASE DropSender(s)
      BY <1>0, <1>1, <2>2, Going DEF DropSender, LocksHold
    <2>3. CASE Send(s)
      BY <1>0, <1>1, <2>3, Going DEF Send, LocksHold
    <2>4. CASE ClaimEnd(s)
      <3>1. \A q \in Receivers : pc'[q] \in {"check", "sleep"} =>
              pc[q] \in {"check", "sleep"} /\ idx'[q] = idx[q]
        BY <1>0, <2>4 DEF ClaimEnd, TypeOK
      <3>. QED
        BY <1>0, <1>1, <2>4, <3>1, Going DEF ClaimEnd, LocksHold
    <2>5. CASE PutValue(s)
      <3>1. buf' = [buf EXCEPT ![idx[s]] = Own(s)] /\ UNCHANGED idx /\ OthersStay(s)
            /\ pc[s] = "put" /\ pc'[s] = "notify"
        BY <1>0, <2>5, Going DEF PutValue
      <3>2. \A r \in Receivers : pc'[r] \in {"check", "sleep"} =>
              pc[r] \in {"check", "sleep"} /\ idx[r] # idx[s]
        BY <1>0, <2>5, <3>1 DEF PutValue, SlotLocked, OthersStay
      <3>3. \A r \in Receivers : pc'[r] \in {"check", "sleep"} => buf'[idx[r]] = NoVal
        BY <1>0, <3>1, <3>2 DEF LocksHold, TypeOK
      <3>. QED
        BY <1>0, <1>1, <3>1, <3>3 DEF LocksHold
    <2>6. CASE CountPut(s)
      BY <1>0, <1>1, <2>6, Going DEF CountPut, LocksHold
    <2>7. CASE WinFlag(s)
      BY <1>0, <1>1, <2>7, Going DEF WinFlag, LocksHold
    <2>8. CASE Resize(s)
      <3>1. OthersStay(s) /\ pc[s] = "resize" /\ pc'[s] = "bump" /\ UNCHANGED idx
        BY <1>0, <2>8, Going DEF Resize
      <3>2. \A r \in Receivers : pc'[r] \notin {"check", "sleep"}
        BY <1>0, <3>1 DEF LocksHold, Shared, OthersStay
      <3>. QED
        BY <1>0, <1>1, <3>1, <3>2 DEF LocksHold
    <2>9. CASE CountResize(s)
      BY <1>0, <1>1, <2>9, Going DEF CountResize, LocksHold
    <2>. QED
      BY <1>5, <2>1, <2>2, <2>3, <2>4, <2>5, <2>6, <2>7, <2>8, <2>9 DEF SenderActs
  <1>. QED
    BY <1>2, <1>3, <1>4, <1>5, StepKinds

\* The flag of the resize is taken once and never given back.
LEMMA OneResizeStep == TypeOK /\ LocksHold /\ OneResize /\ [Next]_vars => OneResize'
  <1>. SUFFICES ASSUME TypeOK, LocksHold, OneResize, [Next]_vars PROVE OneResize'
    OBVIOUS
  <1>0. /\ Senders \subseteq Handles /\ Receivers \subseteq Handles /\ Senders \cap Receivers = {}
        /\ Handles = Senders \cup Receivers /\ DOMAIN pc = Handles
        /\ resizing \in BOOLEAN /\ resizes \in 0..1
    BY Names DEF TypeOK
  <1>. DEFINE Holding == {"compare", "upgrade", "resize", "bump", "announce"}
  <1>. USE DEF At, Goto
  <1>1. ASSUME \A s \in Senders : /\ pc'[s] \in Holding => pc[s] \in Holding
                                  /\ pc'[s] = "bump" => pc[s] = "bump"
                                  /\ pc'[s] \in {"compare", "upgrade", "resize"} =>
                                       pc[s] \in {"compare", "upgrade", "resize"},
               UNCHANGED <<cap, resizeVars>>
        PROVE  OneResize'
    BY <1>0, <1>1 DEF OneResize
  <1>2. CASE UNCHANGED vars
    BY <1>1, <1>2
  <1>3. ASSUME NEW h \in Handles, Quiet(h) PROVE OneResize'
    BY <1>0, <1>1, <1>3 DEF Quiet, QuietEdge, OthersStay
  <1>4. ASSUME NEW r \in Receivers, ReceiverActs(r) PROVE OneResize'
    BY <1>0, <1>1, <1>4
    DEF ReceiverActs, CloneReceiver, DropReceiver, ClaimStart, Take, FindClosed, CountTaken
  <1>5. ASSUME NEW s \in Senders,
               \/ \E c \in Senders : CloneSender(s, c)
               \/ DropSender(s) \/ Send(s) \/ ClaimEnd(s) \/ PutValue(s) \/ CountPut(s)
        PROVE  OneResize'
    BY <1>0, <1>1, <1>5 DEF CloneSender, DropSender, Send, ClaimEnd, PutValue, CountPut
  \* Only one sender has the upgradable share.
  <1>6. ASSUME NEW s \in Senders, pc[s] \in RequestPCs
        PROVE  \A t \in Senders \ {s} : pc[t] \notin Holding
    BY <1>6 DEF LocksHold, Upgradable, RequestPCs
  <1>7. ASSUME NEW s \in Senders, WinFlag(s) PROVE OneResize'
    BY <1>0, <1>7 DEF WinFlag, OneResize
  <1>8. ASSUME NEW s \in Senders, Resize(s) PROVE OneResize'
    BY <1>0, <1>6, <1>8 DEF Resize, OneResize, RequestPCs
  <1>9. ASSUME NEW s \in Senders, CountResize(s) PROVE OneResize'
    BY <1>0, <1>6, <1>9 DEF CountResize, OneResize, RequestPCs
  <1>. QED
    BY <1>2, <1>3, <1>4, <1>5, <1>7, <1>8, <1>9, StepKinds DEF SenderActs

\* recv begins below its bound.
LEMMA RecvsStep == TypeOK /\ RecvsFit /\ [Next]_vars => RecvsFit'
  <1>. SUFFICES ASSUME TypeOK, RecvsFit, [Next]_vars PROVE RecvsFit'
    OBVIOUS
  <1>0. /\ Senders \subseteq Handles /\ Receivers \subseteq Handles /\ Senders \cap Receivers = {}
        /\ DOMAIN pc = Handles
    BY Names DEF TypeOK
  <1>. USE DEF At, Goto, Receiving
  <1>1. ASSUME \A r \in Receivers : Receiving(r)' => Receiving(r), UNCHANGED closed
        PROVE  RecvsFit'
    BY <1>1 DEF RecvsFit
  <1>2. CASE UNCHANGED vars
    BY <1>1, <1>2
  <1>3. ASSUME NEW h \in Handles, Quiet(h) PROVE RecvsFit'
    <2>1. CASE h \in Receivers /\ pc[h] = "idle"
      BY <1>0, <1>3, <2>1 DEF Quiet, QuietEdge, OthersStay, RecvsFit
    <2>2. CASE ~(h \in Receivers /\ pc[h] = "idle")
      BY <1>0, <1>1, <1>3, <2>2 DEF Quiet, QuietEdge, OthersStay
    <2>. QED
      BY <2>1, <2>2
  <1>4. ASSUME NEW r \in Receivers, FindClosed(r) PROVE RecvsFit'
    BY <1>0, <1>4 DEF FindClosed, RecvsFit, TypeOK
  <1>5. ASSUME NEW r \in Receivers,
               \/ \E c \in Receivers : CloneReceiver(r, c)
               \/ DropReceiver(r) \/ ClaimStart(r) \/ Take(r) \/ CountTaken(r)
        PROVE  RecvsFit'
    BY <1>0, <1>1, <1>5 DEF CloneReceiver, DropReceiver, ClaimStart, Take, CountTaken
  <1>6. ASSUME NEW s \in Senders, SenderActs(s) PROVE RecvsFit'
    BY <1>0, <1>1, <1>6
    DEF SenderActs, CloneSender, DropSender, Send, ClaimEnd, PutValue, CountPut, WinFlag, Resize,
      CountResize
  <1>. QED
    BY <1>2, <1>3, <1>4, <1>5, <1>6, StepKinds DEF ReceiverActs

-----------------------------------------------------------------------------
(* The values.                                                             *)

\* A value that was put comes from a send that began and is over.
LEMMA SendsStep ==
  TypeOK /\ SendsFit /\ LocksHold /\ OneResize /\ LenFits /\ [Next]_vars => SendsFit'
  <1>. SUFFICES ASSUME TypeOK, SendsFit, LocksHold, OneResize, LenFits, [Next]_vars
                PROVE  SendsFit'
    OBVIOUS
  <1>0. /\ Senders \subseteq Handles /\ Receivers \subseteq Handles /\ Senders \cap Receivers = {}
        /\ DOMAIN pc = Handles /\ sent \in [Senders -> Nat]
        /\ \A i \in Slots : buf[i] \in Values \cup {NoVal}
        /\ DOMAIN buf = Slots
    BY Names, SlotsAre DEF TypeOK
  <1>. USE DEF At, Goto, UnsentPCs, RequestPCs
  <1>1. ASSUME \A v : Placed(v)' => Placed(v), UNCHANGED sent,
               \A s \in Senders : pc'[s] \in UnsentPCs => pc[s] \in UnsentPCs
        PROVE  SendsFit'
    BY <1>1 DEF SendsFit
  <1>2. ASSUME UNCHANGED <<buf, cap, got, sent>>,
               \A s \in Senders : pc'[s] \in UnsentPCs => pc[s] \in UnsentPCs
        PROVE  SendsFit'
    <2>1. \A v : Placed(v)' => Placed(v)
      BY <1>2 DEF Placed, Slots
    <2>. QED
      BY <1>1, <1>2, <2>1
  <1>3. CASE UNCHANGED vars
    BY <1>2, <1>3
  <1>4. ASSUME NEW h \in Handles, Quiet(h) PROVE SendsFit'
    <2>1. \A s \in Senders : s # h /\ pc'[s] \in UnsentPCs => pc[s] \in UnsentPCs
      BY <1>0, <1>4 DEF Quiet, OthersStay
    <2>2. ASSUME h \in Senders, pc'[h] \in UnsentPCs PROVE pc[h] \in UnsentPCs
      <3>1. QuietEdge(h) /\ h \notin Receivers
        BY <1>0, <1>4, <2>2 DEF Quiet
      <3>2. \/ pc[h] \in {"send", "put", "compare", "announce", "await", "push", "request", "try",
                           "resize", "upgrade"}
            \/ pc[h] = "notify" /\ pc'[h] = "count"
            \/ pc[h] = "load" /\ pc'[h] = "enter"
            \/ pc[h] = "scan" /\ pc'[h] = "gone"
            \/ pc[h] = "enter" /\ pc'[h] = "scan"
        BY <3>1 DEF QuietEdge
      <3>. QED
        BY <2>2, <3>2
    <2>. QED
      BY <1>2, <1>4, <2>1, <2>2 DEF Quiet
  <1>5. ASSUME NEW r \in Receivers, Take(r) PROVE SendsFit'
    <2>1. /\ idx[r] \in Slots /\ buf' = [buf EXCEPT ![idx[r]] = NoVal]
          /\ got' = got \cup {buf[idx[r]]} /\ Slots' = Slots
      BY <1>0, <1>5 DEF Take, TypeOK, Slots
    <2>2. ASSUME NEW s \in Senders, NEW n \in 1..MaxSend[s], Placed(<<s, n>>)'
          PROVE  Placed(<<s, n>>)
      <3>1. <<s, n>> \in got' => Placed(<<s, n>>)
        BY <2>1 DEF Placed
      <3>2. ASSUME NEW i \in Slots, buf'[i] = <<s, n>> PROVE Placed(<<s, n>>)
        <4>1. CASE i = idx[r]
          BY <1>0, <2>1, <3>2, <4>1, Names DEF Values
        <4>2. CASE i # idx[r]
          BY <1>0, <2>1, <3>2, <4>2 DEF Placed
        <4>. QED
          BY <4>1, <4>2
      <3>. QED
        BY <2>1, <2>2, <3>1, <3>2 DEF Placed
    <2>3. UNCHANGED sent /\ \A s \in Senders : pc'[s] = pc[s]
      BY <1>0, <1>5 DEF Take
    <2>. QED
      BY <2>2, <2>3 DEF SendsFit
  <1>6. ASSUME NEW r \in Receivers,
               \/ \E c \in Receivers : CloneReceiver(r, c)
               \/ DropReceiver(r) \/ ClaimStart(r) \/ FindClosed(r) \/ CountTaken(r)
        PROVE  SendsFit'
    BY <1>0, <1>2, <1>6 DEF CloneReceiver, DropReceiver, ClaimStart, FindClosed, CountTaken
  <1>7. ASSUME NEW s \in Senders,
               \/ \E c \in Senders : CloneSender(s, c)
               \/ DropSender(s) \/ ClaimEnd(s) \/ CountPut(s) \/ WinFlag(s) \/ CountResize(s)
        PROVE  SendsFit'
    BY <1>0, <1>2, <1>7 DEF CloneSender, DropSender, ClaimEnd, CountPut, WinFlag, CountResize
  <1>8. ASSUME NEW s \in Senders, Send(s) PROVE SendsFit'
    <2>1. /\ UNCHANGED <<buf, cap, got>> /\ sent' = [sent EXCEPT ![s] = @ + 1]
          /\ pc' = [pc EXCEPT ![s] = "send"]
      BY <1>8 DEF Send
    <2>2. \A v : Placed(v)' <=> Placed(v)
      BY <2>1 DEF Placed, Slots
    <2>. QED
      BY <1>0, <2>1, <2>2 DEF SendsFit
  <1>9. ASSUME NEW s \in Senders, PutValue(s) PROVE SendsFit'
    <2>1. /\ buf' = [buf EXCEPT ![idx[s]] = <<s, sent[s]>>] /\ Slots' = Slots
          /\ UNCHANGED <<sent, got>> /\ pc' = [pc EXCEPT ![s] = "notify"]
      BY <1>9 DEF PutValue, Own, Slots
    <2>2. \A v : Placed(v)' => Placed(v) \/ v = <<s, sent[s]>>
      BY <1>0, <2>1 DEF Placed
    <2>3. \A t \in Senders : pc'[t] \in UnsentPCs => t # s /\ pc[t] \in UnsentPCs
      BY <1>0, <2>1
    <2>4. ASSUME NEW t \in Senders, NEW n \in 1..MaxSend[t], Placed(<<t, n>>)'
          PROVE  n <= sent[t] /\ (pc'[t] \in UnsentPCs => n # sent[t])
      <3>1. CASE Placed(<<t, n>>)
        BY <2>3, <3>1 DEF SendsFit
      <3>2. CASE t = s /\ n = sent[s]
        BY <1>0, <2>3, <3>2
      <3>. QED
        BY <2>2, <2>4, <3>1, <3>2
    <2>. QED
      BY <2>1, <2>3, <2>4 DEF SendsFit
  <1>10. ASSUME NEW s \in Senders, Resize(s) PROVE SendsFit'
    <2>1. PICK a \in 0..(cap - 1), e \in 0..(cap - 1) : buf' = Reallocated(a, e)
      BY <1>10, ResizeRange
    <2>2. /\ Slots' = 0..(2 * cap - 1) /\ UNCHANGED <<sent, got>> /\ pc' = [pc EXCEPT ![s] = "bump"]
          /\ pc[s] = "resize"
      BY <1>10 DEF Resize, Slots
    <2>3. ASSUME NEW t \in Senders, NEW n \in 1..MaxSend[t], Placed(<<t, n>>)'
          PROVE  Placed(<<t, n>>)
      <3>1. <<t, n>> # NoVal
        BY Names DEF Values
      <3>2. <<t, n>> \in got \/ \E i \in Slots' : buf'[i] = <<t, n>>
        BY <2>2, <2>3 DEF Placed
      <3>. QED
        BY <2>1, <2>2, <3>1, <3>2, ReallocatedIs DEF Placed
    <2>. QED
      BY <1>0, <2>2, <2>3 DEF SendsFit
  <1>. QED
    BY <1>3, <1>4, <1>5, <1>6, <1>7, <1>8, <1>9, <1>10, StepKinds DEF ReceiverActs, SenderActs

\* AtMostOnce: a put finds its value nowhere, a pop empties its slot, and the resize
\* copies no slot twice.
LEMMA OnceStep ==
  ASSUME TypeOK, SendsFit, LocksHold, OneResize, LenFits, AtMostOnce, [Next]_vars
  PROVE  AtMostOnce'
  <1>0. /\ Senders \subseteq Handles /\ Receivers \subseteq Handles
        /\ \A i \in Slots : buf[i] \in Values \cup {NoVal}
        /\ buf \in [Slots -> Values \cup {NoVal}] /\ got \subseteq Values /\ NoVal \notin Values
    BY Names, SlotsAre DEF TypeOK
  <1>. USE DEF At, Goto
  <1>1. CASE UNCHANGED <<buf, cap, got>>
    BY <1>1 DEF AtMostOnce, Slots
  <1>2. ASSUME NEW r \in Receivers, Take(r) PROVE AtMostOnce'
    <2>1. /\ idx[r] \in Slots /\ buf' = [buf EXCEPT ![idx[r]] = NoVal]
          /\ got' = got \cup {buf[idx[r]]} /\ Slots' = Slots /\ buf[idx[r]] # NoVal
      BY <1>0, <1>2 DEF Take, TypeOK, Slots
    <2>2. ASSUME NEW i \in Slots, NEW j \in Slots, buf'[i] = buf'[j], buf'[i] # NoVal
          PROVE  i = j
      BY <1>0, <2>1, <2>2 DEF AtMostOnce
    <2>3. ASSUME NEW i \in Slots PROVE buf'[i] \notin got'
      <3>1. CASE i = idx[r]
        BY <1>0, <2>1, <3>1
      <3>2. CASE i # idx[r]
        BY <1>0, <2>1, <3>2 DEF AtMostOnce
      <3>. QED
        BY <3>1, <3>2
    <2>. QED
      BY <2>1, <2>2, <2>3 DEF AtMostOnce
  <1>3. ASSUME NEW s \in Senders, PutValue(s) PROVE AtMostOnce'
    <2>1. /\ idx[s] \in Slots /\ buf' = [buf EXCEPT ![idx[s]] = Own(s)]
          /\ UNCHANGED got /\ Slots' = Slots /\ pc[s] = "put"
      BY <1>0, <1>3 DEF PutValue, TypeOK, Slots
    <2>2. Own(s) \in Values /\ sent[s] \in 1..MaxSend[s]
      BY <2>1, OwnIsValue, RQAssumption DEF UnsentPCs, TypeOK, SendsFit
    <2>3. ~Placed(Own(s))
      BY <2>1, <2>2 DEF SendsFit, Own, UnsentPCs
    <2>. QED
      BY <1>0, <2>1, <2>2, <2>3 DEF AtMostOnce, Placed
  <1>4. ASSUME NEW s \in Senders, Resize(s) PROVE AtMostOnce'
    <2>1. PICK a \in 0..(cap - 1), e \in 0..(cap - 1) : buf' = Reallocated(a, e)
      BY <1>4, ResizeRange
    <2>2. Slots' = 0..(2 * cap - 1) /\ UNCHANGED got
      BY <1>4 DEF Resize, Slots
    <2>3. ASSUME NEW i \in Slots', NEW j \in Slots', buf'[i] = buf'[j], buf'[i] # NoVal, i # j
          PROVE  FALSE
      <3>1. PICK k \in Slots, m \in Slots : k # m /\ buf'[i] = buf[k] /\ buf'[j] = buf[m]
        BY <2>1, <2>2, <2>3, ReallocatedIs
      <3>. QED
        BY <2>3, <3>1 DEF AtMostOnce
    <2>4. ASSUME NEW i \in Slots' PROVE buf'[i] \notin got
      BY <1>0, <2>1, <2>2, ReallocatedIs DEF AtMostOnce
    <2>. QED
      BY <2>2, <2>3, <2>4 DEF AtMostOnce
  <1>5. ASSUME NEW h \in Handles, Quiet(h) PROVE UNCHANGED <<buf, cap, got>>
    BY <1>5 DEF Quiet
  <1>6. ASSUME NEW r \in Receivers, ReceiverActs(r), ~Take(r) PROVE UNCHANGED <<buf, cap, got>>
    BY <1>6 DEF ReceiverActs, CloneReceiver, DropReceiver, ClaimStart, FindClosed, CountTaken
  <1>7. ASSUME NEW s \in Senders, SenderActs(s), ~PutValue(s), ~Resize(s)
        PROVE  UNCHANGED <<buf, cap, got>>
    BY <1>7 DEF SenderActs, CloneSender, DropSender, Send, ClaimEnd, CountPut, WinFlag, CountResize
  <1>. QED
    BY <1>1, <1>2, <1>3, <1>4, <1>5, <1>6, <1>7, StepKinds

-----------------------------------------------------------------------------
(* The count of values.                                                    *)

\* len lags behind the slots by the pushes and the pops that have still to count.
LEMMA LenStep ==
  ASSUME TypeOK, SendsFit, LocksHold, OneResize, LenFits, [Next]_vars
  PROVE  LenFits'
  <1>0. /\ Senders \subseteq Handles /\ Receivers \subseteq Handles /\ Senders \cap Receivers = {}
        /\ DOMAIN pc = Handles /\ DOMAIN buf = Slots /\ len \in Int /\ Cap \in Nat \ {0}
    BY Names DEF TypeOK
  <1>a. /\ IsFiniteSet(PutUncounted) /\ IsFiniteSet(TakenUncounted) /\ IsFiniteSet(Full)
        /\ Cardinality(PutUncounted) \in Nat /\ Cardinality(TakenUncounted) \in Nat
        /\ Cardinality(Full) \in Nat
    <2>1. IsFiniteSet(PutUncounted) /\ IsFiniteSet(TakenUncounted)
      BY Names, FS_Subset DEF PutUncounted, TakenUncounted
    <2>. QED
      BY <2>1, FullIs, FS_CardinalityType
  <1>. USE DEF At, Goto
  <1>1. ASSUME UNCHANGED <<buf, cap, len>>, PutUncounted' = PutUncounted,
               TakenUncounted' = TakenUncounted
        PROVE  LenFits'
    BY <1>1 DEF LenFits, Full, Slots
  <1>2. CASE UNCHANGED vars
    BY <1>1, <1>2 DEF PutUncounted, TakenUncounted
  <1>3. ASSUME NEW h \in Handles, Quiet(h) PROVE LenFits'
    <2>1. PutUncounted' = PutUncounted /\ TakenUncounted' = TakenUncounted
      BY <1>0, <1>3 DEF Quiet, QuietEdge, OthersStay, PutUncounted, TakenUncounted
    <2>. QED
      BY <1>1, <1>3, <2>1 DEF Quiet
  <1>4. ASSUME NEW r \in Receivers, Take(r) PROVE LenFits'
    <2>1. /\ idx[r] \in Full /\ Full' = Full \ {idx[r]} /\ UNCHANGED <<cap, len>>
      BY <1>0, <1>4 DEF Take, TypeOK, Slots, Full
    <2>2. /\ PutUncounted' = PutUncounted /\ r \notin TakenUncounted
          /\ TakenUncounted' = TakenUncounted \cup {r}
      BY <1>0, <1>4 DEF Take, PutUncounted, TakenUncounted
    <2>3. /\ Cardinality(Full') = Cardinality(Full) - 1
          /\ Cardinality(TakenUncounted') = Cardinality(TakenUncounted) + 1
      BY <1>a, <2>1, <2>2, FS_AddElement, FS_RemoveElement
    <2>. QED
      BY <1>0, <1>a, <2>1, <2>2, <2>3 DEF LenFits
  <1>5. ASSUME NEW r \in Receivers, CountTaken(r) PROVE LenFits'
    <2>1. UNCHANGED <<buf, cap>> /\ len' = len - 1 /\ Full' = Full
      BY <1>5 DEF CountTaken, Full, Slots
    <2>2. /\ PutUncounted' = PutUncounted /\ r \in TakenUncounted
          /\ TakenUncounted' = TakenUncounted \ {r}
      BY <1>0, <1>5 DEF CountTaken, PutUncounted, TakenUncounted
    <2>3. Cardinality(TakenUncounted') = Cardinality(TakenUncounted) - 1
      BY <1>a, <2>2, FS_RemoveElement
    <2>. QED
      BY <1>0, <1>a, <2>1, <2>2, <2>3 DEF LenFits
  <1>6. ASSUME NEW s \in Senders, PutValue(s) PROVE LenFits'
    <2>0. Own(s) # NoVal
      BY <1>6, OwnIsValue, Names DEF PutValue, UnsentPCs
    <2>1. /\ idx[s] \notin Full /\ Full' = Full \cup {idx[s]} /\ UNCHANGED <<cap, len>>
      BY <1>0, <1>6, <2>0 DEF PutValue, TypeOK, Slots, Full
    <2>2. /\ TakenUncounted' = TakenUncounted /\ s \notin PutUncounted
          /\ PutUncounted' = PutUncounted \cup {s}
      BY <1>0, <1>6 DEF PutValue, PutUncounted, TakenUncounted
    <2>3. /\ Cardinality(Full') = Cardinality(Full) + 1
          /\ Cardinality(PutUncounted') = Cardinality(PutUncounted) + 1
      BY <1>a, <2>1, <2>2, FS_AddElement
    <2>. QED
      BY <1>0, <1>a, <2>1, <2>2, <2>3 DEF LenFits
  <1>7. ASSUME NEW s \in Senders, CountPut(s) PROVE LenFits'
    <2>1. UNCHANGED <<buf, cap>> /\ len' = len + 1 /\ Full' = Full
      BY <1>7 DEF CountPut, Full, Slots
    <2>2. /\ TakenUncounted' = TakenUncounted /\ s \in PutUncounted
          /\ PutUncounted' = PutUncounted \ {s}
      BY <1>0, <1>7 DEF CountPut, PutUncounted, TakenUncounted
    <2>3. Cardinality(PutUncounted') = Cardinality(PutUncounted) - 1
      BY <1>a, <2>2, FS_RemoveElement
    <2>. QED
      BY <1>0, <1>a, <2>1, <2>2, <2>3 DEF LenFits
  <1>8. ASSUME NEW s \in Senders, Resize(s) PROVE LenFits'
    <2>1. cap' # Cap
      BY <1>0, <1>8 DEF Resize, OneResize
    <2>. QED
      BY <2>1 DEF LenFits
  <1>9. ASSUME NEW r \in Receivers,
               \/ \E c \in Receivers : CloneReceiver(r, c)
               \/ DropReceiver(r) \/ ClaimStart(r) \/ FindClosed(r)
        PROVE  LenFits'
    <2>1. PutUncounted' = PutUncounted /\ TakenUncounted' = TakenUncounted
      BY <1>0, <1>9
      DEF CloneReceiver, DropReceiver, ClaimStart, FindClosed, PutUncounted, TakenUncounted
    <2>. QED
      BY <1>1, <1>9, <2>1 DEF CloneReceiver, DropReceiver, ClaimStart, FindClosed
  <1>10. ASSUME NEW s \in Senders,
                \/ \E c \in Senders : CloneSender(s, c)
                \/ DropSender(s) \/ Send(s) \/ ClaimEnd(s) \/ WinFlag(s) \/ CountResize(s)
         PROVE  LenFits'
    <2>1. PutUncounted' = PutUncounted /\ TakenUncounted' = TakenUncounted
      BY <1>0, <1>10
      DEF CloneSender, DropSender, Send, ClaimEnd, WinFlag, CountResize, PutUncounted,
        TakenUncounted
    <2>. QED
      BY <1>1, <1>10, <2>1 DEF CloneSender, DropSender, Send, ClaimEnd, WinFlag, CountResize
  <1>. QED
    BY <1>2, <1>3, <1>4, <1>5, <1>6, <1>7, <1>8, <1>9, <1>10, StepKinds
    DEF ReceiverActs, SenderActs
-----------------------------------------------------------------------------
(* The tickets.                                                            *)

\* The next ticket is for slot n % Cap, and tickets are never taken back.
LEMMA TicketsGrow ==
  ASSUME NEW n \in Nat, NEW i
  PROVE  /\ IsFiniteSet(TicketsOf(n, i)) /\ Cardinality(TicketsOf(n, i)) \in Nat
         /\ Cardinality(TicketsOf(n + 1, i)) =
              Cardinality(TicketsOf(n, i)) + (IF n % Cap = i THEN 1 ELSE 0)
         /\ \A m \in Nat : m <= n => Cardinality(TicketsOf(m, i)) <= Cardinality(TicketsOf(n, i))
  <1>1. IsFiniteSet(TicketsOf(n, i)) /\ Cardinality(TicketsOf(n, i)) \in Nat
    <2>1. IsFiniteSet(0..(n - 1))
      BY FS_Interval
    <2>2. TicketsOf(n, i) \subseteq 0..(n - 1)
      BY DEF TicketsOf
    <2>. QED
      BY <2>1, <2>2, FS_Subset, FS_CardinalityType
  <1>2. ASSUME NEW m \in Nat, m <= n
        PROVE  Cardinality(TicketsOf(m, i)) <= Cardinality(TicketsOf(n, i))
    <2>1. TicketsOf(m, i) \subseteq TicketsOf(n, i)
      BY <1>2 DEF TicketsOf
    <2>. QED
      BY <1>1, <2>1, FS_Subset
  <1>3. CASE n % Cap = i
    <2>1. TicketsOf(n + 1, i) = TicketsOf(n, i) \cup {n} /\ n \notin TicketsOf(n, i)
      BY <1>3 DEF TicketsOf
    <2>. QED
      BY <1>1, <1>2, <1>3, <2>1, FS_AddElement
  <1>4. CASE n % Cap # i
    <2>1. TicketsOf(n + 1, i) = TicketsOf(n, i)
      BY <1>4 DEF TicketsOf
    <2>. QED
      BY <1>1, <1>2, <1>4, <2>1
  <1>. QED
    BY <1>3, <1>4

\* A live sender is counted.
LEMMA SendersCounted ==
  ASSUME HandlesCounted
  PROVE  senders = 0 <=> \A s \in Senders : pc[s] \notin LivePCs
  <1>1. IsFiniteSet(LiveSenders)
    BY Names, FS_Subset DEF LiveSenders
  <1>2. senders = 0 <=> LiveSenders = {}
    BY <1>1, FS_EmptySet DEF HandlesCounted
  <1>. QED
    BY <1>2 DEF LiveSenders

\* No step takes the request of a resize back, nor the flag.
LEMMA NeverFullBefore ==
  ASSUME TypeOK, OneResize, [Next]_vars, NeverFull'
  PROVE  NeverFull /\ cap = Cap /\ cap' = Cap /\ Slots = 0..(Cap - 1)
  <1>0. /\ Senders \subseteq Handles /\ Receivers \subseteq Handles /\ Senders \cap Receivers = {}
        /\ DOMAIN pc = Handles
    BY Names DEF TypeOK
  <1>. USE DEF At, Goto, NeverFull
  <1>1. ~resizing' /\ \A s \in Senders : pc'[s] \notin {"request", "try"}
    OBVIOUS
  <1>2. CASE UNCHANGED vars
    BY <1>1, <1>2 DEF OneResize, Slots
  <1>3. ASSUME NEW h \in Handles, Quiet(h) PROVE NeverFull
    <2>1. UNCHANGED resizing
      BY <1>3 DEF Quiet
    <2>2. \A s \in Senders : s # h => pc[s] \notin {"request", "try"}
      BY <1>0, <1>1, <1>3 DEF Quiet, OthersStay
    <2>3. h \in Senders => pc[h] \notin {"request", "try"}
      BY <1>0, <1>1, <1>3, <2>1 DEF Quiet, QuietEdge
    <2>. QED
      BY <1>1, <2>1, <2>2, <2>3
  <1>4. ASSUME NEW r \in Receivers, ReceiverActs(r) PROVE NeverFull
    BY <1>0, <1>1, <1>4
    DEF ReceiverActs, CloneReceiver, DropReceiver, ClaimStart, Take, FindClosed, CountTaken
  <1>5. ASSUME NEW s \in Senders, SenderActs(s) PROVE NeverFull
    BY <1>0, <1>1, <1>5
    DEF SenderActs, CloneSender, DropSender, Send, ClaimEnd, PutValue, CountPut, WinFlag, Resize,
      CountResize
  <1>6. NeverFull
    BY <1>2, <1>3, <1>4, <1>5, StepKinds
  <1>7. cap = Cap /\ \A s \in Senders : pc[s] # "resize"
    BY <1>6 DEF OneResize
  <1>8. UNCHANGED cap
    BY <1>7, StepKinds
    DEF Quiet, ReceiverActs, CloneReceiver, DropReceiver, ClaimStart, Take, FindClosed, CountTaken,
      SenderActs, CloneSender, DropSender, Send, ClaimEnd, PutValue, CountPut, WinFlag, Resize,
      CountResize
  <1>. QED
    BY <1>6, <1>7, <1>8 DEF Slots

\* Every pop on a slot is answered by one push, or gave up after the last sender went.
LEMMA TicketsStep ==
  ASSUME TypeOK, HandlesCounted, SendsFit, LocksHold, OneResize, TicketsFit, [Next]_vars
  PROVE  TicketsFit'
  <1>. SUFFICES ASSUME NeverFull', NEW i \in 0..(Cap - 1)
                PROVE  \E gaveUp \in Nat : Balanced(i, gaveUp)'
    BY DEF TicketsFit
  <1>0. /\ Senders \subseteq Handles /\ Receivers \subseteq Handles /\ Senders \cap Receivers = {}
        /\ Handles = Senders \cup Receivers /\ DOMAIN pc = Handles /\ DOMAIN idx = Handles
        /\ DOMAIN buf = Slots /\ start \in Nat /\ end \in Nat
    BY Names DEF TypeOK
  <1>a. NeverFull /\ cap = Cap /\ cap' = Cap /\ i \in Slots
    BY NeverFullBefore
  <1>b. PICK gaveUp \in Nat : Balanced(i, gaveUp)
    BY <1>a DEF TicketsFit
  <1>c. /\ IsFiniteSet(Pops(i)) /\ Cardinality(Pops(i)) \in Nat
        /\ IsFiniteSet(Pushes(i)) /\ Cardinality(Pushes(i)) \in Nat
        /\ Cardinality(TicketsOf(start, i)) \in Nat /\ Cardinality(TicketsOf(end, i)) \in Nat
    BY <1>0, Names, FS_Subset, FS_CardinalityType, TicketsGrow DEF Pops, Pushes
  <1>d. ASSUME NEW s \in Senders, pc[s] \in LivePCs PROVE gaveUp = 0
    BY <1>b, <1>d, SendersCounted DEF Balanced
  <1>. USE DEF At, Goto
  \* What is left to show of a step that the sender count does not hear of.
  <1>1. ASSUME UNCHANGED <<start, end, buf>>, Pops(i)' = Pops(i), Pushes(i)' = Pushes(i),
               UNCHANGED senders \/ gaveUp = 0
        PROVE  Balanced(i, gaveUp)'
    BY <1>b, <1>1 DEF Balanced, Filled
  <1>2. CASE UNCHANGED vars
    BY <1>1, <1>2 DEF Pops, Pushes
  <1>3. ASSUME NEW h \in Handles, Quiet(h) PROVE Balanced(i, gaveUp)'
    <2>1. Pops(i)' = Pops(i)
      BY <1>0, <1>3 DEF Quiet, QuietEdge, OthersStay, Pops
    <2>2. \A s \in Senders : pc'[s] # "request"
      BY DEF NeverFull
    <2>3. Pushes(i)' = Pushes(i)
      BY <1>0, <1>3, <2>2 DEF Quiet, QuietEdge, OthersStay, Pushes
    <2>. QED
      BY <1>1, <1>3, <2>1, <2>3 DEF Quiet
  <1>4. ASSUME NEW r \in Receivers,
               (\E c \in Receivers : CloneReceiver(r, c)) \/ DropReceiver(r) \/ CountTaken(r)
        PROVE  Balanced(i, gaveUp)'
    <2>1. Pops(i)' = Pops(i) /\ Pushes(i)' = Pushes(i)
      BY <1>0, <1>4 DEF CloneReceiver, DropReceiver, CountTaken, Pops, Pushes
    <2>. QED
      BY <1>1, <1>4, <2>1 DEF CloneReceiver, DropReceiver, CountTaken
  <1>5. ASSUME NEW r \in Receivers, ClaimStart(r) PROVE Balanced(i, gaveUp)'
    <2>1. /\ Pushes(i)' = Pushes(i) /\ UNCHANGED <<buf, end, senders>> /\ start' = start + 1
          /\ r \notin Pops(i)
      BY <1>0, <1>5 DEF ClaimStart, Pops, Pushes
    <2>2. Pops(i)' = IF start % Cap = i THEN Pops(i) \cup {r} ELSE Pops(i)
      BY <1>0, <1>5, <1>a DEF ClaimStart, Pops
    <2>3. Cardinality(Pops(i)') = Cardinality(Pops(i)) + (IF start % Cap = i THEN 1 ELSE 0)
      <3>1. Cardinality(Pops(i) \cup {r}) = Cardinality(Pops(i)) + 1
        BY <1>c, <2>1, FS_AddElement
      <3>2. CASE start % Cap = i
        BY <2>2, <3>1, <3>2
      <3>3. CASE start % Cap # i
        BY <1>c, <2>2, <3>3
      <3>. QED
        BY <3>2, <3>3
    <2>4. Cardinality(TicketsOf(start + 1, i)) =
            Cardinality(TicketsOf(start, i)) + (IF start % Cap = i THEN 1 ELSE 0)
      BY <1>0, TicketsGrow
    <2>. QED
      BY <1>b, <1>c, <2>1, <2>3, <2>4 DEF Balanced, Filled
  <1>6. ASSUME NEW r \in Receivers, Take(r) PROVE Balanced(i, gaveUp)'
    <2>1. /\ Pushes(i)' = Pushes(i) /\ UNCHANGED <<start, end, senders, idx>>
          /\ buf' = [buf EXCEPT ![idx[r]] = NoVal] /\ buf[idx[r]] # NoVal /\ idx[r] \in Slots
      BY <1>0, <1>6 DEF Take, Pushes, TypeOK
    <2>2. Pops(i)' = Pops(i) \ {r} /\ (r \in Pops(i) <=> idx[r] = i)
      BY <1>0, <1>6 DEF Take, Pops
    <2>3. CASE idx[r] = i
      <3>1. Cardinality(Pops(i)') = Cardinality(Pops(i)) - 1
        BY <1>c, <2>2, <2>3, FS_RemoveElement
      <3>2. Filled(i) = 1 /\ Filled(i)' = 0 /\ buf'[i] = NoVal
        BY <1>0, <2>1, <2>3 DEF Filled
      <3>. QED
        BY <1>b, <1>c, <2>1, <3>1, <3>2 DEF Balanced
    <2>4. CASE idx[r] # i
      <3>1. Pops(i)' = Pops(i) /\ buf'[i] = buf[i]
        BY <1>0, <1>a, <2>1, <2>2, <2>4
      <3>. QED
        BY <1>b, <2>1, <3>1 DEF Balanced, Filled
    <2>. QED
      BY <2>3, <2>4
  \* The pop gives up an empty slot, after the last sender went.
  <1>7. ASSUME NEW r \in Receivers, FindClosed(r) PROVE \E n \in Nat : Balanced(i, n)'
    <2>1. /\ Pushes(i)' = Pushes(i) /\ UNCHANGED <<start, end, senders, idx, buf>>
          /\ senders = 0 /\ buf[idx[r]] = NoVal
      BY <1>0, <1>7 DEF FindClosed, Pushes, LocksHold
    <2>2. Pops(i)' = Pops(i) \ {r} /\ (r \in Pops(i) <=> idx[r] = i)
      BY <1>0, <1>7 DEF FindClosed, Pops
    <2>3. CASE idx[r] = i
      <3>1. Cardinality(Pops(i)') = Cardinality(Pops(i)) - 1
        BY <1>c, <2>2, <2>3, FS_RemoveElement
      <3>2. Balanced(i, gaveUp + 1)'
        BY <1>b, <1>c, <2>1, <2>3, <3>1 DEF Balanced, Filled
      <3>. QED
        BY <3>2
    <2>4. CASE idx[r] # i
      <3>1. Pops(i)' = Pops(i)
        BY <2>2, <2>4
      <3>. QED
        BY <1>1, <2>1, <3>1
    <2>. QED
      BY <2>3, <2>4
  <1>. USE DEF LivePCs, ReceiverPCs, SenderPCs, SharedPCs, WakePCs, PushPCs, RequestPCs
  <1>8. ASSUME NEW s \in Senders,
               \/ \E c \in Senders : CloneSender(s, c)
               \/ DropSender(s) \/ Send(s) \/ CountPut(s) \/ WinFlag(s) \/ CountResize(s)
        PROVE  Balanced(i, gaveUp)'
    <2>1. Pops(i)' = Pops(i) /\ Pushes(i)' = Pushes(i)
      BY <1>0, <1>8
      DEF CloneSender, DropSender, Send, CountPut, WinFlag, CountResize, Pops, Pushes
    <2>2. pc[s] \in LivePCs
      BY <1>8 DEF CloneSender, DropSender, Send, CountPut, WinFlag, CountResize
    <2>3. UNCHANGED <<start, end, buf>>
      BY <1>8 DEF CloneSender, DropSender, Send, CountPut, WinFlag, CountResize
    <2>. QED
      BY <1>1, <1>d, <2>1, <2>2, <2>3
  <1>9. ASSUME NEW s \in Senders, ClaimEnd(s) PROVE Balanced(i, gaveUp)'
    <2>1. /\ Pops(i)' = Pops(i) /\ UNCHANGED <<buf, start, senders>> /\ end' = end + 1
          /\ s \notin Pushes(i)
      BY <1>0, <1>9 DEF ClaimEnd, Pops, Pushes
    <2>2. Pushes(i)' = IF end % Cap = i THEN Pushes(i) \cup {s} ELSE Pushes(i)
      BY <1>0, <1>9, <1>a DEF ClaimEnd, Pushes
    <2>3. Cardinality(Pushes(i)') = Cardinality(Pushes(i)) + (IF end % Cap = i THEN 1 ELSE 0)
      <3>1. Cardinality(Pushes(i) \cup {s}) = Cardinality(Pushes(i)) + 1
        BY <1>c, <2>1, FS_AddElement
      <3>2. CASE end % Cap = i
        BY <2>2, <3>1, <3>2
      <3>3. CASE end % Cap # i
        BY <1>c, <2>2, <3>3
      <3>. QED
        BY <3>2, <3>3
    <2>4. Cardinality(TicketsOf(end + 1, i)) =
            Cardinality(TicketsOf(end, i)) + (IF end % Cap = i THEN 1 ELSE 0)
      BY <1>0, TicketsGrow
    <2>. QED
      BY <1>b, <1>c, <2>1, <2>3, <2>4 DEF Balanced, Filled
  <1>10. ASSUME NEW s \in Senders, PutValue(s) PROVE Balanced(i, gaveUp)'
    <2>0. gaveUp = 0 /\ Own(s) # NoVal
      BY <1>d, <1>10, OwnIsValue, Names DEF PutValue, UnsentPCs
    <2>1. /\ Pops(i)' = Pops(i) /\ UNCHANGED <<start, end, senders, idx>>
          /\ buf' = [buf EXCEPT ![idx[s]] = Own(s)] /\ buf[idx[s]] = NoVal /\ idx[s] \in Slots
      BY <1>0, <1>10 DEF PutValue, Pops, TypeOK
    <2>2. Pushes(i)' = Pushes(i) \ {s} /\ (s \in Pushes(i) <=> idx[s] = i)
      BY <1>0, <1>10 DEF PutValue, Pushes
    <2>3. CASE idx[s] = i
      <3>1. Cardinality(Pushes(i)') = Cardinality(Pushes(i)) - 1
        BY <1>c, <2>2, <2>3, FS_RemoveElement
      <3>2. Filled(i) = 0 /\ Filled(i)' = 1
        BY <1>0, <2>0, <2>1, <2>3 DEF Filled
      <3>. QED
        BY <1>b, <1>c, <2>0, <2>1, <3>1, <3>2 DEF Balanced
    <2>4. CASE idx[s] # i
      <3>1. Pushes(i)' = Pushes(i) /\ buf'[i] = buf[i]
        BY <1>0, <1>a, <2>1, <2>2, <2>4
      <3>. QED
        BY <1>b, <2>1, <3>1 DEF Balanced, Filled
    <2>. QED
      BY <2>3, <2>4
  <1>11. ASSUME NEW s \in Senders, Resize(s) PROVE FALSE
    BY <1>a, <1>11 DEF Resize, NeverFull, OneResize
  <1>. QED
    BY <1>2, <1>3, <1>4, <1>5, <1>6, <1>7, <1>8, <1>9, <1>10, <1>11, StepKinds
    DEF ReceiverActs, SenderActs
-----------------------------------------------------------------------------
(* Closed is the last word of a queue that was never full.                 *)

\* A pop that finds its slot empty and no sender is ahead of every push: then each value
\* left belongs to a pop that claimed its slot before.
LEMMA ClosedStep ==
  ASSUME TypeOK, HandlesCounted, LocksHold, OneResize, TicketsFit, [Next]_vars,
         NEW r \in Receivers, NeverFull, closed'[r] # closed[r]
  PROVE  /\ \A i \in Slots : buf[i] # NoVal => Claimed(i, r)
         /\ \A s \in Senders : ~Sending(s)
  <1>0. /\ closed \in [Receivers -> 0..MaxClosed] /\ start \in Nat /\ end \in Nat
        /\ Slots = 0..(Cap - 1)
    BY DEF TypeOK, NeverFull, OneResize, Slots
  <1>. USE DEF At, Goto
  <1>1. FindClosed(r)
    <2>1. ASSUME NEW q \in Receivers, FindClosed(q), q # r PROVE FALSE
      BY <1>0, <2>1 DEF FindClosed
    <2>2. ASSUME UNCHANGED closed PROVE FALSE
      BY <2>2
    <2>3. ASSUME NEW q \in Receivers, ReceiverActs(q), ~FindClosed(q) PROVE UNCHANGED closed
      BY <2>3 DEF ReceiverActs, CloneReceiver, DropReceiver, ClaimStart, Take, CountTaken
    <2>4. ASSUME NEW s \in Senders, SenderActs(s) PROVE UNCHANGED closed
      BY <2>4
      DEF SenderActs, CloneSender, DropSender, Send, ClaimEnd, PutValue, CountPut, WinFlag, Resize,
        CountResize
    <2>5. ASSUME NEW h \in Handles, Quiet(h) PROVE UNCHANGED closed
      BY <2>5 DEF Quiet
    <2>. QED
      BY <2>1, <2>2, <2>3, <2>4, <2>5, StepKinds
  <1>2. /\ pc[r] = "check" /\ buf[idx[r]] = NoVal /\ idx[r] \in Slots
        /\ \A s \in Senders : pc[s] \notin LivePCs
    BY <1>1, Names, SendersCounted DEF FindClosed, LocksHold, TypeOK
  <1>3. \A s \in Senders : ~Sending(s)
    BY <1>2
    DEF Sending, LivePCs, SenderPCs, ReceiverPCs, SharedPCs, WakePCs, PushPCs, RequestPCs
  <1>4. \A i : /\ IsFiniteSet(Pops(i)) /\ Cardinality(Pops(i)) \in Nat
               /\ Pops(i) # {} <=> Cardinality(Pops(i)) # 0
    <2>1. \A i : IsFiniteSet(Pops(i))
      BY Names, FS_Subset DEF Pops
    <2>. QED
      BY <2>1, FS_CardinalityType, FS_EmptySet
  <1>5. \A i : Cardinality(Pushes(i)) = 0
    <2>1. \A i : Pushes(i) = {}
      BY <1>3 DEF Pushes, Sending, PushPCs
    <2>. QED
      BY <2>1, FS_EmptySet
  <1>6. end < start
    <2>1. PICK gaveUp \in Nat : Balanced(idx[r], gaveUp)
      BY <1>0, <1>2 DEF TicketsFit
    <2>2. r \in Pops(idx[r])
      BY <1>2 DEF Pops
    <2>3. Cardinality(Pops(idx[r])) \in Nat /\ Cardinality(Pops(idx[r])) # 0
      BY <1>4, <2>2
    <2>4. /\ Cardinality(TicketsOf(start, idx[r])) \in Nat
          /\ Cardinality(TicketsOf(end, idx[r])) \in Nat
          /\ start <= end =>
               Cardinality(TicketsOf(start, idx[r])) <= Cardinality(TicketsOf(end, idx[r]))
      BY <1>0, TicketsGrow
    <2>5. /\ Cardinality(Pops(idx[r])) + gaveUp + Cardinality(TicketsOf(end, idx[r])) =
               Cardinality(TicketsOf(start, idx[r])) + Cardinality(Pushes(idx[r])) + 0
      BY <1>2, <2>1 DEF Balanced, Filled
    <2>6. Cardinality(Pushes(idx[r])) = 0
      BY <1>5
    <2>. QED
      BY <1>0, <2>3, <2>4, <2>5, <2>6
  <1>7. ASSUME NEW i \in Slots, buf[i] # NoVal PROVE Claimed(i, r)
    <2>1. PICK gaveUp \in Nat : Balanced(i, gaveUp)
      BY <1>0 DEF TicketsFit
    <2>2. /\ Cardinality(TicketsOf(start, i)) \in Nat /\ Cardinality(TicketsOf(end, i)) \in Nat
          /\ Cardinality(TicketsOf(end, i)) <= Cardinality(TicketsOf(start, i))
      BY <1>0, <1>6, TicketsGrow
    <2>3. gaveUp = 0 /\ Filled(i) = 1 /\ Cardinality(Pushes(i)) = 0
      BY <1>5, <1>7, <2>1 DEF Balanced, Filled
    <2>4. Cardinality(Pops(i)) # 0
      BY <1>4, <2>1, <2>2, <2>3 DEF Balanced
    <2>5. PICK q \in Receivers :
            pc[q] \in {"lock", "check", "sleep", "wait"} /\ idx[q] = i
      BY <1>4, <2>4 DEF Pops
    <2>. QED
      BY <1>2, <1>7, <2>5 DEF Claimed
  <1>. QED
    BY <1>3, <1>7

-----------------------------------------------------------------------------
\* The invariant holds of an empty queue.
LEMMA InitInv == Init => Inv
  <1>. SUFFICES ASSUME Init PROVE Inv
    OBVIOUS
  <1>0. /\ Handles = Senders \cup Receivers /\ Senders \cap Receivers = {} /\ Cap \in Nat \ {0}
        /\ FirstSenders \subseteq Senders /\ FirstReceivers \subseteq Receivers
        /\ IsFiniteSet(Senders) /\ IsFiniteSet(Receivers) /\ MaxClosed \in Nat
        /\ \A s \in Senders : MaxSend[s] \in Nat
    BY Names, RQAssumption
  <1>1. \A h \in Handles : /\ pc[h] \in {"idle", "none"}
                           /\ pc[h] = "idle" <=> h \in FirstSenders \cup FirstReceivers
    BY DEF Init
  <1>2. Slots = 0..(Cap - 1) /\ (\A i \in Slots : buf[i] = NoVal) /\ Full = {}
    BY DEF Init, Slots, Full
  <1>3. LiveSenders = FirstSenders /\ LiveReceivers = FirstReceivers
    BY <1>0, <1>1
    DEF LiveSenders, LiveReceivers, LivePCs, SenderPCs, ReceiverPCs, SharedPCs, WakePCs
  <1>4. HandlesCounted
    BY <1>3 DEF Init, HandlesCounted
  <1>5. TypeOK
    <2>1. senders \in Nat /\ receivers \in Nat
      BY <1>0, FS_Subset, FS_CardinalityType DEF Init
    <2>2. pc \in [Handles -> ReceiverPCs \cup SenderPCs]
      BY DEF Init, ReceiverPCs, SenderPCs
    <2>3. \A h \in Handles : pc[h] \in ReceiverPCs /\ pc[h] \in SenderPCs
      BY <1>1 DEF ReceiverPCs, SenderPCs
    <2>4. buf \in [Slots -> Values \cup {NoVal}]
      BY DEF Init, Slots
    <2>5. closed \in [Receivers -> 0..MaxClosed] /\ sent \in [Senders -> Nat]
          /\ \A s \in Senders : sent[s] <= MaxSend[s]
      BY <1>0 DEF Init
    <2>6. idx \in [Handles -> Nat] /\ known \in [Senders -> 0..1] /\ span \in [Handles -> Nat]
      BY DEF Init
    <2>7. \A h \in Handles : pc[h] \notin {"lock", "check", "sleep", "wait", "put", "notify"}
      BY <1>1
    <2>8. cap \in {Cap, 2 * Cap} /\ start \in Nat /\ end \in Nat /\ len \in Int
          /\ resizes \in 0..1 /\ got \subseteq Values
      BY DEF Init
    <2>9. resizing \in BOOLEAN
      BY DEF Init
    <2>. QED
      BY <1>0, <2>1, <2>2, <2>3, <2>4, <2>5, <2>6, <2>7, <2>8, <2>9 DEF TypeOK
  <1>6. SendsFit /\ AtMostOnce
    <2>1. \A v \in Values : ~Placed(v)
      BY <1>2, Names DEF Init, Placed
    <2>2. \A s \in Senders : pc[s] \notin UnsentPCs
      BY <1>0, <1>1 DEF UnsentPCs, RequestPCs
    <2>3. \A s \in Senders : \A n \in 1..MaxSend[s] : <<s, n>> \in Values
      BY DEF Values
    <2>. QED
      BY <1>2, <2>1, <2>2, <2>3 DEF Init, SendsFit, AtMostOnce
  <1>7. RecvsFit /\ LocksHold /\ OneResize
    BY <1>0, <1>1
    DEF Init, RecvsFit, Receiving, LocksHold, Upgradable, PushPCs, RequestPCs, OneResize
  <1>8. \A i : Pops(i) = {} /\ Pushes(i) = {}
    BY <1>0, <1>1 DEF Pops, Pushes
  <1>9. PutUncounted = {} /\ TakenUncounted = {}
    BY <1>0, <1>1 DEF PutUncounted, TakenUncounted
  <1>10. LenFits
    BY <1>2, <1>9, FS_EmptySet DEF Init, LenFits
  <1>11. \A i \in 0..(Cap - 1) : Balanced(i, 0)
    <2>1. \A i \in 0..(Cap - 1) : Filled(i) = 0
      BY <1>2 DEF Filled
    <2>2. \A i : Cardinality(TicketsOf(0, i)) \in Nat
      BY TicketsGrow
    <2>3. \A i : Cardinality(Pops(i)) = 0 /\ Cardinality(Pushes(i)) = 0
      BY <1>8, FS_EmptySet
    <2>4. start = 0 /\ end = 0
      BY DEF Init
    <2>. QED
      BY <2>1, <2>2, <2>3, <2>4 DEF Balanced
  <1>. QED
    BY <1>4, <1>5, <1>6, <1>7, <1>10, <1>11 DEF Inv, TicketsFit

\* Every step of any thread keeps the invariant.
LEMMA NextInv == Inv /\ [Next]_vars => Inv'
  <1>. SUFFICES ASSUME Inv, [Next]_vars PROVE Inv'
    OBVIOUS
  <1>. USE DEF Inv
  <1>1. HandlesCounted'
    BY HandlesStep
  <1>2. TypeOK'
    BY <1>1, TypesStep
  <1>3. SendsFit' /\ RecvsFit'
    BY SendsStep, RecvsStep
  <1>4. LocksHold' /\ OneResize'
    BY LocksStep, OneResizeStep
  <1>5. LenFits' /\ TicketsFit'
    BY LenStep, TicketsStep
  <1>6. AtMostOnce'
    BY OnceStep
  <1>. QED
    BY <1>1, <1>2, <1>3, <1>4, <1>5, <1>6

\* Whatever the threads do, locks, tickets, len and values fit together: the inductive
\* invariant the theorems below rest on.
THEOREM RwQueueInvariant == Spec => []Inv
  BY InitInv, NextInv, PTL DEF Spec

\* Every push and pop works on a slot of the Vec (index into buf in push and
\* pop_front_wait_with_check), and there is no second resize.
THEOREM TypesHold == Spec => []TypeOK
  <1>1. Inv => TypeOK
    BY DEF Inv
  <1>. QED
    BY <1>1, RwQueueInvariant, PTL

\* No value is in two slots or received twice, whatever range reallocate moved.
THEOREM ValuesAppearOnce == Spec => []AtMostOnce
  <1>1. Inv => AtMostOnce
    BY DEF Inv
  <1>. QED
    BY <1>1, RwQueueInvariant, PTL

\* The length that reallocate divides by is the number of values in the slots: the lag of
\* len is over once the upgradable share is upgraded.
THEOREM ResizerSeesTheLength == Spec => []LenCountsValues
  <1>1. Inv => LenCountsValues
    <2>. SUFFICES ASSUME Inv, NEW s \in Senders, pc[s] = "resize" PROVE len = Cardinality(Full)
      BY DEF LenCountsValues, Full
    <2>. QED
      BY LenIsExact DEF Inv
  <1>. QED
    BY <1>1, RwQueueInvariant, PTL

\* Closed of recv comes when no send is under way and each value left is claimed by another
\* pop, in every run of a queue that no push has found full.
THEOREM ClosedIsTheLastWord == Spec => ClosedIsFinal
  <1>1. Inv /\ [Next]_vars =>
          [\A r \in Receivers : NeverFull /\ closed'[r] # closed[r] =>
             /\ \A i \in Slots : buf[i] # NoVal => Claimed(i, r)
             /\ \A s \in Senders : ~Sending(s)]_vars
    BY ClosedStep DEF Inv
  <1>. QED
    BY <1>1, RwQueueInvariant, PTL DEF Spec, ClosedIsFinal
=============================================================================
