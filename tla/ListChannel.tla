----------------------------- MODULE ListChannel -----------------------------
(***************************************************************************)
(* mpmc_rs::v3: a singly linked list between two dummy nodes, Front and    *)
(* Back (ConcurrentBlockingList), and the counts of handles around it.     *)
(* Back's next points to the last node.  Every node has an access flag     *)
(* that a thread spins on; `len`, under a Mutex with a Condvar, admits a   *)
(* receiver to the list only when there is a node for it.                  *)
(*                                                                         *)
(* A node is allocated per push and never freed, so the value names it.    *)
(* One step is one atomic operation on a flag or a count, one critical     *)
(* section of len, or one read or write of a next pointer.                 *)
(*                                                                         *)
(* Bound: MaxSend[s] calls of send by sender s.                            *)
(***************************************************************************)
EXTENDS Naturals, Sequences, FiniteSets

CONSTANTS Senders, Receivers, FirstSenders, FirstReceivers, MaxSend,
          Front, Back   \* the dummy nodes

Handles == Senders \cup Receivers
Values == UNION {{<<s, n>> : n \in 1..MaxSend[s]} : s \in Senders}
Nodes == Values \cup {Front, Back}

ASSUME LCAssumption ==
  /\ Senders \cap Receivers = {}
  /\ FirstSenders \subseteq Senders /\ FirstReceivers \subseteq Receivers
  /\ IsFiniteSet(Handles)
  /\ MaxSend \in [Senders -> Nat]
  /\ Front # Back /\ Front \notin Values /\ Back \notin Values

VARIABLES
  flag, next,            \* AccessFlag and next of every node
  len,                   \* what the Mutex of the list guards
  senders, receivers,    \* ChannelInner
  pc,
  front, succ,           \* pop: the node to take, and its successor
  last,                  \* push: `back`, the node the new one is linked after
  sent,                  \* sends begun
  received               \* the values of the nodes unlinked, in that order

listVars  == <<flag, next>>
countVars == <<senders, receivers>>
popVars   == <<front, succ>>
histVars  == <<sent, received>>
vars == <<pc, listVars, len, countVars, popVars, last, histVars>>

Own(s) == <<s, sent[s]>>

Goto(h, to) == pc' = [pc EXCEPT ![h] = to]
At(h, from, to) == pc[h] = from /\ Goto(h, to)

\* The compare_exchanges of AccessFlag.  Only a success is a step: the loops
\* around them spin on the statuses that are no panic (see NoPanic).
Cas(n, from, to) == flag[n] = from /\ flag' = [flag EXCEPT ![n] = to]
TryAccess(n) == Cas(n, "Released", "Accessed")
TryDeclareTake(n) == Cas(n, "Released", "DeclareTake")
TryTake(n) == Cas(n, "DeclareTake", "Taken")
Release(n) == Cas(n, "Accessed", "Released")

SetNext(n, m) == next' = [next EXCEPT ![n] = m]

\* The Mutex of len is held across steps by a recv that found 0.
LenLocked == \E r \in Receivers : pc[r] \in {"check", "sleep"}

\* Condvar.
Sleepers == {r \in Receivers : pc[r] = "wait"}
GotoAndWake(h, to, S) ==
  pc' = [g \in Handles |-> IF g = h THEN to ELSE IF g \in S THEN "lock" ELSE pc[g]]
NotifyOne(h, to) ==
  \/ Sleepers = {} /\ Goto(h, to)
  \/ \E r \in Sleepers : GotoAndWake(h, to, {r})

-----------------------------------------------------------------------------
(* Clone and Drop of the handles.                                          *)

CloneSender(s, c) ==
  /\ pc[s] = "idle" /\ At(c, "none", "idle")
  /\ senders' = senders + 1
  /\ UNCHANGED <<listVars, len, receivers, popVars, last, histVars>>

CloneReceiver(r, c) ==
  /\ pc[r] = "idle" /\ At(c, "none", "idle")
  /\ receivers' = receivers + 1
  /\ UNCHANGED <<listVars, len, senders, popVars, last, histVars>>

DropReceiver(r) ==
  /\ At(r, "idle", "gone")
  /\ receivers' = receivers - 1
  /\ UNCHANGED <<listVars, len, senders, popVars, last, histVars>>

DropSender(s) ==
  /\ At(s, "idle", "wake")
  /\ senders' = senders - 1
  /\ UNCHANGED <<listVars, len, receivers, popVars, last, histVars>>

\* wake_all_readers, which does not take the Mutex.
WakeAll(s) ==
  /\ pc[s] = "wake"
  /\ GotoAndWake(s, "gone", Sleepers)
  /\ UNCHANGED <<listVars, len, countVars, popVars, last, histVars>>

-----------------------------------------------------------------------------
(* Receiver::recv and pop_front_wait_with_check.                           *)

Recv(r) ==
  /\ At(r, "idle", "lock")
  /\ UNCHANGED <<listVars, len, countVars, popVars, last, histVars>>

FindZero(r) ==
  /\ At(r, "lock", "check")
  /\ ~LenLocked /\ len = 0
  /\ UNCHANGED <<listVars, len, countVars, popVars, last, histVars>>

\* The decrement reserves a node: which one is decided at the front.
Reserve(r) ==
  /\ At(r, "lock", "front")
  /\ ~LenLocked /\ len > 0
  /\ len' = len - 1
  /\ UNCHANGED <<listVars, countVars, popVars, last, histVars>>

SendersRemain(r) ==
  /\ At(r, "check", "sleep")
  /\ senders > 0
  /\ UNCHANGED <<listVars, len, countVars, popVars, last, histVars>>

BugFindClosed(r) ==
  /\ At(r, "check", "closed")
  /\ senders < 2
  /\ UNCHANGED <<listVars, len, countVars, popVars, last, histVars>>
FindClosed(r) ==
  /\ At(r, "check", "closed")
  /\ senders = 0
  /\ UNCHANGED <<listVars, len, countVars, popVars, last, histVars>>

Sleep(r) ==
  /\ At(r, "sleep", "wait")
  /\ UNCHANGED <<listVars, len, countVars, popVars, last, histVars>>

SpuriousWake(r) ==
  /\ At(r, "wait", "lock")
  /\ UNCHANGED <<listVars, len, countVars, popVars, last, histVars>>

AccessFront(r) ==
  /\ At(r, "front", "read")
  /\ TryAccess(Front)
  /\ UNCHANGED <<next, len, countVars, popVars, last, histVars>>

ReadFront(r) ==
  /\ At(r, "read", "declare")
  /\ front' = [front EXCEPT ![r] = next[Front]]
  /\ UNCHANGED <<listVars, len, countVars, succ, last, histVars>>

BugDeclareTake(r) ==
  /\ At(r, "declare", "succ")
  /\ flag' = [flag EXCEPT ![front[r]] = "DeclareTake"]
  /\ UNCHANGED <<next, len, countVars, popVars, last, histVars>>
DeclareTake(r) ==
  /\ At(r, "declare", "succ")
  /\ TryDeclareTake(front[r])
  /\ UNCHANGED <<next, len, countVars, popVars, last, histVars>>

ReadSucc(r) ==
  /\ At(r, "succ", "access")
  /\ succ' = [succ EXCEPT ![r] = next[front[r]]]
  /\ UNCHANGED <<listVars, len, countVars, front, last, histVars>>

BugAccessSucc(r) ==
  /\ At(r, "access", "unlink")
  /\ flag' = [flag EXCEPT ![succ[r]] = "Accessed"]
  /\ UNCHANGED <<next, len, countVars, popVars, last, histVars>>
AccessSucc(r) ==
  /\ At(r, "access", "unlink")
  /\ TryAccess(succ[r])
  /\ UNCHANGED <<next, len, countVars, popVars, last, histVars>>

Unlink(r) ==
  /\ pc[r] = "unlink"
  /\ SetNext(Front, succ[r])
  /\ received' = Append(received, front[r])
  /\ Goto(r, IF succ[r] = Back THEN "empty" ELSE "release")
  /\ UNCHANGED <<flag, len, countVars, popVars, last, sent>>

BugEmptyList(r) ==
  /\ At(r, "empty", "release")
  /\ UNCHANGED <<listVars, len, countVars, popVars, last, histVars>>
EmptyList(r) ==
  /\ At(r, "empty", "release")
  /\ SetNext(Back, Front)
  /\ UNCHANGED <<flag, len, countVars, popVars, last, histVars>>

ReleaseSucc(r) ==
  /\ At(r, "release", "open")
  /\ Release(succ[r])
  /\ UNCHANGED <<next, len, countVars, popVars, last, histVars>>

ReleaseFront(r) ==
  /\ At(r, "open", "chain")
  /\ Release(Front)
  /\ UNCHANGED <<next, len, countVars, popVars, last, histVars>>

\* A pop passes the notification on: the one of a push wakes one receiver only.
BugNotifyNext(r) ==
  /\ At(r, "chain", "take")
  /\ UNCHANGED <<listVars, len, countVars, popVars, last, histVars>>
NotifyNext(r) ==
  /\ pc[r] = "chain"
  /\ NotifyOne(r, "take")
  /\ UNCHANGED <<listVars, len, countVars, popVars, last, histVars>>

Take(r) ==
  /\ At(r, "take", "idle")
  /\ TryTake(front[r])
  /\ UNCHANGED <<next, len, countVars, popVars, last, histVars>>

-----------------------------------------------------------------------------
(* Sender::send and push_back.                                             *)

Send(s) ==
  /\ At(s, "idle", "send")
  /\ sent[s] < MaxSend[s]
  /\ sent' = [sent EXCEPT ![s] = @ + 1]
  /\ UNCHANGED <<listVars, len, countVars, popVars, last, received>>

SendClosed(s) ==
  /\ At(s, "send", "refused")
  /\ receivers = 0
  /\ UNCHANGED <<listVars, len, countVars, popVars, last, histVars>>

FindReceivers(s) ==
  /\ At(s, "send", "back")
  /\ receivers > 0
  /\ UNCHANGED <<listVars, len, countVars, popVars, last, histVars>>

AccessBack(s) ==
  /\ At(s, "back", "last")
  /\ TryAccess(Back)
  /\ UNCHANGED <<next, len, countVars, popVars, last, histVars>>

ReadLast(s) ==
  /\ At(s, "last", "join")
  /\ last' = [last EXCEPT ![s] = next[Back]]
  /\ UNCHANGED <<listVars, len, countVars, popVars, histVars>>

AccessLast(s) ==
  /\ At(s, "join", "node")
  /\ TryAccess(last[s])
  /\ UNCHANGED <<next, len, countVars, popVars, last, histVars>>

\* A receiver declared that it takes the last node and needs Back to do so.
SeeDeclared(s) ==
  /\ At(s, "join", "yield")
  /\ flag[last[s]] = "DeclareTake"
  /\ UNCHANGED <<listVars, len, countVars, popVars, last, histVars>>

BugYieldBack(s) ==
  /\ At(s, "yield", "join")
  /\ UNCHANGED <<listVars, len, countVars, popVars, last, histVars>>
YieldBack(s) ==
  /\ At(s, "yield", "back")
  /\ Release(Back)
  /\ UNCHANGED <<next, len, countVars, popVars, last, histVars>>

LinkNode(s) ==
  /\ At(s, "node", "tail")
  /\ SetNext(Own(s), Back)
  /\ UNCHANGED <<flag, len, countVars, popVars, last, histVars>>

LinkBack(s) ==
  /\ At(s, "tail", "link")
  /\ SetNext(Back, Own(s))
  /\ UNCHANGED <<flag, len, countVars, popVars, last, histVars>>

LinkLast(s) ==
  /\ At(s, "link", "leave")
  /\ SetNext(last[s], Own(s))
  /\ UNCHANGED <<flag, len, countVars, popVars, last, histVars>>

ReleaseLast(s) ==
  /\ At(s, "leave", "open")
  /\ Release(last[s])
  /\ UNCHANGED <<next, len, countVars, popVars, last, histVars>>

ReleaseBack(s) ==
  /\ At(s, "open", "count")
  /\ Release(Back)
  /\ UNCHANGED <<next, len, countVars, popVars, last, histVars>>

CountPush(s) ==
  /\ pc[s] = "count"
  /\ ~LenLocked
  /\ len' = len + 1
  /\ Goto(s, IF len = 0 THEN "notify" ELSE "sent")
  /\ UNCHANGED <<listVars, countVars, popVars, last, histVars>>

NotifyPush(s) ==
  /\ pc[s] = "notify"
  /\ NotifyOne(s, "sent")
  /\ UNCHANGED <<listVars, len, countVars, popVars, last, histVars>>

Return(h) ==
  /\ pc[h] \in {"sent", "refused", "closed"}
  /\ Goto(h, "idle")
  /\ UNCHANGED <<listVars, len, countVars, popVars, last, histVars>>

-----------------------------------------------------------------------------
Init ==
  /\ flag = [n \in Nodes |-> "Released"]
  /\ next = [n \in Nodes |-> IF n = Front THEN Back ELSE Front]
  /\ len = 0
  /\ senders = Cardinality(FirstSenders) /\ receivers = Cardinality(FirstReceivers)
  /\ pc = [h \in Handles |->
             IF h \in FirstSenders \cup FirstReceivers THEN "idle" ELSE "none"]
  /\ front = [r \in Receivers |-> Front] /\ succ = [r \in Receivers |-> Front]
  /\ last = [s \in Senders |-> Back]
  /\ sent = [s \in Senders |-> 0]
  /\ received = <<>>

ReceiverStep(r) ==
  \/ FindZero(r) \/ Reserve(r) \/ SendersRemain(r) \/ FindClosed(r) \/ Sleep(r)
  \/ AccessFront(r) \/ ReadFront(r) \/ DeclareTake(r) \/ ReadSucc(r) \/ AccessSucc(r)
  \/ Unlink(r) \/ EmptyList(r) \/ ReleaseSucc(r) \/ ReleaseFront(r) \/ NotifyNext(r)
  \/ Take(r) \/ Return(r)

SenderStep(s) ==
  \/ SendClosed(s) \/ FindReceivers(s) \/ AccessBack(s) \/ ReadLast(s) \/ AccessLast(s)
  \/ SeeDeclared(s) \/ YieldBack(s) \/ LinkNode(s) \/ LinkBack(s) \/ LinkLast(s)
  \/ ReleaseLast(s) \/ ReleaseBack(s) \/ CountPush(s) \/ NotifyPush(s) \/ Return(s)
  \/ WakeAll(s)

ReceiverClient(r) == Recv(r) \/ DropReceiver(r) \/ \E c \in Receivers : CloneReceiver(r, c)
SenderClient(s) == Send(s) \/ DropSender(s) \/ \E c \in Senders : CloneSender(s, c)

Next ==
  \/ \E r \in Receivers : ReceiverClient(r) \/ ReceiverStep(r) \/ SpuriousWake(r)
  \/ \E s \in Senders : SenderClient(s) \/ SenderStep(s)

Spec == Init /\ [][Next]_vars

\* A thread that can take a step of the code again and again takes one: a flag, or
\* the Mutex, that is free again and again is obtained by a thread that spins on it.
Fairness ==
  /\ \A r \in Receivers : SF_vars(ReceiverStep(r))
  /\ \A s \in Senders : SF_vars(SenderStep(s))
FairSpec == Spec /\ Fairness

-----------------------------------------------------------------------------
(* Properties.                                                             *)

\* The next pointers the next step of a thread reads or writes.
Reads(h) ==
  CASE pc[h] = "read" -> {Front}
    [] pc[h] = "succ" -> {front[h]}
    [] pc[h] = "last" -> {Back}
    [] OTHER -> {}
Writes(h) ==
  CASE pc[h] = "unlink" -> {Front}
    [] pc[h] = "empty" -> {Back}
    [] pc[h] = "node" -> {Own(h)}
    [] pc[h] = "tail" -> {Back}
    [] pc[h] = "link" -> {last[h]}
    [] OTHER -> {}

\* The SAFETY comments: no next pointer is written while another thread reads or
\* writes it (`next` is no atomic: a race would be undefined behaviour).
RaceFree ==
  \A g, h \in Handles : g # h => Writes(g) \cap (Reads(h) \cup Writes(h)) = {}

\* None of the unreachable! arms is reached: no receiver finds the list empty, no
\* thread looks at the flag of a node that was taken, none is declared twice, and
\* what a guard releases is still accessed.
NoPanic ==
  /\ \A r \in Receivers :
       /\ pc[r] = "declare" => front[r] # Back /\ flag[front[r]] \in {"Released", "Accessed"}
       /\ pc[r] = "access" => flag[succ[r]] # "Taken"
       /\ pc[r] = "take" => front[r] # Front /\ flag[front[r]] = "DeclareTake"
       /\ pc[r] = "release" => flag[succ[r]] = "Accessed"
       /\ pc[r] = "open" => flag[Front] = "Accessed"
  /\ \A s \in Senders :
       /\ pc[s] = "join" => flag[last[s]] # "Taken"
       /\ pc[s] = "leave" => flag[last[s]] = "Accessed"
       /\ pc[s] \in {"yield", "open"} => flag[Back] = "Accessed"

\* The nodes from Front to Back, in the order a receiver meets them.
walk[n \in Nat] == IF n = 0 THEN next[Front]
                   ELSE IF walk[n - 1] \in {Back, Front} THEN Back ELSE next[walk[n - 1]]
Linked == [n \in {i \in 1..Cardinality(Values) : walk[i - 1] \in Values} |-> walk[n - 1]]

\* Pops that have reserved a node and not unlinked it, pushes linked and not
\* counted.
Reserved == Cardinality({r \in Receivers : pc[r] \in
              {"front", "read", "declare", "succ", "access", "unlink"}})
Uncounted == Cardinality({s \in Senders : pc[s] \in {"leave", "open", "count"}})

\* The list is what its two ends say: len counts the linked nodes, less the reserved
\* and the uncounted ones, so that every receiver that len admits finds a node of its
\* own; and when nobody holds Back it points to the last node.
ListWellFormed ==
  /\ Len(Linked) = len + Reserved + Uncounted
  /\ flag[Back] = "Released" =>
       next[Back] = IF Linked = <<>> THEN Front ELSE Linked[Len(Linked)]

\* v3 is a channel: a push takes effect when it links its node, a pop when it
\* reserves one.
State(h) ==
  CASE pc[h] \in {"none", "idle", "refused", "closed"} -> pc[h]
    [] pc[h] \in {"gone", "wake"} -> "gone"
    [] pc[h] \in {"send", "lock", "check", "sleep", "wait"} -> "called"
    [] pc[h] \in {"back", "last", "join", "yield", "node", "tail", "link"} -> "admitted"
    [] h \in Senders /\ pc[h] \in {"leave", "open", "count", "notify", "sent"} -> "accepted"
    [] OTHER -> "received"
Contract == INSTANCE Channel WITH
  queue    <- SubSeq(Linked, Reserved + 1, Len(Linked)),
  received <- received \o SubSeq(Linked, 1, Reserved),
  state    <- [h \in Handles |-> State(h)]
ImplementsChannel == Contract!Spec

\* A push returns, and so does a pop that reserved a node: they cannot deadlock over
\* the only node, which the pop holds while it waits for Back ("Deadlock prevention",
\* push_back).
CallsReturn ==
  /\ \A s \in Senders : pc[s] = "back" ~> pc[s] = "idle"
  /\ \A r \in Receivers : pc[r] = "front" ~> pc[r] = "idle"

\* No notification is lost between receivers: while len > 0 some sleeper wakes.
SleeperServed == (len > 0 /\ Sleepers # {}) ~> (len = 0 \/ Sleepers = {})
=============================================================================
