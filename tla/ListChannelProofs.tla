-------------------------- MODULE ListChannelProofs --------------------------
(***************************************************************************)
(* Theorems about ListChannel, for any senders, receivers and number of    *)
(* sends: the access flags of v3 keep its unsynchronised next pointers     *)
(* free of races, no thread reaches one of the panics of AccessFlag, the   *)
(* list is what its ends and its length say, and the whole implements the  *)
(* contract, Channel.                                                      *)
(*                                                                         *)
(* The invariant Inv names the chain of all nodes ever linked, in order.   *)
(* The list is the part of it that is not unlinked yet; every pointer a    *)
(* thread has read is told by its place in the chain, and who may still    *)
(* move that place by the flags.  What the contract calls the queue is the *)
(* end of the chain, from the place that the next pop will reserve.        *)
(***************************************************************************)
EXTENDS ListChannel, FiniteSetTheorems, SequenceTheorems, NaturalsInduction,
  WellFoundedInduction, TLAPS

USE DEF listVars, countVars, popVars, histVars, vars

ReceiverPCs == {"none", "idle", "gone", "lock", "check", "sleep", "wait", "closed", "front", "read",
                "declare", "succ", "access", "unlink", "empty", "release", "open", "chain", "take"}
SenderPCs == {"none", "idle", "gone", "wake", "send", "refused", "back", "last", "join", "yield",
              "node", "tail", "link", "leave", "open", "count", "notify", "sent"}
Flags == {"Released", "Accessed", "DeclareTake", "Taken"}

\* A sender between its call of send and the step that links its node.
UnlinkedPCs == {"send", "back", "last", "join", "yield", "node", "tail", "link"}

Types ==
  /\ flag \in [Nodes -> Flags] /\ next \in [Nodes -> Nodes]
  /\ len \in Nat
  /\ pc \in [Handles -> ReceiverPCs \cup SenderPCs]
  /\ \A r \in Receivers : pc[r] \in ReceiverPCs
  /\ \A s \in Senders : pc[s] \in SenderPCs
  /\ front \in [Receivers -> Nodes] /\ succ \in [Receivers -> Nodes]
  /\ last \in [Senders -> Nodes]
  /\ sent \in [Senders -> Nat]
  /\ \A s \in Senders : sent[s] <= MaxSend[s] /\ (pc[s] \in UnlinkedPCs => sent[s] > 0)
  /\ received \in Seq(Values)

\* Who owns the flag of a node: an accessor is alone, and so is the receiver that
\* declared that it takes the node.
FrontPCs == {"read", "declare", "succ", "access", "unlink", "empty", "release", "open"}
SuccPCs == {"unlink", "empty", "release"}
BackPCs == {"last", "join", "yield", "node", "tail", "link", "leave", "open"}
LastPCs == {"node", "tail", "link", "leave"}
TakingPCs == {"succ", "access", "unlink", "empty", "release", "open", "chain", "take"}
Accesses(h, m) ==
  \/ h \in Receivers /\ pc[h] \in FrontPCs /\ m = Front
  \/ h \in Receivers /\ pc[h] \in SuccPCs /\ m = succ[h]
  \/ h \in Senders /\ pc[h] \in BackPCs /\ m = Back
  \/ h \in Senders /\ pc[h] \in LastPCs /\ m = last[h]
Takes(r, m) == pc[r] \in TakingPCs /\ m = front[r]
FlagsHold ==
  /\ \A h \in Handles : \A m \in Nodes : Accesses(h, m) => flag[m] = "Accessed"
  /\ \A g, h \in Handles : \A m \in Nodes : Accesses(g, m) /\ Accesses(h, m) => g = h
  /\ \A m \in Nodes : flag[m] = "DeclareTake" <=> \E r \in Receivers : Takes(r, m)
  /\ \A q, r \in Receivers : \A m \in Nodes : Takes(q, m) /\ Takes(r, m) => q = r

\* The first Gone of the n nodes of the chain are unlinked.
Gone == Len(received)
NodeAt(n, chain, i) == IF i <= n THEN chain[i] ELSE Back
End(n, chain) == IF Gone = n THEN Front ELSE chain[n]

\* No node is linked twice, a sender's in the order of its sends, and nodes are
\* unlinked in the order of their links.
InSendOrder(n, chain) ==
  \A i, j \in 1..n : i < j /\ chain[i][1] = chain[j][1] => chain[i][2] < chain[j][2]
Order(n, chain) ==
  /\ \A i, j \in 1..n : chain[i] = chain[j] => i = j
  /\ InSendOrder(n, chain)
  /\ Gone <= n /\ \A i \in 1..Gone : received[i] = chain[i]
  /\ \A i \in 1..n : \A s \in Senders : \A m \in 1..MaxSend[s] :
       chain[i] = <<s, m>> => m <= sent[s] /\ (pc[s] \in UnlinkedPCs => m # sent[s])

\* The next pointers; Back's is stale while its end of the list is under work.
Links(n, chain) ==
  /\ next[Front] = NodeAt(n, chain, Gone + 1)
  /\ \A i \in 1..n : i > Gone => next[chain[i]] = NodeAt(n, chain, i + 1)
  /\ (\A s \in Senders : pc[s] # "link") /\ (\A r \in Receivers : pc[r] # "empty") =>
       next[Back] = End(n, chain)
  /\ \A s \in Senders : pc[s] \in {"tail", "link"} => next[Own(s)] = Back
  /\ \A s \in Senders : pc[s] = "link" => next[Back] = Own(s)

\* What the threads remember of them.
PopsFit(n, chain) ==
  \A r \in Receivers :
    /\ pc[r] \in {"declare", "succ", "access", "unlink"} =>
         Gone < n /\ front[r] = chain[Gone + 1]
    /\ pc[r] \in {"access", "unlink"} => succ[r] = NodeAt(n, chain, Gone + 2)
    /\ pc[r] = "empty" => succ[r] = Back /\ Gone = n
    /\ pc[r] = "release" => succ[r] # Front
    /\ pc[r] \in {"empty", "release", "open", "chain", "take"} =>
         \E i \in 1..Gone : front[r] = chain[i]
PushesFit(n, chain) ==
  \A s \in Senders :
    /\ pc[s] \in {"join", "yield", "node", "tail", "link"} => last[s] = End(n, chain)
    /\ pc[s] = "leave" => last[s] # Back

\* Only a node that was unlinked is taken.
TakenFit(n, chain) == \A m \in Nodes : flag[m] = "Taken" => \E i \in 1..Gone : m = chain[i]

\* A receiver that len admitted has a node to unlink.
ReservedPCs == {"front", "read", "declare", "succ", "access", "unlink"}
UncountedPCs == {"leave", "open", "count"}
Counted(n) == len + Reserved + Uncounted = n - Gone

ListFits(n, chain) ==
  /\ Order(n, chain) /\ Links(n, chain) /\ PopsFit(n, chain) /\ PushesFit(n, chain)
  /\ TakenFit(n, chain) /\ Counted(n)

Inv ==
  /\ Types /\ FlagsHold
  /\ \E n \in Nat : \E chain \in [1..n -> Values] : ListFits(n, chain)
-----------------------------------------------------------------------------
\* The handles and the nodes.
LEMMA Names ==
  /\ IsFiniteSet(Senders) /\ IsFiniteSet(Receivers)
  /\ Handles = Senders \cup Receivers /\ Senders \cap Receivers = {}
  /\ Senders \subseteq Handles /\ Receivers \subseteq Handles
  /\ Nodes = Values \cup {Front, Back}
  /\ Front # Back /\ Front \notin Values /\ Back \notin Values
  <1>1. Senders \subseteq Handles /\ Receivers \subseteq Handles
    BY DEF Handles
  <1>2. IsFiniteSet(Senders) /\ IsFiniteSet(Receivers)
    BY <1>1, LCAssumption, FS_Subset
  <1>. QED
    BY <1>1, <1>2, LCAssumption DEF Handles, Nodes

\* A step that changes nothing but where threads are, and nobody's access.
OthersStay(h) ==
  /\ pc' = [g \in Handles |-> pc'[g]]
  /\ \A g \in Handles \ {h} :
       pc'[g] = pc[g] \/ (g \in Receivers /\ pc[g] = "wait" /\ pc'[g] = "lock")
QuietEdge(h) ==
  \/ /\ h \in Receivers
     /\ <<pc[h], pc'[h]>> \in
          {<<"none", "idle">>, <<"idle", "gone">>, <<"idle", "lock">>, <<"lock", "check">>,
           <<"check", "sleep">>, <<"check", "closed">>, <<"sleep", "wait">>, <<"wait", "lock">>,
           <<"chain", "take">>, <<"closed", "idle">>}
  \/ /\ h \in Senders
     /\ <<pc[h], pc'[h]>> \in
          {<<"none", "idle">>, <<"idle", "wake">>, <<"wake", "gone">>, <<"send", "refused">>,
           <<"send", "back">>, <<"notify", "sent">>, <<"sent", "idle">>, <<"refused", "idle">>}
  \/ h \in Senders /\ pc[h] = "join" /\ pc'[h] = "yield"
Quiet(h) ==
  QuietEdge(h) /\ OthersStay(h) /\ UNCHANGED <<listVars, len, popVars, last, histVars>>
PopActs(r) ==
  \/ Reserve(r)
  \/ AccessFront(r) \/ ReadFront(r) \/ DeclareTake(r) \/ ReadSucc(r) \/ AccessSucc(r)
  \/ Unlink(r) \/ EmptyList(r) \/ ReleaseSucc(r) \/ ReleaseFront(r) \/ Take(r)
PushActs(s) ==
  \/ Send(s) \/ CountPush(s)
  \/ AccessBack(s) \/ ReadLast(s) \/ AccessLast(s) \/ YieldBack(s)
  \/ LinkNode(s) \/ LinkBack(s) \/ LinkLast(s) \/ ReleaseLast(s) \/ ReleaseBack(s)

\* Going somewhere, alone or waking others, leaves the rest where they are.
LEMMA Going ==
  ASSUME Types, NEW h \in Handles, NEW to
  PROVE  /\ Goto(h, to) => pc'[h] = to /\ OthersStay(h)
         /\ GotoAndWake(h, to, Sleepers) => pc'[h] = to /\ OthersStay(h)
         /\ NotifyOne(h, to) => pc'[h] = to /\ OthersStay(h)
  <1>1. pc = [g \in Handles |-> pc[g]] /\ Receivers \subseteq Handles
    BY Names DEF Types
  <1>2. Goto(h, to) => pc'[h] = to /\ OthersStay(h)
    BY <1>1 DEF Goto, OthersStay
  <1>3. ASSUME NEW T \in SUBSET Sleepers, GotoAndWake(h, to, T)
        PROVE  pc'[h] = to /\ OthersStay(h)
    BY <1>1, <1>3 DEF GotoAndWake, OthersStay, Sleepers
  <1>4. ASSUME NotifyOne(h, to) PROVE pc'[h] = to /\ OthersStay(h)
    BY <1>2, <1>3, <1>4 DEF NotifyOne
  <1>. QED
    BY <1>2, <1>3, <1>4

\* Every step is one of these.
LEMMA StepKinds ==
  ASSUME Types, [Next]_vars
  PROVE  \/ UNCHANGED vars
         \/ \E h \in Handles : Quiet(h)
         \/ \E r \in Receivers : PopActs(r)
         \/ \E s \in Senders : PushActs(s)
  <1>0. Senders \subseteq Handles /\ Receivers \subseteq Handles /\ Senders \cap Receivers = {}
        /\ (\A r \in Receivers : pc[r] \in ReceiverPCs) /\ (\A s \in Senders : pc[s] \in SenderPCs)
    BY Names DEF Types
  <1>. USE <1>0 DEF At, Quiet, QuietEdge
  <1>1. ASSUME NEW r \in Receivers, ReceiverClient(r) \/ ReceiverStep(r) \/ SpuriousWake(r)
        PROVE  (\E h \in Handles : Quiet(h)) \/ PopActs(r)
    <2>1. CASE \E c \in Receivers : CloneReceiver(r, c)
      BY <2>1, Going DEF CloneReceiver
    <2>2. CASE DropReceiver(r)
      BY <2>2, Going DEF DropReceiver
    <2>3. CASE Recv(r) \/ FindZero(r)
      BY <2>3, Going DEF Recv, FindZero
    <2>4. CASE SendersRemain(r) \/ FindClosed(r)
      BY <2>4, Going DEF SendersRemain, FindClosed
    <2>5. CASE Sleep(r) \/ SpuriousWake(r)
      BY <2>5, Going DEF Sleep, SpuriousWake
    <2>6. CASE NotifyNext(r)
      BY <2>6, Going DEF NotifyNext
    <2>7. CASE Return(r)
      BY <2>7, Going DEF Return, ReceiverPCs
    <2>. QED
      BY <1>1, <2>1, <2>2, <2>3, <2>4, <2>5, <2>6, <2>7
      DEF ReceiverClient, ReceiverStep, PopActs
  <1>2. ASSUME NEW s \in Senders, SenderClient(s) \/ SenderStep(s)
        PROVE  (\E h \in Handles : Quiet(h)) \/ PushActs(s)
    <2>1. CASE \E c \in Senders : CloneSender(s, c)
      BY <2>1, Going DEF CloneSender
    <2>2. CASE DropSender(s)
      BY <2>2, Going DEF DropSender
    <2>3. CASE WakeAll(s)
      BY <2>3, Going DEF WakeAll
    <2>4. CASE SendClosed(s) \/ FindReceivers(s)
      BY <2>4, Going DEF SendClosed, FindReceivers
    <2>5. CASE SeeDeclared(s)
      BY <2>5, Going DEF SeeDeclared
    <2>6. CASE NotifyPush(s)
      BY <2>6, Going DEF NotifyPush
    <2>7. CASE Return(s)
      BY <2>7, Going DEF Return, SenderPCs
    <2>. QED
      BY <1>2, <2>1, <2>2, <2>3, <2>4, <2>5, <2>6, <2>7
      DEF SenderClient, SenderStep, PushActs
  <1>. QED
    BY <1>1, <1>2 DEF Next

-----------------------------------------------------------------------------
(* Types.                                                                  *)

\* What a sender links is a value.
LEMMA OwnIsValue ==
  ASSUME Types, NEW s \in Senders, pc[s] \in UnlinkedPCs
  PROVE  Own(s) \in Values /\ Own(s) \in Nodes /\ sent[s] \in 1..MaxSend[s]
  <1>1. sent[s] \in 1..MaxSend[s]
    BY LCAssumption DEF Types
  <1>. QED
    BY <1>1, Names DEF Own, Values

\* Every step keeps the types.
LEMMA TypesStep ==
  ASSUME Types, [Next]_vars,
         \A r \in Receivers : pc[r] = "unlink" => front[r] \in Values
  PROVE  Types'
  <1>0. /\ Senders \subseteq Handles /\ Receivers \subseteq Handles /\ Senders \cap Receivers = {}
        /\ Handles = Senders \cup Receivers
    BY Names
  <1>1. /\ pc \in [Handles -> ReceiverPCs \cup SenderPCs] /\ flag \in [Nodes -> Flags]
        /\ next \in [Nodes -> Nodes] /\ len \in Nat /\ front \in [Receivers -> Nodes]
        /\ succ \in [Receivers -> Nodes] /\ last \in [Senders -> Nodes] /\ sent \in [Senders -> Nat]
        /\ received \in Seq(Values) /\ Front \in Nodes /\ Back \in Nodes
        /\ \A s \in Senders : sent[s] <= MaxSend[s] /\ (pc[s] \in UnlinkedPCs => sent[s] > 0)
    BY Names DEF Types
  <1>. USE DEF At, Goto, ReceiverPCs, SenderPCs, UnlinkedPCs
  <1>2. CASE UNCHANGED vars
    BY <1>2 DEF Types
  <1>3. ASSUME NEW h \in Handles, Quiet(h) PROVE Types'
    <2>1. UNCHANGED <<flag, next, len, front, succ, last, sent, received>>
      BY <1>3 DEF Quiet
    <2>2. ASSUME NEW r \in Receivers PROVE pc'[r] \in ReceiverPCs
      <3>1. CASE r = h
        <4>1. QuietEdge(r) /\ r \notin Senders
          BY <1>0, <1>3, <3>1 DEF Quiet
        <4>. QED
          BY <4>1 DEF QuietEdge
      <3>2. CASE r # h
        BY <1>0, <1>3, <3>2 DEF Types, Quiet, OthersStay
      <3>. QED
        BY <3>1, <3>2
    <2>3. ASSUME NEW s \in Senders
          PROVE  pc'[s] \in SenderPCs /\ (pc'[s] \in UnlinkedPCs => pc[s] \in UnlinkedPCs)
      <3>1. CASE s = h
        <4>1. QuietEdge(s) /\ s \notin Receivers
          BY <1>0, <1>3, <3>1 DEF Quiet
        <4>. QED
          BY <4>1 DEF QuietEdge
      <3>2. CASE s # h
        BY <1>0, <1>3, <3>2 DEF Types, Quiet, OthersStay
      <3>. QED
        BY <3>1, <3>2
    <2>4. pc' \in [Handles -> ReceiverPCs \cup SenderPCs]
      <3>1. pc' = [g \in Handles |-> pc'[g]]
        BY <1>3 DEF Quiet, OthersStay
      <3>. QED
        BY <1>0, <2>2, <2>3, <3>1
    <2>. QED
      BY <1>1, <2>1, <2>2, <2>3, <2>4 DEF Types
  \* The other steps, by what they change.
  <1>4. ASSUME NEW r \in Receivers, PopActs(r)
        PROVE  /\ pc' \in [Handles -> ReceiverPCs \cup SenderPCs]
               /\ \A q \in Receivers : pc'[q] \in ReceiverPCs
               /\ \A s \in Senders : pc'[s] = pc[s]
               /\ UNCHANGED <<last, sent>>
    <2>1. \E to \in ReceiverPCs : pc' = [pc EXCEPT ![r] = to]
      BY <1>4
      DEF PopActs, Reserve, AccessFront, ReadFront, DeclareTake, ReadSucc, AccessSucc, Unlink,
        EmptyList, ReleaseSucc, ReleaseFront, Take
    <2>2. UNCHANGED <<last, sent>>
      BY <1>4
      DEF PopActs, Reserve, AccessFront, ReadFront, DeclareTake, ReadSucc, AccessSucc, Unlink,
        EmptyList, ReleaseSucc, ReleaseFront, Take
    <2>. HIDE DEF ReceiverPCs, SenderPCs
    <2>. QED
      BY <1>0, <1>1, <2>1, <2>2 DEF Types
  <1>5. ASSUME NEW s \in Senders, PushActs(s)
        PROVE  /\ pc' \in [Handles -> ReceiverPCs \cup SenderPCs]
               /\ \A r \in Receivers : pc'[r] = pc[r]
               /\ \A t \in Senders : pc'[t] \in SenderPCs
               /\ UNCHANGED <<front, succ, received>>
    <2>1. \E to \in SenderPCs : pc' = [pc EXCEPT ![s] = to]
      BY <1>5
      DEF PushActs, Send, CountPush, AccessBack, ReadLast, AccessLast, YieldBack, LinkNode,
        LinkBack, LinkLast, ReleaseLast, ReleaseBack
    <2>2. UNCHANGED <<front, succ, received>>
      BY <1>5
      DEF PushActs, Send, CountPush, AccessBack, ReadLast, AccessLast, YieldBack, LinkNode,
        LinkBack, LinkLast, ReleaseLast, ReleaseBack
    <2>. HIDE DEF ReceiverPCs, SenderPCs
    <2>. QED
      BY <1>0, <1>1, <2>1, <2>2 DEF Types
  <1>6. ASSUME NEW h \in Handles, \/ h \in Receivers /\ PopActs(h)
                                  \/ h \in Senders /\ PushActs(h)
        PROVE  flag' \in [Nodes -> Flags] /\ next' \in [Nodes -> Nodes] /\ len' \in Nat
    <2>1. flag' \in [Nodes -> Flags]
      BY <1>1, <1>6
      DEF PopActs, Reserve, AccessFront, ReadFront, DeclareTake, ReadSucc, AccessSucc, Unlink,
        EmptyList, ReleaseSucc, ReleaseFront, Take, PushActs, Send, CountPush, AccessBack, ReadLast,
        AccessLast, YieldBack, LinkNode, LinkBack, LinkLast, ReleaseLast, ReleaseBack, SetNext,
        TryAccess, TryDeclareTake, TryTake, Release, Cas, Flags
    <2>2. CASE \/ h \in Receivers /\ Unlink(h)
               \/ h \in Receivers /\ EmptyList(h)
               \/ h \in Senders /\ (LinkNode(h) \/ LinkBack(h) \/ LinkLast(h))
      <3>1. h \in Senders /\ (LinkNode(h) \/ LinkBack(h) \/ LinkLast(h)) => Own(h) \in Nodes
        BY OwnIsValue DEF LinkNode, LinkBack, LinkLast
      <3>2. next' \in [Nodes -> Nodes]
        BY <1>1, <2>2, <3>1 DEF Unlink, EmptyList, LinkNode, LinkBack, LinkLast, SetNext
      <3>. QED
        BY <1>1, <2>1, <2>2, <3>2 DEF Unlink, EmptyList, LinkNode, LinkBack, LinkLast
    <2>3. CASE ~(\/ h \in Receivers /\ Unlink(h)
                 \/ h \in Receivers /\ EmptyList(h)
                 \/ h \in Senders /\ (LinkNode(h) \/ LinkBack(h) \/ LinkLast(h)))
      <3>1. UNCHANGED next
        BY <1>6, <2>3
        DEF PopActs, Reserve, AccessFront, ReadFront, DeclareTake, ReadSucc, AccessSucc,
          ReleaseSucc, ReleaseFront, Take, PushActs, Send, CountPush, AccessBack, ReadLast,
          AccessLast, YieldBack, ReleaseLast, ReleaseBack
      <3>2. len' \in Nat
        BY <1>1, <1>6, <2>3
        DEF PopActs, Reserve, AccessFront, ReadFront, DeclareTake, ReadSucc, AccessSucc,
          ReleaseSucc, ReleaseFront, Take, PushActs, Send, CountPush, AccessBack, ReadLast,
          AccessLast, YieldBack, ReleaseLast, ReleaseBack
      <3>. QED
        BY <1>1, <2>1, <3>1, <3>2
    <2>. QED
      BY <2>2, <2>3
  <1>7. ASSUME NEW r \in Receivers, PopActs(r) PROVE Types'
    <2>1. front' \in [Receivers -> Nodes] /\ succ' \in [Receivers -> Nodes]
      BY <1>1, <1>7
      DEF PopActs, Reserve, AccessFront, ReadFront, DeclareTake, ReadSucc, AccessSucc, Unlink,
        EmptyList, ReleaseSucc, ReleaseFront, Take
    <2>2. received' \in Seq(Values)
      <3>1. CASE Unlink(r)
        BY <1>1, <3>1 DEF Unlink
      <3>2. CASE ~Unlink(r)
        BY <1>1, <1>7, <3>2
        DEF PopActs, Reserve, AccessFront, ReadFront, DeclareTake, ReadSucc, AccessSucc, EmptyList,
          ReleaseSucc, ReleaseFront, Take
      <3>. QED
        BY <3>1, <3>2
    <2>. QED
      BY <1>0, <1>1, <1>4, <1>6, <1>7, <2>1, <2>2 DEF Types
  <1>8. ASSUME NEW s \in Senders, PushActs(s) PROVE Types'
    <2>1. last' \in [Senders -> Nodes]
      BY <1>1, <1>8
      DEF PushActs, Send, CountPush, AccessBack, ReadLast, AccessLast, YieldBack, LinkNode,
        LinkBack, LinkLast, ReleaseLast, ReleaseBack
    <2>2. /\ sent' \in [Senders -> Nat]
          /\ \A t \in Senders : sent'[t] <= MaxSend[t] /\ (pc'[t] \in UnlinkedPCs => sent'[t] > 0)
      <3>1. CASE Send(s)
        <4>1. /\ sent[s] < MaxSend[s]
              /\ sent' = [sent EXCEPT ![s] = @ + 1]
              /\ pc' = [pc EXCEPT ![s] = "send"]
          BY <3>1 DEF Send
        <4>2. \A t \in Senders : MaxSend[t] \in Nat /\ sent[t] \in Nat
          BY <1>1, LCAssumption
        <4>. QED
          BY <1>0, <1>1, <4>1, <4>2
      <3>2. CASE ~Send(s)
        <4>1. UNCHANGED sent /\ \A t \in Senders : pc'[t] \in UnlinkedPCs => pc[t] \in UnlinkedPCs
          BY <1>0, <1>1, <1>8, <3>2
          DEF PushActs, CountPush, AccessBack, ReadLast, AccessLast, YieldBack, LinkNode, LinkBack,
            LinkLast, ReleaseLast, ReleaseBack
        <4>. QED
          BY <1>1, <4>1
      <3>. QED
        BY <3>1, <3>2
    <2>. QED
      BY <1>0, <1>1, <1>5, <1>6, <1>8, <2>1, <2>2 DEF Types
  <1>. QED
    BY <1>2, <1>3, <1>7, <1>8, StepKinds
-----------------------------------------------------------------------------
(* The flags.                                                              *)

\* A compare_exchange from Released to Accessed makes one more accessor.
LEMMA AccessGained ==
  ASSUME Types, FlagsHold, NEW h \in Handles, NEW n \in Nodes, TryAccess(n),
         \A g \in Handles : \A m \in Nodes : Accesses(g, m)' => Accesses(g, m) \/ (g = h /\ m = n),
         \A r \in Receivers : \A m \in Nodes : Takes(r, m)' <=> Takes(r, m)
  PROVE  FlagsHold'
  <1>1. flag \in [Nodes -> Flags] /\ flag[n] = "Released" /\ flag' = [flag EXCEPT ![n] = "Accessed"]
    BY DEF Types, TryAccess, Cas
  <1>2. \A g \in Handles : ~Accesses(g, n)
    BY <1>1 DEF FlagsHold
  <1>3. \A g \in Handles : \A m \in Nodes : Accesses(g, m)' => flag'[m] = "Accessed"
    BY <1>1 DEF FlagsHold
  <1>4. \A f, g \in Handles : \A m \in Nodes : Accesses(f, m)' /\ Accesses(g, m)' => f = g
    BY <1>2 DEF FlagsHold
  <1>5. \A m \in Nodes : flag'[m] = "DeclareTake" <=> flag[m] = "DeclareTake"
    BY <1>1
  <1>6. \A m \in Nodes : flag'[m] = "DeclareTake" <=> \E r \in Receivers : Takes(r, m)'
    BY <1>5 DEF FlagsHold
  <1>7. \A q, r \in Receivers : \A m \in Nodes : Takes(q, m)' /\ Takes(r, m)' => q = r
    BY DEF FlagsHold
  <1>. QED
    BY <1>3, <1>4, <1>6, <1>7 DEF FlagsHold

\* A guard is dropped by the one accessor of its node.
LEMMA AccessDropped ==
  ASSUME Types, FlagsHold, NEW h \in Handles, NEW n \in Nodes, Release(n), Accesses(h, n),
         \A g \in Handles : \A m \in Nodes : Accesses(g, m)' => Accesses(g, m) /\ ~(g = h /\ m = n),
         \A r \in Receivers : \A m \in Nodes : Takes(r, m)' <=> Takes(r, m)
  PROVE  FlagsHold'
  <1>1. flag \in [Nodes -> Flags] /\ flag[n] = "Accessed" /\ flag' = [flag EXCEPT ![n] = "Released"]
    BY DEF Types, Release, Cas
  <1>2. \A g \in Handles : ~Accesses(g, n)'
    BY DEF FlagsHold
  <1>3. \A g \in Handles : \A m \in Nodes : Accesses(g, m)' => flag'[m] = "Accessed"
    BY <1>1, <1>2 DEF FlagsHold
  <1>4. \A f, g \in Handles : \A m \in Nodes : Accesses(f, m)' /\ Accesses(g, m)' => f = g
    BY DEF FlagsHold
  <1>5. \A m \in Nodes : flag'[m] = "DeclareTake" <=> flag[m] = "DeclareTake"
    BY <1>1
  <1>6. \A m \in Nodes : flag'[m] = "DeclareTake" <=> \E r \in Receivers : Takes(r, m)'
    BY <1>5 DEF FlagsHold
  <1>7. \A q, r \in Receivers : \A m \in Nodes : Takes(q, m)' /\ Takes(r, m)' => q = r
    BY DEF FlagsHold
  <1>. QED
    BY <1>3, <1>4, <1>6, <1>7 DEF FlagsHold

\* A step that leaves the flags, the accessors and the takers alone.
LEMMA AccessKept ==
  ASSUME FlagsHold, UNCHANGED flag,
         \A g \in Handles : \A m \in Nodes : Accesses(g, m)' => Accesses(g, m),
         \A r \in Receivers : \A m \in Nodes : Takes(r, m)' <=> Takes(r, m)
  PROVE  FlagsHold'
  <1>1. \A g \in Handles : \A m \in Nodes : Accesses(g, m)' => flag'[m] = "Accessed"
    BY DEF FlagsHold
  <1>2. \A f, g \in Handles : \A m \in Nodes : Accesses(f, m)' /\ Accesses(g, m)' => f = g
    BY DEF FlagsHold
  <1>3. \A m \in Nodes : flag'[m] = "DeclareTake" <=> \E r \in Receivers : Takes(r, m)'
    BY DEF FlagsHold
  <1>4. \A q, r \in Receivers : \A m \in Nodes : Takes(q, m)' /\ Takes(r, m)' => q = r
    BY DEF FlagsHold
  <1>. QED
    BY <1>1, <1>2, <1>3, <1>4 DEF FlagsHold

\* The flags of a node work as its lock.
LEMMA FlagsStep ==
  ASSUME Types, FlagsHold, NEW n \in Nat, NEW chain \in [1..n -> Values],
         PopsFit(n, chain), PushesFit(n, chain), [Next]_vars
  PROVE  FlagsHold'
  <1>0. /\ Senders \subseteq Handles /\ Receivers \subseteq Handles /\ Senders \cap Receivers = {}
        /\ Handles = Senders \cup Receivers /\ DOMAIN pc = Handles
        /\ Front \in Nodes /\ Back \in Nodes /\ Front # Back
        /\ front \in [Receivers -> Nodes] /\ succ \in [Receivers -> Nodes]
        /\ last \in [Senders -> Nodes]
    BY Names DEF Types
  <1>. USE DEF At, Goto, FrontPCs, SuccPCs, BackPCs, LastPCs, TakingPCs
  <1>1. CASE UNCHANGED vars
    BY <1>1, AccessKept DEF Accesses, Takes
  <1>2. ASSUME NEW h \in Handles, Quiet(h) PROVE FlagsHold'
    <2>1. /\ UNCHANGED <<flag, front, succ, last>>
          /\ \A r \in Receivers : pc'[r] \in TakingPCs <=> pc[r] \in TakingPCs
      BY <1>0, <1>2 DEF Quiet, QuietEdge, OthersStay
    <2>2. /\ \A r \in Receivers : /\ pc'[r] \in FrontPCs => pc[r] \in FrontPCs
                                  /\ pc'[r] \in SuccPCs => pc[r] \in SuccPCs
          /\ \A s \in Senders : /\ pc'[s] \in BackPCs => pc[s] \in BackPCs
                                /\ pc'[s] \in LastPCs => pc[s] \in LastPCs
      BY <1>0, <1>2 DEF Quiet, QuietEdge, OthersStay
    <2>. HIDE DEF FrontPCs, SuccPCs, BackPCs, LastPCs, TakingPCs
    <2>3. \A g \in Handles : \A m \in Nodes : Accesses(g, m)' => Accesses(g, m)
      BY <2>1, <2>2 DEF Accesses
    <2>4. \A r \in Receivers : \A m \in Nodes : Takes(r, m)' <=> Takes(r, m)
      BY <2>1 DEF Takes
    <2>. QED
      BY <2>1, <2>3, <2>4, AccessKept
  \* Steps that move no flag.
  <1>3. ASSUME NEW r \in Receivers,
               Reserve(r) \/ ReadFront(r) \/ ReadSucc(r) \/ Unlink(r) \/ EmptyList(r)
        PROVE  FlagsHold'
    <2>1. UNCHANGED <<flag, last>>
      BY <1>3 DEF Reserve, ReadFront, ReadSucc, Unlink, EmptyList
    <2>2. \A g \in Handles : \A m \in Nodes : Accesses(g, m)' => Accesses(g, m)
      BY <1>0, <1>3 DEF Reserve, ReadFront, ReadSucc, Unlink, EmptyList, Accesses
    <2>3. \A q \in Receivers : \A m \in Nodes : Takes(q, m)' <=> Takes(q, m)
      BY <1>0, <1>3 DEF Reserve, ReadFront, ReadSucc, Unlink, EmptyList, Takes
    <2>. QED
      BY <2>1, <2>2, <2>3, AccessKept
  <1>4. ASSUME NEW s \in Senders,
               Send(s) \/ CountPush(s) \/ ReadLast(s) \/ LinkNode(s) \/ LinkBack(s) \/ LinkLast(s)
        PROVE  FlagsHold'
    <2>1. UNCHANGED <<flag, front, succ>>
      BY <1>4 DEF Send, CountPush, ReadLast, LinkNode, LinkBack, LinkLast
    <2>2. \A g \in Handles : \A m \in Nodes : Accesses(g, m)' => Accesses(g, m)
      BY <1>0, <1>4 DEF Send, CountPush, ReadLast, LinkNode, LinkBack, LinkLast, Accesses
    <2>3. \A q \in Receivers : \A m \in Nodes : Takes(q, m)' <=> Takes(q, m)
      BY <1>0, <1>4 DEF Send, CountPush, ReadLast, LinkNode, LinkBack, LinkLast, Takes
    <2>. QED
      BY <2>1, <2>2, <2>3, AccessKept
  <1>5. ASSUME NEW r \in Receivers, AccessFront(r) PROVE FlagsHold'
    <2>1. \A g \in Handles : \A m \in Nodes :
            Accesses(g, m)' => Accesses(g, m) \/ (g = r /\ m = Front)
      BY <1>0, <1>5 DEF AccessFront, Accesses
    <2>2. \A q \in Receivers : \A m \in Nodes : Takes(q, m)' <=> Takes(q, m)
      BY <1>0, <1>5 DEF AccessFront, Takes
    <2>. QED
      BY <1>0, <1>5, <2>1, <2>2, AccessGained DEF AccessFront
  <1>6. ASSUME NEW r \in Receivers, AccessSucc(r) PROVE FlagsHold'
    <2>1. \A g \in Handles : \A m \in Nodes :
            Accesses(g, m)' => Accesses(g, m) \/ (g = r /\ m = succ[r])
      BY <1>0, <1>6 DEF AccessSucc, Accesses
    <2>2. \A q \in Receivers : \A m \in Nodes : Takes(q, m)' <=> Takes(q, m)
      BY <1>0, <1>6 DEF AccessSucc, Takes
    <2>. QED
      BY <1>0, <1>6, <2>1, <2>2, AccessGained DEF AccessSucc
  <1>7. ASSUME NEW s \in Senders, AccessBack(s) PROVE FlagsHold'
    <2>1. \A g \in Handles : \A m \in Nodes :
            Accesses(g, m)' => Accesses(g, m) \/ (g = s /\ m = Back)
      BY <1>0, <1>7 DEF AccessBack, Accesses
    <2>2. \A q \in Receivers : \A m \in Nodes : Takes(q, m)' <=> Takes(q, m)
      BY <1>0, <1>7 DEF AccessBack, Takes
    <2>. QED
      BY <1>0, <1>7, <2>1, <2>2, AccessGained DEF AccessBack
  <1>8. ASSUME NEW s \in Senders, AccessLast(s) PROVE FlagsHold'
    <2>1. \A g \in Handles : \A m \in Nodes :
            Accesses(g, m)' => Accesses(g, m) \/ (g = s /\ m = last[s])
      BY <1>0, <1>8 DEF AccessLast, Accesses
    <2>2. \A q \in Receivers : \A m \in Nodes : Takes(q, m)' <=> Takes(q, m)
      BY <1>0, <1>8 DEF AccessLast, Takes
    <2>. QED
      BY <1>0, <1>8, <2>1, <2>2, AccessGained DEF AccessLast
  \* A guard that is dropped is none of the thread's others.
  <1>9. ASSUME NEW r \in Receivers, ReleaseSucc(r) PROVE FlagsHold'
    <2>1. succ[r] # Front /\ Accesses(r, succ[r])
      BY <1>9 DEF ReleaseSucc, PopsFit, Accesses
    <2>2. \A g \in Handles : \A m \in Nodes :
            Accesses(g, m)' => Accesses(g, m) /\ ~(g = r /\ m = succ[r])
      BY <1>0, <1>9, <2>1 DEF ReleaseSucc, Accesses
    <2>3. \A q \in Receivers : \A m \in Nodes : Takes(q, m)' <=> Takes(q, m)
      BY <1>0, <1>9 DEF ReleaseSucc, Takes
    <2>. QED
      BY <1>0, <1>9, <2>1, <2>2, <2>3, AccessDropped DEF ReleaseSucc
  <1>10. ASSUME NEW r \in Receivers, ReleaseFront(r) PROVE FlagsHold'
    <2>1. Accesses(r, Front)
      BY <1>10 DEF ReleaseFront, Accesses
    <2>2. \A g \in Handles : \A m \in Nodes :
            Accesses(g, m)' => Accesses(g, m) /\ ~(g = r /\ m = Front)
      BY <1>0, <1>10 DEF ReleaseFront, Accesses
    <2>3. \A q \in Receivers : \A m \in Nodes : Takes(q, m)' <=> Takes(q, m)
      BY <1>0, <1>10 DEF ReleaseFront, Takes
    <2>. QED
      BY <1>0, <1>10, <2>1, <2>2, <2>3, AccessDropped DEF ReleaseFront
  <1>11. ASSUME NEW s \in Senders, ReleaseLast(s) PROVE FlagsHold'
    <2>1. last[s] # Back /\ Accesses(s, last[s])
      BY <1>11 DEF ReleaseLast, PushesFit, Accesses
    <2>2. \A g \in Handles : \A m \in Nodes :
            Accesses(g, m)' => Accesses(g, m) /\ ~(g = s /\ m = last[s])
      BY <1>0, <1>11, <2>1 DEF ReleaseLast, Accesses
    <2>3. \A q \in Receivers : \A m \in Nodes : Takes(q, m)' <=> Takes(q, m)
      BY <1>0, <1>11 DEF ReleaseLast, Takes
    <2>. QED
      BY <1>0, <1>11, <2>1, <2>2, <2>3, AccessDropped DEF ReleaseLast
  <1>12. ASSUME NEW s \in Senders, YieldBack(s) \/ ReleaseBack(s) PROVE FlagsHold'
    <2>1. Accesses(s, Back) /\ Release(Back)
      BY <1>12 DEF YieldBack, ReleaseBack, Accesses
    <2>2. \A g \in Handles : \A m \in Nodes :
            Accesses(g, m)' => Accesses(g, m) /\ ~(g = s /\ m = Back)
      BY <1>0, <1>12 DEF YieldBack, ReleaseBack, Accesses
    <2>3. \A q \in Receivers : \A m \in Nodes : Takes(q, m)' <=> Takes(q, m)
      BY <1>0, <1>12 DEF YieldBack, ReleaseBack, Takes
    <2>. QED
      BY <1>0, <2>1, <2>2, <2>3, AccessDropped
  \* The taker of a node: from the declaration to the take.
  <1>13. ASSUME NEW r \in Receivers, DeclareTake(r) PROVE FlagsHold'
    <2>1. /\ flag[front[r]] = "Released" /\ flag' = [flag EXCEPT ![front[r]] = "DeclareTake"]
          /\ flag \in [Nodes -> Flags] /\ front[r] \in Nodes
      BY <1>0, <1>13 DEF DeclareTake, TryDeclareTake, Cas, Types
    <2>2. \A g \in Handles : \A m \in Nodes : Accesses(g, m)' => Accesses(g, m)
      BY <1>0, <1>13 DEF DeclareTake, Accesses
    <2>3. \A q \in Receivers : \A m \in Nodes :
            Takes(q, m)' <=> Takes(q, m) \/ (q = r /\ m = front[r])
      BY <1>0, <1>13 DEF DeclareTake, Takes
    <2>4. \A q \in Receivers : ~Takes(q, front[r])
      BY <2>1 DEF FlagsHold
    <2>5. \A g \in Handles : \A m \in Nodes : Accesses(g, m)' => flag'[m] = "Accessed"
      BY <2>1, <2>2 DEF FlagsHold
    <2>6. \A f, g \in Handles : \A m \in Nodes : Accesses(f, m)' /\ Accesses(g, m)' => f = g
      BY <2>2 DEF FlagsHold
    <2>7. \A m \in Nodes : flag'[m] = "DeclareTake" <=> \E q \in Receivers : Takes(q, m)'
      BY <2>1, <2>3 DEF FlagsHold
    <2>8. \A p, q \in Receivers : \A m \in Nodes : Takes(p, m)' /\ Takes(q, m)' => p = q
      BY <2>3, <2>4 DEF FlagsHold
    <2>. QED
      BY <2>5, <2>6, <2>7, <2>8 DEF FlagsHold
  <1>14. ASSUME NEW r \in Receivers, Take(r) PROVE FlagsHold'
    <2>1. /\ flag[front[r]] = "DeclareTake" /\ flag' = [flag EXCEPT ![front[r]] = "Taken"]
          /\ flag \in [Nodes -> Flags] /\ front[r] \in Nodes /\ Takes(r, front[r])
      BY <1>0, <1>14 DEF Take, TryTake, Cas, Types, Takes
    <2>2. \A g \in Handles : \A m \in Nodes : Accesses(g, m)' => Accesses(g, m)
      BY <1>0, <1>14 DEF Take, Accesses
    <2>3. \A q \in Receivers : \A m \in Nodes : Takes(q, m)' <=> Takes(q, m) /\ q # r
      BY <1>0, <1>14 DEF Take, Takes
    <2>4. \A m \in Nodes : Takes(r, m) => m = front[r]
      BY DEF Takes
    <2>5. \A g \in Handles : \A m \in Nodes : Accesses(g, m)' => flag'[m] = "Accessed"
      BY <2>1, <2>2 DEF FlagsHold
    <2>6. \A f, g \in Handles : \A m \in Nodes : Accesses(f, m)' /\ Accesses(g, m)' => f = g
      BY <2>2 DEF FlagsHold
    <2>7. \A m \in Nodes : flag'[m] = "DeclareTake" <=> \E q \in Receivers : Takes(q, m)'
      BY <2>1, <2>3, <2>4 DEF FlagsHold
    <2>8. \A p, q \in Receivers : \A m \in Nodes : Takes(p, m)' /\ Takes(q, m)' => p = q
      BY <2>3 DEF FlagsHold
    <2>. QED
      BY <2>5, <2>6, <2>7, <2>8 DEF FlagsHold
  <1>. QED
    BY <1>1, <1>2, <1>3, <1>4, <1>5, <1>6, <1>7, <1>8, <1>9, <1>10, <1>11, <1>12, <1>13, <1>14,
      StepKinds DEF PopActs, PushActs
-----------------------------------------------------------------------------
(* The list.                                                               *)

\* What the steps that do not link or unlink a node leave as it was.
LEMMA StepsKeep ==
  ASSUME Types, [Next]_vars
  PROVE  /\ (\A s \in Senders : ~LinkLast(s) /\ ~Send(s)) =>
              \A s \in Senders : pc'[s] \in UnlinkedPCs => pc[s] \in UnlinkedPCs
         /\ (\A s \in Senders : ~Send(s)) => UNCHANGED sent
         /\ (\A r \in Receivers : ~Unlink(r)) => UNCHANGED received
  <1>0. /\ Senders \subseteq Handles /\ Receivers \subseteq Handles /\ Senders \cap Receivers = {}
        /\ DOMAIN pc = Handles
    BY Names DEF Types
  <1>. USE DEF At, Goto, UnlinkedPCs
  <1>1. CASE UNCHANGED vars
    BY <1>1
  <1>2. ASSUME NEW h \in Handles, Quiet(h)
        PROVE  /\ \A s \in Senders : pc'[s] \in UnlinkedPCs => pc[s] \in UnlinkedPCs
               /\ UNCHANGED <<sent, received>>
    <2>1. \A s \in Senders : s # h => pc'[s] = pc[s]
      BY <1>0, <1>2 DEF Quiet, OthersStay
    <2>2. h \in Senders => QuietEdge(h) /\ h \notin Receivers
      BY <1>0, <1>2 DEF Quiet
    <2>3. h \in Senders => (pc'[h] \in UnlinkedPCs => pc[h] \in UnlinkedPCs)
      BY <2>2 DEF QuietEdge
    <2>. QED
      BY <1>2, <2>1, <2>3 DEF Quiet
  <1>3. ASSUME NEW r \in Receivers, PopActs(r)
        PROVE  /\ \A s \in Senders : pc'[s] = pc[s]
               /\ UNCHANGED sent /\ (~Unlink(r) => UNCHANGED received)
    BY <1>0, <1>3
    DEF PopActs, Reserve, AccessFront, ReadFront, DeclareTake, ReadSucc, AccessSucc, Unlink,
      EmptyList, ReleaseSucc, ReleaseFront, Take
  <1>4. ASSUME NEW s \in Senders, PushActs(s), ~Send(s)
        PROVE  /\ \A t \in Senders : pc'[t] \in UnlinkedPCs => pc[t] \in UnlinkedPCs
               /\ UNCHANGED <<sent, received>>
    BY <1>0, <1>4
    DEF PushActs, CountPush, AccessBack, ReadLast, AccessLast, YieldBack, LinkNode, LinkBack,
      LinkLast, ReleaseLast, ReleaseBack
  <1>5. ASSUME NEW s \in Senders, Send(s) PROVE UNCHANGED received
    BY <1>5 DEF Send
  <1>. QED
    BY <1>1, <1>2, <1>3, <1>4, <1>5, StepKinds

\* Only the receiver that holds Front and a declared node unlinks one.
LEMMA UnlinkIs ==
  ASSUME Types, FlagsHold, NEW n \in Nat, NEW chain \in [1..n -> Values], PopsFit(n, chain),
         Gone <= n, NEW r \in Receivers, Unlink(r)
  PROVE  /\ Gone + 1 \in 1..n /\ front[r] = chain[Gone + 1] /\ front[r] \in Values
         /\ succ[r] = NodeAt(n, chain, Gone + 2) /\ succ[r] # Front
         /\ Gone' = Gone + 1 /\ received'[Gone + 1] = front[r]
         /\ \A i \in 1..Gone : received'[i] = received[i]
         /\ \A q \in Receivers \ {r} : pc[q] \notin FrontPCs
         /\ succ[r] = Back => \A s \in Senders : pc[s] \notin BackPCs
         /\ UNCHANGED <<flag, len, front, succ, last, sent>>
         /\ next' = [next EXCEPT ![Front] = succ[r]]
         /\ pc' = [pc EXCEPT ![r] = IF succ[r] = Back THEN "empty" ELSE "release"]
         /\ pc[r] = "unlink"
  <1>1. received \in Seq(Values) /\ Gone \in Nat
    BY DEF Types, Gone
  <1>2. Gone + 1 \in 1..n /\ front[r] = chain[Gone + 1] /\ succ[r] = NodeAt(n, chain, Gone + 2)
    BY <1>1 DEF Unlink, PopsFit
  <1>3. front[r] \in Values /\ succ[r] # Front
    BY <1>1, <1>2, Names DEF NodeAt
  <1>4. /\ received' = Append(received, front[r])
        /\ UNCHANGED <<flag, len, front, succ, last, sent>>
        /\ next' = [next EXCEPT ![Front] = succ[r]] /\ pc[r] = "unlink"
        /\ pc' = [pc EXCEPT ![r] = IF succ[r] = Back THEN "empty" ELSE "release"]
    BY DEF Unlink, SetNext, Goto
  <1>5. /\ Len(received') = Len(received) + 1 /\ received'[Len(received) + 1] = front[r]
        /\ \A i \in 1..Len(received) : received'[i] = received[i]
    BY <1>1, <1>3, <1>4
  <1>6. Accesses(r, Front) /\ Accesses(r, succ[r]) /\ succ[r] \in Nodes /\ r \in Handles
    BY <1>4, Names DEF Accesses, FrontPCs, SuccPCs, Types
  <1>7. ASSUME NEW q \in Receivers \ {r}, pc[q] \in FrontPCs PROVE FALSE
    BY <1>6, <1>7, Names DEF FlagsHold, Accesses
  <1>8. ASSUME succ[r] = Back, NEW s \in Senders, pc[s] \in BackPCs PROVE FALSE
    BY <1>6, <1>8, Names DEF FlagsHold, Accesses
  <1>. QED
    BY <1>1, <1>2, <1>3, <1>4, <1>5, <1>7, <1>8 DEF Gone

\* No step but LinkLast adds to the chain; Unlink moves the head of the list along it.
LEMMA OrderStep ==
  ASSUME Types, FlagsHold, NEW n \in Nat, NEW chain \in [1..n -> Values], PopsFit(n, chain),
         Order(n, chain), [Next]_vars, \A s \in Senders : ~LinkLast(s)
  PROVE  Order(n, chain)'
  <1>0. /\ Gone \in Nat /\ sent \in [Senders -> Nat] /\ DOMAIN pc = Handles
        /\ Senders \subseteq Handles
    BY Names DEF Types, Gone
  <1>1. /\ Gone' <= n /\ \A i \in 1..Gone' : received'[i] = chain[i]
    <2>1. CASE \E r \in Receivers : Unlink(r)
      <3>1. PICK r \in Receivers : Unlink(r)
        BY <2>1
      <3>2. /\ Gone + 1 \in 1..n /\ front[r] = chain[Gone + 1] /\ Gone' = Gone + 1
            /\ received'[Gone + 1] = front[r] /\ \A i \in 1..Gone : received'[i] = received[i]
        BY <3>1, UnlinkIs DEF Order
      <3>. QED
        BY <1>0, <3>2 DEF Order
    <2>2. CASE \A r \in Receivers : ~Unlink(r)
      <3>1. UNCHANGED received
        BY <2>2, StepsKeep
      <3>. QED
        BY <3>1 DEF Order, Gone
    <2>. QED
      BY <2>1, <2>2
  <1>2. ASSUME NEW i \in 1..n, NEW s \in Senders, NEW m \in 1..MaxSend[s], chain[i] = <<s, m>>
        PROVE  m <= sent'[s] /\ (pc'[s] \in UnlinkedPCs => m # sent'[s])
    <2>1. m <= sent[s] /\ (pc[s] \in UnlinkedPCs => m # sent[s])
      BY <1>2 DEF Order
    <2>2. CASE \E t \in Senders : Send(t)
      <3>1. PICK t \in Senders : Send(t)
        BY <2>2
      <3>2. sent' = [sent EXCEPT ![t] = @ + 1] /\ pc' = [pc EXCEPT ![t] = "send"]
        BY <3>1 DEF Send, At, Goto
      <3>3. m \in Nat /\ sent[s] \in Nat
        BY <1>0, LCAssumption
      <3>. QED
        BY <1>0, <2>1, <3>2, <3>3
    <2>3. CASE \A t \in Senders : ~Send(t)
      BY <2>1, <2>3, StepsKeep
    <2>. QED
      BY <2>2, <2>3
  <1>. QED
    BY <1>1, <1>2 DEF Order

\* Two senders' nodes differ, and the one a sender has still to link is in no list.
LEMMA OwnIsNew ==
  ASSUME Types, NEW n \in Nat, NEW chain \in [1..n -> Values], Order(n, chain),
         NEW s \in Senders, pc[s] \in UnlinkedPCs
  PROVE  /\ Own(s) \in Values /\ Own(s) \in Nodes /\ Own(s) # Front /\ Own(s) # Back
         /\ \A i \in 1..n : chain[i] # Own(s)
         /\ \A t \in Senders : t # s => Own(t) # Own(s)
  <1>1. Own(s) \in Values /\ Own(s) \in Nodes /\ sent[s] \in 1..MaxSend[s]
    BY OwnIsValue
  <1>2. \A i \in 1..n : chain[i] # Own(s)
    BY <1>1 DEF Order, Own
  <1>3. \A t \in Senders : t # s => Own(t) # Own(s)
    BY DEF Own
  <1>. QED
    BY <1>1, <1>2, <1>3, Names

\* Whoever works on Back's next works on it alone.
LEMMA BackIsHeldOnce ==
  ASSUME Types, FlagsHold, NEW n \in Nat, NEW chain \in [1..n -> Values], PopsFit(n, chain),
         NEW s \in Senders, pc[s] \in BackPCs
  PROVE  /\ \A t \in Senders \ {s} : pc[t] \notin BackPCs
         /\ \A r \in Receivers : pc[r] # "empty"
         /\ \A r \in Receivers : pc[r] \in SuccPCs => succ[r] # Back
  <1>1. Accesses(s, Back) /\ s \in Handles /\ Back \in Nodes
    BY Names DEF Accesses
  <1>2. ASSUME NEW t \in Senders \ {s}, pc[t] \in BackPCs PROVE FALSE
    BY <1>1, <1>2, Names DEF FlagsHold, Accesses
  <1>3. ASSUME NEW r \in Receivers, pc[r] \in SuccPCs, succ[r] = Back PROVE FALSE
    BY <1>1, <1>3, Names DEF FlagsHold, Accesses
  <1>4. \A r \in Receivers : pc[r] = "empty" => succ[r] = Back /\ pc[r] \in SuccPCs
    BY DEF PopsFit, SuccPCs
  <1>. QED
    BY <1>2, <1>3, <1>4

\* The nodes of the chain, and how much of it is gone.
LEMMA ChainIs ==
  ASSUME Types, NEW n \in Nat, NEW chain \in [1..n -> Values], Order(n, chain)
  PROVE  /\ Gone \in Nat /\ Gone <= n
         /\ \A i \in 1..n : chain[i] \in Values /\ chain[i] \in Nodes
                            /\ chain[i] # Front /\ chain[i] # Back
  <1>1. Gone \in Nat /\ Gone <= n
    BY DEF Types, Gone, Order
  <1>2. \A i \in 1..n : chain[i] \in Values
    OBVIOUS
  <1>. QED
    BY <1>1, <1>2, Names

\* The next pointers still lead from Front along the chain to Back, and back.
LEMMA LinksStep ==
  ASSUME Types, FlagsHold, NEW n \in Nat, NEW chain \in [1..n -> Values], PopsFit(n, chain),
         Order(n, chain), Links(n, chain), [Next]_vars, \A s \in Senders : ~LinkLast(s)
  PROVE  Links(n, chain)'
  <1>a. /\ Gone \in Nat /\ Gone <= n
        /\ \A i \in 1..n : chain[i] \in Nodes /\ chain[i] # Front /\ chain[i] # Back
    BY ChainIs
  <1>0. /\ Gone \in Nat /\ Gone <= n /\ DOMAIN pc = Handles /\ next \in [Nodes -> Nodes]
        /\ Senders \subseteq Handles /\ Receivers \subseteq Handles /\ Senders \cap Receivers = {}
        /\ Front \in Nodes /\ Back \in Nodes /\ Front # Back
        /\ \A i \in 1..n : chain[i] \in Nodes /\ chain[i] # Front /\ chain[i] # Back
    BY <1>a, Names DEF Types
  <1>. USE DEF At, Goto
  <1>1. ASSUME UNCHANGED <<next, received>>,
               \A s \in Senders : /\ pc'[s] = "link" <=> pc[s] = "link"
                                  /\ pc'[s] = "tail" => pc[s] = "tail"
                                  /\ pc'[s] \in {"tail", "link"} => sent'[s] = sent[s],
               \A r \in Receivers : pc'[r] # "empty" => pc[r] # "empty"
        PROVE  Links(n, chain)'
    BY <1>1 DEF Links, NodeAt, End, Gone, Own
  <1>2. CASE UNCHANGED vars
    BY <1>1, <1>2
  <1>3. ASSUME NEW h \in Handles, Quiet(h) PROVE Links(n, chain)'
    <2>1. \A g \in Handles : pc'[g] # pc[g] =>
            /\ pc[g] \notin {"link", "tail", "empty"} /\ pc'[g] \notin {"link", "tail", "empty"}
      BY <1>0, <1>3 DEF Quiet, QuietEdge, OthersStay
    <2>. QED
      BY <1>0, <1>1, <1>3, <2>1 DEF Quiet
  <1>4. ASSUME NEW r \in Receivers, Unlink(r) PROVE Links(n, chain)'
    <2>1. /\ Gone + 1 \in 1..n /\ succ[r] = NodeAt(n, chain, Gone + 2) /\ Gone' = Gone + 1
          /\ next' = [next EXCEPT ![Front] = succ[r]] /\ UNCHANGED sent
          /\ pc' = [pc EXCEPT ![r] = IF succ[r] = Back THEN "empty" ELSE "release"]
          /\ pc[r] = "unlink"
      BY <1>0, <1>4, UnlinkIs
    <2>2. next'[Front] = NodeAt(n, chain, Gone' + 1)
      BY <1>0, <2>1
    <2>3. \A i \in 1..n : i > Gone' => next'[chain[i]] = NodeAt(n, chain, i + 1)
      BY <1>0, <2>1 DEF Links
    <2>4. ASSUME \A s \in Senders : pc'[s] # "link", \A q \in Receivers : pc'[q] # "empty"
          PROVE  next'[Back] = End(n, chain)'
      <3>1. succ[r] # Back /\ pc'[r] # "empty"
        BY <1>0, <2>1, <2>4
      <3>2. Gone + 2 <= n
        BY <1>0, <2>1, <3>1 DEF NodeAt
      <3>3. next[Back] = End(n, chain)
        BY <1>0, <2>1, <2>4 DEF Links
      <3>. QED
        BY <1>0, <2>1, <3>2, <3>3 DEF End
    <2>5. \A s \in Senders : pc[s] \in {"tail", "link"} => Own(s) # Front
      BY OwnIsNew DEF UnlinkedPCs
    <2>6. \A s \in Senders : pc'[s] = pc[s] /\ Own(s)' = Own(s)
      BY <1>0, <2>1 DEF Own
    <2>7. \A s \in Senders : pc'[s] \in {"tail", "link"} => next'[Own(s)] = Back
      BY <1>0, <2>1, <2>5, <2>6 DEF Links
    <2>8. \A s \in Senders : pc'[s] = "link" => next'[Back] = Own(s)
      BY <1>0, <2>1, <2>6 DEF Links
    <2>. QED
      BY <2>2, <2>3, <2>4, <2>6, <2>7, <2>8 DEF Links, NodeAt
  <1>5. ASSUME NEW r \in Receivers, EmptyList(r) PROVE Links(n, chain)'
    <2>1. /\ pc[r] = "empty" /\ pc' = [pc EXCEPT ![r] = "release"]
          /\ next' = [next EXCEPT ![Back] = Front] /\ UNCHANGED <<received, sent>>
      BY <1>5 DEF EmptyList, SetNext
    <2>2. Gone = n /\ \A s \in Senders : pc[s] \notin BackPCs
      BY <1>0, <2>1, BackIsHeldOnce DEF PopsFit
    <2>3. next'[Back] = Front /\ next'[Front] = next[Front]
      BY <1>0, <2>1
    <2>4. \A s \in Senders : pc'[s] \notin {"tail", "link"}
      BY <1>0, <2>1, <2>2 DEF BackPCs
    <2>. QED
      BY <1>0, <2>1, <2>2, <2>3, <2>4 DEF Links, NodeAt, End, Gone
  <1>6. ASSUME NEW s \in Senders, LinkNode(s) PROVE Links(n, chain)'
    <2>1. /\ pc[s] = "node" /\ pc' = [pc EXCEPT ![s] = "tail"]
          /\ next' = [next EXCEPT ![Own(s)] = Back] /\ UNCHANGED <<received, sent>>
      BY <1>6 DEF LinkNode, SetNext
    <2>2. /\ Own(s) \in Nodes /\ Own(s) # Front /\ Own(s) # Back
          /\ \A i \in 1..n : chain[i] # Own(s)
          /\ \A t \in Senders : t # s => Own(t) # Own(s)
      BY <2>1, OwnIsNew DEF UnlinkedPCs
    <2>3. /\ next'[Front] = next[Front] /\ next'[Back] = next[Back] /\ next'[Own(s)] = Back
          /\ \A i \in 1..n : next'[chain[i]] = next[chain[i]]
          /\ Gone' = Gone /\ \A t \in Senders : Own(t)' = Own(t)
      BY <1>0, <2>1, <2>2 DEF Gone, Own
    <2>4. \A t \in Senders : pc'[t] \in {"tail", "link"} => next'[Own(t)] = Back
      <3>1. ASSUME NEW t \in Senders, t # s, pc'[t] \in {"tail", "link"}
            PROVE  pc[t] \in BackPCs
        BY <1>0, <2>1, <3>1 DEF BackPCs
      <3>2. pc[s] \in BackPCs
        BY <2>1 DEF BackPCs
      <3>. QED
        BY <2>3, <3>1, <3>2, BackIsHeldOnce
    <2>5. /\ \A t \in Senders : pc'[t] = "link" <=> pc[t] = "link"
          /\ \A r \in Receivers : pc'[r] = pc[r]
      BY <1>0, <2>1
    <2>. QED
      BY <2>3, <2>4, <2>5 DEF Links, NodeAt, End
  <1>7. ASSUME NEW s \in Senders, LinkBack(s) PROVE Links(n, chain)'
    <2>1. /\ pc[s] = "tail" /\ pc' = [pc EXCEPT ![s] = "link"]
          /\ next' = [next EXCEPT ![Back] = Own(s)] /\ UNCHANGED <<received, sent>>
      BY <1>7 DEF LinkBack, SetNext
    <2>2. Own(s) # Front /\ Own(s) # Back
      BY <2>1, OwnIsNew DEF UnlinkedPCs
    <2>3. /\ next'[Front] = next[Front] /\ next'[Back] = Own(s) /\ next'[Own(s)] = next[Own(s)]
          /\ \A i \in 1..n : next'[chain[i]] = next[chain[i]]
          /\ Gone' = Gone /\ \A t \in Senders : Own(t)' = Own(t)
      BY <1>0, <2>1, <2>2 DEF Gone, Own
    <2>4. \A t \in Senders \ {s} : pc'[t] \notin {"tail", "link"}
      <3>1. pc[s] \in BackPCs
        BY <2>1 DEF BackPCs
      <3>2. \A t \in Senders \ {s} : pc[t] \notin BackPCs
        BY <3>1, BackIsHeldOnce
      <3>. QED
        BY <1>0, <2>1, <3>2 DEF BackPCs
    <2>5. pc'[s] = "link"
      BY <1>0, <2>1
    <2>. QED
      BY <2>1, <2>3, <2>4, <2>5 DEF Links, NodeAt
  <1>8. ASSUME NEW r \in Receivers, PopActs(r), ~Unlink(r), ~EmptyList(r) PROVE Links(n, chain)'
    <2>1. UNCHANGED <<next, received, sent>> /\ \A s \in Senders : pc'[s] = pc[s]
      BY <1>0, <1>8
      DEF PopActs, Reserve, AccessFront, ReadFront, DeclareTake, ReadSucc, AccessSucc, ReleaseSucc,
        ReleaseFront, Take
    <2>2. \A q \in Receivers : pc'[q] # "empty" => pc[q] # "empty"
      BY <1>0, <1>8
      DEF PopActs, Reserve, AccessFront, ReadFront, DeclareTake, ReadSucc, AccessSucc, ReleaseSucc,
        ReleaseFront, Take
    <2>. QED
      BY <1>1, <2>1, <2>2
  <1>9. ASSUME NEW s \in Senders, PushActs(s), ~LinkNode(s), ~LinkBack(s), ~LinkLast(s)
        PROVE  Links(n, chain)'
    <2>1. UNCHANGED <<next, received>> /\ \A r \in Receivers : pc'[r] = pc[r]
      BY <1>0, <1>9
      DEF PushActs, Send, CountPush, AccessBack, ReadLast, AccessLast, YieldBack, ReleaseLast,
        ReleaseBack
    <2>2. \A t \in Senders :
            /\ t # s => pc'[t] = pc[t] /\ sent'[t] = sent[t]
            /\ t = s => pc[t] \notin {"tail", "link"} /\ pc'[t] \notin {"tail", "link"}
      <3>1. sent \in [Senders -> Nat]
        BY DEF Types
      <3>. QED
        BY <1>0, <1>9, <3>1
        DEF PushActs, Send, CountPush, AccessBack, ReadLast, AccessLast, YieldBack, ReleaseLast,
          ReleaseBack
    <2>. QED
      BY <1>1, <2>1, <2>2
  <1>. QED
    BY <1>2, <1>3, <1>4, <1>5, <1>6, <1>7, <1>8, <1>9, StepKinds DEF PushActs

\* What a pop has read stays true until it acts on it.
LEMMA PopsStep ==
  ASSUME Types, FlagsHold, NEW n \in Nat, NEW chain \in [1..n -> Values], ListFits(n, chain),
         [Next]_vars, \A s \in Senders : ~LinkLast(s)
  PROVE  PopsFit(n, chain)'
  <1>a. Order(n, chain) /\ Links(n, chain) /\ PopsFit(n, chain) /\ Counted(n)
    BY DEF ListFits
  <1>b. Gone \in Nat /\ Gone <= n /\ \A i \in 1..n : chain[i] # Front
    BY <1>a, ChainIs
  <1>0. /\ Gone \in Nat /\ Gone <= n /\ DOMAIN pc = Handles
        /\ Senders \subseteq Handles /\ Receivers \subseteq Handles /\ Senders \cap Receivers = {}
        /\ Front # Back /\ front \in [Receivers -> Nodes] /\ succ \in [Receivers -> Nodes]
        /\ \A i \in 1..n : chain[i] # Front
        /\ Order(n, chain) /\ Links(n, chain) /\ PopsFit(n, chain) /\ Counted(n)
    BY <1>a, <1>b, Names DEF Types
  <1>. USE DEF At, Goto
  <1>1. ASSUME UNCHANGED <<received, front, succ>>, \A r \in Receivers : pc'[r] = pc[r]
        PROVE  PopsFit(n, chain)'
    BY <1>0, <1>1 DEF PopsFit, NodeAt, Gone
  <1>2. CASE UNCHANGED vars
    BY <1>1, <1>2
  <1>3. ASSUME NEW s \in Senders, PushActs(s) PROVE PopsFit(n, chain)'
    BY <1>0, <1>1, <1>3
    DEF PushActs, Send, CountPush, AccessBack, ReadLast, AccessLast, YieldBack, LinkNode, LinkBack,
      LinkLast, ReleaseLast, ReleaseBack
  \* A pop that moves on without reading.
  <1>4. ASSUME UNCHANGED <<received, front, succ>>,
               NEW r \in Receivers, \A q \in Receivers \ {r} : pc'[q] = pc[q],
               <<pc[r], pc'[r]>> \in
                 {<<"lock", "front">>, <<"front", "read">>, <<"declare", "succ">>,
                  <<"access", "unlink">>, <<"empty", "release">>, <<"release", "open">>,
                  <<"open", "chain">>, <<"take", "idle">>}
        PROVE  PopsFit(n, chain)'
    <2>1. \A q \in Receivers \ {r} :
            /\ pc'[q] \in {"declare", "succ", "access", "unlink"} =>
                 Gone < n /\ front[q] = chain[Gone + 1]
            /\ pc'[q] \in {"access", "unlink"} => succ[q] = NodeAt(n, chain, Gone + 2)
            /\ pc'[q] = "empty" => succ[q] = Back /\ Gone = n
            /\ pc'[q] = "release" => succ[q] # Front
            /\ pc'[q] \in {"empty", "release", "open", "chain", "take"} =>
                 \E i \in 1..Gone : front[q] = chain[i]
      BY <1>0, <1>4 DEF PopsFit
    <2>2. /\ pc'[r] \in {"declare", "succ", "access", "unlink"} =>
               Gone < n /\ front[r] = chain[Gone + 1]
          /\ pc'[r] \in {"access", "unlink"} => succ[r] = NodeAt(n, chain, Gone + 2)
          /\ pc'[r] # "empty"
          /\ pc'[r] = "release" => succ[r] # Front
          /\ pc'[r] \in {"empty", "release", "open", "chain", "take"} =>
               \E i \in 1..Gone : front[r] = chain[i]
      BY <1>0, <1>4 DEF PopsFit
    <2>. QED
      BY <1>4, <2>1, <2>2 DEF PopsFit, NodeAt, Gone
  <1>5. ASSUME NEW r \in Receivers,
               \/ Reserve(r) \/ AccessFront(r) \/ DeclareTake(r) \/ AccessSucc(r) \/ EmptyList(r)
               \/ ReleaseSucc(r) \/ ReleaseFront(r) \/ Take(r)
        PROVE  PopsFit(n, chain)'
    <2>1. /\ UNCHANGED <<received, front, succ>> /\ \A q \in Receivers \ {r} : pc'[q] = pc[q]
          /\ <<pc[r], pc'[r]>> \in
                 {<<"lock", "front">>, <<"front", "read">>, <<"declare", "succ">>,
                  <<"access", "unlink">>, <<"empty", "release">>, <<"release", "open">>,
                  <<"open", "chain">>, <<"take", "idle">>}
      BY <1>0, <1>5
      DEF Reserve, AccessFront, DeclareTake, AccessSucc, EmptyList, ReleaseSucc, ReleaseFront, Take
    <2>. QED
      BY <1>4, <2>1
  <1>6. ASSUME NEW h \in Handles, Quiet(h) PROVE PopsFit(n, chain)'
    <2>1. /\ UNCHANGED <<received, front, succ>>
          /\ \A r \in Receivers :
               \/ pc'[r] = pc[r]
               \/ pc'[r] \notin {"declare", "succ", "access", "unlink", "empty", "release", "open",
                                 "chain", "take"}
               \/ pc[r] = "chain" /\ pc'[r] = "take"
      BY <1>0, <1>6 DEF Quiet, QuietEdge, OthersStay
    <2>. QED
      BY <1>0, <2>1 DEF PopsFit, NodeAt, Gone
  \* The reservation of the pop itself counts: the list is not empty.
  <1>7. ASSUME NEW r \in Receivers, ReadFront(r) PROVE PopsFit(n, chain)'
    <2>1. /\ pc[r] = "read" /\ pc' = [pc EXCEPT ![r] = "declare"]
          /\ front' = [front EXCEPT ![r] = next[Front]] /\ UNCHANGED <<received, succ>>
      BY <1>7 DEF ReadFront
    <2>2. Gone < n
      <3>1. Reserved \in Nat /\ Reserved # 0 /\ Uncounted \in Nat /\ len \in Nat
        <4>. DEFINE R == {q \in Receivers : pc[q] \in
                            {"front", "read", "declare", "succ", "access", "unlink"}}
                    U == {s \in Senders : pc[s] \in {"leave", "open", "count"}}
        <4>1. IsFiniteSet(R) /\ IsFiniteSet(U) /\ r \in R
          BY <2>1, Names, FS_Subset
        <4>2. Cardinality(R) \in Nat /\ Cardinality(R) # 0 /\ Cardinality(U) \in Nat
          BY <4>1, FS_CardinalityType, FS_EmptySet
        <4>. QED
          BY <4>2 DEF Reserved, Uncounted, Types
      <3>. QED
        BY <1>0, <3>1 DEF Counted
    <2>3. next[Front] = chain[Gone + 1]
      BY <1>0, <2>2 DEF Links, NodeAt
    <2>4. front'[r] = chain[Gone + 1] /\ pc'[r] = "declare" /\ Gone' = Gone
      BY <1>0, <2>1, <2>3 DEF Gone
    <2>5. \A q \in Receivers \ {r} : pc'[q] = pc[q] /\ front'[q] = front[q] /\ succ'[q] = succ[q]
      BY <1>0, <2>1
    <2>. QED
      BY <1>0, <2>2, <2>4, <2>5 DEF PopsFit, NodeAt
  <1>8. ASSUME NEW r \in Receivers, ReadSucc(r) PROVE PopsFit(n, chain)'
    <2>1. /\ pc[r] = "succ" /\ pc' = [pc EXCEPT ![r] = "access"]
          /\ succ' = [succ EXCEPT ![r] = next[front[r]]] /\ UNCHANGED <<received, front>>
      BY <1>8 DEF ReadSucc
    <2>2. Gone < n /\ front[r] = chain[Gone + 1]
      BY <1>0, <2>1 DEF PopsFit
    <2>3. next[front[r]] = NodeAt(n, chain, Gone + 2)
      BY <1>0, <2>2 DEF Links
    <2>4. /\ succ'[r] = NodeAt(n, chain, Gone + 2) /\ pc'[r] = "access" /\ Gone' = Gone
          /\ front'[r] = front[r]
      BY <1>0, <2>1, <2>3 DEF Gone
    <2>5. \A q \in Receivers \ {r} : pc'[q] = pc[q] /\ front'[q] = front[q] /\ succ'[q] = succ[q]
      BY <1>0, <2>1
    <2>. QED
      BY <1>0, <2>2, <2>4, <2>5 DEF PopsFit, NodeAt
  <1>9. ASSUME NEW r \in Receivers, Unlink(r) PROVE PopsFit(n, chain)'
    <2>1. /\ Gone + 1 \in 1..n /\ front[r] = chain[Gone + 1] /\ Gone' = Gone + 1
          /\ succ[r] = NodeAt(n, chain, Gone + 2) /\ succ[r] # Front
          /\ \A q \in Receivers \ {r} : pc[q] \notin FrontPCs
          /\ UNCHANGED <<front, succ>>
          /\ pc' = [pc EXCEPT ![r] = IF succ[r] = Back THEN "empty" ELSE "release"]
      BY <1>0, <1>9, UnlinkIs
    <2>2. succ[r] = Back => Gone + 1 = n
      BY <1>0, <2>1, Names DEF NodeAt
    <2>3. /\ pc'[r] \in {"empty", "release"} /\ (pc'[r] = "empty" <=> succ[r] = Back)
          /\ \A q \in Receivers \ {r} : pc'[q] = pc[q]
      BY <1>0, <2>1
    <2>4. \A q \in Receivers \ {r} :
            /\ pc'[q] \notin {"declare", "succ", "access", "unlink", "empty", "release", "open"}
            /\ pc'[q] \in {"chain", "take"} => \E i \in 1..Gone' : front[q] = chain[i]
      BY <1>0, <2>1, <2>3 DEF PopsFit, FrontPCs
    <2>5. \E i \in 1..Gone' : front[r] = chain[i]
      BY <1>0, <2>1
    <2>. QED
      BY <2>1, <2>2, <2>3, <2>4, <2>5 DEF PopsFit
  <1>. QED
    BY <1>2, <1>3, <1>5, <1>6, <1>7, <1>8, <1>9, StepKinds DEF PopActs

\* A push that has read the last node links its own after that one.
LEMMA PushesStep ==
  ASSUME Types, FlagsHold, NEW n \in Nat, NEW chain \in [1..n -> Values], ListFits(n, chain),
         [Next]_vars, \A s \in Senders : ~LinkLast(s)
  PROVE  PushesFit(n, chain)'
  <1>0. /\ Gone \in Nat /\ Gone <= n /\ DOMAIN pc = Handles
        /\ Senders \subseteq Handles /\ Receivers \subseteq Handles /\ Senders \cap Receivers = {}
        /\ Front # Back /\ last \in [Senders -> Nodes]
        /\ Order(n, chain) /\ Links(n, chain) /\ PopsFit(n, chain) /\ PushesFit(n, chain)
    BY ChainIs, Names DEF Types, ListFits
  <1>. USE DEF At, Goto
  <1>1. ASSUME UNCHANGED <<received, last>>,
               \A s \in Senders : \/ pc'[s] = pc[s]
                                  \/ pc'[s] \notin {"join", "yield", "node", "tail", "link",
                                                "leave"}
                                  \/ pc[s] \in {"join", "node", "tail"} /\ pc'[s] # "leave"
        PROVE  PushesFit(n, chain)'
    BY <1>0, <1>1 DEF PushesFit, End, Gone
  <1>2. CASE UNCHANGED vars
    BY <1>1, <1>2
  <1>3. ASSUME NEW h \in Handles, Quiet(h) PROVE PushesFit(n, chain)'
    BY <1>0, <1>1, <1>3 DEF Quiet, QuietEdge, OthersStay
  <1>4. ASSUME NEW s \in Senders, PushActs(s), ~ReadLast(s), ~LinkLast(s)
        PROVE  PushesFit(n, chain)'
    BY <1>0, <1>1, <1>4
    DEF PushActs, Send, CountPush, AccessBack, AccessLast, YieldBack, LinkNode, LinkBack,
      ReleaseLast, ReleaseBack
  <1>5. ASSUME NEW r \in Receivers, PopActs(r), ~Unlink(r) PROVE PushesFit(n, chain)'
    BY <1>0, <1>1, <1>5
    DEF PopActs, Reserve, AccessFront, ReadFront, DeclareTake, ReadSucc, AccessSucc, EmptyList,
      ReleaseSucc, ReleaseFront, Take
  <1>6. ASSUME NEW s \in Senders, ReadLast(s) PROVE PushesFit(n, chain)'
    <2>1. /\ pc[s] = "last" /\ pc' = [pc EXCEPT ![s] = "join"]
          /\ last' = [last EXCEPT ![s] = next[Back]] /\ UNCHANGED received
      BY <1>6 DEF ReadLast
    <2>2. /\ \A t \in Senders \ {s} : pc[t] \notin BackPCs
          /\ \A r \in Receivers : pc[r] # "empty"
      BY <1>0, <2>1, BackIsHeldOnce DEF BackPCs
    <2>3. next[Back] = End(n, chain)
      BY <1>0, <2>1, <2>2 DEF Links, BackPCs
    <2>. QED
      BY <1>0, <2>1, <2>2, <2>3 DEF PushesFit, End, Gone, BackPCs
  <1>7. ASSUME NEW r \in Receivers, Unlink(r) PROVE PushesFit(n, chain)'
    <2>1. /\ Gone + 1 \in 1..n /\ Gone' = Gone + 1 /\ succ[r] = NodeAt(n, chain, Gone + 2)
          /\ succ[r] = Back => \A s \in Senders : pc[s] \notin BackPCs
          /\ UNCHANGED last
          /\ pc' = [pc EXCEPT ![r] = IF succ[r] = Back THEN "empty" ELSE "release"]
      BY <1>0, <1>7, UnlinkIs
    <2>2. \A s \in Senders : pc'[s] = pc[s]
      BY <1>0, <2>1
    <2>3. CASE succ[r] = Back
      BY <2>1, <2>2, <2>3 DEF PushesFit, BackPCs
    <2>4. CASE succ[r] # Back
      <3>1. Gone + 2 <= n
        BY <1>0, <2>1, <2>4 DEF NodeAt
      <3>2. End(n, chain)' = End(n, chain)
        BY <1>0, <2>1, <3>1 DEF End
      <3>. QED
        BY <1>0, <2>1, <2>2, <3>2 DEF PushesFit
    <2>. QED
      BY <2>3, <2>4
  <1>. QED
    BY <1>2, <1>3, <1>4, <1>5, <1>6, <1>7, StepKinds

\* A node is taken after it was unlinked.
LEMMA TakenStep ==
  ASSUME Types, FlagsHold, NEW n \in Nat, NEW chain \in [1..n -> Values], ListFits(n, chain),
         [Next]_vars
  PROVE  TakenFit(n, chain)'
  <1>0. /\ Gone \in Nat /\ flag \in [Nodes -> Flags] /\ PopsFit(n, chain) /\ TakenFit(n, chain)
        /\ Gone <= n
    BY DEF Types, Gone, ListFits, Order
  <1>1. Gone' \in Nat /\ Gone <= Gone'
    <2>1. CASE \E r \in Receivers : Unlink(r)
      BY <1>0, <2>1, UnlinkIs
    <2>2. CASE \A r \in Receivers : ~Unlink(r)
      BY <1>0, <2>2, StepsKeep DEF Gone
    <2>. QED
      BY <2>1, <2>2
  <1>. USE DEF At, Goto
  <1>2. ASSUME \A m \in Nodes : flag'[m] = "Taken" => flag[m] = "Taken" PROVE TakenFit(n, chain)'
    BY <1>0, <1>1, <1>2 DEF TakenFit
  <1>3. CASE UNCHANGED vars
    BY <1>2, <1>3
  <1>4. ASSUME NEW h \in Handles, Quiet(h) PROVE TakenFit(n, chain)'
    BY <1>2, <1>4 DEF Quiet
  <1>5. ASSUME NEW r \in Receivers, Take(r) PROVE TakenFit(n, chain)'
    <2>1. /\ pc[r] = "take" /\ flag' = [flag EXCEPT ![front[r]] = "Taken"]
      BY <1>5 DEF Take, TryTake, Cas
    <2>2. \E i \in 1..Gone : front[r] = chain[i]
      BY <1>0, <2>1 DEF PopsFit
    <2>. QED
      BY <1>0, <1>1, <2>1, <2>2 DEF TakenFit
  <1>6. ASSUME NEW r \in Receivers, PopActs(r), ~Take(r) PROVE TakenFit(n, chain)'
    <2>1. \A m \in Nodes : flag'[m] = "Taken" => flag[m] = "Taken"
      BY <1>0, <1>6
      DEF PopActs, Reserve, AccessFront, ReadFront, DeclareTake, ReadSucc, AccessSucc, Unlink,
        EmptyList, ReleaseSucc, ReleaseFront, TryAccess, TryDeclareTake, Release, Cas
    <2>. QED
      BY <1>2, <2>1
  <1>7. ASSUME NEW s \in Senders, PushActs(s) PROVE TakenFit(n, chain)'
    <2>1. \A m \in Nodes : flag'[m] = "Taken" => flag[m] = "Taken"
      BY <1>0, <1>7
      DEF PushActs, Send, CountPush, AccessBack, ReadLast, AccessLast, YieldBack, LinkNode,
        LinkBack, LinkLast, ReleaseLast, ReleaseBack, TryAccess, Release, Cas
    <2>. QED
      BY <1>2, <2>1
  <1>. QED
    BY <1>3, <1>4, <1>5, <1>6, <1>7, StepKinds
-----------------------------------------------------------------------------
(* The counts.                                                             *)

\* A pop that reserves a node, one that unlinks it, and everyone else.
LEMMA ReservedIs ==
  /\ Reserved \in Nat
  /\ \A r \in Receivers : pc[r] \in ReservedPCs => Reserved > 0
  /\ (\A r \in Receivers : pc'[r] \in ReservedPCs <=> pc[r] \in ReservedPCs) =>
       Reserved' = Reserved
  /\ \A q \in Receivers :
       (\A r \in Receivers \ {q} : pc'[r] \in ReservedPCs <=> pc[r] \in ReservedPCs) =>
         /\ pc[q] \notin ReservedPCs /\ pc'[q] \in ReservedPCs => Reserved' = Reserved + 1
         /\ pc[q] \in ReservedPCs /\ pc'[q] \notin ReservedPCs => Reserved' = Reserved - 1
  <1>. DEFINE R == {r \in Receivers : pc[r] \in ReservedPCs}
              T == {r \in Receivers : pc'[r] \in ReservedPCs}
  <1>1. Reserved = Cardinality(R) /\ Reserved' = Cardinality(T)
    BY DEF Reserved, ReservedPCs
  <1>2. IsFiniteSet(R) /\ IsFiniteSet(T)
    BY Names, FS_Subset
  <1>3. Cardinality(R) \in Nat /\ Cardinality(T) \in Nat
    BY <1>2, FS_CardinalityType
  <1>4. ASSUME NEW r \in Receivers, pc[r] \in ReservedPCs PROVE Cardinality(R) # 0
    BY <1>2, <1>4, FS_EmptySet
  <1>5. ASSUME NEW q \in Receivers,
               \A r \in Receivers \ {q} : pc'[r] \in ReservedPCs <=> pc[r] \in ReservedPCs,
               pc[q] \notin ReservedPCs, pc'[q] \in ReservedPCs
        PROVE  Cardinality(T) = Cardinality(R) + 1
    <2>1. T = R \cup {q} /\ q \notin R
      BY <1>5
    <2>. QED
      BY <1>2, <2>1, FS_AddElement
  <1>6. ASSUME NEW q \in Receivers,
               \A r \in Receivers \ {q} : pc'[r] \in ReservedPCs <=> pc[r] \in ReservedPCs,
               pc[q] \in ReservedPCs, pc'[q] \notin ReservedPCs
        PROVE  Cardinality(T) = Cardinality(R) - 1
    <2>1. T = R \ {q} /\ q \in R
      BY <1>6
    <2>. QED
      BY <1>2, <2>1, FS_RemoveElement
  <1>7. (\A r \in Receivers : pc'[r] \in ReservedPCs <=> pc[r] \in ReservedPCs) => T = R
    OBVIOUS
  <1>8. \A r \in Receivers : pc[r] \in ReservedPCs => Reserved > 0
    BY <1>1, <1>3, <1>4
  <1>. HIDE DEF R, T
  <1>. QED
    BY <1>1, <1>3, <1>5, <1>6, <1>7, <1>8

\* A push that links a node, one that counts it, and everyone else.
LEMMA UncountedIs ==
  /\ Uncounted \in Nat
  /\ (\A s \in Senders : pc'[s] \in UncountedPCs <=> pc[s] \in UncountedPCs) =>
       Uncounted' = Uncounted
  /\ \A t \in Senders :
       (\A s \in Senders \ {t} : pc'[s] \in UncountedPCs <=> pc[s] \in UncountedPCs) =>
         /\ pc[t] \notin UncountedPCs /\ pc'[t] \in UncountedPCs => Uncounted' = Uncounted + 1
         /\ pc[t] \in UncountedPCs /\ pc'[t] \notin UncountedPCs => Uncounted' = Uncounted - 1
  <1>. DEFINE U == {s \in Senders : pc[s] \in UncountedPCs}
              W == {s \in Senders : pc'[s] \in UncountedPCs}
  <1>1. Uncounted = Cardinality(U) /\ Uncounted' = Cardinality(W)
    BY DEF Uncounted, UncountedPCs
  <1>2. IsFiniteSet(U) /\ IsFiniteSet(W)
    BY Names, FS_Subset
  <1>3. Cardinality(U) \in Nat /\ Cardinality(W) \in Nat
    BY <1>2, FS_CardinalityType
  <1>4. ASSUME NEW t \in Senders,
               \A s \in Senders \ {t} : pc'[s] \in UncountedPCs <=> pc[s] \in UncountedPCs,
               pc[t] \notin UncountedPCs, pc'[t] \in UncountedPCs
        PROVE  Cardinality(W) = Cardinality(U) + 1
    <2>1. W = U \cup {t} /\ t \notin U
      BY <1>4
    <2>. QED
      BY <1>2, <2>1, FS_AddElement
  <1>5. ASSUME NEW t \in Senders,
               \A s \in Senders \ {t} : pc'[s] \in UncountedPCs <=> pc[s] \in UncountedPCs,
               pc[t] \in UncountedPCs, pc'[t] \notin UncountedPCs
        PROVE  Cardinality(W) = Cardinality(U) - 1
    <2>1. W = U \ {t} /\ t \in U
      BY <1>5
    <2>. QED
      BY <1>2, <2>1, FS_RemoveElement
  <1>6. (\A s \in Senders : pc'[s] \in UncountedPCs <=> pc[s] \in UncountedPCs) => W = U
    OBVIOUS
  <1>. QED
    BY <1>1, <1>3, <1>4, <1>5, <1>6

\* len, the reservations and the uncounted nodes add up to the list.
LEMMA CountStep ==
  ASSUME Types, FlagsHold, NEW n \in Nat, NEW chain \in [1..n -> Values], ListFits(n, chain),
         [Next]_vars, \A s \in Senders : ~LinkLast(s)
  PROVE  Counted(n)'
  <1>0. /\ Gone \in Nat /\ Gone <= n /\ len \in Nat /\ Reserved \in Nat /\ Uncounted \in Nat
        /\ PopsFit(n, chain) /\ len + Reserved + Uncounted = n - Gone
    BY ReservedIs, UncountedIs, ChainIs DEF Types, ListFits, Counted
  <1>a. /\ Senders \subseteq Handles /\ Receivers \subseteq Handles /\ Senders \cap Receivers = {}
        /\ DOMAIN pc = Handles
    BY Names DEF Types
  <1>. USE DEF At, Goto
  <1>1. ASSUME UNCHANGED <<len, received>>,
               \A r \in Receivers : pc'[r] \in ReservedPCs <=> pc[r] \in ReservedPCs,
               \A s \in Senders : pc'[s] \in UncountedPCs <=> pc[s] \in UncountedPCs
        PROVE  Counted(n)'
    <2>1. Reserved' = Reserved
      BY <1>1, ReservedIs
    <2>2. Uncounted' = Uncounted
      BY <1>1, UncountedIs
    <2>. QED
      BY <1>0, <1>1, <2>1, <2>2 DEF Counted, Gone
  <1>2. CASE UNCHANGED vars
    BY <1>1, <1>2
  <1>3. ASSUME NEW h \in Handles, Quiet(h) PROVE Counted(n)'
    <2>1. \A g \in Handles \ {h} :
            \/ pc'[g] = pc[g]
            \/ pc'[g] = "lock" /\ pc[g] = "wait" /\ g \in Receivers
      BY <1>3 DEF Quiet, OthersStay
    <2>2. h \in Receivers => (pc'[h] \in ReservedPCs <=> pc[h] \in ReservedPCs)
      <3>1. h \in Receivers => QuietEdge(h) /\ h \notin Senders
        BY <1>a, <1>3 DEF Quiet
      <3>. QED
        BY <3>1 DEF QuietEdge, ReservedPCs
    <2>3. h \in Senders => (pc'[h] \in UncountedPCs <=> pc[h] \in UncountedPCs)
      <3>1. h \in Senders => QuietEdge(h) /\ h \notin Receivers
        BY <1>a, <1>3 DEF Quiet
      <3>. QED
        BY <3>1 DEF QuietEdge, UncountedPCs
    <2>4. \A r \in Receivers : pc'[r] \in ReservedPCs <=> pc[r] \in ReservedPCs
      BY <1>a, <2>1, <2>2 DEF ReservedPCs
    <2>5. \A s \in Senders : pc'[s] \in UncountedPCs <=> pc[s] \in UncountedPCs
      BY <1>a, <2>1, <2>3 DEF UncountedPCs
    <2>. QED
      BY <1>1, <1>3, <2>4, <2>5 DEF Quiet
  <1>4. ASSUME NEW r \in Receivers, Reserve(r) PROVE Counted(n)'
    <2>1. /\ pc[r] = "lock" /\ pc' = [pc EXCEPT ![r] = "front"] /\ len > 0 /\ len' = len - 1
          /\ UNCHANGED received
      BY <1>4 DEF Reserve
    <2>2. Reserved' = Reserved + 1
      BY <1>a, <2>1, ReservedIs DEF ReservedPCs
    <2>3. Uncounted' = Uncounted
      BY <1>a, <2>1, UncountedIs
    <2>. QED
      BY <1>0, <2>1, <2>2, <2>3 DEF Counted, Gone
  <1>5. ASSUME NEW r \in Receivers, Unlink(r) PROVE Counted(n)'
    <2>1. /\ pc[r] = "unlink" /\ UNCHANGED len /\ Gone' = Gone + 1
          /\ pc' = [pc EXCEPT ![r] = IF succ[r] = Back THEN "empty" ELSE "release"]
      BY <1>0, <1>5, UnlinkIs
    <2>2. pc'[r] \in {"empty", "release"} /\ \A h \in Handles \ {r} : pc'[h] = pc[h]
      BY <1>a, <2>1
    <2>3. Reserved' = Reserved - 1
      BY <1>a, <2>1, <2>2, ReservedIs DEF ReservedPCs
    <2>4. Uncounted' = Uncounted
      BY <1>a, <2>2, UncountedIs
    <2>. QED
      BY <1>0, <2>1, <2>3, <2>4 DEF Counted
  <1>6. ASSUME NEW r \in Receivers, PopActs(r), ~Reserve(r), ~Unlink(r) PROVE Counted(n)'
    <2>1. UNCHANGED <<len, received>> /\ \A s \in Senders : pc'[s] = pc[s]
      BY <1>a, <1>6
      DEF PopActs, AccessFront, ReadFront, DeclareTake, ReadSucc, AccessSucc, EmptyList,
        ReleaseSucc, ReleaseFront, Take
    <2>2. \A q \in Receivers : pc'[q] \in ReservedPCs <=> pc[q] \in ReservedPCs
      BY <1>a, <1>6
      DEF PopActs, AccessFront, ReadFront, DeclareTake, ReadSucc, AccessSucc, EmptyList,
        ReleaseSucc, ReleaseFront, Take, ReservedPCs
    <2>. QED
      BY <1>1, <2>1, <2>2
  <1>7. ASSUME NEW s \in Senders, CountPush(s) PROVE Counted(n)'
    <2>1. /\ pc[s] = "count" /\ len' = len + 1 /\ UNCHANGED received
          /\ pc' = [pc EXCEPT ![s] = IF len = 0 THEN "notify" ELSE "sent"]
      BY <1>7 DEF CountPush
    <2>2. pc'[s] \in {"notify", "sent"} /\ \A h \in Handles \ {s} : pc'[h] = pc[h]
      BY <1>a, <2>1
    <2>3. Uncounted' = Uncounted - 1
      BY <1>a, <2>1, <2>2, UncountedIs DEF UncountedPCs
    <2>4. Reserved' = Reserved
      BY <1>a, <2>2, ReservedIs
    <2>. QED
      BY <1>0, <2>1, <2>3, <2>4 DEF Counted, Gone
  <1>8. ASSUME NEW s \in Senders, PushActs(s), ~CountPush(s), ~LinkLast(s) PROVE Counted(n)'
    <2>1. UNCHANGED <<len, received>> /\ \A r \in Receivers : pc'[r] = pc[r]
      BY <1>a, <1>8
      DEF PushActs, Send, AccessBack, ReadLast, AccessLast, YieldBack, LinkNode, LinkBack,
        ReleaseLast, ReleaseBack
    <2>2. \A t \in Senders : pc'[t] \in UncountedPCs <=> pc[t] \in UncountedPCs
      BY <1>a, <1>8
      DEF PushActs, Send, AccessBack, ReadLast, AccessLast, YieldBack, LinkNode, LinkBack,
        ReleaseLast, ReleaseBack, UncountedPCs
    <2>. QED
      BY <1>1, <2>1, <2>2
  <1>. QED
    BY <1>2, <1>3, <1>4, <1>5, <1>6, <1>7, <1>8, StepKinds
-----------------------------------------------------------------------------
(* The link of a node, and the invariant.                                  *)

\* What a sender knows when it links its node behind the last one.
LEMMA LinkIs ==
  ASSUME Types, FlagsHold, NEW n \in Nat, NEW chain \in [1..n -> Values], ListFits(n, chain),
         NEW s \in Senders, LinkLast(s)
  PROVE  /\ pc[s] = "link" /\ pc' = [pc EXCEPT ![s] = "leave"]
         /\ next' = [next EXCEPT ![last[s]] = Own(s)]
         /\ UNCHANGED <<flag, len, front, succ, last, sent, received>>
         /\ last[s] = End(n, chain) /\ last[s] \in Nodes /\ last[s] # Back /\ last[s] # Own(s)
         /\ next[Own(s)] = Back /\ next[Back] = Own(s)
         /\ Own(s) \in Values /\ Own(s) # Front /\ Own(s) # Back
         /\ \A i \in 1..n : chain[i] # Own(s)
         /\ \A t \in Senders \ {s} : pc[t] \notin BackPCs
         /\ \A r \in Receivers : pc[r] # "empty"
         /\ \A r \in Receivers : pc[r] \in TakingPCs => front[r] # last[s]
  <1>1. /\ pc[s] = "link" /\ pc' = [pc EXCEPT ![s] = "leave"]
        /\ next' = [next EXCEPT ![last[s]] = Own(s)]
        /\ UNCHANGED <<flag, len, front, succ, last, sent, received>>
    BY DEF LinkLast, At, Goto, SetNext
  <1>2. /\ Order(n, chain) /\ Links(n, chain) /\ PopsFit(n, chain) /\ PushesFit(n, chain)
    BY DEF ListFits
  <1>3. last[s] = End(n, chain) /\ next[Own(s)] = Back /\ next[Back] = Own(s)
    BY <1>1, <1>2 DEF PushesFit, Links
  <1>4. /\ Own(s) \in Values /\ Own(s) # Front /\ Own(s) # Back
        /\ \A i \in 1..n : chain[i] # Own(s)
    BY <1>1, <1>2, OwnIsNew DEF UnlinkedPCs
  <1>5. last[s] = Front \/ \E i \in 1..n : last[s] = chain[i]
    BY <1>2, <1>3, ChainIs DEF End
  <1>6. last[s] # Back /\ last[s] # Own(s) /\ last[s] \in Nodes
    BY <1>2, <1>4, <1>5, ChainIs, Names
  <1>7. /\ \A t \in Senders \ {s} : pc[t] \notin BackPCs
        /\ \A r \in Receivers : pc[r] # "empty"
    BY <1>1, <1>2, BackIsHeldOnce DEF BackPCs
  <1>8. flag[last[s]] = "Accessed"
    BY <1>1, <1>6, Names DEF FlagsHold, Accesses, LastPCs
  <1>9. ASSUME NEW r \in Receivers, pc[r] \in TakingPCs, front[r] = last[s] PROVE FALSE
    <2>1. Takes(r, last[s])
      BY <1>9 DEF Takes
    <2>. QED
      BY <1>6, <1>8, <2>1 DEF FlagsHold
  <1>. QED
    BY <1>1, <1>3, <1>4, <1>6, <1>7, <1>9

\* A link makes the chain longer by the node of the sender.
LEMMA LinkStep ==
  ASSUME Types, FlagsHold, NEW n \in Nat, NEW chain \in [1..n -> Values], ListFits(n, chain),
         NEW s \in Senders, LinkLast(s), [Next]_vars,
         NEW longer \in [1..(n + 1) -> Values],
         \A i \in 1..n : longer[i] = chain[i], longer[n + 1] = Own(s)
  PROVE  ListFits(n + 1, longer)'
  <1>0. /\ pc[s] = "link" /\ pc' = [pc EXCEPT ![s] = "leave"]
        /\ next' = [next EXCEPT ![last[s]] = Own(s)]
        /\ UNCHANGED <<flag, len, front, succ, last, sent, received>>
        /\ last[s] = End(n, chain) /\ last[s] \in Nodes /\ last[s] # Back /\ last[s] # Own(s)
        /\ next[Own(s)] = Back /\ next[Back] = Own(s)
        /\ Own(s) \in Values /\ Own(s) # Front /\ Own(s) # Back
        /\ \A i \in 1..n : chain[i] # Own(s)
        /\ \A t \in Senders \ {s} : pc[t] \notin BackPCs
        /\ \A r \in Receivers : pc[r] # "empty"
        /\ \A r \in Receivers : pc[r] \in TakingPCs => front[r] # last[s]
    BY LinkIs
  <1>a. /\ Order(n, chain) /\ Links(n, chain) /\ PopsFit(n, chain) /\ PushesFit(n, chain)
        /\ TakenFit(n, chain) /\ Counted(n)
    BY DEF ListFits
  <1>b. /\ Gone \in Nat /\ Gone <= n /\ Gone' = Gone
        /\ \A i \in 1..n : chain[i] \in Nodes /\ chain[i] # Front /\ chain[i] # Back
    BY <1>0, <1>a, ChainIs DEF Gone
  <1>c. /\ DOMAIN pc = Handles /\ s \in Handles /\ Senders \subseteq Handles
        /\ Receivers \subseteq Handles /\ Senders \cap Receivers = {}
        /\ next \in [Nodes -> Nodes] /\ Front \in Nodes /\ Back \in Nodes /\ Front # Back
        /\ Own(s) \in Nodes
    BY <1>0, Names DEF Types
  <1>d. /\ pc'[s] = "leave" /\ \A h \in Handles \ {s} : pc'[h] = pc[h]
        /\ \A r \in Receivers : pc'[r] = pc[r]
    BY <1>0, <1>c
  <1>e. /\ next'[last[s]] = Own(s) /\ \A m \in Nodes \ {last[s]} : next'[m] = next[m]
    BY <1>0, <1>c
  <1>1. Order(n + 1, longer)'
    <2>1. \A i, j \in 1..(n + 1) : longer[i] = longer[j] => i = j
      BY <1>0, <1>a DEF Order
    <2>2. Gone' <= n + 1 /\ \A i \in 1..Gone' : received'[i] = longer[i]
      BY <1>0, <1>a, <1>b DEF Order
    <2>3. ASSUME NEW i \in 1..(n + 1), NEW t \in Senders, NEW m \in 1..MaxSend[t],
                 longer[i] = <<t, m>>
          PROVE  m <= sent'[t] /\ (pc'[t] \in UnlinkedPCs => m # sent'[t])
      <3>1. CASE i = n + 1
        <4>1. t = s /\ m = sent[s]
          BY <2>3, <3>1 DEF Own
        <4>. QED
          BY <1>0, <1>d, <4>1 DEF UnlinkedPCs, Types
      <3>2. CASE i # n + 1
        <4>1. i \in 1..n /\ chain[i] = <<t, m>>
          BY <2>3, <3>2
        <4>2. m <= sent[t] /\ (pc[t] \in UnlinkedPCs => m # sent[t])
          BY <1>a, <4>1 DEF Order
        <4>3. pc'[t] \in UnlinkedPCs => pc[t] \in UnlinkedPCs
          BY <1>c, <1>d DEF UnlinkedPCs
        <4>. QED
          BY <1>0, <4>2, <4>3
      <3>. QED
        BY <3>1, <3>2
    <2>4. ASSUME NEW i \in 1..(n + 1), NEW j \in 1..(n + 1), i < j,
                 longer[i][1] = longer[j][1]
          PROVE  longer[i][2] < longer[j][2]
      <3>1. i \in 1..n /\ longer[i] = chain[i]
        BY <2>4
      <3>a. PICK t \in Senders : \E m \in 1..MaxSend[t] : chain[i] = <<t, m>>
        BY <3>1 DEF Values
      <3>2. PICK m \in 1..MaxSend[t] : chain[i] = <<t, m>>
        BY <3>a
      <3>3. CASE j = n + 1
        <4>1. longer[j] = <<s, sent[s]>> /\ t = s /\ longer[i][2] = m /\ pc[s] \in UnlinkedPCs
          BY <1>0, <2>4, <3>1, <3>2, <3>3 DEF Own, UnlinkedPCs
        <4>2. m <= sent[s] /\ m # sent[s] /\ m \in Nat /\ sent[s] \in Nat
          BY <1>a, <3>1, <3>2, <4>1, LCAssumption DEF Order, Types
        <4>. QED
          BY <4>1, <4>2
      <3>4. CASE j # n + 1
        <4>1. j \in 1..n /\ longer[j] = chain[j] /\ InSendOrder(n, chain)
          BY <1>a, <2>4, <3>4 DEF Order
        <4>. QED
          BY <2>4, <3>1, <4>1 DEF InSendOrder
      <3>. QED
        BY <3>3, <3>4
    <2>5. InSendOrder(n + 1, longer)
      BY <2>4 DEF InSendOrder
    <2>6. InSendOrder(n + 1, longer)'
      BY <2>5 DEF InSendOrder
    <2>. QED
      BY <2>1, <2>2, <2>3, <2>6 DEF Order
  <1>2. Links(n + 1, longer)'
    <2>1. next'[Front] = NodeAt(n + 1, longer, Gone + 1)
      <3>1. CASE Gone = n
        BY <1>0, <1>e, <3>1 DEF End, NodeAt
      <3>2. CASE Gone # n
        <4>1. last[s] = chain[n] /\ n \in 1..n /\ Gone + 1 \in 1..n
          BY <1>0, <1>b, <3>2 DEF End
        <4>2. next'[Front] = next[Front]
          BY <1>b, <1>c, <1>e, <4>1
        <4>. QED
          BY <1>a, <4>1, <4>2 DEF Links, NodeAt
      <3>. QED
        BY <3>1, <3>2
    <2>2. ASSUME NEW i \in 1..(n + 1), i > Gone
          PROVE  next'[longer[i]] = NodeAt(n + 1, longer, i + 1)
      <3>1. CASE i = n + 1
        BY <1>0, <1>c, <1>e, <3>1 DEF NodeAt
      <3>2. CASE i = n
        BY <1>0, <1>b, <1>e, <2>2, <3>2 DEF NodeAt, End
      <3>3. CASE i < n
        <4>1. last[s] = chain[n] /\ n \in 1..n /\ i \in 1..n /\ i + 1 \in 1..n
          BY <1>0, <1>b, <2>2, <3>3 DEF End
        <4>2. chain[i] # last[s] /\ chain[i] \in Nodes
          BY <1>a, <1>b, <3>3, <4>1 DEF Order
        <4>3. next'[chain[i]] = chain[i + 1]
          BY <1>a, <1>e, <2>2, <4>1, <4>2 DEF Links, NodeAt
        <4>. QED
          BY <4>1, <4>3 DEF NodeAt
      <3>. QED
        BY <3>1, <3>2, <3>3
    <2>3. next'[Back] = End(n + 1, longer)'
      BY <1>0, <1>b, <1>c, <1>e DEF End
    <2>4. \A t \in Senders : pc'[t] \notin {"tail", "link"}
      BY <1>0, <1>c, <1>d DEF BackPCs
    <2>. QED
      BY <1>b, <2>1, <2>2, <2>3, <2>4 DEF Links, NodeAt
  \* Nobody is about to unlink the last node: its flag is the sender's.
  <1>3. PopsFit(n + 1, longer)'
    <2>1. ASSUME NEW r \in Receivers, pc[r] \in {"declare", "succ", "access", "unlink"}
          PROVE  Gone < n /\ front[r] = chain[Gone + 1] /\ front[r] = longer[Gone + 1]
      BY <1>a, <1>b, <2>1 DEF PopsFit
    <2>2. ASSUME NEW r \in Receivers, pc[r] \in {"access", "unlink"}
          PROVE  succ[r] = NodeAt(n + 1, longer, Gone + 2)
      <3>1. front[r] = chain[Gone + 1] /\ front[r] # last[s] /\ Gone < n
        BY <1>0, <2>1, <2>2 DEF TakingPCs
      <3>2. Gone + 2 \in 1..n
        BY <1>0, <1>b, <3>1 DEF End
      <3>. QED
        BY <1>a, <2>2, <3>2 DEF PopsFit, NodeAt
    <2>3. ASSUME NEW r \in Receivers, pc[r] \in {"empty", "release", "open", "chain", "take"}
          PROVE  \E i \in 1..Gone : front[r] = longer[i]
      BY <1>a, <1>b, <2>3 DEF PopsFit
    <2>4. \A r \in Receivers : pc[r] = "release" => succ[r] # Front
      BY <1>a DEF PopsFit
    <2>. QED
      BY <1>0, <1>b, <1>d, <2>1, <2>2, <2>3, <2>4 DEF PopsFit, NodeAt
  <1>4. PushesFit(n + 1, longer)'
    <2>1. \A t \in Senders : t # s => pc'[t] \notin BackPCs
      BY <1>0, <1>c, <1>d
    <2>. QED
      BY <1>0, <1>d, <2>1 DEF PushesFit, BackPCs
  <1>5. TakenFit(n + 1, longer)'
    <2>1. TakenFit(n, chain)'
      BY TakenStep
    <2>. QED
      BY <1>b, <2>1 DEF TakenFit
  <1>6. Counted(n + 1)'
    <2>1. Uncounted' = Uncounted + 1
      BY <1>0, <1>c, <1>d, UncountedIs DEF UncountedPCs
    <2>2. Reserved' = Reserved
      BY <1>d, ReservedIs
    <2>3. len \in Nat /\ Reserved \in Nat /\ Uncounted \in Nat
      BY ReservedIs, UncountedIs DEF Types
    <2>. QED
      BY <1>0, <1>a, <1>b, <2>1, <2>2, <2>3 DEF Counted
  <1>. QED
    BY <1>1, <1>2, <1>3, <1>4, <1>5, <1>6 DEF ListFits

\* At first the chain is empty.
LEMMA InitInv == Init => Inv
  <1>. SUFFICES ASSUME Init PROVE Inv
    OBVIOUS
  <1>. USE DEF Init
  <1>1. \A h \in Handles : pc[h] \in {"none", "idle"}
    OBVIOUS
  <1>2. Types
    <2>1. pc \in [Handles -> ReceiverPCs \cup SenderPCs]
      BY <1>1 DEF ReceiverPCs
    <2>2. /\ \A r \in Receivers : pc[r] \in ReceiverPCs
          /\ \A s \in Senders : pc[s] \in SenderPCs
      BY <1>1, Names DEF ReceiverPCs, SenderPCs
    <2>3. /\ flag \in [Nodes -> Flags] /\ next \in [Nodes -> Nodes] /\ len \in Nat
          /\ front \in [Receivers -> Nodes] /\ succ \in [Receivers -> Nodes]
          /\ last \in [Senders -> Nodes] /\ received \in Seq(Values)
      BY Names DEF Flags
    <2>4. /\ sent \in [Senders -> Nat]
          /\ \A s \in Senders : sent[s] <= MaxSend[s] /\ (pc[s] \in UnlinkedPCs => sent[s] > 0)
      BY <1>1, Names, LCAssumption DEF UnlinkedPCs
    <2>. QED
      BY <2>1, <2>2, <2>3, <2>4 DEF Types
  <1>3. FlagsHold
    <2>1. /\ \A h \in Handles : \A m \in Nodes : ~Accesses(h, m)
          /\ \A r \in Receivers : \A m \in Nodes : ~Takes(r, m)
      BY <1>1, Names DEF Accesses, Takes, FrontPCs, SuccPCs, BackPCs, LastPCs, TakingPCs
    <2>. QED
      BY <2>1 DEF FlagsHold
  <1>4. ASSUME NEW chain \in [1..0 -> Values] PROVE ListFits(0, chain)
    <2>1. Gone = 0 /\ Gone + 1 = 1
      BY DEF Gone
    <2>2. /\ next[Front] = Back /\ next[Back] = Front /\ \A m \in Nodes : flag[m] = "Released"
      BY Names
    <2>3. Order(0, chain) /\ TakenFit(0, chain)
      <3>1. \A i \in 1..0 : FALSE
        OBVIOUS
      <3>2. InSendOrder(0, chain)
        BY <3>1 DEF InSendOrder
      <3>. QED
        BY <2>1, <2>2, <3>1, <3>2 DEF Order, TakenFit
    <2>4. Links(0, chain)
      BY <1>1, <2>1, <2>2, Names DEF Links, NodeAt, End
    <2>5. PopsFit(0, chain) /\ PushesFit(0, chain)
      BY <1>1, Names DEF PopsFit, PushesFit
    <2>6. Reserved = 0 /\ Uncounted = 0
      <3>1. /\ {r \in Receivers : pc[r] \in
                  {"front", "read", "declare", "succ", "access", "unlink"}} = {}
            /\ {s \in Senders : pc[s] \in {"leave", "open", "count"}} = {}
        BY <1>1, Names
      <3>. QED
        BY <3>1, FS_EmptySet DEF Reserved, Uncounted
    <2>7. Counted(0)
      BY <2>1, <2>6 DEF Counted
    <2>. QED
      BY <2>3, <2>4, <2>5, <2>7 DEF ListFits
  <1>5. PICK chain \in [1..0 -> Values] : TRUE
    <2>1. \A i \in 1..0 : i \in Values
      OBVIOUS
    <2>2. [i \in 1..0 |-> i] \in [1..0 -> Values]
      BY <2>1
    <2>. QED
      BY <2>2
  <1>6. ListFits(0, chain)
    BY <1>4, <1>5
  <1>. QED
    BY <1>2, <1>3, <1>6 DEF Inv

\* No step but a link adds to the chain.
LEMMA ChainKept ==
  ASSUME Types, FlagsHold, NEW n \in Nat, NEW chain \in [1..n -> Values], ListFits(n, chain),
         [Next]_vars, \A s \in Senders : ~LinkLast(s)
  PROVE  ListFits(n, chain)'
  <1>1. /\ Order(n, chain) /\ Links(n, chain) /\ PopsFit(n, chain) /\ PushesFit(n, chain)
        /\ TakenFit(n, chain) /\ Counted(n)
    BY DEF ListFits
  <1>2. Order(n, chain)' /\ Links(n, chain)'
    BY <1>1, OrderStep, LinksStep
  <1>3. PopsFit(n, chain)' /\ PushesFit(n, chain)' /\ TakenFit(n, chain)' /\ Counted(n)'
    BY <1>1, PopsStep, PushesStep, TakenStep, CountStep
  <1>. QED
    BY <1>2, <1>3 DEF ListFits

\* A link makes it longer by the node of the sender.
LEMMA ChainGrows ==
  ASSUME Types, FlagsHold, NEW n \in Nat, NEW chain \in [1..n -> Values], ListFits(n, chain),
         [Next]_vars, NEW s \in Senders, LinkLast(s)
  PROVE  \E longer \in [1..(n + 1) -> Values] :
           (\A i \in 1..n : longer[i] = chain[i]) /\ longer[n + 1] = Own(s)
           /\ ListFits(n + 1, longer)'
  <1>1. PICK m \in Values : m = Own(s)
    BY LinkIs
  <1>2. PICK longer \in [1..(n + 1) -> Values] :
          longer = [i \in 1..(n + 1) |-> IF i <= n THEN chain[i] ELSE m]
    <2>1. ASSUME NEW i \in 1..(n + 1) PROVE (IF i <= n THEN chain[i] ELSE m) \in Values
      <3>1. CASE i <= n
        <4>1. i \in 1..n
          BY <3>1
        <4>. QED
          BY <3>1, <4>1
      <3>2. CASE ~(i <= n)
        BY <3>2
      <3>. QED
        BY <3>1, <3>2
    <2>2. [i \in 1..(n + 1) |-> IF i <= n THEN chain[i] ELSE m] \in [1..(n + 1) -> Values]
      BY <2>1
    <2>. QED
      BY <2>2
  <1>3. (\A i \in 1..n : longer[i] = chain[i]) /\ longer[n + 1] = Own(s)
    BY <1>1, <1>2
  <1>4. ListFits(n + 1, longer)'
    BY <1>3, LinkStep
  <1>. QED
    BY <1>3, <1>4

\* Every step keeps the invariant.
LEMMA NextInv == Inv /\ [Next]_vars => Inv'
  <1>. SUFFICES ASSUME Inv, [Next]_vars PROVE Inv'
    OBVIOUS
  <1>1. Types /\ FlagsHold
    BY DEF Inv
  <1>2. PICK n \in Nat : \E chain \in [1..n -> Values] : ListFits(n, chain)
    BY DEF Inv
  <1>3. PICK chain \in [1..n -> Values] : ListFits(n, chain)
    BY <1>2
  <1>4. /\ Order(n, chain) /\ Links(n, chain) /\ PopsFit(n, chain) /\ PushesFit(n, chain)
        /\ TakenFit(n, chain) /\ Counted(n)
    BY <1>3 DEF ListFits
  <1>5. Types'
    <2>1. \A r \in Receivers : pc[r] = "unlink" => front[r] \in Values
      BY <1>1, <1>4, ChainIs DEF PopsFit
    <2>. QED
      BY <1>1, <2>1, TypesStep
  <1>6. FlagsHold'
    BY <1>1, <1>4, FlagsStep
  <1>7. CASE \E s \in Senders : LinkLast(s)
    <2>1. PICK s \in Senders : LinkLast(s)
      BY <1>7
    <2>2. PICK longer \in [1..(n + 1) -> Values] : ListFits(n + 1, longer)'
      BY <1>1, <1>3, <2>1, ChainGrows
    <2>. QED
      BY <1>5, <1>6, <2>2 DEF Inv
  <1>8. CASE \A s \in Senders : ~LinkLast(s)
    <2>1. ListFits(n, chain)'
      BY <1>1, <1>3, <1>8, ChainKept
    <2>. QED
      BY <1>5, <1>6, <2>1 DEF Inv
  <1>. QED
    BY <1>7, <1>8

\* v3's list is well kept at every step of every thread.
THEOREM ListInvariant == Spec => []Inv
  BY InitInv, NextInv, PTL DEF Spec
-----------------------------------------------------------------------------
(* No race, no panic.                                                      *)

\* A node whose next a thread reads or writes is its own for that step: it accesses it,
\* or it declared that it takes it, or it has not linked it yet.
LEMMA TouchedIsHeld ==
  ASSUME Types, NEW n \in Nat, NEW chain \in [1..n -> Values], ListFits(n, chain),
         NEW h \in Handles, NEW m \in Reads(h) \cup Writes(h)
  PROVE  \/ /\ Accesses(h, m) /\ m \in Nodes
            /\ m \in {Front, Back} \/ \E i \in 1..n : m = chain[i]
         \/ /\ m \notin Writes(h) /\ h \in Receivers /\ Takes(h, m) /\ m \in Nodes
            /\ \E i \in 1..n : m = chain[i]
         \/ /\ h \in Senders /\ pc[h] = "node" /\ m = Own(h)
  <1>0. /\ PopsFit(n, chain) /\ PushesFit(n, chain) /\ Order(n, chain)
        /\ Handles = Senders \cup Receivers /\ Front \in Nodes /\ Back \in Nodes
        /\ h \in Receivers => pc[h] \in ReceiverPCs
        /\ h \in Senders => pc[h] \in SenderPCs
    BY Names DEF ListFits, Types
  <1>1. CASE pc[h] \in {"read", "unlink"}
    <2>1. h \in Receivers
      BY <1>0, <1>1 DEF SenderPCs
    <2>2. m = Front
      BY <1>1 DEF Reads, Writes
    <2>. QED
      BY <1>0, <1>1, <2>1, <2>2 DEF Accesses, FrontPCs
  <1>2. CASE pc[h] = "empty"
    <2>1. h \in Receivers
      BY <1>0, <1>2 DEF SenderPCs
    <2>2. m = Back /\ succ[h] = Back
      BY <1>0, <1>2, <2>1 DEF Reads, Writes, PopsFit
    <2>. QED
      BY <1>0, <1>2, <2>1, <2>2 DEF Accesses, SuccPCs
  <1>3. CASE pc[h] \in {"last", "tail"}
    <2>1. h \in Senders
      BY <1>0, <1>3 DEF ReceiverPCs
    <2>2. m = Back
      BY <1>3 DEF Reads, Writes
    <2>. QED
      BY <1>0, <1>3, <2>1, <2>2 DEF Accesses, BackPCs
  <1>4. CASE pc[h] = "link"
    <2>1. h \in Senders
      BY <1>0, <1>4 DEF ReceiverPCs
    <2>2. m = last[h] /\ last[h] = End(n, chain) /\ last[h] \in Nodes
      BY <1>0, <1>4, <2>1 DEF Reads, Writes, PushesFit, Types
    <2>3. Gone \in Nat /\ Gone <= n
      BY <1>0, ChainIs
    <2>4. m = Front \/ \E i \in 1..n : m = chain[i]
      BY <2>2, <2>3 DEF End
    <2>. QED
      BY <1>4, <2>1, <2>2, <2>4 DEF Accesses, LastPCs
  <1>5. CASE pc[h] = "succ"
    <2>1. h \in Receivers
      BY <1>0, <1>5 DEF SenderPCs
    <2>2. m = front[h] /\ m \notin Writes(h) /\ front[h] \in Nodes
      BY <1>5, <2>1 DEF Reads, Writes, Types
    <2>3. Gone \in Nat /\ Gone < n /\ front[h] = chain[Gone + 1]
      BY <1>0, <1>5, <2>1, ChainIs DEF PopsFit
    <2>. QED
      BY <1>5, <2>1, <2>2, <2>3 DEF Takes, TakingPCs
  <1>6. CASE pc[h] = "node"
    <2>1. h \in Senders
      BY <1>0, <1>6 DEF ReceiverPCs
    <2>2. m = Own(h)
      BY <1>6 DEF Reads, Writes
    <2>. QED
      BY <1>6, <2>1, <2>2
  <1>7. CASE pc[h] \notin {"read", "unlink", "empty", "last", "tail", "link", "succ", "node"}
    <2>1. Reads(h) = {} /\ Writes(h) = {}
      BY <1>7 DEF Reads, Writes
    <2>. QED
      BY <2>1
  <1>. QED
    BY <1>1, <1>2, <1>3, <1>4, <1>5, <1>6, <1>7

\* The SAFETY comments of v3 hold: the flags, and nothing else, keep every write of a
\* next pointer apart from the reads and writes of all other threads.
THEOREM NoDataRace == Spec => []RaceFree
  <1>1. Inv => RaceFree
    <2>. SUFFICES ASSUME Inv, NEW g \in Handles, NEW h \in Handles, g # h,
                         NEW m \in Writes(g), m \in Reads(h) \cup Writes(h)
                  PROVE  FALSE
      BY DEF RaceFree
    <2>1. Types /\ FlagsHold
      BY DEF Inv
    <2>2. PICK n \in Nat : \E chain \in [1..n -> Values] : ListFits(n, chain)
      BY DEF Inv
    <2>3. PICK chain \in [1..n -> Values] : ListFits(n, chain)
      BY <2>2
    <2>4. Order(n, chain)
      BY <2>3 DEF ListFits
    <2>5. \/ /\ Accesses(g, m) /\ m \in Nodes
             /\ m \in {Front, Back} \/ \E i \in 1..n : m = chain[i]
          \/ g \in Senders /\ pc[g] = "node" /\ m = Own(g)
      BY <2>1, <2>3, TouchedIsHeld
    <2>6. \/ /\ Accesses(h, m) /\ m \in Nodes
             /\ m \in {Front, Back} \/ \E i \in 1..n : m = chain[i]
          \/ /\ h \in Receivers /\ Takes(h, m) /\ m \in Nodes
             /\ \E i \in 1..n : m = chain[i]
          \/ h \in Senders /\ pc[h] = "node" /\ m = Own(h)
      BY <2>1, <2>3, TouchedIsHeld
    \* A node that is not linked is known to its sender only.
    <2>7. ASSUME NEW s \in Senders, pc[s] = "node", m = Own(s)
          PROVE  /\ m \notin {Front, Back} /\ \A i \in 1..n : m # chain[i]
                 /\ \A t \in Senders : m = Own(t) => t = s
      BY <2>1, <2>4, <2>7, OwnIsNew DEF UnlinkedPCs
    <2>8. Accesses(g, m) /\ m \in Nodes
      BY <2>5, <2>6, <2>7
    <2>9. (Accesses(h, m) \/ (h \in Receivers /\ Takes(h, m)))
      BY <2>5, <2>6, <2>7
    <2>10. flag[m] = "Accessed" /\ ~Accesses(h, m)
      BY <2>1, <2>8 DEF FlagsHold
    <2>. QED
      BY <2>1, <2>8, <2>9, <2>10 DEF FlagsHold
  <1>. QED
    BY <1>1, ListInvariant, PTL

\* No unreachable! of v3 is reached: whoever looks at a flag finds one of the statuses
\* it waits for, and the list is never empty for a receiver that len admitted.
THEOREM NothingPanics == Spec => []NoPanic
  <1>1. Inv => NoPanic
    <2>. SUFFICES ASSUME Inv PROVE NoPanic
      OBVIOUS
    <2>1. Types /\ FlagsHold
      BY DEF Inv
    <2>2. PICK n \in Nat : \E chain \in [1..n -> Values] : ListFits(n, chain)
      BY DEF Inv
    <2>3. PICK chain \in [1..n -> Values] : ListFits(n, chain)
      BY <2>2
    <2>4. Order(n, chain) /\ PopsFit(n, chain) /\ PushesFit(n, chain) /\ TakenFit(n, chain)
      BY <2>3 DEF ListFits
    <2>5. /\ Gone \in Nat /\ Gone <= n
          /\ \A i \in 1..n : chain[i] \in Nodes /\ chain[i] # Front /\ chain[i] # Back
      BY <2>1, <2>4, ChainIs
    <2>6. /\ \A i \in 1..n : i > Gone => flag[chain[i]] # "Taken"
          /\ flag[Front] # "Taken" /\ flag[Back] # "Taken"
      BY <2>4, <2>5, Names DEF TakenFit, Order
    <2>7. /\ flag \in [Nodes -> Flags] /\ front \in [Receivers -> Nodes]
          /\ succ \in [Receivers -> Nodes] /\ last \in [Senders -> Nodes]
          /\ Front \in Nodes /\ Back \in Nodes
          /\ Senders \subseteq Handles /\ Receivers \subseteq Handles
      BY <2>1, Names DEF Types
    <2>8. ASSUME NEW r \in Receivers, pc[r] = "declare"
          PROVE  front[r] # Back /\ flag[front[r]] \in {"Released", "Accessed"}
      <3>1. Gone + 1 \in 1..n /\ front[r] = chain[Gone + 1]
        BY <2>4, <2>5, <2>8 DEF PopsFit
      <3>2. ASSUME NEW q \in Receivers, Takes(q, front[r]) PROVE FALSE
        <4>1. CASE pc[q] \in FrontPCs
          <5>1. Accesses(q, Front) /\ Accesses(r, Front)
            BY <2>8, <4>1 DEF Accesses, FrontPCs
          <5>2. q = r
            BY <2>1, <2>7, <5>1 DEF FlagsHold
          <5>. QED
            BY <2>8, <3>2, <5>2 DEF Takes, TakingPCs
        <4>2. CASE pc[q] \notin FrontPCs
          <5>1. pc[q] \in {"chain", "take"} /\ front[q] = front[r]
            BY <3>2, <4>2 DEF Takes, TakingPCs, FrontPCs
          <5>2. PICK i \in 1..Gone : front[q] = chain[i]
            BY <2>4, <5>1 DEF PopsFit
          <5>3. i \in 1..n /\ i # Gone + 1 /\ chain[i] = chain[Gone + 1]
            BY <2>5, <3>1, <5>1, <5>2
          <5>. QED
            BY <2>4, <3>1, <5>3 DEF Order
        <4>. QED
          BY <4>1, <4>2
      <3>3. flag[front[r]] # "DeclareTake"
        BY <2>1, <2>7, <3>2 DEF FlagsHold
      <3>. QED
        BY <2>5, <2>6, <2>7, <3>1, <3>3 DEF Flags
    <2>9. ASSUME NEW r \in Receivers, pc[r] = "access" PROVE flag[succ[r]] # "Taken"
      <3>1. succ[r] = NodeAt(n, chain, Gone + 2)
        BY <2>4, <2>9 DEF PopsFit
      <3>. QED
        BY <2>5, <2>6, <3>1 DEF NodeAt
    <2>10. ASSUME NEW r \in Receivers, pc[r] = "take"
           PROVE  front[r] # Front /\ flag[front[r]] = "DeclareTake"
      <3>1. PICK i \in 1..Gone : front[r] = chain[i]
        BY <2>4, <2>10 DEF PopsFit
      <3>2. Takes(r, front[r])
        BY <2>10 DEF Takes, TakingPCs
      <3>3. front[r] # Front /\ front[r] \in Nodes
        BY <2>5, <2>7, <3>1
      <3>. QED
        BY <2>1, <3>2, <3>3 DEF FlagsHold
    <2>11. ASSUME NEW r \in Receivers PROVE /\ pc[r] = "release" => flag[succ[r]] = "Accessed"
                                            /\ pc[r] = "open" => flag[Front] = "Accessed"
      <3>1. /\ pc[r] = "release" => Accesses(r, succ[r])
            /\ pc[r] = "open" => Accesses(r, Front)
        BY DEF Accesses, FrontPCs, SuccPCs
      <3>. QED
        BY <2>1, <2>7, <3>1 DEF FlagsHold
    <2>12. ASSUME NEW s \in Senders, pc[s] = "join" PROVE flag[last[s]] # "Taken"
      <3>1. last[s] = End(n, chain)
        BY <2>4, <2>12 DEF PushesFit
      <3>. QED
        BY <2>5, <2>6, <3>1 DEF End
    <2>13. ASSUME NEW s \in Senders
           PROVE  /\ pc[s] = "leave" => flag[last[s]] = "Accessed"
                  /\ pc[s] \in {"yield", "open"} => flag[Back] = "Accessed"
      <3>1. /\ pc[s] = "leave" => Accesses(s, last[s])
            /\ pc[s] \in {"yield", "open"} => Accesses(s, Back)
        BY DEF Accesses, BackPCs, LastPCs
      <3>. QED
        BY <2>1, <2>7, <3>1 DEF FlagsHold
    <2>. QED
      BY <2>8, <2>9, <2>10, <2>11, <2>12, <2>13 DEF NoPanic
  <1>. QED
    BY <1>1, ListInvariant, PTL

\* Every node is received once, after it was sent, and those of one sender in the order
\* of its sends.
ReceivedInOrder ==
  \A i, j \in 1..Len(received) :
    /\ received[i][2] <= sent[received[i][1]]
    /\ received[i][1] = received[j][1] => (i < j <=> received[i][2] < received[j][2])

\* Every value v3 delivers was sent, is delivered once, and comes after the earlier ones
\* of its sender.
THEOREM SendersOrderIsKept == Spec => []ReceivedInOrder
  <1>1. Inv => ReceivedInOrder
    <2>. SUFFICES ASSUME Inv PROVE ReceivedInOrder
      OBVIOUS
    <2>1. PICK n \in Nat : \E chain \in [1..n -> Values] : ListFits(n, chain)
      BY DEF Inv
    <2>2. PICK chain \in [1..n -> Values] : ListFits(n, chain)
      BY <2>1
    <2>3. Order(n, chain) /\ Gone \in Nat
      BY <2>2 DEF ListFits, Inv, Types, Gone
    <2>4. ASSUME NEW i \in 1..Len(received)
          PROVE  /\ i \in 1..n /\ received[i] = chain[i]
                 /\ \E s \in Senders : \E m \in 1..MaxSend[s] : received[i] = <<s, m>>
                 /\ received[i][2] \in Nat /\ received[i][2] <= sent[received[i][1]]
      <3>1. i \in 1..n /\ received[i] = chain[i]
        BY <2>3 DEF Order, Gone
      <3>a. PICK s \in Senders : \E m \in 1..MaxSend[s] : chain[i] = <<s, m>>
        BY <3>1 DEF Values
      <3>2. PICK m \in 1..MaxSend[s] : chain[i] = <<s, m>>
        BY <3>a
      <3>3. m \in Nat /\ m <= sent[s]
        BY <2>3, <3>1, <3>2, LCAssumption DEF Order
      <3>. QED
        BY <3>1, <3>2, <3>3
    <2>5. ASSUME NEW i \in 1..Len(received), NEW j \in 1..Len(received),
                 received[i][1] = received[j][1]
          PROVE  i < j <=> received[i][2] < received[j][2]
      <3>1. InSendOrder(n, chain)
        BY <2>3 DEF Order
      <3>2. /\ i < j => received[i][2] < received[j][2]
            /\ j < i => received[j][2] < received[i][2]
        BY <2>4, <2>5, <3>1 DEF InSendOrder
      <3>3. i \in Nat /\ j \in Nat /\ (i = j => received[i][2] = received[j][2])
        OBVIOUS
      <3>4. received[i][2] \in Nat /\ received[j][2] \in Nat
        BY <2>4
      <3>. QED
        BY <3>2, <3>3, <3>4
    <2>. QED
      BY <2>4, <2>5 DEF ReceivedInOrder
  <1>. QED
    BY <1>1, ListInvariant, PTL
-----------------------------------------------------------------------------
(* The list, as a sequence.                                                *)

\* A set of naturals that is not empty has a least element.
LEMMA LeastNat ==
  ASSUME NEW T \in SUBSET Nat, T # {}
  PROVE  \E x \in T : \A y \in T : x <= y
  <1>. DEFINE R == {ss \in Nat \X Nat : ss[1] < ss[2]}
  <1>1. IsWellFoundedOn(R, Nat)
    BY NatLessThanWellFounded DEF OpToRel
  <1>. HIDE DEF R
  <1>2. PICK x \in T : \A y \in T : ~(<<y, x>> \in R)
    BY <1>1, WFMin
  <1>3. ASSUME NEW y \in T PROVE x <= y
    <2>1. ~(y < x)
      BY <1>2 DEF R
    <2>. QED
      BY <2>1
  <1>. QED
    BY <1>3

\* Induction: a set of naturals with 0 and every successor is all of them.
LEMMA AllNat ==
  ASSUME NEW T, 0 \in T, \A n \in Nat : n \in T => n + 1 \in T
  PROVE  \A n \in Nat : n \in T
  <1>. DEFINE B == {n \in Nat : n \notin T}
  <1>1. SUFFICES ASSUME B # {} PROVE FALSE
    OBVIOUS
  <1>2. PICK x \in B : \A y \in B : x <= y
    BY <1>1, LeastNat
  <1>3. x # 0 /\ x - 1 \in Nat /\ x - 1 \notin B
    BY <1>2
  <1>. QED
    BY <1>2, <1>3

\* A walk from Front meets the nodes of the chain that are not unlinked, and then Back.
LEMMA WalkIs ==
  ASSUME Types, NEW n \in Nat, NEW chain \in [1..n -> Values], ListFits(n, chain)
  PROVE  \A k \in Nat : walk[k] = NodeAt(n, chain, Gone + 1 + k)
  <1>. DEFINE W == [k \in Nat |-> NodeAt(n, chain, Gone + 1 + k)]
  <1>1. /\ Gone \in Nat /\ Gone <= n /\ next[Front] = NodeAt(n, chain, Gone + 1)
        /\ \A i \in 1..n : i > Gone => next[chain[i]] = NodeAt(n, chain, i + 1)
        /\ \A i \in 1..n : chain[i] # Front /\ chain[i] # Back
    BY ChainIs DEF ListFits, Links
  <1>2. ASSUME NEW k \in Nat
        PROVE  W[k] = IF k = 0 THEN next[Front]
                      ELSE IF W[k - 1] \in {Back, Front} THEN Back ELSE next[W[k - 1]]
    <2>1. CASE k = 0
      <3>1. W[k] = NodeAt(n, chain, Gone + 1 + 0) /\ Gone + 1 + 0 = Gone + 1
        BY <1>1, <2>1
      <3>. QED
        BY <1>1, <2>1, <3>1
    <2>2. CASE k > 0 /\ Gone + k <= n
      <3>1. W[k - 1] = chain[Gone + k] /\ Gone + k \in 1..n
        BY <1>1, <2>2 DEF NodeAt
      <3>2. W[k] = NodeAt(n, chain, Gone + k + 1)
        <4>1. Gone + 1 + k = Gone + k + 1
          BY <1>1
        <4>. QED
          BY <4>1
      <3>3. next[chain[Gone + k]] = NodeAt(n, chain, Gone + k + 1)
        BY <1>1, <2>2, <3>1
      <3>4. chain[Gone + k] \notin {Back, Front} /\ k # 0
        BY <1>1, <2>2, <3>1
      <3>. HIDE DEF W
      <3>. QED
        BY <3>1, <3>2, <3>3, <3>4
    <2>3. CASE k > 0 /\ Gone + k > n
      <3>1. W[k - 1] = Back /\ W[k] = Back
        BY <1>1, <2>3 DEF NodeAt
      <3>. QED
        BY <2>3, <3>1
    <2>4. k = 0 \/ (k > 0 /\ Gone + k <= n) \/ (k > 0 /\ Gone + k > n)
      BY <1>1
    <2>. HIDE DEF W
    <2>. QED
      BY <2>1, <2>2, <2>3, <2>4
  <1>. HIDE DEF W
  <1>3. W = [k \in Nat |-> IF k = 0 THEN next[Front]
                           ELSE IF W[k - 1] \in {Back, Front} THEN Back ELSE next[W[k - 1]]]
    <2>1. W = [k \in Nat |-> W[k]]
      BY DEF W
    <2>. QED
      BY <1>2, <2>1
  <1>4. walk = [k \in Nat |-> IF k = 0 THEN next[Front]
                              ELSE IF walk[k - 1] \in {Back, Front} THEN Back
                              ELSE next[walk[k - 1]]]
    BY <1>3 DEF walk
  <1>. DEFINE T == {k \in Nat : walk[k] = W[k]}
  <1>5. 0 \in T
    BY <1>2, <1>4
  <1>6. ASSUME NEW k \in Nat, k \in T PROVE k + 1 \in T
    <2>1. k + 1 # 0 /\ (k + 1) - 1 = k /\ k + 1 \in Nat
      OBVIOUS
    <2>2. walk[k + 1] = IF walk[k] \in {Back, Front} THEN Back ELSE next[walk[k]]
      BY <1>4, <2>1
    <2>3. W[k + 1] = IF W[k] \in {Back, Front} THEN Back ELSE next[W[k]]
      BY <1>2, <2>1
    <2>. QED
      BY <1>6, <2>1, <2>2, <2>3
  <1>7. \A k \in Nat : k \in T
    <2>. HIDE DEF T
    <2>. QED
      BY <1>5, <1>6, AllNat
  <1>. QED
    BY <1>7 DEF W

\* There are finitely many values.
LEMMA ValuesAreFinite == IsFiniteSet(Values)
  <1>. DEFINE Of == [s \in Senders |-> {<<s, n>> : n \in 1..MaxSend[s]}]
              All == {Of[s] : s \in Senders}
  <1>1. ASSUME NEW s \in Senders PROVE IsFiniteSet(Of[s])
    <2>. DEFINE f == [n \in 1..MaxSend[s] |-> <<s, n>>]
    <2>1. IsFiniteSet(1..MaxSend[s])
      BY LCAssumption, FS_Interval
    <2>2. f \in Surjection(1..MaxSend[s], Of[s])
      BY DEF Surjection
    <2>. QED
      BY <2>1, <2>2, FS_Surjection
  <1>2. Of \in Surjection(Senders, All)
    BY DEF Surjection
  <1>3. IsFiniteSet(All)
    BY <1>2, Names, FS_Surjection
  <1>4. Values = UNION All
    BY DEF Values
  <1>. QED
    BY <1>1, <1>3, <1>4, FS_UNION

\* The list is the part of the chain that is not unlinked yet.
LEMMA LinkedIs ==
  ASSUME Types, NEW n \in Nat, NEW chain \in [1..n -> Values], ListFits(n, chain)
  PROVE  /\ Gone \in Nat /\ Gone <= n
         /\ Linked = [i \in 1..(n - Gone) |-> chain[Gone + i]]
  <1>1. /\ Order(n, chain) /\ Gone \in Nat /\ Gone <= n
        /\ \A i \in 1..n : chain[i] \in Values /\ chain[i] # Front /\ chain[i] # Back
    BY ChainIs DEF ListFits
  <1>2. Cardinality(Values) \in Nat /\ n - Gone <= Cardinality(Values)
    <2>. DEFINE S == (Gone + 1)..n
                f == [i \in S |-> chain[i]]
    <2>1. Cardinality(S) = n - Gone
      <3>1. \A a, b \in Int : Cardinality(a..b) = IF a > b THEN 0 ELSE b - a + 1
        BY FS_Interval
      <3>2. Gone + 1 \in Int /\ n \in Int
        BY <1>1
      <3>3. Cardinality((Gone + 1)..n) = IF Gone + 1 > n THEN 0 ELSE n - (Gone + 1) + 1
        BY <3>1, <3>2
      <3>. QED
        BY <1>1, <3>3
    <2>2. \A i \in S : i \in 1..n
      BY <1>1
    <2>3. f \in Injection(S, Values)
      <3>1. f \in [S -> Values]
        BY <1>1, <2>2
      <3>2. \A i, j \in S : f[i] = f[j] => i = j
        BY <1>1, <2>2 DEF Order
      <3>. HIDE DEF S, f
      <3>. QED
        BY <3>1, <3>2 DEF Injection, IsInjective
    <2>4. Cardinality(S) <= Cardinality(Values)
      <3>. HIDE DEF S, f
      <3>. QED
        BY <2>3, ValuesAreFinite, FS_Injection
    <2>. QED
      BY <2>1, <2>4, ValuesAreFinite, FS_CardinalityType
  <1>3. ASSUME NEW i \in 1..Cardinality(Values)
        PROVE  /\ walk[i - 1] \in Values <=> i <= n - Gone
               /\ i <= n - Gone => walk[i - 1] = chain[Gone + i]
    <2>1. i - 1 \in Nat /\ Gone + 1 + (i - 1) = Gone + i
      BY <1>1, <1>2
    <2>2. walk[i - 1] = NodeAt(n, chain, Gone + i)
      BY <2>1, WalkIs
    <2>3. CASE i <= n - Gone
      <3>1. Gone + i \in 1..n
        BY <1>1, <2>3
      <3>. QED
        BY <1>1, <2>2, <2>3, <3>1 DEF NodeAt
    <2>4. CASE ~(i <= n - Gone)
      <3>1. ~(Gone + i <= n)
        BY <1>1, <1>2, <2>4
      <3>. QED
        BY <2>2, <2>4, <3>1, Names DEF NodeAt
    <2>. QED
      BY <2>3, <2>4
  <1>4. {i \in 1..Cardinality(Values) : walk[i - 1] \in Values} = 1..(n - Gone)
    <2>. DEFINE D == {i \in 1..Cardinality(Values) : walk[i - 1] \in Values}
    <2>1. \A i : i \in 1..(n - Gone) => i \in 1..Cardinality(Values) /\ i <= n - Gone
      BY <1>1, <1>2
    <2>2. \A i : i \in 1..Cardinality(Values) /\ i <= n - Gone => i \in 1..(n - Gone)
      BY <1>1, <1>2
    <2>3. \A i : i \in D <=> i \in 1..Cardinality(Values) /\ i <= n - Gone
      BY <1>3
    <2>. HIDE DEF D
    <2>4. D = 1..(n - Gone)
      BY <2>1, <2>2, <2>3
    <2>. QED
      BY <2>4 DEF D
  <1>5. \A i \in 1..(n - Gone) : walk[i - 1] = chain[Gone + i]
    <2>1. \A i \in 1..(n - Gone) : i \in 1..Cardinality(Values) /\ i <= n - Gone
      BY <1>1, <1>2
    <2>. QED
      BY <1>3, <2>1
  <1>. DEFINE D == {i \in 1..Cardinality(Values) : walk[i - 1] \in Values}
  <1>6. Linked = [i \in D |-> walk[i - 1]]
    BY DEF Linked
  <1>7. D = 1..(n - Gone)
    BY <1>4
  <1>. HIDE DEF D
  <1>8. Linked = [i \in 1..(n - Gone) |-> walk[i - 1]]
    BY <1>6, <1>7
  <1>. QED
    BY <1>1, <1>5, <1>8

\* v3's list is what its two ends and its length say: a receiver that the Mutex of len
\* admits finds a node of its own, and a sender that obtains Back finds the last node.
THEOREM ListIsWellFormed == Spec => []ListWellFormed
  <1>1. Inv => ListWellFormed
    <2>. SUFFICES ASSUME Inv PROVE ListWellFormed
      OBVIOUS
    <2>1. Types /\ FlagsHold
      BY DEF Inv
    <2>2. PICK n \in Nat : \E chain \in [1..n -> Values] : ListFits(n, chain)
      BY DEF Inv
    <2>3. PICK chain \in [1..n -> Values] : ListFits(n, chain)
      BY <2>2
    <2>4. /\ Gone \in Nat /\ Gone <= n
          /\ Linked = [i \in 1..(n - Gone) |-> chain[Gone + i]]
      BY <2>1, <2>3, LinkedIs
    <2>5. Linked \in Seq(Values) /\ Len(Linked) = n - Gone
      <3>1. \A i \in 1..(n - Gone) : Gone + i \in 1..n
        BY <2>4
      <3>2. Linked \in [1..(n - Gone) -> Values] /\ n - Gone \in Nat
        BY <2>4, <3>1
      <3>. HIDE <2>4
      <3>. QED
        BY <3>2
    <2>6. Len(Linked) = len + Reserved + Uncounted
      BY <2>3, <2>5 DEF ListFits, Counted
    <2>7. ASSUME flag[Back] = "Released"
          PROVE  next[Back] = IF Linked = <<>> THEN Front ELSE Linked[Len(Linked)]
      <3>1. \A h \in Handles : ~Accesses(h, Back)
        BY <2>1, <2>7, Names DEF FlagsHold
      <3>2. \A s \in Senders : pc[s] # "link"
        BY <3>1, Names DEF Accesses, BackPCs
      <3>3. \A r \in Receivers : pc[r] # "empty"
        BY <2>3, <3>1, Names DEF Accesses, SuccPCs, ListFits, PopsFit
      <3>4. next[Back] = End(n, chain)
        BY <2>3, <3>2, <3>3 DEF ListFits, Links
      <3>5. CASE Gone = n
        <4>1. Linked = <<>>
          BY <2>5, <3>5, EmptySeq
        <4>. QED
          BY <3>4, <3>5, <4>1 DEF End
      <3>6. CASE Gone # n
        <4>1. n - Gone \in 1..(n - Gone) /\ Gone + (n - Gone) = n
          BY <2>4, <3>6
        <4>2. Linked[n - Gone] = chain[n]
          BY <2>4, <4>1
        <4>3. Linked # <<>>
          BY <2>4, <2>5, <3>6
        <4>. QED
          BY <2>5, <3>4, <3>6, <4>2, <4>3 DEF End
      <3>. QED
        BY <3>5, <3>6
    <2>. QED
      BY <2>6, <2>7 DEF ListWellFormed
  <1>. QED
    BY <1>1, ListInvariant, PTL

-----------------------------------------------------------------------------
(* What the contract sees of the list.                                     *)

\* The contract's queue and received: the chain, cut where the next pop reserves.
Queue == SubSeq(Linked, Reserved + 1, Len(Linked))
Out == received \o SubSeq(Linked, 1, Reserved)
Waiting == len + Uncounted
Shows(n, chain) ==
  /\ Waiting \in 0..n
  /\ Queue \in Seq(Values) /\ Len(Queue) = Waiting
  /\ \A i \in 1..Waiting : Queue[i] = chain[(n - Waiting) + i]
  /\ Out \in Seq(Values) /\ Len(Out) = n - Waiting
  /\ \A i \in 1..(n - Waiting) : Out[i] = chain[i]

\* The list and the received values show it, whatever the threads are doing.
LEMMA ViewIs ==
  \A n \in Nat : \A chain \in [1..n -> Values] : Types /\ ListFits(n, chain) => Shows(n, chain)
  <1>. SUFFICES ASSUME NEW n \in Nat, NEW chain \in [1..n -> Values], Types, ListFits(n, chain)
                PROVE  Shows(n, chain)
    OBVIOUS
  <1>1. /\ Gone \in Nat /\ Gone <= n /\ Linked = [i \in 1..(n - Gone) |-> chain[Gone + i]]
        /\ Reserved \in Nat /\ Uncounted \in Nat /\ len \in Nat
        /\ len + Reserved + Uncounted = n - Gone
        /\ received \in Seq(Values) /\ Gone = Len(received)
        /\ \A i \in 1..Gone : received[i] = chain[i]
    <2>1. /\ Reserved \in Nat /\ Uncounted \in Nat
          /\ len + Reserved + Uncounted = n - Gone /\ Order(n, chain)
      BY ReservedIs, UncountedIs DEF ListFits, Counted
    <2>2. /\ Gone \in Nat /\ Gone <= n /\ Linked = [i \in 1..(n - Gone) |-> chain[Gone + i]]
      BY LinkedIs
    <2>3. \A i \in 1..Gone : received[i] = chain[i]
      BY <2>1 DEF Order
    <2>. QED
      BY <2>1, <2>2, <2>3 DEF Types, Gone
  <1>2. Linked \in Seq(Values) /\ Len(Linked) = n - Gone
    <2>1. \A i \in 1..(n - Gone) : Gone + i \in 1..n
      BY <1>1
    <2>2. Linked \in [1..(n - Gone) -> Values] /\ n - Gone \in Nat
      BY <1>1, <2>1
    <2>. QED
      BY <2>2
  <1>3. \A i \in 1..(n - Gone) : Linked[i] = chain[Gone + i] /\ Linked[i] \in Values
    BY <1>1, <1>2
  <1>4. Waiting \in 0..n /\ n - Waiting = Gone + Reserved /\ Reserved + 1 \in Int
        /\ n - Gone \in Int /\ Reserved \in Int /\ 1 \in Int
    BY <1>1 DEF Waiting
  <1>5. /\ Queue \in Seq(Values) /\ Len(Queue) = Waiting
        /\ \A i \in 1..Waiting : Queue[i] = Linked[Reserved + i]
    <2>1. \A i \in (Reserved + 1)..(n - Gone) : Linked[i] \in Values
      BY <1>1, <1>3
    <2>2. /\ Queue \in Seq(Values)
          /\ Len(Queue) = IF Reserved + 1 <= n - Gone THEN n - Gone - (Reserved + 1) + 1 ELSE 0
          /\ \A i \in 1..(n - Gone - (Reserved + 1) + 1) : Queue[i] = Linked[Reserved + 1 + i - 1]
      BY <1>2, <1>4, <2>1, SubSeqProperties DEF Queue
    <2>3. n - Gone - (Reserved + 1) + 1 = Waiting /\ (Reserved + 1 <= n - Gone <=> Waiting # 0)
      BY <1>1 DEF Waiting
    <2>4. Len(Queue) = Waiting
      BY <2>2, <2>3
    <2>5. \A i \in 1..Waiting : Queue[i] = Linked[Reserved + 1 + i - 1]
      BY <2>2, <2>3
    <2>6. \A i \in 1..Waiting : Reserved + 1 + i - 1 = Reserved + i
      BY <1>1
    <2>. QED
      BY <2>2, <2>4, <2>5, <2>6
  <1>6. \A i \in 1..Waiting : Queue[i] = chain[(n - Waiting) + i]
    <2>. SUFFICES ASSUME NEW i \in 1..Waiting PROVE Queue[i] = chain[(n - Waiting) + i]
      OBVIOUS
    <2>1. /\ Gone \in Nat /\ Reserved \in Nat /\ Waiting \in Nat
          /\ Waiting + Reserved = n - Gone /\ i \in Nat /\ i >= 1 /\ i <= Waiting
      BY <1>1, <1>4 DEF Waiting
    <2>2. Reserved + i \in 1..(n - Gone) /\ Gone + (Reserved + i) = (n - Waiting) + i
      BY <2>1
    <2>. QED
      BY <1>3, <1>5, <2>2
  <1>. DEFINE S == SubSeq(Linked, 1, Reserved)
  <1>7. /\ S \in Seq(Values) /\ Len(S) = Reserved
        /\ \A i \in 1..Reserved : S[i] = Linked[i]
    <2>1. \A i \in 1..Reserved : Linked[i] \in Values
      BY <1>1, <1>3
    <2>2. /\ S \in Seq(Values)
          /\ Len(S) = IF 1 <= Reserved THEN Reserved - 1 + 1 ELSE 0
          /\ \A i \in 1..(Reserved - 1 + 1) : S[i] = Linked[1 + i - 1]
      BY <1>4, <2>1, SubSeqProperties
    <2>3. Reserved - 1 + 1 = Reserved /\ (\A i \in 1..Reserved : 1 + i - 1 = i)
      BY <1>1
    <2>. QED
      BY <1>1, <2>2, <2>3
  <1>. HIDE DEF S
  <1>8. /\ Out \in Seq(Values) /\ Len(Out) = Gone + Reserved
        /\ \A i \in 1..(Gone + Reserved) :
             Out[i] = IF i <= Gone THEN received[i] ELSE S[i - Gone]
    <2>1. Out = received \o S
      BY DEF Out, S
    <2>2. /\ received \o S \in Seq(Values) /\ Len(received \o S) = Len(received) + Len(S)
          /\ \A i \in 1..(Len(received) + Len(S)) :
               (received \o S)[i] = IF i <= Len(received) THEN received[i]
                                    ELSE S[i - Len(received)]
      <3>1. \A T : \A a, b \in Seq(T) :
              /\ a \o b \in Seq(T) /\ Len(a \o b) = Len(a) + Len(b)
              /\ \A i \in 1..(Len(a) + Len(b)) :
                   (a \o b)[i] = IF i <= Len(a) THEN a[i] ELSE b[i - Len(a)]
        BY ConcatProperties, Zenon
      <3>2. received \in Seq(Values) /\ S \in Seq(Values)
        BY <1>1, <1>7
      <3>. QED
        BY <3>1, <3>2, Zenon
    <2>. QED
      BY <1>1, <1>7, <2>1, <2>2
  <1>9. ASSUME NEW i \in 1..(Gone + Reserved) PROVE Out[i] = chain[i]
    <2>1. CASE i <= Gone
      <3>1. i \in 1..Gone
        BY <1>1, <2>1
      <3>. QED
        BY <1>1, <1>8, <2>1, <3>1
    <2>2. CASE ~(i <= Gone)
      <3>1. i - Gone \in 1..Reserved /\ i - Gone \in 1..(n - Gone) /\ Gone + (i - Gone) = i
        BY <1>1, <2>2
      <3>. QED
        BY <1>3, <1>7, <1>8, <2>2, <3>1
    <2>. QED
      BY <2>1, <2>2
  <1>. QED
    BY <1>4, <1>5, <1>6, <1>8, <1>9 DEF Shows

\* So it is after a step.
LEMMA NextViewIs ==
  \A n \in Nat : \A chain \in [1..n -> Values] :
    Types' /\ ListFits(n, chain)' => Shows(n, chain)'
  <1>1. (\A n \in Nat : \A chain \in [1..n -> Values] :
           Types /\ ListFits(n, chain) => Shows(n, chain))'
    BY ViewIs, PTL
  <1>. QED
    BY <1>1

\* The same chain with as many values waiting shows the same.
LEMMA SameView ==
  ASSUME NEW n \in Nat, NEW chain, Shows(n, chain), Shows(n, chain)', Waiting' = Waiting
  PROVE  Queue' = Queue /\ Out' = Out
  <1>1. Queue' = Queue
    <2>1. /\ Queue \in Seq(Values) /\ Queue' \in Seq(Values) /\ Len(Queue) = Len(Queue')
          /\ \A i \in 1..Len(Queue) : Queue[i] = Queue'[i]
      BY DEF Shows
    <2>. QED
      BY <2>1, SeqEqual
  <1>2. Out' = Out
    <2>1. /\ Out \in Seq(Values) /\ Out' \in Seq(Values) /\ Len(Out) = Len(Out')
          /\ \A i \in 1..Len(Out) : Out[i] = Out'[i]
      BY DEF Shows
    <2>. QED
      BY <2>1, SeqEqual
  <1>. QED
    BY <1>1, <1>2

\* One value more at the end of the chain is one more in the queue.
LEMMA AcceptedView ==
  ASSUME NEW n \in Nat, NEW chain, Shows(n, chain), NEW m \in Values,
         NEW longer, \A i \in 1..n : longer[i] = chain[i], longer[n + 1] = m,
         Shows(n + 1, longer)', Waiting' = Waiting + 1
  PROVE  Queue' = Append(Queue, m) /\ Out' = Out
  <1>. DEFINE w == Waiting
  <1>1. w \in Nat /\ w <= n /\ (n + 1) - (w + 1) = n - w
    BY DEF Shows
  <1>2. /\ Queue' \in Seq(Values) /\ Len(Queue') = w + 1
        /\ \A i \in 1..(w + 1) : Queue'[i] = longer[(n - w) + i]
        /\ Out' \in Seq(Values) /\ Len(Out') = n - w /\ \A i \in 1..(n - w) : Out'[i] = longer[i]
    BY <1>1 DEF Shows
  <1>3. /\ Queue \in Seq(Values) /\ Len(Queue) = w
        /\ \A i \in 1..w : Queue[i] = chain[(n - w) + i]
        /\ Out \in Seq(Values) /\ Len(Out) = n - w /\ \A i \in 1..(n - w) : Out[i] = chain[i]
    BY DEF Shows
  <1>. HIDE DEF w
  <1>4. /\ Append(Queue, m) \in Seq(Values) /\ Len(Append(Queue, m)) = w + 1
        /\ \A i \in 1..w : Append(Queue, m)[i] = Queue[i]
        /\ Append(Queue, m)[w + 1] = m
    BY <1>3, AppendProperties
  <1>5. ASSUME NEW i \in 1..(w + 1) PROVE Queue'[i] = Append(Queue, m)[i]
    <2>1. CASE i = w + 1
      <3>1. (n - w) + (w + 1) = n + 1
        BY <1>1
      <3>. QED
        BY <1>2, <1>4, <2>1, <3>1
    <2>2. CASE i # w + 1
      <3>1. i \in 1..w /\ (n - w) + i \in 1..n
        BY <1>1, <2>2
      <3>. QED
        BY <1>2, <1>3, <1>4, <3>1
    <2>. QED
      BY <2>1, <2>2
  <1>6. Queue' = Append(Queue, m)
    BY <1>2, <1>4, <1>5, SeqEqual
  <1>7. \A i \in 1..(n - w) : i \in 1..n
    BY <1>1
  <1>8. Out' = Out
    <2>1. \A i \in 1..(n - w) : Out'[i] = Out[i]
      BY <1>2, <1>3, <1>7
    <2>. QED
      BY <1>2, <1>3, <2>1, SeqEqual
  <1>. QED
    BY <1>6, <1>8

\* One value less waiting: the first of the queue is received.
LEMMA ReceivedView ==
  ASSUME NEW n \in Nat, NEW chain, Shows(n, chain), Shows(n, chain)', Waiting' = Waiting - 1
  PROVE  /\ Queue # <<>> /\ Queue' = Tail(Queue)
         /\ Out' = Append(Out, Head(Queue))
  <1>. DEFINE w == Waiting
  <1>1. w \in Nat /\ w <= n /\ w - 1 \in Nat /\ n - (w - 1) = (n - w) + 1
    BY DEF Shows
  <1>2. /\ Queue' \in Seq(Values) /\ Len(Queue') = w - 1
        /\ \A i \in 1..(w - 1) : Queue'[i] = chain[((n - w) + 1) + i]
        /\ Out' \in Seq(Values) /\ Len(Out') = (n - w) + 1
        /\ \A i \in 1..((n - w) + 1) : Out'[i] = chain[i]
    BY <1>1 DEF Shows
  <1>3. /\ Queue \in Seq(Values) /\ Len(Queue) = w
        /\ \A i \in 1..w : Queue[i] = chain[(n - w) + i]
        /\ Out \in Seq(Values) /\ Len(Out) = n - w /\ \A i \in 1..(n - w) : Out[i] = chain[i]
    BY DEF Shows
  <1>. HIDE DEF w
  <1>4. Queue # <<>>
    BY <1>1, <1>3, EmptySeq
  <1>5. /\ Head(Queue) \in Values /\ Head(Queue) = Queue[1]
        /\ Tail(Queue) \in Seq(Values) /\ Len(Tail(Queue)) = w - 1
        /\ \A i \in 1..(w - 1) : Tail(Queue)[i] = Queue[i + 1]
    BY <1>3, <1>4, HeadTailProperties
  <1>6. Queue' = Tail(Queue)
    <2>1. ASSUME NEW i \in 1..(w - 1) PROVE Queue'[i] = Tail(Queue)[i]
      <3>1. i + 1 \in 1..w /\ (n - w) + (i + 1) = ((n - w) + 1) + i
        BY <1>1
      <3>. QED
        BY <1>2, <1>3, <1>5, <3>1
    <2>. QED
      BY <1>2, <1>5, <2>1, SeqEqual
  <1>. DEFINE A == Append(Out, Head(Queue))
  <1>7. /\ A \in Seq(Values) /\ Len(A) = (n - w) + 1
        /\ \A i \in 1..(n - w) : A[i] = Out[i]
        /\ A[(n - w) + 1] = Head(Queue)
    BY <1>3, <1>5, AppendProperties
  <1>. HIDE DEF A
  <1>8. Out' = A
    <2>1. ASSUME NEW i \in 1..((n - w) + 1) PROVE Out'[i] = A[i]
      <3>1. CASE i = (n - w) + 1
        <4>1. 1 \in 1..w
          BY <1>1
        <4>. QED
          BY <1>2, <1>3, <1>5, <1>7, <3>1, <4>1
      <3>2. CASE i # (n - w) + 1
        <4>1. i \in 1..(n - w)
          BY <1>1, <3>2
        <4>. QED
          BY <1>2, <1>3, <1>7, <4>1
      <3>. QED
        BY <3>1, <3>2
    <2>. QED
      BY <1>2, <1>7, <2>1, SeqEqual
  <1>. QED
    BY <1>4, <1>6, <1>8 DEF A

-----------------------------------------------------------------------------
(* The counts of handles, and the receivers that found len to be 0.        *)

\* The handles in being, as ChannelInner counts them; len stays 0 under the Mutex.
LiveSenders == {s \in Senders : pc[s] \notin {"none", "gone", "wake"}}
LiveReceivers == {r \in Receivers : pc[r] \notin {"none", "gone"}}
HandlesHold ==
  /\ senders = Cardinality(LiveSenders) /\ receivers = Cardinality(LiveReceivers)
  /\ \A r \in Receivers : pc[r] \in {"check", "sleep"} => len = 0

\* A step that the contract does not see: the thread stays where it is in its call.
HiddenPops ==
  {<<"lock", "check">>, <<"check", "sleep">>, <<"sleep", "wait">>, <<"wait", "lock">>,
   <<"front", "read">>, <<"read", "declare">>, <<"declare", "succ">>, <<"succ", "access">>,
   <<"access", "unlink">>, <<"unlink", "empty">>, <<"unlink", "release">>, <<"empty", "release">>,
   <<"release", "open">>, <<"open", "chain">>, <<"chain", "take">>}
HiddenPushes ==
  {<<"wake", "gone">>, <<"back", "last">>, <<"last", "join">>, <<"join", "node">>,
   <<"join", "yield">>, <<"yield", "back">>, <<"node", "tail">>, <<"tail", "link">>,
   <<"leave", "open">>, <<"open", "count">>, <<"notify", "sent">>}
Hidden(h) ==
  /\ OthersStay(h) /\ UNCHANGED <<senders, receivers, sent>>
  /\ \/ /\ h \in Receivers /\ <<pc[h], pc'[h]>> \in HiddenPops /\ len' = len
        /\ pc'[h] = "check" => len = 0
     \/ h \in Senders /\ <<pc[h], pc'[h]>> \in HiddenPushes /\ len' = len
     \/ /\ h \in Senders /\ pc[h] = "count" /\ pc'[h] \in {"notify", "sent"}
        /\ ~LenLocked /\ len' = len + 1

\* The steps that it sees.
SeenPop(r) ==
  \/ Recv(r) \/ Reserve(r) \/ FindClosed(r) \/ Take(r) \/ Return(r) \/ DropReceiver(r)
  \/ \E c \in Receivers : CloneReceiver(r, c)
SeenPush(s) ==
  \/ Send(s) \/ SendClosed(s) \/ FindReceivers(s) \/ LinkLast(s) \/ Return(s) \/ DropSender(s)
  \/ \E c \in Senders : CloneSender(s, c)

\* Every step is one of these.
LEMMA SeenOrHidden ==
  ASSUME Types, [Next]_vars
  PROVE  \/ UNCHANGED vars
         \/ \E h \in Handles : Hidden(h)
         \/ \E r \in Receivers : SeenPop(r)
         \/ \E s \in Senders : SeenPush(s)
  <1>0. Senders \subseteq Handles /\ Receivers \subseteq Handles
    BY Names
  <1>. USE <1>0 DEF At
  <1>1. ASSUME NEW r \in Receivers, ReceiverClient(r) \/ ReceiverStep(r) \/ SpuriousWake(r)
        PROVE  Hidden(r) \/ SeenPop(r)
    <2>1. CASE FindZero(r) \/ SendersRemain(r) \/ Sleep(r) \/ SpuriousWake(r)
      BY <2>1, Going DEF FindZero, SendersRemain, Sleep, SpuriousWake, Hidden, HiddenPops
    <2>2. CASE AccessFront(r) \/ ReadFront(r) \/ DeclareTake(r)
      BY <2>2, Going DEF AccessFront, ReadFront, DeclareTake, Hidden, HiddenPops
    <2>3. CASE ReadSucc(r) \/ AccessSucc(r) \/ EmptyList(r)
      BY <2>3, Going DEF ReadSucc, AccessSucc, EmptyList, Hidden, HiddenPops
    <2>4. CASE Unlink(r)
      BY <2>4, Going DEF Unlink, Hidden, HiddenPops
    <2>5. CASE ReleaseSucc(r) \/ ReleaseFront(r)
      BY <2>5, Going DEF ReleaseSucc, ReleaseFront, Hidden, HiddenPops
    <2>6. CASE NotifyNext(r)
      BY <2>6, Going DEF NotifyNext, Hidden, HiddenPops
    <2>. QED
      BY <1>1, <2>1, <2>2, <2>3, <2>4, <2>5, <2>6 DEF ReceiverClient, ReceiverStep, SeenPop
  <1>2. ASSUME NEW s \in Senders, SenderClient(s) \/ SenderStep(s)
        PROVE  Hidden(s) \/ SeenPush(s)
    <2>1. CASE AccessBack(s) \/ ReadLast(s) \/ AccessLast(s)
      BY <2>1, Going DEF AccessBack, ReadLast, AccessLast, Hidden, HiddenPushes
    <2>2. CASE SeeDeclared(s) \/ YieldBack(s)
      BY <2>2, Going DEF SeeDeclared, YieldBack, Hidden, HiddenPushes
    <2>3. CASE LinkNode(s) \/ LinkBack(s)
      BY <2>3, Going DEF LinkNode, LinkBack, Hidden, HiddenPushes
    <2>4. CASE ReleaseLast(s) \/ ReleaseBack(s)
      BY <2>4, Going DEF ReleaseLast, ReleaseBack, Hidden, HiddenPushes
    <2>5. CASE CountPush(s)
      BY <2>5, Going DEF CountPush, Hidden
    <2>6. CASE NotifyPush(s)
      BY <2>6, Going DEF NotifyPush, Hidden, HiddenPushes
    <2>7. CASE WakeAll(s)
      BY <2>7, Going DEF WakeAll, Hidden, HiddenPushes
    <2>. QED
      BY <1>2, <2>1, <2>2, <2>3, <2>4, <2>5, <2>6, <2>7 DEF SenderClient, SenderStep, SeenPush
  <1>. QED
    BY <1>1, <1>2 DEF Next

\* Sets of handles are finite, and have one handle more or less.
LEMMA Sizes ==
  ASSUME NEW All, IsFiniteSet(All), NEW S \in SUBSET All
  PROVE  /\ Cardinality(S) \in Nat /\ (Cardinality(S) = 0 <=> S = {})
         /\ \A h : h \notin S => Cardinality(S \cup {h}) = Cardinality(S) + 1
         /\ \A h \in S : Cardinality(S \ {h}) = Cardinality(S) - 1
  <1>1. IsFiniteSet(S)
    BY FS_Subset
  <1>2. Cardinality(S) \in Nat /\ (Cardinality(S) = 0 <=> S = {})
    BY <1>1, FS_CardinalityType, FS_EmptySet
  <1>3. ASSUME NEW h, h \notin S PROVE Cardinality(S \cup {h}) = Cardinality(S) + 1
    BY <1>1, <1>3, FS_AddElement
  <1>4. ASSUME NEW h \in S PROVE Cardinality(S \ {h}) = Cardinality(S) - 1
    BY <1>1, FS_RemoveElement
  <1>. QED
    BY <1>2, <1>3, <1>4

\* A step that moves one handle, to a place as live as before.
LEMMA SameHandles ==
  ASSUME Types, HandlesHold, NEW h \in Handles, OthersStay(h), UNCHANGED <<senders, receivers>>,
         h \in Senders =>
           (pc[h] \notin {"none", "gone", "wake"} <=> pc'[h] \notin {"none", "gone", "wake"}),
         h \in Receivers => pc[h] \notin {"none", "gone"} <=> pc'[h] \notin {"none", "gone"},
         len' = len \/ ~LenLocked,
         h \in Receivers /\ pc'[h] \in {"check", "sleep"} => len' = 0
  PROVE  HandlesHold'
  <1>1. \A g \in Handles \ {h} : \/ pc'[g] = pc[g]
                                 \/ g \in Receivers /\ pc[g] = "wait" /\ pc'[g] = "lock"
    BY DEF OthersStay
  <1>2. Senders \subseteq Handles /\ Receivers \subseteq Handles /\ Senders \cap Receivers = {}
    BY Names
  <1>3. LiveSenders' = LiveSenders
    BY <1>1, <1>2 DEF LiveSenders
  <1>4. LiveReceivers' = LiveReceivers
    BY <1>1, <1>2 DEF LiveReceivers
  <1>5. ASSUME NEW r \in Receivers, pc'[r] \in {"check", "sleep"} PROVE len' = 0
    <2>1. CASE r = h
      BY <1>5, <2>1
    <2>2. CASE r # h
      <3>1. pc[r] \in {"check", "sleep"}
        BY <1>1, <1>2, <1>5, <2>2
      <3>. QED
        BY <3>1 DEF LenLocked, HandlesHold
    <2>. QED
      BY <2>1, <2>2
  <1>. QED
    BY <1>3, <1>4, <1>5 DEF HandlesHold

\* The counts follow clones and drops; len stays 0 while a receiver that found it so
\* holds the Mutex.
LEMMA HandlesStep ==
  ASSUME Types, HandlesHold, [Next]_vars
  PROVE  HandlesHold'
  <1>0. /\ Senders \subseteq Handles /\ Receivers \subseteq Handles /\ Senders \cap Receivers = {}
        /\ IsFiniteSet(Senders) /\ IsFiniteSet(Receivers)
        /\ pc \in [Handles -> ReceiverPCs \cup SenderPCs]
    BY Names DEF Types
  <1>. USE <1>0
  <1>1. CASE UNCHANGED vars
    BY <1>1 DEF HandlesHold, LiveSenders, LiveReceivers
  <1>2. ASSUME NEW h \in Handles, Hidden(h) PROVE HandlesHold'
    <2>1. CASE h \in Receivers /\ <<pc[h], pc'[h]>> \in HiddenPops /\ len' = len
               /\ (pc'[h] = "check" => len = 0)
      <3>1. pc'[h] = "sleep" => pc[h] = "check"
        BY <2>1 DEF HiddenPops
      <3>2. pc[h] \notin {"none", "gone"} /\ pc'[h] \notin {"none", "gone"} /\ h \notin Senders
        BY <2>1 DEF HiddenPops
      <3>3. pc'[h] \in {"check", "sleep"} => len' = 0
        BY <2>1, <3>1 DEF HandlesHold
      <3>. QED
        BY <1>2, <2>1, <3>2, <3>3, SameHandles DEF Hidden
    <2>2. CASE h \in Senders /\ <<pc[h], pc'[h]>> \in HiddenPushes /\ len' = len
      <3>1. /\ pc[h] \notin {"none", "gone", "wake"} <=> pc'[h] \notin {"none", "gone", "wake"}
            /\ h \notin Receivers
        BY <2>2 DEF HiddenPushes
      <3>. QED
        BY <1>2, <2>2, <3>1, SameHandles DEF Hidden
    <2>3. CASE h \in Senders /\ pc[h] = "count" /\ pc'[h] \in {"notify", "sent"} /\ ~LenLocked
      <3>1. /\ pc[h] \notin {"none", "gone", "wake"} <=> pc'[h] \notin {"none", "gone", "wake"}
            /\ h \notin Receivers
        BY <2>3
      <3>. QED
        BY <1>2, <2>3, <3>1, SameHandles DEF Hidden
    <2>. QED
      BY <1>2, <2>1, <2>2, <2>3 DEF Hidden
  <1>3. ASSUME NEW r \in Receivers, SeenPop(r) PROVE HandlesHold'
    <2>. USE DEF At
    <2>1. CASE Recv(r) \/ FindClosed(r) \/ Take(r) \/ Return(r)
      <3>1. /\ OthersStay(r) /\ UNCHANGED <<senders, receivers, len>>
            /\ pc[r] \notin {"none", "gone"} /\ pc'[r] \notin {"none", "gone"}
            /\ pc'[r] \notin {"check", "sleep"}
        BY <2>1, Going DEF Recv, FindClosed, Take, Return
      <3>. QED
        BY <3>1, SameHandles
    <2>2. CASE Reserve(r)
      <3>1. /\ OthersStay(r) /\ UNCHANGED <<senders, receivers>> /\ ~LenLocked
            /\ pc[r] \notin {"none", "gone"} /\ pc'[r] \notin {"none", "gone"}
            /\ pc'[r] \notin {"check", "sleep"}
        BY <2>2, Going DEF Reserve
      <3>. QED
        BY <3>1, SameHandles
    <2>3. CASE DropReceiver(r)
      <3>1. /\ pc[r] = "idle" /\ pc' = [pc EXCEPT ![r] = "gone"] /\ receivers' = receivers - 1
            /\ UNCHANGED <<senders, len>>
        BY <2>3 DEF DropReceiver, Goto
      <3>2. LiveReceivers' = LiveReceivers \ {r} /\ r \in LiveReceivers
        BY <3>1 DEF LiveReceivers
      <3>3. LiveSenders' = LiveSenders
        BY <3>1 DEF LiveSenders
      <3>4. LiveReceivers \in SUBSET Receivers
        BY DEF LiveReceivers
      <3>5. Cardinality(LiveReceivers') = Cardinality(LiveReceivers) - 1
        BY <3>2, <3>4, Sizes
      <3>6. \A q \in Receivers : pc'[q] \in {"check", "sleep"} => len' = 0
        BY <3>1 DEF HandlesHold
      <3>. QED
        BY <3>1, <3>3, <3>5, <3>6 DEF HandlesHold
    <2>4. ASSUME NEW c \in Receivers, CloneReceiver(r, c) PROVE HandlesHold'
      <3>1. /\ pc[c] = "none" /\ pc' = [pc EXCEPT ![c] = "idle"] /\ receivers' = receivers + 1
            /\ UNCHANGED <<senders, len>>
        BY <2>4 DEF CloneReceiver, Goto
      <3>2. LiveReceivers' = LiveReceivers \cup {c} /\ c \notin LiveReceivers
        BY <3>1 DEF LiveReceivers
      <3>3. LiveSenders' = LiveSenders
        BY <3>1 DEF LiveSenders
      <3>4. LiveReceivers \in SUBSET Receivers
        BY DEF LiveReceivers
      <3>5. Cardinality(LiveReceivers') = Cardinality(LiveReceivers) + 1
        BY <3>2, <3>4, Sizes
      <3>6. \A q \in Receivers : pc'[q] \in {"check", "sleep"} => len' = 0
        BY <3>1 DEF HandlesHold
      <3>. QED
        BY <3>1, <3>3, <3>5, <3>6 DEF HandlesHold
    <2>. QED
      BY <1>3, <2>1, <2>2, <2>3, <2>4 DEF SeenPop
  <1>4. ASSUME NEW s \in Senders, SeenPush(s) PROVE HandlesHold'
    <2>. USE DEF At
    <2>1. CASE Send(s) \/ SendClosed(s) \/ FindReceivers(s) \/ LinkLast(s) \/ Return(s)
      <3>1. /\ OthersStay(s) /\ UNCHANGED <<senders, receivers, len>> /\ s \notin Receivers
            /\ pc[s] \notin {"none", "gone", "wake"} /\ pc'[s] \notin {"none", "gone", "wake"}
        BY <2>1, Going DEF Send, SendClosed, FindReceivers, LinkLast, Return
      <3>. QED
        BY <3>1, SameHandles
    <2>2. CASE DropSender(s)
      <3>1. /\ pc[s] = "idle" /\ pc' = [pc EXCEPT ![s] = "wake"] /\ senders' = senders - 1
            /\ UNCHANGED <<receivers, len>>
        BY <2>2 DEF DropSender, Goto
      <3>2. LiveSenders' = LiveSenders \ {s} /\ s \in LiveSenders
        BY <3>1 DEF LiveSenders
      <3>3. LiveReceivers' = LiveReceivers
        BY <3>1 DEF LiveReceivers
      <3>4. LiveSenders \in SUBSET Senders
        BY DEF LiveSenders
      <3>5. Cardinality(LiveSenders') = Cardinality(LiveSenders) - 1
        BY <3>2, <3>4, Sizes
      <3>6. \A q \in Receivers : pc'[q] \in {"check", "sleep"} => len' = 0
        BY <3>1 DEF HandlesHold
      <3>. QED
        BY <3>1, <3>3, <3>5, <3>6 DEF HandlesHold
    <2>3. ASSUME NEW c \in Senders, CloneSender(s, c) PROVE HandlesHold'
      <3>1. /\ pc[c] = "none" /\ pc' = [pc EXCEPT ![c] = "idle"] /\ senders' = senders + 1
            /\ UNCHANGED <<receivers, len>>
        BY <2>3 DEF CloneSender, Goto
      <3>2. LiveSenders' = LiveSenders \cup {c} /\ c \notin LiveSenders
        BY <3>1 DEF LiveSenders
      <3>3. LiveReceivers' = LiveReceivers
        BY <3>1 DEF LiveReceivers
      <3>4. LiveSenders \in SUBSET Senders
        BY DEF LiveSenders
      <3>5. Cardinality(LiveSenders') = Cardinality(LiveSenders) + 1
        BY <3>2, <3>4, Sizes
      <3>6. \A q \in Receivers : pc'[q] \in {"check", "sleep"} => len' = 0
        BY <3>1 DEF HandlesHold
      <3>. QED
        BY <3>1, <3>3, <3>5, <3>6 DEF HandlesHold
    <2>. QED
      BY <1>4, <2>1, <2>2, <2>3 DEF SeenPush
  <1>. QED
    BY <1>1, <1>2, <1>3, <1>4, SeenOrHidden

\* So it is at first.
LEMMA HandlesInit == Init => HandlesHold
  <1>. SUFFICES ASSUME Init PROVE HandlesHold
    OBVIOUS
  <1>1. LiveSenders = FirstSenders /\ LiveReceivers = FirstReceivers
    BY Names, LCAssumption DEF Init, LiveSenders, LiveReceivers
  <1>2. \A r \in Receivers : pc[r] \notin {"check", "sleep"}
    BY Names DEF Init
  <1>. QED
    BY <1>1, <1>2 DEF Init, HandlesHold

-----------------------------------------------------------------------------
(* The refinement.                                                         *)

\* The contract's state of every handle.
Abstract == [h \in Handles |-> State(h)]

\* What the contract sees of a step of a thread.
LEMMA MoveRefines ==
  ASSUME Types, NEW h \in Handles, OthersStay(h)
  PROVE  Abstract' = [Abstract EXCEPT ![h] = State(h)']
  <1>1. \A g \in Handles \ {h} : \/ pc'[g] = pc[g]
                                 \/ g \in Receivers /\ pc[g] = "wait" /\ pc'[g] = "lock"
    BY DEF OthersStay
  <1>2. ASSUME NEW g \in Handles, g # h PROVE State(g)' = State(g)
    <2>1. CASE pc'[g] = pc[g]
      BY <2>1 DEF State
    <2>2. CASE pc[g] = "wait" /\ pc'[g] = "lock"
      <3>1. State(g) = "called"
        BY <2>2 DEF State
      <3>2. State(g)' = "called"
        BY <2>2 DEF State
      <3>. QED
        BY <3>1, <3>2
    <2>. QED
      BY <1>1, <1>2, <2>1, <2>2
  <1>. QED
    BY <1>2 DEF Abstract

\* Who is there, as the contract sees it.
LEMMA LivenessOfHandles ==
  ASSUME Types, HandlesHold
  PROVE  /\ Contract!SomeReceiver <=> receivers # 0
         /\ Contract!SomeSender <=> senders # 0
         /\ senders \in Nat /\ receivers \in Nat
  <1>0. Senders \subseteq Handles /\ Receivers \subseteq Handles
        /\ IsFiniteSet(Senders) /\ IsFiniteSet(Receivers)
    BY Names
  <1>1. ASSUME NEW h \in Handles
        PROVE  Contract!Live(h) <=> pc[h] \notin {"none", "gone", "wake"}
    <2>1. Contract!Live(h) <=> State(h) \notin {"none", "gone"}
      BY DEF Contract!Live
    <2>. QED
      BY <2>1 DEF State
  <1>2. /\ Cardinality(LiveReceivers) \in Nat
        /\ Cardinality(LiveReceivers) = 0 <=> LiveReceivers = {}
    BY <1>0, Sizes DEF LiveReceivers
  <1>3. /\ Cardinality(LiveSenders) \in Nat
        /\ Cardinality(LiveSenders) = 0 <=> LiveSenders = {}
    BY <1>0, Sizes DEF LiveSenders
  <1>4. \A r \in Receivers : pc[r] # "wake"
    BY DEF Types, ReceiverPCs
  <1>5. Contract!SomeReceiver <=> LiveReceivers # {}
    BY <1>0, <1>1, <1>4 DEF Contract!SomeReceiver, LiveReceivers
  <1>6. Contract!SomeSender <=> LiveSenders # {}
    BY <1>0, <1>1 DEF Contract!SomeSender, LiveSenders
  <1>. QED
    BY <1>2, <1>3, <1>5, <1>6 DEF HandlesHold

\* Uncounted pushes are there until they are counted.
LEMMA WaitingStep ==
  ASSUME Types, NEW h \in Handles, OthersStay(h),
         h \in Senders => (pc'[h] \in UncountedPCs <=> pc[h] \in UncountedPCs)
  PROVE  Uncounted' = Uncounted
  <1>1. \A g \in Handles \ {h} : \/ pc'[g] = pc[g]
                                 \/ g \in Receivers /\ pc[g] = "wait" /\ pc'[g] = "lock"
    BY DEF OthersStay
  <1>2. \A s \in Senders : pc'[s] \in UncountedPCs <=> pc[s] \in UncountedPCs
    BY <1>1, Names
  <1>. QED
    BY <1>2, UncountedIs

\* A step that the contract does not see leaves all it sees alone.
LEMMA HiddenStep ==
  ASSUME Types, NEW h \in Handles, Hidden(h)
  PROVE  Abstract' = Abstract /\ Waiting' = Waiting /\ \A s \in Senders : ~LinkLast(s)
  <1>0. /\ OthersStay(h) /\ Senders \subseteq Handles /\ Senders \cap Receivers = {}
        /\ h \in Receivers => pc[h] \in ReceiverPCs
        /\ h \in Senders => pc[h] \in SenderPCs
        /\ len \in Nat /\ Uncounted \in Nat /\ DOMAIN pc = Handles
    BY Names, UncountedIs DEF Hidden, Types
  <1>1. \A g \in Handles \ {h} : \/ pc'[g] = pc[g]
                                 \/ g \in Receivers /\ pc[g] = "wait" /\ pc'[g] = "lock"
    BY <1>0 DEF OthersStay
  <1>2. ASSUME State(h)' = State(h) PROVE Abstract' = Abstract
    BY <1>0, <1>2, MoveRefines DEF Abstract
  <1>3. ASSUME ~(pc[h] = "link" /\ pc'[h] = "leave") PROVE \A s \in Senders : ~LinkLast(s)
    <2>. SUFFICES ASSUME NEW s \in Senders, LinkLast(s) PROVE FALSE
      OBVIOUS
    <2>1. pc[s] = "link" /\ pc'[s] = "leave"
      BY <1>0 DEF LinkLast, At, Goto
    <2>. QED
      BY <1>0, <1>1, <1>3, <2>1
  <1>4. CASE h \in Receivers /\ <<pc[h], pc'[h]>> \in HiddenPops /\ len' = len
    <2>1. State(h)' = State(h) /\ h \notin Senders
      BY <1>0, <1>4 DEF HiddenPops, State
    <2>2. ~(pc[h] = "link" /\ pc'[h] = "leave")
      BY <1>4 DEF HiddenPops
    <2>3. Uncounted' = Uncounted
      BY <1>0, <2>1, WaitingStep
    <2>. QED
      BY <1>2, <1>3, <1>4, <2>1, <2>2, <2>3 DEF Waiting
  <1>5. CASE h \in Senders /\ <<pc[h], pc'[h]>> \in HiddenPushes /\ len' = len
    <2>1. State(h)' = State(h)
      BY <1>0, <1>5 DEF HiddenPushes, State
    <2>2. ~(pc[h] = "link" /\ pc'[h] = "leave")
      BY <1>5 DEF HiddenPushes
    <2>3. pc'[h] \in UncountedPCs <=> pc[h] \in UncountedPCs
      BY <1>5 DEF HiddenPushes, UncountedPCs
    <2>4. Uncounted' = Uncounted
      BY <1>0, <2>3, WaitingStep
    <2>. QED
      BY <1>2, <1>3, <1>5, <2>1, <2>2, <2>4 DEF Waiting
  <1>6. CASE h \in Senders /\ pc[h] = "count" /\ pc'[h] \in {"notify", "sent"} /\ len' = len + 1
    <2>1. State(h)' = State(h)
      BY <1>6 DEF State
    <2>2. \A s \in Senders \ {h} : pc'[s] \in UncountedPCs <=> pc[s] \in UncountedPCs
      BY <1>0, <1>1
    <2>3. Uncounted' = Uncounted - 1
      BY <1>6, <2>2, UncountedIs DEF UncountedPCs
    <2>4. Waiting' = Waiting
      BY <1>0, <1>6, <2>3 DEF Waiting
    <2>. QED
      BY <1>2, <1>3, <1>6, <2>1, <2>4
  <1>. QED
    BY <1>4, <1>5, <1>6 DEF Hidden

\* The steps that move one handle and leave the list as the contract sees it.
LEMMA MoveStep ==
  ASSUME Types, FlagsHold, NEW n \in Nat, NEW chain \in [1..n -> Values], ListFits(n, chain),
         [Next]_vars, Types', NEW h \in Handles, NEW to, At(h, pc[h], to), UNCHANGED len,
         \A s \in Senders : ~LinkLast(s),
         h \in Senders => (to \in UncountedPCs <=> pc[h] \in UncountedPCs)
  PROVE  /\ Queue' = Queue /\ Out' = Out
         /\ pc'[h] = to /\ Abstract' = [Abstract EXCEPT ![h] = State(h)']
  <1>1. pc'[h] = to /\ OthersStay(h)
    BY Going DEF At
  <1>2. Abstract' = [Abstract EXCEPT ![h] = State(h)']
    BY <1>1, MoveRefines
  <1>3. Waiting' = Waiting
    BY <1>1, WaitingStep DEF Waiting
  <1>4. Shows(n, chain) /\ Shows(n, chain)'
    BY ChainKept, ViewIs, NextViewIs
  <1>. QED
    BY <1>1, <1>2, <1>3, <1>4, SameView

\* Every step is the step of the contract that the comment of State announces.
LEMMA StepRefines ==
  ASSUME Inv, Inv', HandlesHold, [Next]_vars
  PROVE  [Contract!Next]_Contract!vars
  <1>1. Types /\ FlagsHold /\ Types'
    BY DEF Inv
  <1>2. PICK n \in Nat : \E chain \in [1..n -> Values] : ListFits(n, chain)
    BY DEF Inv
  <1>3. PICK chain \in [1..n -> Values] : ListFits(n, chain)
    BY <1>2
  <1>4. /\ Senders \subseteq Handles /\ Receivers \subseteq Handles /\ Senders \cap Receivers = {}
        /\ DOMAIN pc = Handles
    BY <1>1, Names DEF Types
  <1>5. /\ Contract!SomeReceiver <=> receivers # 0
        /\ Contract!SomeSender <=> senders # 0
        /\ senders \in Nat /\ receivers \in Nat
    BY <1>1, LivenessOfHandles
  <1>6. /\ len \in Nat /\ Uncounted \in Nat /\ Shows(n, chain)
        /\ (\A s \in Senders : ~LinkLast(s)) => Shows(n, chain)'
    BY <1>1, <1>3, UncountedIs, ViewIs, NextViewIs, ChainKept DEF Types
  <1>7. \A h \in Handles : Abstract[h] = State(h)
    BY DEF Abstract
  <1>b. ASSUME NEW h \in Handles, NEW to, Goto(h, to), ~(pc[h] = "link" /\ to = "leave")
        PROVE  \A s \in Senders : ~LinkLast(s)
    <2>1. pc' = [pc EXCEPT ![h] = to]
      BY <1>b DEF Goto
    <2>. SUFFICES ASSUME NEW s \in Senders, LinkLast(s) PROVE FALSE
      OBVIOUS
    <2>2. pc[s] = "link" /\ pc'[s] = "leave"
      BY <1>4 DEF LinkLast, At, Goto
    <2>. QED
      BY <1>4, <1>b, <2>1, <2>2
  <1>c. ASSUME NEW h \in Handles, NEW to, At(h, pc[h], to), ~(pc[h] = "link" /\ to = "leave"),
               UNCHANGED len, h \in Senders => pc[h] \notin UncountedPCs /\ to \notin UncountedPCs
        PROVE  /\ Queue' = Queue /\ Out' = Out
               /\ pc'[h] = to /\ Abstract' = [Abstract EXCEPT ![h] = State(h)']
    <2>1. \A s \in Senders : ~LinkLast(s)
      BY <1>b, <1>c DEF At
    <2>. QED
      BY <1>1, <1>3, <1>c, <2>1, MoveStep
  <1>d. CASE UNCHANGED vars
    <2>1. Abstract' = Abstract
      BY <1>d DEF Abstract, State
    <2>2. Uncounted' = Uncounted /\ \A s \in Senders : ~LinkLast(s)
      <3>1. Uncounted' = Uncounted
        BY <1>d DEF Uncounted
      <3>2. ASSUME NEW s \in Senders, LinkLast(s) PROVE FALSE
        BY <1>4, <1>d, <3>2 DEF LinkLast, At, Goto
      <3>. QED
        BY <3>1, <3>2
    <2>3. Queue' = Queue /\ Out' = Out
      BY <1>6, <1>d, <2>2, SameView DEF Waiting
    <2>. QED
      BY <1>d, <2>1, <2>3 DEF Contract!vars, Queue, Out, Abstract
  <1>e. ASSUME NEW h \in Handles, Hidden(h) PROVE [Contract!Next]_Contract!vars
    <2>1. Abstract' = Abstract /\ Waiting' = Waiting /\ \A s \in Senders : ~LinkLast(s)
      BY <1>1, <1>e, HiddenStep
    <2>2. Shows(n, chain) /\ Shows(n, chain)'
      BY <1>6, <2>1
    <2>3. Queue' = Queue /\ Out' = Out
      BY <2>1, <2>2, SameView
    <2>. QED
      BY <1>e, <2>1, <2>3 DEF Hidden, Contract!vars, Queue, Out, Abstract
  <1>f. ASSUME NEW r \in Receivers, SeenPop(r) PROVE Contract!Next
    <2>0. r \in Handles /\ r \notin Senders /\ Abstract[r] = State(r)
      BY <1>4, <1>7
    <2>. USE DEF Contract!Become
    <2>1. CASE Recv(r)
      <3>1. /\ Queue' = Queue /\ Out' = Out /\ pc[r] = "idle" /\ pc'[r] = "lock"
            /\ Abstract' = [Abstract EXCEPT ![r] = State(r)'] /\ UNCHANGED sent
        BY <1>c, <2>0, <2>1 DEF Recv, At
      <3>2. State(r) = "idle" /\ State(r)' = "called"
        BY <3>1 DEF State
      <3>3. Contract!CallRecv(r)
        BY <2>0, <3>1, <3>2 DEF Contract!CallRecv, Queue, Out, Abstract
      <3>. QED
        BY <3>3 DEF Contract!Next
    <2>2. CASE Reserve(r)
      <3>1. /\ pc[r] = "lock" /\ pc'[r] = "front" /\ OthersStay(r) /\ UNCHANGED sent
            /\ len' = len - 1
        BY <1>1, <2>0, <2>2, Going DEF Reserve, At
      <3>2. \A s \in Senders : ~LinkLast(s)
        BY <1>b, <2>0, <2>2 DEF Reserve, At
      <3>3. Uncounted' = Uncounted
        BY <1>1, <2>0, <3>1, WaitingStep
      <3>4. Waiting' = Waiting - 1
        BY <1>6, <3>1, <3>3 DEF Waiting
      <3>5. Queue # <<>> /\ Queue' = Tail(Queue) /\ Out' = Append(Out, Head(Queue))
        BY <1>6, <3>2, <3>4, ReceivedView
      <3>6. State(r) = "called" /\ State(r)' = "received"
        BY <2>0, <3>1 DEF State
      <3>7. Abstract' = [Abstract EXCEPT ![r] = State(r)']
        BY <1>1, <2>0, <3>1, MoveRefines
      <3>8. Contract!Receive(r)
        BY <2>0, <3>1, <3>5, <3>6, <3>7 DEF Contract!Receive, Queue, Out, Abstract
      <3>. QED
        BY <3>8 DEF Contract!Next
    <2>3. CASE FindClosed(r)
      <3>1. /\ Queue' = Queue /\ Out' = Out /\ pc[r] = "check" /\ pc'[r] = "closed"
            /\ Abstract' = [Abstract EXCEPT ![r] = State(r)'] /\ UNCHANGED sent
            /\ senders = 0
        BY <1>c, <2>0, <2>3 DEF FindClosed, At
      <3>2. State(r) = "called" /\ State(r)' = "closed"
        BY <2>0, <3>1 DEF State
      <3>3. Uncounted = 0
        <4>1. LiveSenders = {}
          <5>1. LiveSenders \in SUBSET Senders /\ Cardinality(LiveSenders) = 0
            BY <3>1 DEF LiveSenders, HandlesHold
          <5>. QED
            BY <5>1, Names, Sizes
        <4>2. {s \in Senders : pc[s] \in {"leave", "open", "count"}} = {}
          BY <4>1 DEF LiveSenders
        <4>. QED
          BY <4>2, FS_EmptySet DEF Uncounted
      <3>4. Waiting = 0
        BY <3>1, <3>3 DEF Waiting, HandlesHold
      <3>5. Queue = <<>> /\ ~Contract!SomeSender
        BY <1>5, <1>6, <3>1, <3>4, EmptySeq DEF Shows
      <3>6. Contract!Close(r)
        BY <2>0, <3>1, <3>2, <3>5 DEF Contract!Close, Queue, Out, Abstract
      <3>. QED
        BY <3>6 DEF Contract!Next
    <2>4. CASE Take(r) \/ Return(r)
      <3>1. /\ Queue' = Queue /\ Out' = Out /\ pc[r] \in {"take", "closed"} /\ pc'[r] = "idle"
            /\ Abstract' = [Abstract EXCEPT ![r] = State(r)'] /\ UNCHANGED sent
        <4>1. /\ At(r, pc[r], "idle") /\ pc[r] \in {"take", "sent", "refused", "closed"}
              /\ pc[r] \in ReceiverPCs /\ UNCHANGED <<len, sent>>
          BY <1>1, <2>4 DEF Take, Return, At, Types
        <4>. QED
          BY <1>c, <2>0, <4>1 DEF ReceiverPCs
      <3>2. State(r) \in {"received", "closed"} /\ State(r)' = "idle"
        BY <2>0, <3>1 DEF State
      <3>3. Contract!Return(r)
        BY <2>0, <3>1, <3>2 DEF Contract!Return, Queue, Out, Abstract
      <3>. QED
        BY <2>0, <3>3 DEF Contract!Next, Contract!Handles, Handles
    <2>5. CASE DropReceiver(r)
      <3>1. /\ Queue' = Queue /\ Out' = Out /\ pc[r] = "idle" /\ pc'[r] = "gone"
            /\ Abstract' = [Abstract EXCEPT ![r] = State(r)'] /\ UNCHANGED sent
        BY <1>c, <2>0, <2>5 DEF DropReceiver, At
      <3>2. State(r) = "idle" /\ State(r)' = "gone"
        BY <3>1 DEF State
      <3>3. Contract!DropHandle(r)
        BY <2>0, <3>1, <3>2 DEF Contract!DropHandle, Queue, Out, Abstract
      <3>. QED
        BY <2>0, <3>3 DEF Contract!Next, Contract!Handles, Handles
    <2>6. ASSUME NEW c \in Receivers, CloneReceiver(r, c) PROVE Contract!Next
      <3>0. c \in Handles /\ c \notin Senders /\ Abstract[c] = State(c)
        BY <1>4, <1>7
      <3>1. /\ Queue' = Queue /\ Out' = Out /\ pc[c] = "none" /\ pc'[c] = "idle"
            /\ Abstract' = [Abstract EXCEPT ![c] = State(c)'] /\ UNCHANGED sent
            /\ pc[r] = "idle"
        BY <1>c, <2>6, <3>0 DEF CloneReceiver, At
      <3>2. State(c) = "none" /\ State(c)' = "idle" /\ State(r) = "idle"
        BY <3>1 DEF State
      <3>3. Contract!Clone(r, c)
        BY <2>0, <3>0, <3>1, <3>2 DEF Contract!Clone, Queue, Out, Abstract
      <3>. QED
        BY <3>3 DEF Contract!Next
    <2>. QED
      BY <1>f, <2>1, <2>2, <2>3, <2>4, <2>5, <2>6 DEF SeenPop
  <1>g. ASSUME NEW s \in Senders, SeenPush(s) PROVE Contract!Next
    <2>0. s \in Handles /\ s \notin Receivers /\ Abstract[s] = State(s)
      BY <1>4, <1>7
    <2>. USE DEF Contract!Become
    <2>1. CASE Send(s)
      <3>1. /\ Queue' = Queue /\ Out' = Out /\ pc[s] = "idle" /\ pc'[s] = "send"
            /\ Abstract' = [Abstract EXCEPT ![s] = State(s)']
            /\ sent' = [sent EXCEPT ![s] = @ + 1]
        BY <1>c, <2>0, <2>1 DEF Send, At, UncountedPCs
      <3>2. State(s) = "idle" /\ State(s)' = "called"
        BY <3>1 DEF State
      <3>3. Contract!CallSend(s)
        BY <2>0, <3>1, <3>2 DEF Contract!CallSend, Queue, Out, Abstract
      <3>. QED
        BY <3>3 DEF Contract!Next
    <2>2. CASE SendClosed(s)
      <3>1. /\ Queue' = Queue /\ Out' = Out /\ pc[s] = "send" /\ pc'[s] = "refused"
            /\ Abstract' = [Abstract EXCEPT ![s] = State(s)'] /\ UNCHANGED sent
            /\ receivers = 0
        BY <1>c, <2>0, <2>2 DEF SendClosed, At, UncountedPCs
      <3>2. State(s) = "called" /\ State(s)' = "refused"
        BY <3>1 DEF State
      <3>3. Contract!Refuse(s)
        BY <1>5, <2>0, <3>1, <3>2 DEF Contract!Refuse, Queue, Out, Abstract
      <3>. QED
        BY <3>3 DEF Contract!Next
    <2>3. CASE FindReceivers(s)
      <3>1. /\ Queue' = Queue /\ Out' = Out /\ pc[s] = "send" /\ pc'[s] = "back"
            /\ Abstract' = [Abstract EXCEPT ![s] = State(s)'] /\ UNCHANGED sent
            /\ receivers > 0
        BY <1>c, <2>0, <2>3 DEF FindReceivers, At, UncountedPCs
      <3>2. State(s) = "called" /\ State(s)' = "admitted"
        BY <3>1 DEF State
      <3>3. Contract!SomeReceiver
        BY <1>5, <3>1
      <3>4. Contract!Admit(s)
        BY <2>0, <3>1, <3>2, <3>3 DEF Contract!Admit, Queue, Out, Abstract
      <3>. QED
        BY <3>4 DEF Contract!Next
    <2>4. CASE LinkLast(s)
      <3>1. /\ pc[s] = "link" /\ pc'[s] = "leave" /\ OthersStay(s) /\ UNCHANGED <<sent, len>>
        BY <1>1, <2>0, <2>4, Going DEF LinkLast, At
      <3>2. Own(s) \in Values
        BY <1>1, <1>3, <2>4, LinkIs
      <3>3. PICK longer \in [1..(n + 1) -> Values] :
              (\A i \in 1..n : longer[i] = chain[i]) /\ longer[n + 1] = Own(s)
              /\ ListFits(n + 1, longer)'
        BY <1>1, <1>3, <2>4, ChainGrows
      <3>4. Shows(n + 1, longer)'
        BY <1>1, <3>3, NextViewIs
      <3>5. Waiting' = Waiting + 1
        <4>1. \A t \in Senders \ {s} : pc'[t] \in UncountedPCs <=> pc[t] \in UncountedPCs
          BY <1>4, <3>1 DEF OthersStay
        <4>2. Uncounted' = Uncounted + 1
          BY <3>1, <4>1, UncountedIs DEF UncountedPCs
        <4>. QED
          BY <1>6, <3>1, <4>2 DEF Waiting
      <3>6. Queue' = Append(Queue, Own(s)) /\ Out' = Out
        BY <1>6, <3>2, <3>3, <3>4, <3>5, AcceptedView
      <3>7. State(s) = "admitted" /\ State(s)' = "accepted"
        BY <3>1 DEF State
      <3>8. Abstract' = [Abstract EXCEPT ![s] = State(s)']
        BY <1>1, <2>0, <3>1, MoveRefines
      <3>9. Contract!Accept(s)
        BY <2>0, <3>1, <3>6, <3>7, <3>8 DEF Contract!Accept, Queue, Out, Abstract, Own
      <3>. QED
        BY <3>9 DEF Contract!Next
    <2>5. CASE Return(s)
      <3>1. /\ Queue' = Queue /\ Out' = Out /\ pc[s] \in {"sent", "refused"} /\ pc'[s] = "idle"
            /\ Abstract' = [Abstract EXCEPT ![s] = State(s)'] /\ UNCHANGED sent
        <4>1. /\ At(s, pc[s], "idle") /\ pc[s] \in {"sent", "refused", "closed"}
              /\ pc[s] \in SenderPCs /\ UNCHANGED <<len, sent>>
          BY <1>1, <2>5 DEF Return, At, Types
        <4>2. pc[s] \in {"sent", "refused"}
          BY <4>1 DEF SenderPCs
        <4>. QED
          BY <1>c, <2>0, <4>1, <4>2 DEF UncountedPCs
      <3>2. State(s) \in {"accepted", "refused"} /\ State(s)' = "idle"
        BY <3>1 DEF State
      <3>3. Contract!Return(s)
        BY <2>0, <3>1, <3>2 DEF Contract!Return, Queue, Out, Abstract
      <3>. QED
        BY <2>0, <3>3 DEF Contract!Next, Contract!Handles, Handles
    <2>6. CASE DropSender(s)
      <3>1. /\ Queue' = Queue /\ Out' = Out /\ pc[s] = "idle" /\ pc'[s] = "wake"
            /\ Abstract' = [Abstract EXCEPT ![s] = State(s)'] /\ UNCHANGED sent
        BY <1>c, <2>0, <2>6 DEF DropSender, At, UncountedPCs
      <3>2. State(s) = "idle" /\ State(s)' = "gone"
        BY <3>1 DEF State
      <3>3. Contract!DropHandle(s)
        BY <2>0, <3>1, <3>2 DEF Contract!DropHandle, Queue, Out, Abstract
      <3>. QED
        BY <2>0, <3>3 DEF Contract!Next, Contract!Handles, Handles
    <2>7. ASSUME NEW c \in Senders, CloneSender(s, c) PROVE Contract!Next
      <3>0. c \in Handles /\ Abstract[c] = State(c)
        BY <1>4, <1>7
      <3>1. /\ Queue' = Queue /\ Out' = Out /\ pc[c] = "none" /\ pc'[c] = "idle"
            /\ Abstract' = [Abstract EXCEPT ![c] = State(c)'] /\ UNCHANGED sent
            /\ pc[s] = "idle"
        BY <1>c, <2>7, <3>0 DEF CloneSender, At, UncountedPCs
      <3>2. State(c) = "none" /\ State(c)' = "idle" /\ State(s) = "idle"
        BY <3>1 DEF State
      <3>3. Contract!Clone(s, c)
        BY <2>0, <3>0, <3>1, <3>2 DEF Contract!Clone, Queue, Out, Abstract
      <3>. QED
        BY <3>3 DEF Contract!Next
    <2>. QED
      BY <1>g, <2>1, <2>2, <2>3, <2>4, <2>5, <2>6, <2>7 DEF SeenPush
  <1>. QED
    BY <1>1, <1>d, <1>e, <1>f, <1>g, SeenOrHidden

\* Version 3 implements the contract: a run of its unsynchronised list, with pushes and
\* pops under way at once, is one of Channel, so that values leave in the order in which
\* they were linked, each once, and a call is refused or closed only for the reason the
\* traits give.
THEOREM ListChannelRefines == Spec => ImplementsChannel
  <1>1. Init => Contract!Init
    <2>. SUFFICES ASSUME Init PROVE Contract!Init
      OBVIOUS
    <2>1. PICK n \in Nat : \E chain \in [1..n -> Values] : ListFits(n, chain)
      BY InitInv DEF Inv
    <2>2. PICK chain \in [1..n -> Values] : ListFits(n, chain)
      BY <2>1
    <2>3. Types /\ Shows(n, chain)
      BY <2>2, InitInv, ViewIs DEF Inv
    <2>4. Reserved = 0 /\ Uncounted = 0
      <3>1. \A h \in Handles : pc[h] \in {"none", "idle"}
        BY DEF Init
      <3>2. /\ {r \in Receivers : pc[r] \in
                  {"front", "read", "declare", "succ", "access", "unlink"}} = {}
            /\ {s \in Senders : pc[s] \in {"leave", "open", "count"}} = {}
        BY <3>1, Names
      <3>. QED
        BY <3>2, FS_EmptySet DEF Reserved, Uncounted
    <2>5. Gone = 0 /\ len = 0
      BY DEF Init, Gone
    <2>6. n = 0 /\ Waiting = 0
      BY <2>2, <2>4, <2>5 DEF Waiting, ListFits, Counted
    <2>7. Queue = <<>> /\ Out = <<>>
      BY <2>3, <2>6, EmptySeq DEF Shows
    <2>8. Abstract = [h \in Contract!Handles |->
                        IF h \in FirstSenders \cup FirstReceivers THEN "idle" ELSE "none"]
      BY DEF Init, Abstract, State, Handles, Contract!Handles
    <2>. QED
      BY <2>7, <2>8 DEF Init, Contract!Init, Queue, Out, Abstract
  <1>2. Types /\ HandlesHold /\ [Next]_vars => HandlesHold'
    BY HandlesStep
  <1>3. Inv => Types
    BY DEF Inv
  <1>4. Inv /\ Inv' /\ HandlesHold /\ [Next]_vars => [Contract!Next]_Contract!vars
    BY StepRefines
  <1>. QED
    BY <1>1, <1>2, <1>3, <1>4, HandlesInit, ListInvariant, PTL
    DEF Spec, ImplementsChannel, Contract!Spec
=============================================================================
