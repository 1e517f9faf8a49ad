--------------------------- MODULE BenchmarkProofs ---------------------------
(***************************************************************************)
(* Theorems about Benchmark, for any threads, any of them panicking, any   *)
(* times to live and any bounds: what the engine leaves on disk is what    *)
(* the aggregator needs of a run.                                          *)
(*                                                                         *)
(* The properties are about the logs.  The invariant Inv is about the      *)
(* values on their way: each accepted one is in one place, the queue, a    *)
(* call of recv or a receiver's log, and its id leads back to the send     *)
(* that logged it or is about to.                                          *)
(***************************************************************************)
EXTENDS Benchmark, FiniteSetTheorems, TLAPS

USE DEF channelVars, eventVars, fileVars, vars, Goto

MainPCs == {"config", "rejected", "spawn", "barrier", "join", "completed", "panicked"}
PCs == {"none", "spawned", "waiting", "loop", "taken", "sending", "receiving", "check",
        "drop", "complete", "ended", "panicked"}
Values == SendrThreads \X (Nat \ {0})
Rows == [start : Nat, end : Nat, id : Nat]

Types ==
  /\ clock \in Nat /\ arrived \in Nat /\ id_bank \in Nat
  /\ main \in MainPCs /\ pc \in [Threads -> PCs]
  /\ state \in [Chan!Handles -> Chan!SenderStates \cup Chan!ReceiverStates]
  /\ sent \in [Senders -> Nat]
  /\ queue \in Seq(Values) /\ received \in Seq(Values)
  /\ ids \in [SendrThreads -> Seq(Nat)]
  /\ got \in [RecvrThreads -> Values \cup {None}]
  /\ begun \in [Threads -> Nat]
  /\ log \in [Threads -> Seq(Rows)]

\* Where a thread stands and what the channel knows of its handle.
OutOfCall == {"spawned", "waiting", "loop", "taken", "check", "drop"}
Over == {"complete", "ended", "panicked"}
PlacesFit ==
  \A t \in Threads :
    /\ pc[t] = "none" => state[t] = "none"
    /\ pc[t] \in OutOfCall => state[t] = "idle"
    /\ pc[t] = "sending" => state[t] \in {"called", "admitted", "accepted", "refused"}
    /\ pc[t] = "receiving" => state[t] \in {"called", "received", "closed"}
    /\ pc[t] \in Over => state[t] = "gone"
    /\ pc[t] \in {"taken", "sending"} => t \in SendrThreads
    /\ pc[t] = "receiving" => t \in RecvrThreads

\* Nobody passes the barrier before all have come to it.
Arrived == {t \in Threads : pc[t] \notin {"none", "spawned"}}
MainArrived == main \in {"join", "completed", "panicked"}
BarrierHolds ==
  /\ main \in {"barrier", "join", "completed", "panicked"} => AllSpawned
  /\ arrived = Cardinality(Arrived) + (IF MainArrived THEN 1 ELSE 0)
  /\ \A t \in Arrived : pc[t] # "waiting" => Arrived = Threads

\* A sender takes an id per send and logs one event per send that was accepted.
SendsFit ==
  \A s \in SendrThreads :
    /\ Len(ids[s]) = sent[s] + (IF pc[s] = "taken" THEN 1 ELSE 0)
    /\ pc[s] = "sending" => sent[s] = Len(log[s]) + 1
    /\ pc[s] \notin {"sending", "drop"} \cup Over => sent[s] = Len(log[s])
    /\ sent[s] \in {Len(log[s]), Len(log[s]) + 1}
    /\ \A n \in 1..Len(log[s]) : log[s][n].id = ids[s][n]

IdsUnique ==
  /\ \A s \in SendrThreads : \A n \in 1..Len(ids[s]) : ids[s][n] < id_bank
  /\ \A s, t \in SendrThreads : \A m \in 1..Len(ids[s]), n \in 1..Len(ids[t]) :
       ids[s][m] = ids[t][n] => s = t /\ m = n

\* Values that were accepted; the last of a sender perhaps before its event is logged.
WasAccepted(v) ==
  \/ v[2] \in 1..Len(log[v[1]])
  \/ v[2] = sent[v[1]] /\ state[v[1]] = "accepted"
Holding(r) == pc[r] = "receiving" /\ state[r] = "received"

\* An accepted value is in one place: the queue, a call of recv, or a receiver's log.
QueueFits ==
  /\ \A i \in 1..Len(queue) : WasAccepted(queue[i])
  /\ \A i, j \in 1..Len(queue) : queue[i] = queue[j] => i = j
HeldFits ==
  \A r \in RecvrThreads : Holding(r) =>
    /\ got[r] \in Values /\ WasAccepted(got[r])
    /\ \A i \in 1..Len(queue) : queue[i] # got[r]
    /\ \A q \in RecvrThreads : Holding(q) /\ got[q] = got[r] => q = r
LoggedFits ==
  \A r \in RecvrThreads : \A n \in 1..Len(log[r]) :
    /\ \E v \in Values : WasAccepted(v) /\ log[r][n].id = IdOf(v)
    /\ \A i \in 1..Len(queue) : IdOf(queue[i]) # log[r][n].id
    /\ \A q \in RecvrThreads : Holding(q) => IdOf(got[q]) # log[r][n].id
    /\ \A q \in RecvrThreads : \A m \in 1..Len(log[q]) :
         log[q][m].id = log[r][n].id => q = r /\ m = n
InOnePlace == QueueFits /\ HeldFits /\ LoggedFits

\* The times in the logs, and those of the events under way.
TimesFit ==
  /\ \A t \in Threads : begun[t] <= clock
  /\ \A t \in Threads : \A n \in 1..Len(log[t]) :
       log[t][n].start <= log[t][n].end /\ log[t][n].end <= clock
  /\ \A r \in RecvrThreads, s \in SendrThreads : \A n \in 1..Len(log[r]) :
       /\ state[s] = "accepted" /\ IdOf(<<s, sent[s]>>) = log[r][n].id =>
            begun[s] <= log[r][n].end
       /\ \A m \in 1..Len(log[s]) :
            log[s][m].id = log[r][n].id => log[s][m].start <= log[r][n].end

\* What a thread knows when it gives up its handle: a receiver has received or seen
\* nobody left who could send, and the other way round.
SomePanic == \E t \in Threads : pc[t] = "panicked"
Leaves(t) == pc[t] \in {"drop", "complete", "ended"} \/ state[t] \in {"refused", "closed"}
ReceiversLeave ==
  \A r \in RecvrThreads :
    /\ pc[r] = "check" \/ Holding(r) => received # <<>>
    /\ Leaves(r) => received # <<>> \/ SomePanic
SendersLeave ==
  \A s \in SendrThreads :
    /\ pc[s] = "check" \/ state[s] = "accepted" => queue # <<>> \/ received # <<>>
    /\ Leaves(s) => queue # <<>> \/ received # <<>> \/ SomePanic
Came(v) ==
  \/ \E r \in RecvrThreads : Holding(r) /\ got[r] = v
  \/ \E r \in RecvrThreads : \E n \in 1..Len(log[r]) : log[r][n].id = IdOf(v)
ReceivedFits == \A i \in 1..Len(received) : WasAccepted(received[i]) /\ Came(received[i])
LeftForAReason == ReceiversLeave /\ SendersLeave /\ ReceivedFits

\* A file on disk holds the first rows that its thread logged, all of them or fewer.
FirstRows(t, file) ==
  /\ file.kind = Kind(t)
  /\ \A n \in DOMAIN file.rows : n \in 1..Len(log[t]) /\ file.rows[n] = log[t][n]

\* The files are those of threads that ended; the run's own comes after all of them.
RunFits ==
  /\ DOMAIN files \subseteq {t \in Threads : pc[t] = "ended"}
  /\ \A t \in DOMAIN files : FirstRows(t, files[t])
  /\ main = "completed" => \A t \in Threads : pc[t] = "ended"
  /\ span # None =>
       /\ main = "completed" /\ span \in {0} \X Nat
       /\ \A t \in Threads : \A n \in 1..Len(log[t]) : log[t][n].end <= span[2]

Inv ==
  /\ Types /\ PlacesFit /\ BarrierHolds /\ SendsFit /\ IdsUnique /\ InOnePlace
  /\ TimesFit /\ LeftForAReason /\ RunFits

-----------------------------------------------------------------------------
\* The handles of the threads and of main, all different.
LEMMA Names ==
  /\ IsFiniteSet(Threads) /\ Threads = SendrThreads \cup RecvrThreads
  /\ SendrThreads # {} /\ RecvrThreads # {} /\ SendrThreads \cap RecvrThreads = {}
  /\ Chan!Handles = Threads \cup {MainTx, MainRx} /\ MainTx # MainRx
  /\ MainTx \notin Threads /\ MainRx \notin Threads
  /\ Senders = SendrThreads \cup {MainTx} /\ Receivers = RecvrThreads \cup {MainRx}
  BY BenchmarkAssumption DEF Threads, Senders, Receivers, Chan!Handles

\* A first state is typed.
LEMMA InitTypes == ASSUME Init PROVE Types
  BY DEF Init, Chan!Init, Chan!Handles, Types, MainPCs, PCs, Chan!SenderStates, Chan!ReceiverStates

\* The handles that main spawns and joins are the threads'.
LEMMA HandlesAre == ASSUME NEW i \in DOMAIN handles PROVE handles[i] \in Threads
  <1>1. ASSUME NEW S, IsFiniteSet(S) PROVE SetToSeq(S) \in Seq(S)
    <2>1. \E f \in [1..Cardinality(S) -> S] : IsInjective(f)
      BY <1>1, FS_CardinalityType DEF ExistsBijection, Bijection, Injection
    <2>2. SetToSeq(S) \in [1..Cardinality(S) -> S]
      BY <2>1 DEF SetToSeq
    <2>3. Cardinality(S) \in Nat
      BY <1>1, FS_CardinalityType
    <2>. QED
      BY <2>2, <2>3
  <1>2. IsFiniteSet(SendrThreads) /\ IsFiniteSet(RecvrThreads)
    BY Names, FS_Subset
  <1>3. SetToSeq(SendrThreads) \in Seq(Threads) /\ SetToSeq(RecvrThreads) \in Seq(Threads)
    BY <1>1, <1>2, Names
  <1>. QED
    BY <1>3 DEF handles

\* The steps of main keep the types.
LEMMA MainTypes ==
  ASSUME Types, MainStep \/ NextConfig \/ Tick
  PROVE  Types'
  <1>0. CASE Reject \/ Accept
    BY <1>0 DEF Reject, Accept, Types, MainPCs
  <1>1. CASE MainArrives
    BY <1>1 DEF MainArrives, Types, MainPCs
  <1>2. CASE Complete \/ FailComplete \/ JoinPanic \/ Tick
    BY <1>2 DEF Complete, FailComplete, JoinPanic, Tick, Types, MainPCs
  <1>3. CASE SpawnThread
    BY <1>3, HandlesAre DEF SpawnThread, Chan!Clone, Chan!Become, Chan!SenderStates, Types, PCs
  <1>4. CASE DropOriginals
    BY <1>4 DEF DropOriginals, Chan!DropHandle, Chan!Become, Chan!SenderStates, Types, MainPCs
  <1>5. CASE NextConfig
    BY <1>5 DEF NextConfig, Chan!SenderStates, Types, MainPCs, PCs
  <1>. QED
    BY <1>0, <1>1, <1>2, <1>3, <1>4, <1>5 DEF MainStep

\* What the types say of one sender.
LEMMA Lengths ==
  ASSUME Types, NEW s \in SendrThreads
  PROVE  /\ ids[s] \in Seq(Nat) /\ log[s] \in Seq(Rows) /\ sent[s] \in Nat
         /\ Len(ids[s]) \in Nat /\ Len(log[s]) \in Nat
         /\ \A n \in 1..Len(ids[s]) : ids[s][n] \in Nat
  <1>1. ids[s] \in Seq(Nat) /\ log[s] \in Seq(Rows) /\ sent[s] \in Nat
    BY Names DEF Types
  <1>. QED
    BY <1>1

\* An accepted value has an id.
LEMMA AcceptedHasId ==
  ASSUME Types, SendsFit, NEW s \in SendrThreads, NEW n \in Nat \ {0}, WasAccepted(<<s, n>>)
  PROVE  /\ n \in 1..sent[s] /\ n \in 1..Len(ids[s])
         /\ IdOf(<<s, n>>) = ids[s][n] /\ IdOf(<<s, n>>) \in Nat
  <1>1. n \in 1..Len(log[s]) \/ n = sent[s]
    BY DEF WasAccepted
  <1>2. n \in 1..sent[s] /\ n \in 1..Len(ids[s])
    BY <1>1, Lengths DEF SendsFit
  <1>. QED
    BY <1>2, Lengths DEF IdOf

\* So has the value of a send that is under way.
LEMMA SendingHasId ==
  ASSUME Types, SendsFit, NEW s \in SendrThreads, pc[s] = "sending"
  PROVE  /\ sent[s] = Len(log[s]) + 1 /\ Len(ids[s]) = sent[s] /\ sent[s] \in Nat \ {0}
         /\ IdOf(<<s, sent[s]>>) = ids[s][sent[s]] /\ IdOf(<<s, sent[s]>>) \in Nat
  <1>1. sent[s] = Len(log[s]) + 1 /\ Len(ids[s]) = sent[s] /\ sent[s] \in Nat \ {0}
    BY Lengths DEF SendsFit
  <1>2. sent[s] \in 1..Len(ids[s])
    BY <1>1
  <1>. QED
    BY <1>1, <1>2, Lengths DEF IdOf

\* The steps of a thread keep the types: an id is logged only of a value that has one.
LEMMA ThreadTypes ==
  ASSUME Types, PlacesFit, SendsFit, InOnePlace, NEW t \in Threads, ThreadStep(t) \/ Panic(t)
  PROVE  Types'
  <1>. USE DEF Types, PCs, Forget
  <1>1. CASE ArriveBarrier(t)
    BY <1>1 DEF ArriveBarrier
  <1>2. CASE PassBarrier(t)
    BY <1>2 DEF PassBarrier
  <1>3. CASE KeepAlive(t)
    BY <1>3 DEF KeepAlive
  <1>4. CASE Expire(t)
    BY <1>4 DEF Expire
  <1>5. CASE CompleteRunner(t) \/ FailRunner(t)
    BY <1>5 DEF CompleteRunner, FailRunner
  <1>6. CASE t \in SendrThreads /\ TakeId(t)
    BY <1>6 DEF TakeId
  <1>. USE DEF Chan!Become, Chan!SenderStates
  <1>7. CASE t \in SendrThreads /\ Send(t)
    BY <1>7, Names DEF Send, Chan!CallSend
  <1>8. CASE t \in RecvrThreads /\ Recv(t)
    BY <1>8 DEF Recv, Chan!CallRecv
  <1>9. CASE InCall(t)
    <2>1. CASE t \in SendrThreads /\ Chan!Admit(t) /\ UNCHANGED got
      BY <1>9, <2>1 DEF InCall, Chan!Admit
    <2>2. CASE t \in SendrThreads /\ Chan!Refuse(t) /\ UNCHANGED got
      BY <1>9, <2>2 DEF InCall, Chan!Refuse
    <2>3. CASE t \in SendrThreads /\ Chan!Accept(t) /\ UNCHANGED got
      <3>1. state[t] \in {"admitted", "called"}
        BY <2>3 DEF Chan!Accept
      <3>2. pc[t] = "sending"
        BY <2>3, <3>1, Names DEF PlacesFit, OutOfCall, Over
      <3>3. sent[t] \in Nat \ {0}
        BY <2>3, <3>2 DEF SendsFit
      <3>4. Append(queue, <<t, sent[t]>>) \in Seq(Values)
        BY <2>3, <3>3 DEF Values
      <3>. QED
        BY <1>9, <2>3, <3>4 DEF InCall, Chan!Accept
    <2>4. CASE t \in RecvrThreads /\ Chan!Receive(t) /\ got' = [got EXCEPT ![t] = Head(queue)]
      <3>1. Head(queue) \in Values /\ Tail(queue) \in Seq(Values)
        BY <2>4 DEF Chan!Receive
      <3>2. Append(received, Head(queue)) \in Seq(Values)
        BY <3>1
      <3>. QED
        BY <1>9, <2>4, <3>1, <3>2 DEF InCall, Chan!Receive, Chan!ReceiverStates
    <2>5. CASE t \in RecvrThreads /\ Chan!Close(t) /\ UNCHANGED got
      BY <1>9, <2>5 DEF InCall, Chan!Close, Chan!ReceiverStates
    <2>. QED
      BY <1>9, <2>1, <2>2, <2>3, <2>4, <2>5 DEF InCall
  <1>10. CASE t \in SendrThreads /\ FinishSend(t)
    <2>1. IdOf(<<t, sent[t]>>) \in Nat
      BY <1>10, SendingHasId DEF FinishSend
    <2>2. Event(begun[t], clock, IdOf(<<t, sent[t]>>)) \in Rows
      BY <2>1 DEF Event, Rows
    <2>3. Append(log[t], Event(begun[t], clock, IdOf(<<t, sent[t]>>))) \in Seq(Rows)
      BY <2>2
    <2>. QED
      BY <1>10, <2>3 DEF FinishSend, Chan!Return, Finish
  <1>11. CASE t \in RecvrThreads /\ FinishRecv(t)
    <2>1. got[t] \in Values /\ WasAccepted(got[t])
      BY <1>11 DEF FinishRecv, InOnePlace, HeldFits, Holding
    <2>2. IdOf(got[t]) \in Nat
      BY <2>1, AcceptedHasId DEF Values
    <2>3. Event(begun[t], clock, IdOf(got[t])) \in Rows
      BY <2>2 DEF Event, Rows
    <2>4. Append(log[t], Event(begun[t], clock, IdOf(got[t]))) \in Seq(Rows)
      BY <2>3
    <2>. QED
      BY <1>11, <2>4 DEF FinishRecv, Chan!Return, Finish
  <1>12. CASE FailCall(t)
    BY <1>12 DEF FailCall, Chan!Return
  <1>13. CASE DropHandle(t)
    BY <1>13 DEF DropHandle, Chan!DropHandle
  <1>14. CASE Panic(t)
    BY <1>14 DEF Panic
  <1>. QED
    BY <1>1, <1>2, <1>3, <1>4, <1>5, <1>6, <1>7, <1>8, <1>9, <1>10, <1>11, <1>12, <1>13,
       <1>14 DEF ThreadStep

\* Every step keeps the types.
LEMMA TypesStep == Types /\ PlacesFit /\ SendsFit /\ InOnePlace /\ [Next]_vars => Types'
  <1>1. CASE UNCHANGED vars
    BY <1>1 DEF Types
  <1>. QED
    BY <1>1, MainTypes, ThreadTypes DEF Next

-----------------------------------------------------------------------------
\* A thread and its handle move together.
LEMMA PlacesStep == Types /\ PlacesFit /\ [Next]_vars => PlacesFit'
  <1>. SUFFICES ASSUME Types, PlacesFit, [Next]_vars PROVE PlacesFit'
    OBVIOUS
  <1>a. /\ pc \in [Threads -> PCs] /\ DOMAIN state = Chan!Handles
        /\ Threads \subseteq Chan!Handles /\ MainTx \in Chan!Handles \ Threads
        /\ MainRx \in Chan!Handles \ Threads
    BY Names DEF Types
  <1>. USE <1>a DEF PlacesFit, OutOfCall, Over
  <1>1. CASE UNCHANGED <<pc, state>>
    BY <1>1
  <1>2. CASE SpawnThread
    BY <1>2, HandlesAre DEF SpawnThread, Chan!Clone, Chan!Become
  <1>3. CASE DropOriginals
    BY <1>3 DEF DropOriginals, Chan!DropHandle, Chan!Become
  <1>4. CASE NextConfig
    BY <1>4 DEF NextConfig
  <1>5. ASSUME NEW t \in Threads, ThreadStep(t) \/ Panic(t) PROVE PlacesFit'
    <2>1. CASE ArriveBarrier(t)
      BY <2>1 DEF ArriveBarrier
    <2>2. CASE PassBarrier(t)
      BY <2>2 DEF PassBarrier
    <2>3. CASE KeepAlive(t)
      BY <2>3 DEF KeepAlive
    <2>4. CASE Expire(t)
      BY <2>4 DEF Expire
    <2>5. CASE CompleteRunner(t) \/ FailRunner(t)
      BY <2>5 DEF CompleteRunner, FailRunner
    <2>6. CASE t \in SendrThreads /\ TakeId(t)
      BY <2>6 DEF TakeId
    <2>7. CASE t \in SendrThreads /\ Send(t)
      BY <2>7 DEF Send, Chan!CallSend, Chan!Become
    <2>8. CASE t \in RecvrThreads /\ Recv(t)
      BY <2>8 DEF Recv, Chan!CallRecv, Chan!Become
    <2>9. CASE t \in SendrThreads /\ InCall(t)
      BY <2>9, Names DEF InCall, Chan!Admit, Chan!Accept, Chan!Refuse, Chan!Become
    <2>10. CASE t \in RecvrThreads /\ InCall(t)
      BY <2>10, Names DEF InCall, Chan!Receive, Chan!Close, Chan!Become
    <2>11. CASE t \in SendrThreads /\ FinishSend(t)
      BY <2>11 DEF FinishSend, Chan!Return, Chan!Become
    <2>12. CASE t \in RecvrThreads /\ FinishRecv(t)
      BY <2>12 DEF FinishRecv, Chan!Return, Chan!Become
    <2>13. CASE FailCall(t)
      BY <2>13 DEF FailCall, Chan!Return, Chan!Become
    <2>14. CASE DropHandle(t)
      BY <2>14 DEF DropHandle, Chan!DropHandle, Chan!Become
    <2>15. CASE Panic(t)
      BY <2>15 DEF Panic
    <2>. QED
      BY <1>5, <2>1, <2>2, <2>3, <2>4, <2>5, <2>6, <2>7, <2>8, <2>9, <2>10, <2>11, <2>12,
         <2>13, <2>14, <2>15, Names DEF ThreadStep
  <1>. QED
    BY <1>1, <1>2, <1>3, <1>4, <1>5
    DEF Next, MainStep, Reject, Accept, MainArrives, Complete, FailComplete, JoinPanic, Tick

-----------------------------------------------------------------------------
\* When the barrier opens main and all threads have come to it.
LEMMA BarrierOpens ==
  ASSUME BarrierHolds, BarrierOpen
  PROVE  Arrived = Threads /\ MainArrived
  <1>1. Arrived \subseteq Threads /\ IsFiniteSet(Threads)
    BY Names DEF Arrived
  <1>2. /\ Cardinality(Arrived) \in Nat /\ Cardinality(Threads) \in Nat
        /\ Cardinality(Arrived) <= Cardinality(Threads)
        /\ Cardinality(Arrived) = Cardinality(Threads) => Arrived = Threads
    BY <1>1, FS_Subset, FS_CardinalityType
  <1>. QED
    BY <1>2 DEF BarrierHolds, BarrierOpen

\* A thread past the barrier stays there.
\* Where a thread may be past the barrier.
Running == {"loop", "taken", "sending", "receiving", "check", "drop", "complete", "ended", "panicked"}
\* Past the barrier a thread never comes back to it.
LEMMA ThreadRuns ==
  ASSUME NEW t \in Threads, ThreadStep(t) \/ Panic(t), ~ArriveBarrier(t), ~PassBarrier(t)
  PROVE  /\ \/ UNCHANGED pc
            \/ pc[t] \in Running /\ \E to \in Running : pc' = [pc EXCEPT ![t] = to]
         /\ UNCHANGED <<main, arrived>>
  BY DEF ThreadStep, KeepAlive, Expire, CompleteRunner, FailRunner, TakeId, Send, Recv, InCall, FinishSend,
    FinishRecv, FailCall, DropHandle, Panic, Running

\* std::sync::Barrier counts the threads: each that has come, once.
LEMMA BarrierStep == Types /\ BarrierHolds /\ [Next]_vars => BarrierHolds'
  <1>. SUFFICES ASSUME Types, BarrierHolds, [Next]_vars PROVE BarrierHolds'
    OBVIOUS
  <1>a. pc \in [Threads -> PCs] /\ main \in MainPCs
    BY DEF Types
  <1>b. IsFiniteSet(Arrived) /\ Cardinality(Arrived) \in Nat
    BY Names, FS_Subset, FS_CardinalityType DEF Arrived
  <1>. USE <1>a DEF BarrierHolds, Arrived, MainArrived, AllSpawned
  <1>1. CASE UNCHANGED <<pc, main, arrived>>
    BY <1>1
  <1>2. CASE Reject \/ Accept
    BY <1>2 DEF Reject, Accept
  <1>3. CASE SpawnThread
    <2>1. Arrived' = Arrived
      BY <1>3, HandlesAre DEF SpawnThread
    <2>. QED
      BY <1>3, <2>1, HandlesAre DEF SpawnThread
  <1>4. CASE DropOriginals
    BY <1>4 DEF DropOriginals
  <1>5. CASE MainArrives
    BY <1>5, <1>b DEF MainArrives
  <1>6. CASE Complete \/ FailComplete
    BY <1>6 DEF Complete, FailComplete
  <1>11. CASE JoinPanic
    BY <1>11 DEF JoinPanic
  <1>7. CASE NextConfig
    <2>1. Arrived' = {}
      BY <1>7 DEF NextConfig
    <2>2. Cardinality(Arrived') = 0
      <3>. HIDE DEF Arrived
      <3>. QED
        BY <2>1, FS_EmptySet
    <2>. QED
      BY <1>7, <2>1, <2>2 DEF NextConfig
  <1>8. ASSUME NEW t \in Threads, ArriveBarrier(t) PROVE BarrierHolds'
    <2>1. Arrived' = Arrived \cup {t} /\ t \notin Arrived
      BY <1>8 DEF ArriveBarrier
    <2>2. Cardinality(Arrived') = Cardinality(Arrived) + 1
      BY <2>1, <1>b, FS_AddElement
    <2>3. AllSpawned => AllSpawned'
      BY <1>8 DEF ArriveBarrier
    <2>4. \A u \in Arrived' : pc'[u] # "waiting" => Arrived' = Threads
      BY <1>8, <2>1 DEF ArriveBarrier
    <2>. QED
      BY <1>8, <1>b, <2>2, <2>3, <2>4 DEF ArriveBarrier
  <1>9. ASSUME NEW t \in Threads, PassBarrier(t) PROVE BarrierHolds'
    <2>1. Arrived = Threads
      BY <1>9, BarrierOpens DEF PassBarrier
    <2>2. Arrived' = Arrived
      BY <1>9 DEF PassBarrier
    <2>3. AllSpawned => AllSpawned'
      BY <1>9 DEF PassBarrier
    <2>. QED
      BY <1>9, <2>1, <2>2, <2>3 DEF PassBarrier
  <1>10. ASSUME NEW t \in Threads, pc[t] \in Running, NEW to \in Running,
                pc' = [pc EXCEPT ![t] = to], UNCHANGED <<main, arrived>>
         PROVE  BarrierHolds'
    <2>1. Arrived' = Arrived /\ t \in Arrived
      BY <1>10 DEF Running
    <2>2. AllSpawned => AllSpawned'
      BY <1>10 DEF Running
    <2>3. Arrived = Threads
      BY <1>10, <2>1 DEF Running
    <2>. QED
      BY <1>10, <2>1, <2>2, <2>3
  <1>. QED
    BY <1>1, <1>2, <1>3, <1>4, <1>5, <1>6, <1>7, <1>8, <1>9, <1>10, <1>11, ThreadRuns
    DEF Next, MainStep, Tick

-----------------------------------------------------------------------------
\* sender_thread logs one event for each of its accepted sends, in the order of its ids.
LEMMA SendsStep == Types /\ PlacesFit /\ SendsFit /\ [Next]_vars => SendsFit'
  <1>. SUFFICES ASSUME Types, PlacesFit, SendsFit, [Next]_vars PROVE SendsFit'
    OBVIOUS
  <1>a. /\ pc \in [Threads -> PCs] /\ SendrThreads \subseteq Threads
        /\ SendrThreads \cap RecvrThreads = {}
        /\ DOMAIN log = Threads /\ DOMAIN ids = SendrThreads /\ DOMAIN sent = Senders
        /\ SendrThreads \subseteq Senders
        /\ \A s \in SendrThreads : ids[s] \in Seq(Nat) /\ log[s] \in Seq(Rows) /\ sent[s] \in Nat
    BY Names DEF Types
  <1>. USE <1>a DEF SendsFit, Over
  <1>1. CASE UNCHANGED <<pc, sent, ids, log>>
    BY <1>1
  <1>2. CASE SpawnThread
    BY <1>2, HandlesAre DEF SpawnThread, Chan!Clone
  <1>3. CASE DropOriginals
    BY <1>3 DEF DropOriginals, Chan!DropHandle
  <1>4. CASE NextConfig
    BY <1>4 DEF NextConfig
  <1>5. ASSUME NEW t \in Threads, ThreadStep(t) \/ Panic(t) PROVE SendsFit'
    <2>1. CASE ArriveBarrier(t)
      BY <2>1 DEF ArriveBarrier
    <2>2. CASE PassBarrier(t)
      BY <2>2 DEF PassBarrier
    <2>3. CASE KeepAlive(t)
      BY <2>3 DEF KeepAlive
    <2>4. CASE Expire(t)
      <3>1. UNCHANGED <<sent, ids, log>> /\ pc[t] \notin {"taken"} \cup Over /\ pc'[t] = "drop"
        BY <2>4 DEF Expire
      <3>2. \A s \in SendrThreads : s # t => pc'[s] = pc[s]
        BY <2>4 DEF Expire
      <3>. QED
        BY <3>1, <3>2
    <2>5. CASE CompleteRunner(t) \/ FailRunner(t)
      <3>1. UNCHANGED <<sent, ids, log>> /\ pc[t] = "complete" /\ pc'[t] = "ended"
        BY <2>5 DEF CompleteRunner, FailRunner
      <3>2. \A s \in SendrThreads : s # t => pc'[s] = pc[s]
        BY <2>5 DEF CompleteRunner, FailRunner
      <3>. QED
        BY <3>1, <3>2
    <2>6. CASE t \in SendrThreads /\ TakeId(t)
      <3>1. /\ UNCHANGED <<sent, log>> /\ pc[t] = "loop" /\ pc'[t] = "taken"
            /\ ids' = [ids EXCEPT ![t] = Append(@, id_bank)]
            /\ \A s \in SendrThreads : s # t => pc'[s] = pc[s]
        BY <2>6 DEF TakeId
      <3>2. sent[t] = Len(log[t]) /\ Len(ids[t]) = sent[t]
        <4>1. /\ pc[t] \notin {"sending", "drop"} \cup Over => sent[t] = Len(log[t])
              /\ Len(ids[t]) = sent[t] + (IF pc[t] = "taken" THEN 1 ELSE 0)
          BY <2>6, Zenon
        <4>2. sent[t] \in Nat
          BY <2>6
        <4>. HIDE DEF SendsFit
        <4>. QED
          BY <3>1, <4>1, <4>2
      <3>3. /\ Len(ids'[t]) = Len(ids[t]) + 1
            /\ \A n \in 1..Len(ids[t]) : ids'[t][n] = ids[t][n]
            /\ \A s \in SendrThreads : s # t => ids'[s] = ids[s]
        <4>1. id_bank \in Nat /\ ids[t] \in Seq(Nat)
          BY <2>6 DEF Types
        <4>. HIDE DEF SendsFit, Over
        <4>. QED
          BY <2>6, <3>1, <4>1
      <3>. QED
        BY <2>6, <3>1, <3>2, <3>3
    <2>7. CASE t \in SendrThreads /\ Send(t)
      <3>1. UNCHANGED <<ids, log>> /\ pc[t] = "taken" /\ pc' = [pc EXCEPT ![t] = "sending"]
        BY <2>7 DEF Send
      <3>2. /\ sent'[t] = sent[t] + 1
            /\ \A s \in SendrThreads : s # t => sent'[s] = sent[s] /\ pc'[s] = pc[s]
        BY <2>7, <3>1 DEF Send, Chan!CallSend
      <3>3. sent[t] = Len(log[t]) /\ Len(ids[t]) = sent[t] + 1
        BY <2>7, <3>1
      <3>. QED
        BY <2>7, <3>1, <3>2, <3>3
    <2>8. CASE t \in RecvrThreads /\ Recv(t)
      BY <2>8 DEF Recv, Chan!CallRecv
    <2>9. CASE InCall(t)
      BY <2>9 DEF InCall, Chan!Admit, Chan!Accept, Chan!Refuse, Chan!Receive, Chan!Close
    <2>11. CASE t \in SendrThreads /\ FinishSend(t)
      <3>1. /\ sent[t] = Len(log[t]) + 1 /\ Len(ids[t]) = sent[t]
            /\ IdOf(<<t, sent[t]>>) = ids[t][sent[t]]
        BY <2>11, SendingHasId DEF FinishSend
      <3>. DEFINE e == Event(begun[t], clock, IdOf(<<t, sent[t]>>))
      <3>2. log' = [log EXCEPT ![t] = Append(@, e)]
        BY <2>11 DEF FinishSend, Finish
      <3>3. e.id = ids[t][sent[t]]
        BY <3>1 DEF Event
      <3>. HIDE DEF e
      <3>4. /\ Len(log'[t]) = sent[t] /\ log'[t][sent[t]] = e
            /\ \A n \in 1..Len(log[t]) : log'[t][n] = log[t][n]
        BY <3>1, <3>2
      <3>. QED
        BY <2>11, <3>1, <3>2, <3>3, <3>4 DEF FinishSend, Chan!Return
    <2>12. CASE t \in RecvrThreads /\ FinishRecv(t)
      BY <2>12 DEF FinishRecv, Chan!Return, Finish
    <2>13. CASE FailCall(t)
      BY <2>13 DEF FailCall, Chan!Return
    <2>14. CASE DropHandle(t)
      BY <2>14 DEF DropHandle, Chan!DropHandle
    <2>15. CASE Panic(t)
      BY <2>15 DEF Panic
    <2>. QED
      BY <1>5, <2>1, <2>2, <2>3, <2>4, <2>5, <2>6, <2>7, <2>8, <2>9, <2>11, <2>12,
         <2>13, <2>14, <2>15 DEF ThreadStep
  <1>. QED
    BY <1>1, <1>2, <1>3, <1>4, <1>5
    DEF Next, MainStep, Reject, Accept, MainArrives, Complete, FailComplete, JoinPanic, Tick

-----------------------------------------------------------------------------
(* The steps that matter to where the values are.                          *)

Puts(s) == InCall(s) /\ Chan!Accept(s)
Gets(r) == InCall(r) /\ Chan!Receive(r)

\* Any other step moves no value and begins no event that has a value.
Quiet ==
  /\ UNCHANGED <<queue, received, sent, ids, id_bank, log>>
  /\ \A r \in RecvrThreads :
       (Holding(r)' <=> Holding(r)) /\ (Holding(r) => got'[r] = got[r])
  /\ \A s \in SendrThreads :
       /\ state'[s] = "accepted" <=> state[s] = "accepted"
       /\ state[s] = "accepted" => begun'[s] = begun[s]
  /\ \A t \in Threads : begun'[t] \in {begun[t], clock, 0}
  /\ clock' \in {clock, clock + 1}

\* The few kinds of steps that the values, the ids and the logs tell apart.
LEMMA StepKinds ==
  ASSUME Types, PlacesFit, [Next]_vars
  PROVE  \/ Quiet \/ NextConfig
         \/ \E s \in SendrThreads : TakeId(s) \/ Send(s) \/ Puts(s) \/ FinishSend(s)
         \/ \E r \in RecvrThreads : Gets(r) \/ FinishRecv(r)
  <1>a. /\ pc \in [Threads -> PCs] /\ DOMAIN state = Chan!Handles /\ clock \in Nat
        /\ DOMAIN begun = Threads /\ DOMAIN got = RecvrThreads
        /\ SendrThreads \subseteq Threads /\ RecvrThreads \subseteq Threads
        /\ SendrThreads \cap RecvrThreads = {}
        /\ Threads \subseteq Chan!Handles /\ MainTx \in Chan!Handles \ Threads
        /\ MainRx \in Chan!Handles \ Threads
    BY Names DEF Types
  <1>. USE <1>a DEF Quiet, Holding
  <1>1. CASE UNCHANGED <<channelVars, clock, pc, id_bank, ids, got, begun, log>>
    BY <1>1
  <1>2. CASE Tick
    BY <1>2 DEF Tick
  <1>3. CASE SpawnThread
    BY <1>3, HandlesAre DEF SpawnThread, Chan!Clone, Chan!Become
  <1>4. CASE DropOriginals
    BY <1>4 DEF DropOriginals, Chan!DropHandle, Chan!Become
  <1>5. ASSUME NEW t \in Threads, UNCHANGED <<channelVars, clock, id_bank, ids, got, begun, log>>,
               NEW to, to # "receiving", pc[t] # "receiving", pc' = [pc EXCEPT ![t] = to]
        PROVE  Quiet
    BY <1>5
  <1>6. ASSUME NEW t \in Threads, ThreadStep(t) \/ Panic(t),
               ~(t \in SendrThreads /\ (TakeId(t) \/ Send(t) \/ Puts(t) \/ FinishSend(t))),
               ~(t \in RecvrThreads /\ (Gets(t) \/ FinishRecv(t)))
        PROVE  Quiet
    <2>1. CASE ArriveBarrier(t)
      BY <2>1, <1>5 DEF ArriveBarrier
    <2>2. CASE PassBarrier(t)
      BY <2>2, <1>5 DEF PassBarrier
    <2>3. CASE KeepAlive(t)
      BY <2>3, <1>5 DEF KeepAlive
    <2>4. CASE Expire(t)
      BY <2>4, <1>5 DEF Expire
    <2>5. CASE CompleteRunner(t) \/ FailRunner(t)
      BY <2>5, <1>5 DEF CompleteRunner, FailRunner
    <2>6. CASE t \in RecvrThreads /\ Recv(t)
      BY <2>6 DEF Recv, Chan!CallRecv, Chan!Become
    <2>7. CASE InCall(t)
      <3>1. UNCHANGED got /\ (Chan!Admit(t) \/ Chan!Refuse(t) \/ Chan!Close(t))
        BY <1>6, <2>7 DEF InCall, Puts, Gets
      <3>. QED
        BY <2>7, <3>1 DEF InCall, Chan!Admit, Chan!Refuse, Chan!Close, Chan!Become
    <2>8. CASE FailCall(t)
      BY <2>8 DEF FailCall, Forget, Chan!Return, Chan!Become
    <2>9. CASE DropHandle(t)
      BY <2>9 DEF DropHandle, Chan!DropHandle, Chan!Become
    <2>10. CASE Panic(t)
      BY <2>10 DEF Panic, Forget
    <2>. QED
      BY <1>6, <2>1, <2>2, <2>3, <2>4, <2>5, <2>6, <2>7, <2>8, <2>9, <2>10 DEF ThreadStep
  <1>. QED
    BY <1>1, <1>2, <1>3, <1>4, <1>6
    DEF Next, MainStep, Reject, Accept, MainArrives, Complete, FailComplete, JoinPanic

\* An accepted value stays accepted and keeps its id.
LEMMA AcceptedStays ==
  ASSUME Types, PlacesFit, SendsFit, [Next]_vars, ~NextConfig, NEW v \in Values, WasAccepted(v)
  PROVE  WasAccepted(v)' /\ IdOf(v)' = IdOf(v)
  <1>. PICK s \in SendrThreads, n \in Nat \ {0} : v = <<s, n>>
    BY DEF Values
  <1>a. n \in 1..sent[s] /\ n \in 1..Len(ids[s])
    BY AcceptedHasId
  <1>b. /\ s \in Threads /\ s \in Senders /\ s \in Chan!Handles /\ s \notin RecvrThreads
        /\ DOMAIN log = Threads /\ DOMAIN ids = SendrThreads /\ DOMAIN state = Chan!Handles
        /\ DOMAIN sent = Senders /\ ids[s] \in Seq(Nat) /\ log[s] \in Seq(Rows)
    BY Names DEF Types
  <1>. USE <1>b DEF WasAccepted, IdOf
  <1>1. CASE Quiet
    BY <1>1 DEF Quiet
  <1>2. ASSUME NEW t \in SendrThreads, TakeId(t) PROVE WasAccepted(v)' /\ IdOf(v)' = IdOf(v)
    BY <1>2, <1>a DEF TakeId
  <1>3. ASSUME NEW t \in SendrThreads, Send(t) PROVE WasAccepted(v)' /\ IdOf(v)' = IdOf(v)
    BY <1>3 DEF Send, Chan!CallSend, Chan!Become
  <1>4. ASSUME NEW t \in SendrThreads, Puts(t) PROVE WasAccepted(v)' /\ IdOf(v)' = IdOf(v)
    BY <1>4 DEF Puts, InCall, Chan!Accept, Chan!Become
  <1>5. ASSUME NEW t \in SendrThreads, FinishSend(t)
        PROVE  WasAccepted(v)' /\ IdOf(v)' = IdOf(v)
    <2>. DEFINE e == Event(begun[t], clock, IdOf(<<t, sent[t]>>))
    <2>1. /\ log' = [log EXCEPT ![t] = Append(@, e)] /\ UNCHANGED <<ids, sent>>
          /\ pc[t] = "sending" /\ \A u \in SendrThreads : u # t => state'[u] = state[u]
      BY <1>5 DEF FinishSend, Finish, Chan!Return, Chan!Become
    <2>2. CASE s # t
      BY <2>1, <2>2
    <2>3. CASE s = t
      <3>1. n \in 1..Len(log[t]) + 1
        BY <1>a, <2>1, <2>3, SendingHasId
      <3>. HIDE DEF e
      <3>2. Len(log'[t]) = Len(log[t]) + 1
        BY <2>1, <2>3
      <3>. QED
        BY <2>1, <2>3, <3>1, <3>2
    <2>. QED
      BY <2>2, <2>3
  <1>6. ASSUME NEW r \in RecvrThreads, Gets(r) PROVE WasAccepted(v)' /\ IdOf(v)' = IdOf(v)
    BY <1>6 DEF Gets, InCall, Chan!Receive, Chan!Become
  <1>7. ASSUME NEW r \in RecvrThreads, FinishRecv(r)
        PROVE  WasAccepted(v)' /\ IdOf(v)' = IdOf(v)
    BY <1>7 DEF FinishRecv, Finish, Chan!Return, Chan!Become
  <1>. QED
    BY <1>1, <1>2, <1>3, <1>4, <1>5, <1>6, <1>7, StepKinds

\* next_id gives no id twice.
LEMMA IdsStep == Types /\ PlacesFit /\ SendsFit /\ IdsUnique /\ [Next]_vars => IdsUnique'
  <1>. SUFFICES ASSUME Types, PlacesFit, SendsFit, IdsUnique, [Next]_vars PROVE IdsUnique'
    OBVIOUS
  <1>a. DOMAIN ids = SendrThreads /\ id_bank \in Nat
    BY DEF Types
  <1>b. \A s \in SendrThreads : ids[s] \in Seq(Nat)
    BY DEF Types
  <1>1. CASE UNCHANGED <<ids, id_bank>>
    BY <1>1 DEF IdsUnique
  <1>2. CASE NextConfig
    BY <1>2 DEF NextConfig, IdsUnique
  <1>3. ASSUME NEW s \in SendrThreads, TakeId(s) PROVE IdsUnique'
    <2>1. /\ id_bank' = id_bank + 1 /\ DOMAIN ids' = SendrThreads
          /\ \A t \in SendrThreads : t # s => ids'[t] = ids[t]
          /\ ids'[s] = Append(ids[s], id_bank)
      BY <1>3, <1>a DEF TakeId
    <2>2. /\ Len(ids'[s]) = Len(ids[s]) + 1
          /\ \A n \in 1..Len(ids'[s]) :
               ids'[s][n] = IF n = Len(ids[s]) + 1 THEN id_bank ELSE ids[s][n]
      BY <1>a, <1>b, <2>1
    <2>3. \A t \in SendrThreads : \A n \in 1..Len(ids'[t]) :
            \/ n \in 1..Len(ids[t]) /\ ids'[t][n] = ids[t][n]
            \/ t = s /\ n = Len(ids[s]) + 1 /\ ids'[t][n] = id_bank
      BY <1>b, <2>1, <2>2
    <2>4. \A t \in SendrThreads : \A n \in 1..Len(ids[t]) : ids[t][n] \in Nat
      BY <1>b
    <2>5. ASSUME NEW t \in SendrThreads, NEW n \in 1..Len(ids'[t])
          PROVE  ids'[t][n] < id_bank'
      BY <1>a, <2>1, <2>3, <2>4 DEF IdsUnique
    <2>6. ASSUME NEW t \in SendrThreads, NEW u \in SendrThreads,
                 NEW m \in 1..Len(ids'[t]), NEW n \in 1..Len(ids'[u]),
                 ids'[t][m] = ids'[u][n]
          PROVE  t = u /\ m = n
      <3>2. CASE m \in 1..Len(ids[t]) /\ n \in 1..Len(ids[u])
                 /\ ids'[t][m] = ids[t][m] /\ ids'[u][n] = ids[u][n]
        <4>1. ids[t][m] = ids[u][n]
          BY <2>6, <3>2
        <4>. QED
          BY <3>2, <4>1 DEF IdsUnique
      <3>3. m \in 1..Len(ids[t]) => ids[t][m] # id_bank
        BY <1>a, <2>4 DEF IdsUnique
      <3>4. n \in 1..Len(ids[u]) => ids[u][n] # id_bank
        BY <1>a, <2>4 DEF IdsUnique
      <3>. QED
        BY <2>3, <2>6, <3>2, <3>3, <3>4
    <2>. QED
      BY <2>5, <2>6 DEF IdsUnique
  <1>. QED
    BY <1>1, <1>2, <1>3, StepKinds
    DEF Quiet, Send, Puts, Gets, InCall, FinishSend, FinishRecv, Forget

-----------------------------------------------------------------------------
(* Where the values are.                                                   *)

\* Two values with one id are one.
LEMMA IdInjective ==
  ASSUME Types, SendsFit, IdsUnique, NEW v \in Values, NEW w \in Values,
         IdOf(v) = IdOf(w),
         v[2] \in 1..Len(ids[v[1]]), w[2] \in 1..Len(ids[w[1]])
  PROVE  v = w
  BY DEF Values, IdOf, IdsUnique

\* Accepted values with one id are one.
LEMMA AcceptedIdInjective ==
  ASSUME Types, SendsFit, IdsUnique, NEW v \in Values, NEW w \in Values,
         WasAccepted(v), WasAccepted(w), IdOf(v) = IdOf(w)
  PROVE  v = w
  <1>1. v[2] \in 1..Len(ids[v[1]]) /\ w[2] \in 1..Len(ids[w[1]])
    BY AcceptedHasId DEF Values
  <1>. QED
    BY <1>1, IdInjective

\* A step that moves no value.
LEMMA ValuesKept ==
  ASSUME Types, PlacesFit, SendsFit, InOnePlace, [Next]_vars, ~NextConfig, UNCHANGED queue,
         \A r \in RecvrThreads : /\ log'[r] = log[r]
                                 /\ Holding(r)' <=> Holding(r)
                                 /\ Holding(r) => got'[r] = got[r]
  PROVE  InOnePlace'
  <1>1. \A i \in 1..Len(queue) : queue[i] \in Values
    BY DEF Types
  <1>2. \A v \in Values : WasAccepted(v) => WasAccepted(v)' /\ IdOf(v)' = IdOf(v)
    BY AcceptedStays
  <1>3. QueueFits'
    BY <1>1, <1>2 DEF InOnePlace, QueueFits
  <1>4. HeldFits'
    BY <1>2 DEF InOnePlace, HeldFits
  <1>5. LoggedFits'
    BY <1>1, <1>2 DEF InOnePlace, QueueFits, HeldFits, LoggedFits
  <1>. QED
    BY <1>3, <1>4, <1>5 DEF InOnePlace

\* A value that is put into the queue was nowhere.
LEMMA PutsStep ==
  ASSUME Types, PlacesFit, SendsFit, IdsUnique, InOnePlace, [Next]_vars, ~NextConfig,
         NEW s \in SendrThreads, Puts(s)
  PROVE  InOnePlace'
  <1>. PICK e : e = <<s, sent[s]>>
    OBVIOUS
  <1>0. s \in Threads /\ s \in Chan!Handles /\ s \notin RecvrThreads /\ DOMAIN state = Chan!Handles
    BY Names DEF Types
  <1>1. /\ queue' = Append(queue, e) /\ UNCHANGED <<pc, sent, ids, log>>
        /\ state[s] \in {"called", "admitted"} /\ state' = [state EXCEPT ![s] = "accepted"]
    BY DEF Puts, InCall, Chan!Accept, Chan!Become
  <1>1a. UNCHANGED got
    BY <1>0 DEF Puts, InCall
  <1>2. pc[s] = "sending"
    BY <1>0, <1>1 DEF PlacesFit, OutOfCall, Over, Types, PCs
  <1>3. e \in Values /\ ~WasAccepted(e) /\ WasAccepted(e)' /\ e[2] \in 1..Len(ids[e[1]])
    BY <1>0, <1>1, <1>2, SendingHasId, Lengths DEF Values, WasAccepted
  <1>4. \A v \in Values : WasAccepted(v) => WasAccepted(v)'
    BY AcceptedStays
  <1>5. \A v : IdOf(v)' = IdOf(v)
    BY <1>1 DEF IdOf
  <1>6. \A v \in Values : WasAccepted(v) => v # e /\ IdOf(v) # IdOf(e)
    <2>. TAKE v \in Values
    <2>. HAVE WasAccepted(v)
    <2>1. v[2] \in 1..Len(ids[v[1]])
      BY AcceptedHasId DEF Values
    <2>. QED
      BY <1>3, <2>1, IdInjective
  <1>7. \A i \in 1..Len(queue) : queue[i] \in Values /\ WasAccepted(queue[i])
    BY DEF Types, InOnePlace, QueueFits
  <1>7a. queue \in Seq(Values)
    BY DEF Types
  <1>8. /\ Len(queue') = Len(queue) + 1 /\ Len(queue) \in Nat
        /\ \A i \in 1..Len(queue') : \/ i \in 1..Len(queue) /\ queue'[i] = queue[i]
                                     \/ i = Len(queue) + 1 /\ queue'[i] = e
    BY <1>1, <1>3, <1>7a
  <1>9. \A r \in RecvrThreads : Holding(r)' <=> Holding(r)
    BY <1>0, <1>1, Names DEF Holding
  <1>10. QueueFits'
    <2>1. ASSUME NEW i \in 1..Len(queue') PROVE WasAccepted(queue[i])'
      <3>. PICK w : w = queue'[i]
        OBVIOUS
      <3>1. w \in Values /\ (w = e \/ WasAccepted(w))
        BY <1>3, <1>7, <1>8
      <3>2. WasAccepted(w)'
        BY <1>3, <1>4, <3>1
      <3>. QED
        BY <3>2 DEF WasAccepted
    <2>2. ASSUME NEW i \in 1..Len(queue'), NEW j \in 1..Len(queue'), queue'[i] = queue'[j]
          PROVE  i = j
      <3>1. \A k \in 1..Len(queue) : queue[k] # e
        BY <1>3, <1>7
      <3>. QED
        BY <1>8, <2>2, <3>1 DEF InOnePlace, QueueFits
    <2>. QED
      BY <2>1, <2>2 DEF QueueFits
  <1>11. HeldFits'
    <2>1. \A r \in RecvrThreads : Holding(r) => got[r] \in Values /\ WasAccepted(got[r]) /\ got[r] # e
      BY <1>6 DEF InOnePlace, HeldFits
    <2>2. ASSUME NEW r \in RecvrThreads, Holding(r)
          PROVE  WasAccepted(got[r])'
      BY <1>1a, <1>4, <2>1, <2>2 DEF WasAccepted
    <2>. QED
      BY <1>1a, <1>8, <1>9, <2>1, <2>2 DEF InOnePlace, HeldFits
  <1>12. LoggedFits'
    <2>1. ASSUME NEW r \in RecvrThreads, NEW n \in 1..Len(log[r])
          PROVE  \E v \in Values : WasAccepted(v) /\ WasAccepted(v)' /\ log[r][n].id = IdOf(v)
      BY <1>4 DEF InOnePlace, LoggedFits
    <2>2. ASSUME NEW r \in RecvrThreads, NEW n \in 1..Len(log[r]), NEW i \in 1..Len(queue')
          PROVE  IdOf(queue'[i]) # log[r][n].id
      <3>1. \A k \in 1..Len(queue) : IdOf(queue[k]) # log[r][n].id
        BY DEF InOnePlace, LoggedFits
      <3>2. IdOf(e) # log[r][n].id
        BY <1>6, <2>1
      <3>. QED
        BY <1>8, <3>1, <3>2
    <2>3. \A i \in 1..Len(queue') : IdOf(queue[i])' = IdOf(queue'[i])
      BY <1>1 DEF IdOf
    <2>4. \A q \in RecvrThreads : IdOf(got[q])' = IdOf(got[q])
      BY <1>1, <1>1a DEF IdOf
    <2>5. \A v \in Values : IdOf(v)' = IdOf(v)
      BY <1>5
    <2>6. UNCHANGED log
      BY <1>1
    <2>. QED
      BY <1>9, <2>1, <2>2, <2>3, <2>4, <2>5, <2>6 DEF InOnePlace, LoggedFits
  <1>. QED
    BY <1>10, <1>11, <1>12 DEF InOnePlace

\* A value that a receiver takes out of the queue is nowhere else.
LEMMA GetsStep ==
  ASSUME Types, PlacesFit, SendsFit, IdsUnique, InOnePlace, [Next]_vars, ~NextConfig,
         NEW r \in RecvrThreads, Gets(r)
  PROVE  InOnePlace'
  <1>. PICK e : e = Head(queue)
    OBVIOUS
  <1>0. r \in Threads /\ r \in Chan!Handles /\ r \notin SendrThreads /\ DOMAIN state = Chan!Handles
        /\ DOMAIN got = RecvrThreads
    BY Names DEF Types
  <1>1. /\ queue # <<>> /\ queue' = Tail(queue) /\ UNCHANGED <<pc, sent, ids, log>>
        /\ state[r] = "called" /\ state' = [state EXCEPT ![r] = "received"]
    BY DEF Gets, InCall, Chan!Receive, Chan!Become
  <1>2. got' = [got EXCEPT ![r] = e]
    BY <1>0 DEF Gets, InCall, Chan!Receive, Chan!Close
  <1>3. pc[r] = "receiving"
    BY <1>0, <1>1, Names DEF PlacesFit, OutOfCall, Over, Types, PCs
  <1>4. \A v \in Values : WasAccepted(v) => WasAccepted(v)'
    BY AcceptedStays
  <1>5. \A v : IdOf(v)' = IdOf(v)
    BY <1>1 DEF IdOf
  <1>6. \A i \in 1..Len(queue) : queue[i] \in Values /\ WasAccepted(queue[i])
    BY DEF Types, InOnePlace, QueueFits
  <1>7. queue \in Seq(Values)
    BY DEF Types
  <1>8. /\ Len(queue) \in Nat \ {0} /\ Len(queue') = Len(queue) - 1
        /\ e = queue[1] /\ \A i \in 1..Len(queue') : i + 1 \in 2..Len(queue) /\ queue'[i] = queue[i + 1]
    BY <1>1, <1>7
  <1>9. e \in Values /\ WasAccepted(e) /\ WasAccepted(e)'
    BY <1>4, <1>6, <1>8
  <1>10. \A q \in RecvrThreads : Holding(q)' <=> Holding(q) \/ q = r
    BY <1>0, <1>1, <1>3, Names DEF Holding
  <1>11. got'[r] = e /\ \A q \in RecvrThreads : q # r => got'[q] = got[q]
    BY <1>0, <1>2
  <1>12. ~Holding(r)
    BY <1>1 DEF Holding
  <1>13. \A i \in 1..Len(queue') : \E j \in 2..Len(queue) : queue'[i] = queue[j]
    BY <1>8
  <1>14. QueueFits'
    <2>1. ASSUME NEW i \in 1..Len(queue') PROVE WasAccepted(queue[i])'
      <3>. DEFINE w == queue'[i]
      <3>1. w \in Values /\ WasAccepted(w)
        BY <1>6, <1>8
      <3>. QED
        BY <1>4, <3>1 DEF WasAccepted
    <2>2. ASSUME NEW i \in 1..Len(queue'), NEW j \in 1..Len(queue'), queue'[i] = queue'[j]
          PROVE  i = j
      <3>1. queue[i + 1] = queue[j + 1] /\ i + 1 \in 1..Len(queue) /\ j + 1 \in 1..Len(queue)
        BY <1>8, <2>2
      <3>2. i + 1 = j + 1
        BY <3>1 DEF InOnePlace, QueueFits
      <3>. QED
        BY <3>2
    <2>. QED
      BY <2>1, <2>2 DEF QueueFits
  <1>15. HeldFits'
    <2>1. \A j \in 2..Len(queue) : queue[j] # e
      BY <1>8 DEF InOnePlace, QueueFits
    <2>2. ASSUME NEW q \in RecvrThreads, Holding(q)'
          PROVE  /\ got'[q] \in Values /\ WasAccepted(got[q])'
                 /\ \A i \in 1..Len(queue') : queue'[i] # got'[q]
                 /\ \A p \in RecvrThreads : Holding(p)' /\ got'[p] = got'[q] => p = q
      <3>1. CASE q = r
        <4>1. \A p \in RecvrThreads : Holding(p) => got[p] # e
          BY <1>8 DEF InOnePlace, HeldFits
        <4>2. WasAccepted(got[q])'
          BY <1>9, <1>11, <3>1 DEF WasAccepted
        <4>. QED
          BY <1>9, <1>10, <1>11, <1>13, <2>1, <3>1, <4>1, <4>2
      <3>2. CASE q # r
        <4>1. Holding(q) /\ got'[q] = got[q]
          BY <1>10, <1>11, <2>2, <3>2
        <4>2. /\ got[q] \in Values /\ WasAccepted(got[q])
              /\ \A i \in 1..Len(queue) : queue[i] # got[q]
              /\ \A p \in RecvrThreads : Holding(p) /\ got[p] = got[q] => p = q
          BY <4>1 DEF InOnePlace, HeldFits
        <4>3. WasAccepted(got[q])'
          BY <1>4, <4>1, <4>2 DEF WasAccepted
        <4>4. e # got[q]
          BY <1>8, <4>2
        <4>5. \A i \in 1..Len(queue') : queue'[i] # got[q]
          BY <1>8, <1>13, <4>2
        <4>. QED
          BY <1>10, <1>11, <4>1, <4>2, <4>3, <4>4, <4>5
      <3>. QED
        BY <3>1, <3>2
    <2>. QED
      BY <2>2 DEF HeldFits
  <1>16. LoggedFits'
    <2>1. ASSUME NEW q \in RecvrThreads, NEW n \in 1..Len(log[q])
          PROVE  \E v \in Values : WasAccepted(v)' /\ log[q][n].id = IdOf(v)
      BY <1>4 DEF InOnePlace, LoggedFits
    <2>2. ASSUME NEW q \in RecvrThreads, NEW n \in 1..Len(log[q])
          PROVE  /\ \A k \in 1..Len(queue) : IdOf(queue[k]) # log[q][n].id
                 /\ IdOf(e) # log[q][n].id
      BY <1>8 DEF InOnePlace, LoggedFits
    <2>3. \A i \in 1..Len(queue') : IdOf(queue[i])' = IdOf(queue'[i])
      BY <1>1 DEF IdOf
    <2>4. \A q \in RecvrThreads : IdOf(got[q])' = IdOf(got'[q])
      BY <1>1 DEF IdOf
    <2>5. ASSUME NEW q \in RecvrThreads, NEW n \in 1..Len(log[q])
          PROVE  /\ \A i \in 1..Len(queue') : IdOf(queue'[i]) # log[q][n].id
                 /\ \A p \in RecvrThreads : Holding(p)' => IdOf(got'[p]) # log[q][n].id
      <3>1. \A p \in RecvrThreads : Holding(p) => IdOf(got[p]) # log[q][n].id
        BY DEF InOnePlace, LoggedFits
      <3>. QED
        BY <1>10, <1>11, <1>13, <2>2, <3>1
    <2>6. UNCHANGED log
      BY <1>1
    <2>. QED
      BY <1>5, <2>1, <2>3, <2>4, <2>5, <2>6 DEF InOnePlace, LoggedFits
  <1>. QED
    BY <1>14, <1>15, <1>16 DEF InOnePlace

\* A receiver that logs its event gives up the value for the row.
LEMMA FinishRecvStep ==
  ASSUME Types, PlacesFit, SendsFit, IdsUnique, InOnePlace, [Next]_vars, ~NextConfig,
         NEW r \in RecvrThreads, FinishRecv(r)
  PROVE  InOnePlace'
  <1>. DEFINE e == Event(begun[r], clock, IdOf(got[r]))
              id == IdOf(got[r])
  <1>0. r \in Threads /\ r \in Chan!Handles /\ r \notin SendrThreads /\ DOMAIN state = Chan!Handles
        /\ DOMAIN log = Threads /\ DOMAIN got = RecvrThreads /\ DOMAIN pc = Threads
        /\ RecvrThreads \subseteq Threads
    BY Names DEF Types
  <1>1. /\ UNCHANGED <<queue, sent, ids>> /\ Holding(r)
        /\ state' = [state EXCEPT ![r] = "idle"] /\ pc' = [pc EXCEPT ![r] = "check"]
        /\ log' = [log EXCEPT ![r] = Append(@, e)] /\ got' = [got EXCEPT ![r] = None]
    BY DEF FinishRecv, Finish, Forget, Chan!Return, Chan!Become, Holding
  <1>2. e.id = id
    BY DEF Event
  <1>3. got[r] \in Values /\ WasAccepted(got[r])
    BY <1>1 DEF InOnePlace, HeldFits
  <1>4. \A v \in Values : WasAccepted(v) => WasAccepted(v)'
    BY AcceptedStays
  <1>5. \A v : IdOf(v)' = IdOf(v)
    BY <1>1 DEF IdOf
  <1>6. \A q \in RecvrThreads : Holding(q)' <=> Holding(q) /\ q # r
    BY <1>0, <1>1, Names DEF Holding
  <1>7. \A q \in RecvrThreads : Holding(q)' => got'[q] = got[q]
    BY <1>0, <1>1, <1>6
  <1>8. \A i \in 1..Len(queue) : queue[i] \in Values /\ WasAccepted(queue[i])
    BY DEF Types, InOnePlace, QueueFits
  <1>9. QueueFits'
    BY <1>1, <1>4, <1>8 DEF InOnePlace, QueueFits
  <1>10. HeldFits'
    <2>1. ASSUME NEW q \in RecvrThreads, Holding(q)' PROVE got'[q] \in Values /\ WasAccepted(got[q])'
      <3>1. Holding(q) /\ got'[q] = got[q] /\ got[q] \in Values /\ WasAccepted(got[q])
        BY <1>6, <1>7, <2>1 DEF InOnePlace, HeldFits
      <3>. QED
        BY <1>4, <3>1 DEF WasAccepted
    <2>. QED
      BY <1>1, <1>6, <1>7, <2>1 DEF InOnePlace, HeldFits
  <1>11. \A q \in RecvrThreads : Len(log[q]) \in Nat /\ log[q] \in Seq(Rows)
    BY <1>0 DEF Types
  <1>. HIDE DEF e
  <1>12. /\ Len(log'[r]) = Len(log[r]) + 1
         /\ \A n \in 1..Len(log'[r]) : \/ n \in 1..Len(log[r]) /\ log'[r][n] = log[r][n]
                                       \/ n = Len(log[r]) + 1 /\ log'[r][n] = e
    BY <1>0, <1>1, <1>11
  <1>13. \A q \in RecvrThreads : q # r => log'[q] = log[q]
    BY <1>0, <1>1
  <1>14. \A q \in RecvrThreads : \A n \in 1..Len(log'[q]) :
           \/ n \in 1..Len(log[q]) /\ log'[q][n] = log[q][n]
           \/ q = r /\ n = Len(log[r]) + 1 /\ log'[q][n] = e
    BY <1>12, <1>13
  <1>. HIDE DEF id
  <1>15. \A q \in RecvrThreads : \A n \in 1..Len(log[q]) : log[q][n].id # id
    BY <1>1 DEF InOnePlace, LoggedFits, id
  <1>16. \A i \in 1..Len(queue) : IdOf(queue[i]) # id
    <2>1. \A i \in 1..Len(queue) : queue[i] # got[r]
      BY <1>1 DEF InOnePlace, HeldFits
    <2>. QED
      BY <1>3, <1>8, <2>1, AcceptedIdInjective DEF id
  <1>17. \A q \in RecvrThreads : Holding(q) /\ q # r => IdOf(got[q]) # id
    <2>1. \A q \in RecvrThreads : Holding(q) /\ q # r =>
            got[q] # got[r] /\ got[q] \in Values /\ WasAccepted(got[q])
      BY <1>1 DEF InOnePlace, HeldFits
    <2>. QED
      BY <1>3, <2>1, AcceptedIdInjective DEF id
  <1>18. LoggedFits'
    <2>1. ASSUME NEW q \in RecvrThreads, NEW n \in 1..Len(log'[q])
          PROVE  \E v \in Values : WasAccepted(v)' /\ log'[q][n].id = IdOf(v)
      <3>1. CASE n \in 1..Len(log[q]) /\ log'[q][n] = log[q][n]
        BY <1>4, <3>1 DEF InOnePlace, LoggedFits
      <3>2. CASE log'[q][n] = e
        BY <1>2, <1>3, <1>4, <3>2 DEF id
      <3>. QED
        BY <1>14, <3>1, <3>2
    <2>2. \A q \in RecvrThreads : \A n \in 1..Len(log[q]) :
            /\ \A i \in 1..Len(queue) : IdOf(queue[i]) # log[q][n].id
            /\ \A p \in RecvrThreads : Holding(p) => IdOf(got[p]) # log[q][n].id
            /\ \A p \in RecvrThreads : \A m \in 1..Len(log[p]) :
                 log[p][m].id = log[q][n].id => p = q /\ m = n
      BY DEF InOnePlace, LoggedFits
    <2>3. ASSUME NEW q \in RecvrThreads, NEW n \in 1..Len(log'[q])
          PROVE  /\ \A i \in 1..Len(queue) : IdOf(queue[i]) # log'[q][n].id
                 /\ \A p \in RecvrThreads : Holding(p)' => IdOf(got'[p]) # log'[q][n].id
      BY <1>2, <1>6, <1>7, <1>14, <1>16, <1>17, <2>2
    <2>4. ASSUME NEW q \in RecvrThreads, NEW n \in 1..Len(log'[q]),
                 NEW p \in RecvrThreads, NEW m \in 1..Len(log'[p]),
                 log'[p][m].id = log'[q][n].id
          PROVE  p = q /\ m = n
      <3>1. CASE n \in 1..Len(log[q]) /\ log'[q][n] = log[q][n]
                 /\ m \in 1..Len(log[p]) /\ log'[p][m] = log[p][m]
        <4>1. log[p][m].id = log[q][n].id
          BY <2>4, <3>1
        <4>. QED
          BY <2>2, <3>1, <4>1
      <3>. QED
        BY <1>2, <1>14, <1>15, <2>4, <3>1
    <2>5. \A i : IdOf(queue[i])' = IdOf(queue[i])
      BY <1>1 DEF IdOf
    <2>6. \A q : IdOf(got[q])' = IdOf(got'[q])
      BY <1>1 DEF IdOf
    <2>7. UNCHANGED queue
      BY <1>1
    <2>. QED
      BY <1>5, <2>1, <2>3, <2>4, <2>5, <2>6, <2>7 DEF LoggedFits
  <1>. QED
    BY <1>9, <1>10, <1>18 DEF InOnePlace

\* No step copies a value.
LEMMA InPlaceStep ==
  Types /\ PlacesFit /\ SendsFit /\ IdsUnique /\ InOnePlace /\ [Next]_vars => InOnePlace'
  <1>. SUFFICES ASSUME Types, PlacesFit, SendsFit, IdsUnique, InOnePlace, [Next]_vars
                PROVE  InOnePlace'
    OBVIOUS
  <1>1. CASE NextConfig
    BY <1>1, Names DEF NextConfig, InOnePlace, QueueFits, HeldFits, LoggedFits, Holding
  <1>. SUFFICES ASSUME ~NextConfig PROVE InOnePlace'
    BY <1>1
  <1>2. CASE Quiet
    BY <1>2, ValuesKept, Names DEF Quiet
  <1>3. ASSUME NEW s \in SendrThreads, TakeId(s) \/ Send(s) \/ FinishSend(s)
        PROVE  InOnePlace'
    <2>0. s \in Threads /\ s \in Chan!Handles /\ s \notin RecvrThreads
          /\ DOMAIN state = Chan!Handles /\ DOMAIN pc = Threads /\ DOMAIN log = Threads
          /\ RecvrThreads \subseteq Threads /\ Threads \subseteq Chan!Handles
      BY Names DEF Types
    <2>1. UNCHANGED queue /\ \A r \in RecvrThreads :
            log'[r] = log[r] /\ state'[r] = state[r] /\ pc'[r] = pc[r] /\ got'[r] = got[r]
      BY <1>3, <2>0
      DEF TakeId, Send, FinishSend, Finish, Forget, Chan!CallSend, Chan!Return, Chan!Become
    <2>. QED
      BY <2>1, ValuesKept DEF Holding
  <1>. QED
    BY <1>2, <1>3, PutsStep, GetsStep, FinishRecvStep, StepKinds

-----------------------------------------------------------------------------
(* The times.                                                              *)

\* What the types say of one thread's log.
LEMMA LogTypes ==
  ASSUME Types, NEW t \in Threads
  PROVE  /\ log[t] \in Seq(Rows) /\ Len(log[t]) \in Nat /\ begun[t] \in Nat /\ clock \in Nat
         /\ \A n \in 1..Len(log[t]) :
              log[t][n].start \in Nat /\ log[t][n].end \in Nat /\ log[t][n].id \in Nat
  <1>1. log[t] \in Seq(Rows) /\ begun[t] \in Nat /\ clock \in Nat
    BY DEF Types
  <1>2. Len(log[t]) \in Nat /\ \A n \in 1..Len(log[t]) : log[t][n] \in Rows
    BY <1>1
  <1>. QED
    BY <1>1, <1>2 DEF Rows

\* A step that logs nothing and accepts nothing.
LEMMA TimesKept ==
  ASSUME Types, TimesFit, UNCHANGED log, clock' \in {clock, clock + 1},
         \A t \in Threads : begun'[t] \in {begun[t], clock, 0},
         \A s \in SendrThreads : state'[s] = "accepted" =>
           state[s] = "accepted" /\ begun'[s] = begun[s]
             /\ IdOf(<<s, sent[s]>>)' = IdOf(<<s, sent[s]>>)
  PROVE  TimesFit'
  <1>1. \A t \in Threads : begun'[t] <= clock'
    BY LogTypes DEF TimesFit
  <1>2. \A t \in Threads : \A n \in 1..Len(log[t]) :
          log[t][n].start <= log[t][n].end /\ log[t][n].end <= clock'
    BY LogTypes DEF TimesFit
  <1>3. \A r \in RecvrThreads, s \in SendrThreads : \A n \in 1..Len(log[r]) :
          /\ state'[s] = "accepted" /\ IdOf(<<s, sent[s]>>)' = log[r][n].id =>
               begun'[s] <= log[r][n].end
          /\ \A m \in 1..Len(log[s]) :
               log[s][m].id = log[r][n].id => log[s][m].start <= log[r][n].end
    BY DEF TimesFit
  <1>. QED
    BY <1>1, <1>2, <1>3 DEF TimesFit

\* A row that a thread logs ends now and began when its event did.
LEMMA TimesLogged ==
  ASSUME Types, Types', TimesFit, NEW t \in Threads, NEW id, UNCHANGED clock,
         log' = [log EXCEPT ![t] = Append(@, Event(begun[t], clock, id))],
         \A u \in Threads : begun'[u] \in {begun[u], 0},
         \A s \in SendrThreads : state'[s] = "accepted" =>
           state[s] = "accepted" /\ begun'[s] = begun[s]
             /\ IdOf(<<s, sent[s]>>)' = IdOf(<<s, sent[s]>>),
         t \in SendrThreads =>
           state[t] = "accepted" /\ id = IdOf(<<t, sent[t]>>) /\ t \notin RecvrThreads
  PROVE  TimesFit'
  <1>. DEFINE e == Event(begun[t], clock, id)
  <1>1. e.start = begun[t] /\ e.end = clock /\ e.id = id
    BY DEF Event
  <1>2. e.start <= e.end /\ begun[t] <= clock
    BY <1>1 DEF TimesFit
  <1>. HIDE DEF e
  <1>3. \A u \in Threads : Len(log[u]) \in Nat /\ log[u] \in Seq(Rows) /\ DOMAIN log = Threads
    BY LogTypes DEF Types
  <1>4. /\ Len(log'[t]) = Len(log[t]) + 1 /\ \A u \in Threads : u # t => log'[u] = log[u]
        /\ \A n \in 1..Len(log'[t]) : \/ n \in 1..Len(log[t]) /\ log'[t][n] = log[t][n]
                                      \/ n = Len(log[t]) + 1 /\ log'[t][n] = e
    BY <1>3 DEF e
  <1>5. \A u \in Threads : \A n \in 1..Len(log'[u]) :
           \/ n \in 1..Len(log[u]) /\ log'[u][n] = log[u][n]
           \/ u = t /\ n = Len(log[t]) + 1 /\ log'[u][n] = e
    BY <1>4
  <1>6. \A u \in Threads : begun'[u] <= clock'
    BY LogTypes DEF TimesFit
  <1>7. ASSUME NEW u \in Threads, NEW n \in 1..Len(log'[u])
        PROVE  log'[u][n].start <= log'[u][n].end /\ log'[u][n].end <= clock
    BY <1>1, <1>2, <1>5, LogTypes DEF TimesFit
  <1>8. ASSUME NEW u \in Threads, NEW n \in 1..Len(log'[u]) PROVE log'[u][n].start <= clock
    <2>1. log'[u] \in Seq(Rows) /\ clock \in Nat
      BY DEF Types
    <2>2. log'[u][n] \in Rows
      BY <2>1
    <2>3. log'[u][n].start \in Nat /\ log'[u][n].end \in Nat
      BY <2>2 DEF Rows
    <2>. QED
      BY <1>7, <2>1, <2>3
  <1>9. ASSUME NEW r \in RecvrThreads, NEW s \in SendrThreads, NEW n \in 1..Len(log'[r])
        PROVE  /\ state'[s] = "accepted" /\ IdOf(<<s, sent[s]>>)' = log'[r][n].id =>
                    begun'[s] <= log'[r][n].end
               /\ \A m \in 1..Len(log'[s]) :
                    log'[s][m].id = log'[r][n].id => log'[s][m].start <= log'[r][n].end
    <2>0. r \in Threads /\ s \in Threads
      BY Names
    <2>1. CASE log'[r][n] = e
      <3>1. log'[r][n].end = clock
        BY <1>1, <2>1
      <3>. QED
        BY <1>8, <2>0, <3>1 DEF TimesFit
    <2>2. CASE n \in 1..Len(log[r]) /\ log'[r][n] = log[r][n]
      <3>1. state'[s] = "accepted" /\ IdOf(<<s, sent[s]>>)' = log'[r][n].id =>
              begun'[s] <= log'[r][n].end
        BY <2>2 DEF TimesFit
      <3>2. ASSUME NEW m \in 1..Len(log'[s]), log'[s][m].id = log'[r][n].id
            PROVE  log'[s][m].start <= log'[r][n].end
        <4>1. CASE m \in 1..Len(log[s]) /\ log'[s][m] = log[s][m]
          BY <2>2, <3>2, <4>1 DEF TimesFit
        <4>2. CASE s = t /\ log'[s][m] = e
          <5>1. state[s] = "accepted" /\ IdOf(<<s, sent[s]>>) = log[r][n].id
            BY <1>1, <2>2, <3>2, <4>2
          <5>. QED
            BY <1>1, <2>2, <4>2, <5>1 DEF TimesFit
        <4>. QED
          BY <1>5, <2>0, <4>1, <4>2
      <3>. QED
        BY <3>1, <3>2
    <2>. QED
      BY <1>5, <2>0, <2>1, <2>2
  <1>. QED
    BY <1>6, <1>7, <1>9 DEF TimesFit

\* Times stay in order: a value is in no receiver's log before its send has started.
LEMMA TimesStep ==
  ASSUME Types, Types', PlacesFit, SendsFit, InOnePlace, InOnePlace', TimesFit, [Next]_vars
  PROVE  TimesFit'
  <1>0. /\ RecvrThreads \subseteq Threads /\ SendrThreads \subseteq Threads
        /\ Threads \subseteq Chan!Handles /\ SendrThreads \cap RecvrThreads = {}
        /\ DOMAIN state = Chan!Handles /\ DOMAIN begun = Threads /\ DOMAIN pc = Threads
        /\ SendrThreads \subseteq Senders /\ DOMAIN sent = Senders
    BY Names DEF Types
  <1>1. CASE NextConfig
    BY <1>0, <1>1 DEF NextConfig, TimesFit
  <1>. SUFFICES ASSUME ~NextConfig PROVE TimesFit'
    BY <1>1
  <1>2. ASSUME NEW s \in SendrThreads, state[s] = "accepted", UNCHANGED sent
        PROVE  IdOf(<<s, sent[s]>>)' = IdOf(<<s, sent[s]>>)
    <2>. PICK n : n = sent[s]
      OBVIOUS
    <2>1. pc[s] = "sending"
      BY <1>0, <1>2 DEF Types, PlacesFit, PCs, OutOfCall, Over
    <2>2. n \in Nat \ {0}
      BY <2>1, SendingHasId
    <2>3. <<s, n>> \in Values /\ WasAccepted(<<s, n>>)
      BY <1>2, <2>2 DEF Values, WasAccepted
    <2>4. IdOf(<<s, n>>)' = IdOf(<<s, n>>)
      BY <2>3, AcceptedStays
    <2>. QED
      BY <1>2, <2>4 DEF IdOf
  <1>3. CASE Quiet
    BY <1>0, <1>2, <1>3, TimesKept DEF Quiet
  <1>4. ASSUME NEW s \in SendrThreads, TakeId(s) PROVE TimesFit'
    BY <1>0, <1>2, <1>4, TimesKept DEF TakeId
  <1>5. ASSUME NEW s \in SendrThreads, Send(s) PROVE TimesFit'
    <2>1. /\ UNCHANGED <<log, clock, ids>> /\ begun' = [begun EXCEPT ![s] = clock]
          /\ sent' = [sent EXCEPT ![s] = @ + 1] /\ state' = [state EXCEPT ![s] = "called"]
      BY <1>5 DEF Send, Chan!CallSend, Chan!Become
    <2>2. ASSUME NEW u \in SendrThreads, state'[u] = "accepted"
          PROVE  /\ state[u] = "accepted" /\ begun'[u] = begun[u]
                 /\ IdOf(<<u, sent[u]>>)' = IdOf(<<u, sent[u]>>)
      <3>1. u # s /\ state[u] = "accepted"
        BY <1>0, <2>1, <2>2
      <3>. QED
        BY <1>0, <2>1, <3>1 DEF IdOf
    <2>. QED
      BY <1>0, <2>1, <2>2, TimesKept
  <1>6. ASSUME NEW s \in SendrThreads, Puts(s) PROVE TimesFit'
    <2>1. /\ UNCHANGED <<log, clock, ids, sent, begun>> /\ queue' = Append(queue, <<s, sent[s]>>)
          /\ state' = [state EXCEPT ![s] = "accepted"]
      BY <1>6 DEF Puts, InCall, Chan!Accept, Chan!Become
    <2>2. ASSUME NEW r \in RecvrThreads, NEW n \in 1..Len(log[r])
          PROVE  IdOf(<<s, sent[s]>>) # log[r][n].id
      <3>. PICK e : e = <<s, sent[s]>>
        OBVIOUS
      <3>1. queue \in Seq(Values) /\ queue' = Append(queue, e) /\ queue' \in Seq(Values)
        BY <2>1 DEF Types
      <3>2. Len(queue) + 1 \in 1..Len(queue') /\ queue'[Len(queue) + 1] = e
        BY <3>1
      <3>3. LoggedFits'
        BY DEF InOnePlace
      <3>4. \A i \in 1..Len(queue') : IdOf(queue[i])' # log'[r][n].id
        BY <2>1, <3>3 DEF LoggedFits
      <3>5. \A i \in 1..Len(queue') : IdOf(queue'[i]) # log[r][n].id
        BY <2>1, <3>4 DEF IdOf
      <3>. QED
        BY <3>2, <3>5
    <2>3. \A u \in SendrThreads : u # s => state'[u] = state[u]
      BY <1>0, <2>1
    <2>4. \A u : IdOf(<<u, sent[u]>>)' = IdOf(<<u, sent[u]>>)
      BY <2>1 DEF IdOf
    <2>. QED
      BY <2>1, <2>2, <2>3, <2>4 DEF TimesFit
  <1>7. ASSUME NEW s \in SendrThreads, FinishSend(s) PROVE TimesFit'
    <2>. DEFINE id == IdOf(<<s, sent[s]>>)
    <2>1. /\ UNCHANGED <<clock, ids, sent>> /\ begun' = [begun EXCEPT ![s] = 0]
          /\ state[s] = "accepted" /\ state' = [state EXCEPT ![s] = "idle"]
          /\ log' = [log EXCEPT ![s] = Append(@, Event(begun[s], clock, id))]
      BY <1>7 DEF FinishSend, Finish, Forget, Chan!Return, Chan!Become
    <2>2. \A u \in SendrThreads : state'[u] = "accepted" => state[u] = "accepted" /\ u # s
      BY <1>0, <2>1
    <2>3. \A u \in Threads : begun'[u] \in {begun[u], 0} /\ (u # s => begun'[u] = begun[u])
      BY <1>0, <2>1
    <2>. HIDE DEF id
    <2>. QED
      BY <1>0, <1>2, <2>1, <2>2, <2>3, TimesLogged DEF id
  <1>8. ASSUME NEW r \in RecvrThreads, Gets(r) PROVE TimesFit'
    <2>1. /\ UNCHANGED <<log, clock, ids, sent, begun>> /\ state' = [state EXCEPT ![r] = "received"]
      BY <1>8 DEF Gets, InCall, Chan!Receive, Chan!Become
    <2>. QED
      BY <1>0, <1>2, <2>1, TimesKept
  <1>9. ASSUME NEW r \in RecvrThreads, FinishRecv(r) PROVE TimesFit'
    <2>. DEFINE id == IdOf(got[r])
    <2>1. /\ UNCHANGED <<clock, ids, sent>> /\ begun' = [begun EXCEPT ![r] = 0]
          /\ state' = [state EXCEPT ![r] = "idle"]
          /\ log' = [log EXCEPT ![r] = Append(@, Event(begun[r], clock, id))]
      BY <1>9 DEF FinishRecv, Finish, Forget, Chan!Return, Chan!Become
    <2>2. \A u \in SendrThreads : state'[u] = state[u] /\ u # r
      BY <1>0, <2>1
    <2>3. \A u \in Threads : begun'[u] \in {begun[u], 0} /\ (u # r => begun'[u] = begun[u])
      BY <1>0, <2>1
    <2>. HIDE DEF id
    <2>. QED
      BY <1>0, <1>2, <2>1, <2>2, <2>3, TimesLogged
  <1>. QED
    BY <1>3, <1>4, <1>5, <1>6, <1>7, <1>8, <1>9, StepKinds

-----------------------------------------------------------------------------
(* Why a thread leaves.                                                    *)

\* A value that a receiver has stays with it or in its log.
LEMMA CameStays ==
  ASSUME Types, PlacesFit, SendsFit, [Next]_vars, ~NextConfig,
         NEW v \in Values, WasAccepted(v), Came(v)
  PROVE  Came(v)'
  <1>0. /\ RecvrThreads \subseteq Threads /\ SendrThreads \subseteq Threads
        /\ Threads \subseteq Chan!Handles /\ SendrThreads \cap RecvrThreads = {}
        /\ DOMAIN state = Chan!Handles /\ DOMAIN pc = Threads /\ DOMAIN log = Threads
        /\ DOMAIN got = RecvrThreads
    BY Names DEF Types
  <1>1. IdOf(v)' = IdOf(v)
    BY AcceptedStays
  <1>2. ASSUME \A r \in RecvrThreads : /\ log'[r] = log[r] /\ (Holding(r) => Holding(r)')
                                       /\ Holding(r) => got'[r] = got[r]
        PROVE  Came(v)'
    BY <1>1, <1>2 DEF Came
  <1>3. CASE Quiet
    BY <1>0, <1>2, <1>3 DEF Quiet
  <1>4. ASSUME NEW s \in SendrThreads, TakeId(s) \/ Send(s) \/ FinishSend(s) PROVE Came(v)'
    <2>1. \A r \in RecvrThreads :
            log'[r] = log[r] /\ state'[r] = state[r] /\ pc'[r] = pc[r] /\ got'[r] = got[r]
      BY <1>0, <1>4
      DEF TakeId, Send, FinishSend, Finish, Forget, Chan!CallSend, Chan!Return, Chan!Become
    <2>. QED
      BY <1>2, <2>1 DEF Holding
  <1>5. ASSUME NEW s \in SendrThreads, Puts(s) PROVE Came(v)'
    <2>1. \A r \in RecvrThreads :
            log'[r] = log[r] /\ state'[r] = state[r] /\ pc'[r] = pc[r] /\ got'[r] = got[r]
      BY <1>0, <1>5 DEF Puts, InCall, Chan!Accept, Chan!Become
    <2>. QED
      BY <1>2, <2>1 DEF Holding
  <1>6. ASSUME NEW r \in RecvrThreads, Gets(r) PROVE Came(v)'
    <2>1. /\ UNCHANGED <<log, pc>> /\ state[r] = "called" /\ state' = [state EXCEPT ![r] = "received"]
      BY <1>6 DEF Gets, InCall, Chan!Receive, Chan!Become
    <2>2. got' = [got EXCEPT ![r] = Head(queue)]
      BY <1>0, <1>6 DEF Gets, InCall, Chan!Receive, Chan!Close
    <2>. QED
      BY <1>0, <1>2, <2>1, <2>2 DEF Holding
  <1>7. ASSUME NEW r \in RecvrThreads, FinishRecv(r) PROVE Came(v)'
    <2>. DEFINE e == Event(begun[r], clock, IdOf(got[r]))
    <2>1. /\ state' = [state EXCEPT ![r] = "idle"] /\ pc' = [pc EXCEPT ![r] = "check"]
          /\ log' = [log EXCEPT ![r] = Append(@, e)] /\ got' = [got EXCEPT ![r] = None]
      BY <1>7 DEF FinishRecv, Finish, Forget, Chan!Return, Chan!Become
    <2>2. e.id = IdOf(got[r])
      BY DEF Event
    <2>. HIDE DEF e
    <2>3. log[r] \in Seq(Rows) /\ Len(log[r]) \in Nat
      BY <1>0 DEF Types
    <2>4. /\ Len(log'[r]) = Len(log[r]) + 1 /\ log'[r][Len(log[r]) + 1] = e
          /\ \A n \in 1..Len(log[r]) : log'[r][n] = log[r][n]
      BY <1>0, <2>1, <2>3
    <2>5. \A q \in RecvrThreads : q # r => /\ log'[q] = log[q] /\ got'[q] = got[q]
                                           /\ Holding(q)' <=> Holding(q)
      BY <1>0, <2>1 DEF Holding
    <2>6. CASE Holding(r) /\ got[r] = v
      <3>1. Len(log[r]) + 1 \in 1..Len(log'[r]) /\ log'[r][Len(log[r]) + 1].id = IdOf(v)
        BY <2>2, <2>3, <2>4, <2>6
      <3>. QED
        BY <1>1, <3>1 DEF Came
    <2>7. ASSUME NEW q \in RecvrThreads, q # r, Holding(q), got[q] = v PROVE Came(v)'
      BY <2>5, <2>7 DEF Came
    <2>8. ASSUME NEW q \in RecvrThreads, NEW n \in 1..Len(log[q]), log[q][n].id = IdOf(v)
          PROVE  Came(v)'
      <3>1. n \in 1..Len(log'[q]) /\ log'[q][n] = log[q][n]
        BY <2>3, <2>4, <2>5
      <3>. QED
        BY <1>1, <2>8, <3>1 DEF Came
    <2>. QED
      BY <2>6, <2>7, <2>8 DEF Came
  <1>. QED
    BY <1>3, <1>4, <1>5, <1>6, <1>7, StepKinds

\* Every value that left the queue is in a call of recv or logged.
LEMMA ReceivedStep ==
  ASSUME Types, PlacesFit, SendsFit, InOnePlace, ReceivedFits, [Next]_vars, ~NextConfig
  PROVE  ReceivedFits'
  <1>0. /\ RecvrThreads \subseteq Threads /\ Threads \subseteq Chan!Handles
        /\ DOMAIN state = Chan!Handles /\ DOMAIN pc = Threads /\ DOMAIN got = RecvrThreads
        /\ received \in Seq(Values) /\ queue \in Seq(Values)
    BY Names DEF Types
  <1>1. \A i \in 1..Len(received) : received[i] \in Values
    BY <1>0
  <1>2. \A v \in Values : WasAccepted(v) => WasAccepted(v)'
    BY AcceptedStays
  <1>3. \A v \in Values : WasAccepted(v) /\ Came(v) => Came(v)'
    BY CameStays
  <1>4. ASSUME NEW r \in RecvrThreads, Gets(r) PROVE ReceivedFits'
    <2>. DEFINE e == Head(queue)
    <2>1. /\ queue # <<>> /\ received' = Append(received, e)
          /\ UNCHANGED pc /\ state[r] = "called" /\ state' = [state EXCEPT ![r] = "received"]
      BY <1>4 DEF Gets, InCall, Chan!Receive, Chan!Become
    <2>2. got' = [got EXCEPT ![r] = e]
      BY <1>0, <1>4, Names DEF Gets, InCall, Chan!Receive, Chan!Close
    <2>3. pc[r] = "receiving"
      BY <1>0, <2>1, Names DEF Types, PlacesFit, OutOfCall, Over, PCs
    <2>4. e = queue[1] /\ 1 \in 1..Len(queue)
      BY <1>0, <2>1
    <2>. HIDE DEF e
    <2>5. e \in Values /\ WasAccepted(e)
      BY <1>0, <2>4 DEF InOnePlace, QueueFits
    <2>6. Holding(r)' /\ got'[r] = e
      BY <1>0, <2>1, <2>2, <2>3 DEF Holding
    <2>7. \A i \in 1..Len(received') : \/ i \in 1..Len(received) /\ received'[i] = received[i]
                                       \/ received'[i] = e
      BY <1>0, <2>1, <2>5
    <2>8. ASSUME NEW i \in 1..Len(received') PROVE WasAccepted(received[i])' /\ Came(received[i])'
      <3>. DEFINE w == received'[i]
      <3>1. CASE i \in 1..Len(received) /\ w = received[i]
        <4>1. w \in Values /\ WasAccepted(w) /\ Came(w)
          BY <1>1, <3>1 DEF ReceivedFits
        <4>. QED
          BY <1>2, <1>3, <4>1 DEF WasAccepted, Came, IdOf
      <3>2. CASE w = e
        <4>1. WasAccepted(received[i])'
          BY <1>2, <2>5, <3>2 DEF WasAccepted
        <4>. QED
          BY <2>6, <3>2, <4>1 DEF Came
      <3>. QED
        BY <2>7, <3>1, <3>2
    <2>. QED
      BY <2>8 DEF ReceivedFits
  <1>5. CASE UNCHANGED received
    BY <1>1, <1>2, <1>3, <1>5 DEF ReceivedFits
  <1>6. ASSUME NEW s \in SendrThreads, TakeId(s) \/ Send(s) \/ Puts(s) \/ FinishSend(s)
        PROVE  UNCHANGED received
    BY <1>6 DEF TakeId, Send, Puts, InCall, FinishSend, Chan!CallSend, Chan!Accept, Chan!Return
  <1>7. ASSUME NEW r \in RecvrThreads, FinishRecv(r) PROVE UNCHANGED received
    BY <1>7 DEF FinishRecv, Chan!Return
  <1>. QED
    BY <1>4, <1>5, <1>6, <1>7, StepKinds DEF Quiet

\* What a step may change for one thread.
LEMMA LeaveSteps ==
  ASSUME Types, PlacesFit, [Next]_vars, ~NextConfig, NEW u \in Threads
  PROVE  /\ pc'[u] = "check" => pc[u] = "check" \/ Holding(u) \/ state[u] = "accepted"
         /\ Holding(u)' => Holding(u) \/ received' # <<>>
         /\ state'[u] = "accepted" => state[u] = "accepted" \/ queue' # <<>>
         /\ Leaves(u)' => \/ Leaves(u) \/ pc[u] = "check"
                          \/ u \in RecvrThreads /\ pc[u] = "receiving" /\ queue = <<>> /\ ~Chan!SomeSender
                          \/ u \in SendrThreads /\ pc[u] = "sending" /\ ~Chan!SomeReceiver
         /\ pc[u] = "panicked" => pc'[u] = "panicked"
         /\ received # <<>> => received' # <<>>
         /\ queue # <<>> \/ received # <<>> => queue' # <<>> \/ received' # <<>>
  <1>0. /\ RecvrThreads \subseteq Threads /\ SendrThreads \subseteq Threads
        /\ Threads \subseteq Chan!Handles /\ SendrThreads \cap RecvrThreads = {}
        /\ MainTx \in Chan!Handles \ Threads /\ MainRx \in Chan!Handles \ Threads
        /\ DOMAIN state = Chan!Handles /\ DOMAIN pc = Threads
        /\ received \in Seq(Values) /\ queue \in Seq(Values)
    BY Names DEF Types
  <1>. USE <1>0 DEF Leaves, Holding
  <1>1. CASE UNCHANGED <<queue, received, state, pc>>
    BY <1>1
  <1>2. CASE SpawnThread
    BY <1>2, HandlesAre DEF SpawnThread, Chan!Clone, Chan!Become
  <1>3. CASE DropOriginals
    BY <1>3 DEF DropOriginals, Chan!DropHandle, Chan!Become
  <1>4. ASSUME NEW t \in Threads, ThreadStep(t) \/ Panic(t), t # u
        PROVE  pc'[u] = pc[u] /\ state'[u] = state[u]
    BY <1>4
    DEF ThreadStep, ArriveBarrier, PassBarrier, TakeId, Send, FinishSend, Recv, FinishRecv, InCall,
      FailCall, KeepAlive, Expire, DropHandle, CompleteRunner, FailRunner, Panic, Chan!CallSend, Chan!CallRecv,
      Chan!Admit, Chan!Accept, Chan!Refuse, Chan!Receive, Chan!Close, Chan!Return,
      Chan!DropHandle, Chan!Become
  <1>5. ASSUME NEW t \in Threads, ThreadStep(t) \/ Panic(t)
        PROVE  /\ received # <<>> => received' # <<>>
               /\ queue # <<>> \/ received # <<>> => queue' # <<>> \/ received' # <<>>
    <2>1. UNCHANGED <<queue, received>> \/ Chan!Accept(t) \/ Chan!Receive(t)
      BY <1>5
      DEF ThreadStep, ArriveBarrier, PassBarrier, TakeId, Send, FinishSend, Recv, FinishRecv, InCall,
        FailCall, KeepAlive, Expire, DropHandle, CompleteRunner, FailRunner, Panic, Chan!CallSend, Chan!CallRecv,
        Chan!Admit, Chan!Refuse, Chan!Close, Chan!Return, Chan!DropHandle
    <2>2. CASE Chan!Accept(t)
      BY <2>2 DEF Chan!Accept
    <2>3. CASE Chan!Receive(t)
      BY <2>3 DEF Chan!Receive
    <2>. QED
      BY <2>1, <2>2, <2>3
  <1>6. ASSUME ThreadStep(u) \/ Panic(u)
        PROVE  /\ pc'[u] = "check" => pc[u] = "check" \/ Holding(u) \/ state[u] = "accepted"
               /\ Holding(u)' => Holding(u) \/ received' # <<>>
               /\ state'[u] = "accepted" => state[u] = "accepted" \/ queue' # <<>>
               /\ Leaves(u)' => \/ Leaves(u) \/ pc[u] = "check"
                                \/ /\ u \in RecvrThreads /\ pc[u] = "receiving"
                                   /\ queue = <<>> /\ ~Chan!SomeSender
                                \/ u \in SendrThreads /\ pc[u] = "sending" /\ ~Chan!SomeReceiver
               /\ pc[u] = "panicked" => pc'[u] = "panicked"
    <2>1. CASE ArriveBarrier(u)
      BY <2>1 DEF ArriveBarrier
    <2>2. CASE PassBarrier(u)
      BY <2>2 DEF PassBarrier
    <2>3. CASE TakeId(u)
      BY <2>3 DEF TakeId
    <2>4. CASE Send(u)
      BY <2>4 DEF Send, Chan!CallSend, Chan!Become
    <2>5. CASE FinishSend(u)
      BY <2>5 DEF FinishSend, Chan!Return, Chan!Become
    <2>6. CASE Recv(u)
      BY <2>6 DEF Recv, Chan!CallRecv, Chan!Become
    <2>7. CASE FinishRecv(u)
      BY <2>7 DEF FinishRecv, Chan!Return, Chan!Become
    <2>8. CASE InCall(u)
      <3>0. UNCHANGED pc
        BY <2>8 DEF InCall
      <3>1. CASE Chan!Admit(u)
        BY <3>0, <3>1 DEF Chan!Admit, Chan!Become
      <3>2. CASE Chan!Accept(u)
        BY <3>0, <3>2 DEF Chan!Accept, Chan!Become
      <3>3. CASE u \in SendrThreads /\ Chan!Refuse(u)
        <4>1. state[u] = "called" /\ ~Chan!SomeReceiver
          BY <3>3 DEF Chan!Refuse, Chan!Become
        <4>2. pc[u] = "sending"
          BY <3>3, <4>1 DEF PlacesFit, OutOfCall, Over, Types, PCs
        <4>. QED
          BY <3>0, <3>3, <4>1, <4>2 DEF Chan!Refuse, Chan!Become
      <3>4. CASE Chan!Receive(u)
        BY <3>0, <3>4 DEF Chan!Receive, Chan!Become
      <3>5. CASE u \in RecvrThreads /\ Chan!Close(u)
        <4>1. state[u] = "called" /\ queue = <<>> /\ ~Chan!SomeSender
          BY <3>5 DEF Chan!Close, Chan!Become
        <4>2. pc[u] = "receiving"
          BY <3>5, <4>1 DEF PlacesFit, OutOfCall, Over, Types, PCs
        <4>. QED
          BY <3>0, <3>5, <4>1, <4>2 DEF Chan!Close, Chan!Become
      <3>. QED
        BY <2>8, <3>1, <3>2, <3>3, <3>4, <3>5 DEF InCall
    <2>9. CASE FailCall(u)
      BY <2>9 DEF FailCall, Chan!Return, Chan!Become
    <2>10. CASE KeepAlive(u)
      BY <2>10 DEF KeepAlive
    <2>11. CASE Expire(u)
      BY <2>11 DEF Expire
    <2>12. CASE DropHandle(u)
      BY <2>12 DEF DropHandle, Chan!DropHandle, Chan!Become
    <2>13. CASE CompleteRunner(u) \/ FailRunner(u)
      BY <2>13 DEF CompleteRunner, FailRunner
    <2>14. CASE Panic(u)
      BY <2>14 DEF Panic
    <2>. QED
      BY <1>6, <2>1, <2>2, <2>3, <2>4, <2>5, <2>6, <2>7, <2>8, <2>9, <2>10, <2>11, <2>12, <2>13,
        <2>14 DEF ThreadStep
  <1>7. ASSUME NEW t \in Threads, ThreadStep(t) \/ Panic(t), t # u
        PROVE  pc'[u] = pc[u] /\ state'[u] = state[u] /\ (Holding(u)' <=> Holding(u))
                 /\ (Leaves(u)' <=> Leaves(u))
    BY <1>4, <1>7
  <1>8. CASE \E t \in Threads : ThreadStep(t) \/ Panic(t)
    BY <1>5, <1>6, <1>7, <1>8
  <1>. QED
    BY <1>1, <1>2, <1>3, <1>8
    DEF Next, MainStep, Reject, Accept, MainArrives, Complete, FailComplete, JoinPanic, Tick

\* Past the barrier a handle is gone only with its thread.
LEMMA GoneLeaves ==
  ASSUME Types, PlacesFit, BarrierHolds, NEW t \in Threads, pc[t] \in {"sending", "receiving"},
         NEW u \in Threads, ~Chan!Live(u)
  PROVE  Leaves(u) \/ pc[u] = "panicked"
  <1>1. t \in Arrived /\ pc[t] # "waiting"
    BY DEF Arrived
  <1>2. u \in Arrived
    BY <1>1 DEF BarrierHolds
  <1>3. state[u] \in {"none", "gone"}
    BY DEF Chan!Live
  <1>. QED
    BY <1>2, <1>3 DEF Arrived, PlacesFit, OutOfCall, Over, Leaves, Types, PCs

\* The first side that gives up has a reason: a value was received, or a thread panicked.
LEMMA LeftStep ==
  ASSUME Types, PlacesFit, BarrierHolds, SendsFit, InOnePlace, LeftForAReason, [Next]_vars
  PROVE  LeftForAReason'
  <1>0. /\ RecvrThreads \subseteq Threads /\ SendrThreads \subseteq Threads
        /\ SendrThreads # {} /\ RecvrThreads # {} /\ SendrThreads \cap RecvrThreads = {}
        /\ SendrThreads \subseteq Senders /\ RecvrThreads \subseteq Receivers
        /\ Threads \subseteq Chan!Handles
    BY Names
  <1>1. CASE NextConfig
    BY <1>0, <1>1, Names
    DEF NextConfig, LeftForAReason, ReceiversLeave, SendersLeave, ReceivedFits, Leaves, Holding
  <1>. SUFFICES ASSUME ~NextConfig PROVE LeftForAReason'
    BY <1>1
  <1>2. ReceivedFits'
    BY ReceivedStep DEF LeftForAReason
  <1>3. SomePanic => SomePanic'
    BY LeaveSteps DEF SomePanic
  <1>4. /\ received # <<>> => received' # <<>>
        /\ queue # <<>> \/ received # <<>> => queue' # <<>> \/ received' # <<>>
    BY <1>0, LeaveSteps
  <1>5. ASSUME NEW r \in RecvrThreads
        PROVE  /\ pc'[r] = "check" \/ Holding(r)' => received' # <<>>
               /\ Leaves(r)' => received' # <<>> \/ SomePanic'
    <2>1. state[r] # "accepted"
      BY <1>0 DEF PlacesFit, OutOfCall, Over, Types, PCs
    <2>2. ASSUME pc[r] = "receiving", queue = <<>>, ~Chan!SomeSender
          PROVE  received # <<>> \/ SomePanic
      <3>1. PICK s \in SendrThreads : TRUE
        BY <1>0
      <3>2. ~Chan!Live(s)
        BY <1>0, <2>2 DEF Chan!SomeSender
      <3>3. Leaves(s) \/ pc[s] = "panicked"
        BY <1>0, <2>2, <3>2, GoneLeaves
      <3>. QED
        BY <1>0, <2>2, <3>3 DEF LeftForAReason, SendersLeave, SomePanic
    <2>. QED
      BY <1>0, <1>3, <1>4, <2>1, <2>2, LeaveSteps DEF LeftForAReason, ReceiversLeave
  <1>6. ASSUME NEW s \in SendrThreads
        PROVE  /\ pc'[s] = "check" \/ state'[s] = "accepted" => queue' # <<>> \/ received' # <<>>
               /\ Leaves(s)' => queue' # <<>> \/ received' # <<>> \/ SomePanic'
    <2>1. ~Holding(s)
      BY <1>0 DEF Holding, PlacesFit
    <2>2. ASSUME pc[s] = "sending", ~Chan!SomeReceiver
          PROVE  received # <<>> \/ SomePanic
      <3>1. PICK r \in RecvrThreads : TRUE
        BY <1>0
      <3>2. ~Chan!Live(r)
        BY <1>0, <2>2 DEF Chan!SomeReceiver
      <3>3. Leaves(r) \/ pc[r] = "panicked"
        BY <1>0, <2>2, <3>2, GoneLeaves
      <3>. QED
        BY <1>0, <2>2, <3>3 DEF LeftForAReason, ReceiversLeave, SomePanic
    <2>. QED
      BY <1>0, <1>3, <1>4, <2>1, <2>2, LeaveSteps DEF LeftForAReason, SendersLeave
  <1>. QED
    BY <1>2, <1>5, <1>6 DEF LeftForAReason, ReceiversLeave, SendersLeave

-----------------------------------------------------------------------------
(* The run as a whole.                                                     *)

\* A thread that ended takes no step, and a file is written as its thread ends.
LEMMA EndedStays ==
  ASSUME Types, PlacesFit, NEW t \in Threads, ThreadStep(t) \/ Panic(t)
  PROVE  /\ pc[t] # "ended" /\ UNCHANGED <<main, span>>
         /\ \A u \in Threads : u # t => pc'[u] = pc[u] /\ log'[u] = log[u]
         /\ \/ UNCHANGED files
            \/ /\ UNCHANGED log /\ pc'[t] = "ended"
               /\ \E file : Put(t, file) /\ FirstRows(t, file)
  <1>0. t \in Chan!Handles /\ DOMAIN pc = Threads /\ DOMAIN state = Chan!Handles
        /\ DOMAIN log = Threads
    BY Names DEF Types
  <1>1. pc[t] = "ended" => state[t] = "gone"
    BY DEF PlacesFit, Over
  <1>2. CASE InCall(t)
    <2>1. state[t] # "gone" /\ UNCHANGED <<main, span, pc, log, files>>
      BY <1>2 DEF InCall, Chan!Admit, Chan!Accept, Chan!Refuse, Chan!Receive, Chan!Close, Chan!Become
    <2>. QED
      BY <1>1, <2>1
  <1>3. CASE CompleteRunner(t) \/ FailRunner(t)
    <2>0. log[t] \in Seq(Rows)
      BY DEF Types
    <2>1. FirstRows(t, File(Kind(t), log[t]))
      BY <2>0 DEF FirstRows, File
    <2>2. FirstRows(t, [kind |-> Kind(t), header |-> FALSE, rows |-> <<>>])
      BY DEF FirstRows
    <2>3. ASSUME NEW n \in 0..(Len(log[t]) - 1)
          PROVE  FirstRows(t, File(Kind(t), SubSeq(log[t], 1, n)))
      <3>1. /\ DOMAIN SubSeq(log[t], 1, n) = 1..n
            /\ \A m \in 1..n : m \in 1..Len(log[t]) /\ SubSeq(log[t], 1, n)[m] = log[t][m]
        BY <2>0
      <3>. QED
        BY <3>1 DEF FirstRows, File
    <2>4. /\ pc[t] = "complete" /\ pc' = [pc EXCEPT ![t] = "ended"]
          /\ UNCHANGED <<main, span, log>>
      BY <1>3 DEF CompleteRunner, FailRunner
    <2>5. \/ UNCHANGED files
          \/ \E file : Put(t, file) /\ FirstRows(t, file)
      BY <1>3, <2>1, <2>2, <2>3 DEF CompleteRunner, FailRunner
    <2>. QED
      BY <1>0, <2>4, <2>5
  <1>4. CASE ~InCall(t) /\ ~CompleteRunner(t) /\ ~FailRunner(t)
    <2>1. /\ pc[t] # "ended" /\ UNCHANGED <<main, span, files>>
          /\ \A u \in Threads : u # t => pc'[u] = pc[u]
      BY <1>0, <1>4
      DEF ThreadStep, ArriveBarrier, PassBarrier, TakeId, Send, FinishSend, Recv, FinishRecv,
        FailCall, KeepAlive, Expire, DropHandle, Panic
    <2>2. UNCHANGED log \/ \E e : log' = [log EXCEPT ![t] = e]
      BY <1>0, <1>4
      DEF ThreadStep, ArriveBarrier, PassBarrier, TakeId, Send, FinishSend, Recv, FinishRecv,
        FailCall, KeepAlive, Expire, DropHandle, Panic, Finish
    <2>. QED
      BY <1>0, <2>1, <2>2
  <1>. QED
    BY <1>2, <1>3, <1>4

\* The run has its own file only when all threads ended, with no event after it.
LEMMA RunStep ==
  ASSUME Types, PlacesFit, TimesFit, RunFits, [Next]_vars
  PROVE  RunFits'
  <1>0. /\ DOMAIN files \subseteq {t \in Threads : pc[t] = "ended"} /\ DOMAIN pc = Threads
        /\ clock \in Nat /\ \A t \in DOMAIN files : FirstRows(t, files[t])
    BY DEF RunFits, Types
  <1>1. CASE NextConfig
    <2>1. files' = <<>> /\ span' = None /\ main' = "config"
      BY <1>1 DEF NextConfig
    <2>2. DOMAIN files' = {}
      BY <2>1
    <2>. QED
      BY <2>1, <2>2 DEF RunFits
  <1>2. ASSUME UNCHANGED <<files, log>>, \A t \in Threads : pc[t] = "ended" => pc'[t] = "ended"
        PROVE  /\ DOMAIN files' \subseteq {t \in Threads : pc'[t] = "ended"}
               /\ \A t \in DOMAIN files' : FirstRows(t, files[t])'
    BY <1>0, <1>2 DEF FirstRows, Kind
  <1>3. CASE SpawnThread
    <2>1. PICK i \in DOMAIN handles :
            pc[handles[i]] = "none" /\ pc' = [pc EXCEPT ![handles[i]] = "spawned"]
      BY <1>3 DEF SpawnThread
    <2>2. main = "spawn" /\ UNCHANGED <<main, files, span, log>>
      BY <1>3 DEF SpawnThread
    <2>3. \A t \in Threads : pc'[t] = "ended" <=> pc[t] = "ended"
      BY <1>0, <2>1, HandlesAre
    <2>. QED
      BY <1>2, <2>2, <2>3 DEF RunFits
  <1>4. CASE Complete
    <2>1. /\ UNCHANGED <<pc, files, log>> /\ span' = <<0, clock>> /\ main' = "completed"
          /\ \A t \in Threads : pc[t] = "ended"
      BY <1>4 DEF Complete, Joined
    <2>2. span'[2] = clock
      BY <2>1
    <2>. QED
      BY <1>0, <1>2, <2>1, <2>2 DEF RunFits, TimesFit
  <1>5. CASE FailComplete
    <2>1. /\ UNCHANGED <<pc, files, log, span>> /\ main = "join" /\ main' = "completed"
          /\ \A t \in Threads : pc[t] = "ended"
      BY <1>5 DEF FailComplete, Joined
    <2>. QED
      BY <1>2, <2>1 DEF RunFits
  <1>6. ASSUME NEW t \in Threads, ThreadStep(t) \/ Panic(t) PROVE RunFits'
    <2>1. /\ pc[t] # "ended" /\ UNCHANGED <<main, span>>
          /\ \A u \in Threads : u # t => pc'[u] = pc[u] /\ log'[u] = log[u]
      BY <1>6, EndedStays
    <2>2. main # "completed" /\ span = None
      BY <2>1 DEF RunFits
    <2>3. \A u \in DOMAIN files : u # t /\ pc'[u] = "ended" /\ log'[u] = log[u]
      BY <1>0, <2>1
    <2>4. CASE UNCHANGED files
      <3>1. \A u \in DOMAIN files' : FirstRows(u, files[u])'
        BY <1>0, <2>3, <2>4 DEF FirstRows, Kind
      <3>. QED
        BY <1>0, <2>1, <2>2, <2>3, <2>4, <3>1 DEF RunFits
    <2>5. CASE ~UNCHANGED files
      <3>1. UNCHANGED log /\ pc'[t] = "ended" /\ \E file : Put(t, file) /\ FirstRows(t, file)
        BY <1>6, <2>5, EndedStays
      <3>2. PICK file : Put(t, file) /\ FirstRows(t, file)
        BY <3>1
      <3>3. DOMAIN files' = DOMAIN files \cup {t} /\ files'[t] = file
            /\ \A u \in DOMAIN files : files'[u] = files[u]
        BY <2>3, <3>2 DEF Put
      <3>4. ASSUME NEW u \in DOMAIN files' PROVE pc'[u] = "ended" /\ FirstRows(u, files[u])'
        <4>1. FirstRows(u, files'[u]) /\ pc'[u] = "ended" /\ UNCHANGED log
          BY <1>0, <2>3, <3>1, <3>2, <3>3
        <4>. QED
          BY <4>1 DEF FirstRows, Kind
      <3>. QED
        BY <1>0, <2>1, <2>2, <3>3, <3>4 DEF RunFits
    <2>. QED
      BY <2>4, <2>5
  <1>7. CASE UNCHANGED <<pc, files, span, log>> /\ (main' = "completed" <=> main = "completed")
    BY <1>2, <1>7 DEF RunFits
  <1>8. CASE Reject \/ Accept \/ DropOriginals \/ MainArrives \/ JoinPanic \/ Tick
    <2>1. UNCHANGED <<pc, files, span, log>> /\ (main' = "completed" <=> main = "completed")
      BY <1>8 DEF Reject, Accept, DropOriginals, MainArrives, JoinPanic, Tick
    <2>. QED
      BY <1>7, <2>1
  <1>. QED
    BY <1>1, <1>3, <1>4, <1>5, <1>6, <1>7, <1>8 DEF Next, MainStep

-----------------------------------------------------------------------------
\* A first state has every part of the invariant.
LEMMA InitInv == Init => Inv
  <1>. SUFFICES ASSUME Init PROVE Inv
    OBVIOUS
  <1>0. /\ \A t \in Threads : pc[t] = "none" /\ state[t] = "none" /\ log[t] = <<>> /\ begun[t] = 0
        /\ \A s \in SendrThreads : ids[s] = <<>> /\ sent[s] = 0
        /\ queue = <<>> /\ received = <<>> /\ arrived = 0 /\ main = "config" /\ clock = 0
        /\ files = <<>> /\ span = None /\ id_bank = 0
        /\ RecvrThreads \subseteq Threads /\ SendrThreads \subseteq Threads
    BY Names DEF Init, Chan!Init
  <1>1. Types
    BY InitTypes
  <1>2. PlacesFit
    BY <1>0 DEF PlacesFit, OutOfCall, Over
  <1>3. BarrierHolds
    <2>1. Arrived = {}
      BY <1>0 DEF Arrived
    <2>2. Cardinality({}) = 0
      BY FS_EmptySet
    <2>. QED
      BY <1>0, <2>1, <2>2 DEF BarrierHolds, MainArrived
  <1>4. SendsFit
    <2>1. \A s \in SendrThreads : Len(ids[s]) = 0 /\ Len(log[s]) = 0 /\ sent[s] = 0 /\ pc[s] = "none"
      BY <1>0
    <2>. QED
      BY <2>1 DEF SendsFit, Over
  <1>5. IdsUnique
    BY <1>0 DEF IdsUnique
  <1>6. InOnePlace
    BY <1>0 DEF InOnePlace, QueueFits, HeldFits, LoggedFits, Holding
  <1>7. TimesFit
    BY <1>0 DEF TimesFit
  <1>8. LeftForAReason
    BY <1>0 DEF LeftForAReason, ReceiversLeave, SendersLeave, ReceivedFits, Leaves, Holding
  <1>9. RunFits
    BY <1>0 DEF RunFits
  <1>. QED
    BY <1>1, <1>2, <1>3, <1>4, <1>5, <1>6, <1>7, <1>8, <1>9 DEF Inv

\* The inductive invariant of the engine, for any threads and any times to live.
THEOREM BenchmarkInvariant == Spec => []Inv
  <1>1. Inv /\ [Next]_vars => Inv'
    <2>. SUFFICES ASSUME Inv, [Next]_vars PROVE Inv'
      OBVIOUS
    <2>1. Types /\ PlacesFit /\ BarrierHolds /\ SendsFit /\ IdsUnique /\ InOnePlace
          /\ TimesFit /\ LeftForAReason /\ RunFits
      BY DEF Inv
    <2>2. Types'
      BY <2>1, TypesStep
    <2>3. PlacesFit'
      BY <2>1, PlacesStep
    <2>4. BarrierHolds'
      BY <2>1, BarrierStep
    <2>5. SendsFit'
      BY <2>1, SendsStep
    <2>6. IdsUnique'
      BY <2>1, IdsStep
    <2>7. InOnePlace'
      BY <2>1, InPlaceStep
    <2>8. TimesFit'
      BY <2>1, <2>2, <2>7, TimesStep
    <2>9. LeftForAReason'
      BY <2>1, LeftStep
    <2>10. RunFits'
      BY <2>1, RunStep
    <2>. QED
      BY <2>2, <2>3, <2>4, <2>5, <2>6, <2>7, <2>8, <2>9, <2>10 DEF Inv
  <1>. QED
    BY <1>1, InitInv, PTL DEF Spec

-----------------------------------------------------------------------------
(* What the run leaves on disk.                                            *)

RunOf(F) == Run(span, [t \in F |-> File(Kind(t), log[t])])

\* The rows of a run, by thread.
LEMMA PlacesAre ==
  ASSUME Types, NEW F \in SUBSET Threads, NEW kind, NEW p \in Places(RunOf(F), kind)
  PROVE  \E t \in F : \E n \in 1..Len(log[t]) :
           /\ p = <<t, n>> /\ At(RunOf(F), p) = log[t][n]
           /\ kind = Kind(t)
  <1>. DEFINE f == [t \in F |-> File(Kind(t), log[t])]
  <1>1. RunOf(F) = Run(span, f) /\ Run(span, f).files = f /\ DOMAIN f = F
    BY DEF Run, RunOf
  <1>2. \A t \in F : f[t].kind = (Kind(t)) /\ f[t].rows = log[t]
    BY DEF File
  <1>. HIDE DEF f
  <1>3. p \in UNION {{t} \X DOMAIN f[t].rows : t \in DOMAIN f} /\ f[p[1]].kind = kind
    BY <1>1 DEF Places
  <1>4. PICK t \in F : p \in {t} \X DOMAIN f[t].rows
    BY <1>1, <1>3
  <1>5. p[1] = t /\ p[2] \in DOMAIN log[t] /\ p = <<t, p[2]>>
    BY <1>2, <1>4
  <1>6. log[t] \in Seq(Rows)
    BY LogTypes
  <1>7. p[2] \in 1..Len(log[t])
    BY <1>5, <1>6
  <1>8. At(RunOf(F), p) = log[t][p[2]]
    BY <1>1, <1>2, <1>5 DEF At
  <1>9. kind = Kind(t)
    BY <1>2, <1>3, <1>5
  <1>. QED
    BY <1>5, <1>7, <1>8, <1>9

\* Every row that a thread logged is one of them.
LEMMA RowsHavePlaces ==
  ASSUME Types, NEW F \in SUBSET Threads, NEW t \in F, NEW n \in 1..Len(log[t])
  PROVE  log[t][n].id \in Ids(RunOf(F), Kind(t))
  <1>. DEFINE f == [u \in F |-> File(Kind(u), log[u])]
              kind == Kind(t)
              p == <<t, n>>
  <1>1. RunOf(F) = Run(span, f) /\ Run(span, f).files = f /\ DOMAIN f = F
    BY DEF Run, RunOf
  <1>2. f[t].kind = kind /\ f[t].rows = log[t]
    BY DEF File
  <1>. HIDE DEF f, kind
  <1>3. n \in DOMAIN log[t]
    BY LogTypes
  <1>4. p \in {t} \X DOMAIN f[t].rows
    BY <1>2, <1>3
  <1>5. p \in Places(RunOf(F), kind)
    BY <1>1, <1>2, <1>4 DEF Places
  <1>6. At(RunOf(F), p).id = log[t][n].id
    BY <1>1, <1>2 DEF At
  <1>. HIDE DEF p
  <1>7. log[t][n].id \in Ids(RunOf(F), kind)
    BY <1>5, <1>6 DEF Ids
  <1>. QED
    BY <1>7 DEF kind

\* The logs of any set of threads hold no id twice on one side.
LEMMA LoggedOnceBy ==
  ASSUME Inv, NEW F \in SUBSET Threads
  PROVE  LoggedOnce(RunOf(F))
  <1>. SUFFICES ASSUME NEW kind \in {"tx", "rx"},
                       NEW p \in Places(RunOf(F), kind), NEW q \in Places(RunOf(F), kind),
                       At(RunOf(F), p).id = At(RunOf(F), q).id
                PROVE  p = q
    BY DEF LoggedOnce
  <1>0. Types /\ SendsFit /\ IdsUnique /\ LoggedFits
    BY DEF Inv, InOnePlace
  <1>1. PICK t \in F : \E n \in 1..Len(log[t]) :
          /\ p = <<t, n>> /\ At(RunOf(F), p) = log[t][n]
          /\ kind = Kind(t)
    BY <1>0, PlacesAre
  <1>2. PICK m \in 1..Len(log[t]) : p = <<t, m>> /\ At(RunOf(F), p) = log[t][m]
    BY <1>1
  <1>3. PICK u \in F : \E n \in 1..Len(log[u]) :
          /\ q = <<u, n>> /\ At(RunOf(F), q) = log[u][n]
          /\ kind = Kind(u)
    BY <1>0, PlacesAre
  <1>4. PICK n \in 1..Len(log[u]) : q = <<u, n>> /\ At(RunOf(F), q) = log[u][n]
    BY <1>3
  <1>5. log[t][m].id = log[u][n].id
    BY <1>2, <1>4
  <1>6. CASE t \in SendrThreads
    <2>1. u \in SendrThreads
      BY <1>1, <1>3, <1>6 DEF Kind
    <2>2. log[t][m].id = ids[t][m] /\ log[u][n].id = ids[u][n]
      BY <1>0, <1>6, <2>1 DEF SendsFit
    <2>3. \A w \in SendrThreads : Len(log[w]) <= Len(ids[w]) /\ Len(log[w]) \in Nat
      BY <1>0, Lengths DEF SendsFit
    <2>4. m \in 1..Len(ids[t]) /\ n \in 1..Len(ids[u])
      BY <1>0, <1>6, <2>1, <2>3, Lengths
    <2>. QED
      BY <1>0, <1>2, <1>4, <1>5, <1>6, <2>1, <2>2, <2>4 DEF IdsUnique
  <1>7. CASE t \notin SendrThreads
    <2>1. t \in RecvrThreads /\ u \in RecvrThreads
      BY <1>1, <1>3, <1>7 DEF Threads, Kind
    <2>2. t = u /\ m = n
      BY <1>0, <1>5, <2>1 DEF LoggedFits
    <2>. QED
      BY <1>2, <1>4, <2>2
  <1>. QED
    BY <1>6, <1>7

\* The events on disk of a run lie inside its span.
LEMMA InsideBy == Inv /\ span # None => InsideSpan(OnDisk)
  <1>. SUFFICES ASSUME Inv, span # None, NEW kind \in {"tx", "rx"}, NEW p \in Places(OnDisk, kind)
                PROVE  /\ span[1] <= At(OnDisk, p).start
                       /\ At(OnDisk, p).start <= At(OnDisk, p).end
                       /\ At(OnDisk, p).end <= span[2]
    BY DEF InsideSpan, OnDisk, Run
  <1>0. Types /\ TimesFit /\ RunFits
    BY DEF Inv
  <1>1. OnDisk.files = files
    BY DEF OnDisk, Run
  <1>2. p \in UNION {{f} \X DOMAIN files[f].rows : f \in DOMAIN files}
    BY <1>1 DEF Places
  <1>3. PICK t \in DOMAIN files : p \in {t} \X DOMAIN files[t].rows
    BY <1>2
  <1>. DEFINE n == p[2]
  <1>4. At(OnDisk, p) = files[t].rows[n] /\ n \in DOMAIN files[t].rows
    BY <1>1, <1>3 DEF At
  <1>5. t \in Threads /\ n \in 1..Len(log[t]) /\ At(OnDisk, p) = log[t][n]
    BY <1>0, <1>4 DEF RunFits, FirstRows
  <1>. HIDE DEF n
  <1>6. span[1] = 0 /\ log[t][n].end <= span[2] /\ log[t][n].start \in Nat
    BY <1>0, <1>5, LogTypes DEF RunFits
  <1>7. log[t][n].start <= log[t][n].end
    BY <1>0, <1>5 DEF TimesFit
  <1>. QED
    BY <1>5, <1>6, <1>7

\* Of a value in the channel or out of it the logs of a run that completed hold the
\* sender's half, and the receiver's if some receiver got it.
LEMMA HalvesOf ==
  ASSUME Inv, main = "completed", NEW v \in Values, WasAccepted(v)
  PROVE  /\ IdOf(v) \in Ids(RunOf(Threads), "tx")
         /\ Came(v) => IdOf(v) \in Ids(RunOf(Threads), "rx")
  <1>0. /\ Types /\ PlacesFit /\ SendsFit /\ RunFits
        /\ SendrThreads \cap RecvrThreads = {} /\ Threads = SendrThreads \cup RecvrThreads
    BY Names DEF Inv
  <1>1. \A t \in Threads : pc[t] = "ended" /\ state[t] = "gone"
    BY <1>0 DEF RunFits, PlacesFit, Over
  <1>2. PICK s \in SendrThreads, n \in Nat \ {0} : v = <<s, n>>
    BY DEF Values
  <1>3. n \in 1..Len(log[s])
    BY <1>0, <1>1, <1>2 DEF WasAccepted
  <1>4. log[s][n].id = IdOf(v)
    BY <1>0, <1>2, <1>3 DEF SendsFit, IdOf
  <1>5. s \in Threads /\ Kind(s) = "tx"
    BY <1>0 DEF Kind
  <1>6. log[s][n].id \in Ids(RunOf(Threads), Kind(s))
    BY <1>0, <1>3, <1>5, RowsHavePlaces
  <1>7. ASSUME Came(v) PROVE IdOf(v) \in Ids(RunOf(Threads), "rx")
    <2>1. PICK r \in RecvrThreads : \E m \in 1..Len(log[r]) : log[r][m].id = IdOf(v)
      BY <1>0, <1>1, <1>7 DEF Came, Holding
    <2>2. PICK m \in 1..Len(log[r]) : log[r][m].id = IdOf(v)
      BY <2>1
    <2>3. r \in Threads /\ Kind(r) = "rx"
      BY <1>0 DEF Kind
    <2>4. log[r][m].id \in Ids(RunOf(Threads), Kind(r))
      BY <1>0, <2>2, <2>3, RowsHavePlaces
    <2>. QED
      BY <2>2, <2>3, <2>4
  <1>. QED
    BY <1>4, <1>5, <1>6, <1>7

\* When a run completes no log has been lost in memory.
LEMMA MemoryIs ==
  /\ InMemory = RunOf({t \in Threads : pc[t] # "panicked"})
  /\ Inv /\ main = "completed" => InMemory = RunOf(Threads)
  <1>1. InMemory = RunOf({t \in Threads : pc[t] # "panicked"})
    BY DEF InMemory, RunOf
  <1>2. ASSUME Inv, main = "completed" PROVE {t \in Threads : pc[t] # "panicked"} = Threads
    BY <1>2 DEF Inv, RunFits
  <1>. QED
    BY <1>1, <1>2

\* A run that completed logged both halves of some value.
LEMMA MeasuredBy == Inv /\ main = "completed" => SomethingMeasured(RunOf(Threads))
  <1>. SUFFICES ASSUME Inv, main = "completed"
                PROVE  Ids(RunOf(Threads), "tx") \cap Ids(RunOf(Threads), "rx") # {}
    BY DEF SomethingMeasured
  <1>0. Types /\ LeftForAReason /\ RunFits /\ RecvrThreads # {} /\ RecvrThreads \subseteq Threads
    BY Names DEF Inv
  <1>1. \A t \in Threads : pc[t] = "ended"
    BY <1>0 DEF RunFits
  <1>2. received # <<>>
    BY <1>0, <1>1 DEF LeftForAReason, ReceiversLeave, Leaves, SomePanic
  <1>. DEFINE v == received[1]
  <1>3. v \in Values /\ WasAccepted(v) /\ Came(v)
    BY <1>0, <1>2 DEF Types, LeftForAReason, ReceivedFits
  <1>. HIDE DEF v
  <1>. QED
    BY <1>3, HalvesOf

-----------------------------------------------------------------------------
\* EveryCallLogged: what main joins has logged both halves of every value received and
\* the sender's half alone of every other; only a thread that panicked loses its log.
THEOREM EveryCallIsLogged == Spec => []EveryCallLogged
  <1>1. Inv => EveryCallLogged
    <2>. SUFFICES ASSUME Inv, main = "completed"
                  PROVE  /\ \A i \in DOMAIN received :
                              IdOf(received[i]) \in Ids(InMemory, "tx") \cap Ids(InMemory, "rx")
                         /\ \A i \in DOMAIN queue :
                              IdOf(queue[i]) \in Ids(InMemory, "tx") \ Ids(InMemory, "rx")
      BY DEF EveryCallLogged
    <2>0. Types /\ InOnePlace /\ LeftForAReason /\ InMemory = RunOf(Threads)
      BY MemoryIs DEF Inv
    <2>1. ASSUME NEW i \in DOMAIN received
          PROVE  IdOf(received[i]) \in Ids(InMemory, "tx") \cap Ids(InMemory, "rx")
      <3>1. received[i] \in Values /\ i \in 1..Len(received)
        BY <2>0 DEF Types
      <3>2. WasAccepted(received[i]) /\ Came(received[i])
        BY <2>0, <3>1 DEF LeftForAReason, ReceivedFits
      <3>. QED
        BY <2>0, <3>1, <3>2, HalvesOf
    <2>2. ASSUME NEW i \in DOMAIN queue
          PROVE  IdOf(queue[i]) \in Ids(InMemory, "tx") \ Ids(InMemory, "rx")
      <3>1. queue[i] \in Values /\ i \in 1..Len(queue)
        BY <2>0 DEF Types
      <3>2. WasAccepted(queue[i])
        BY <2>0, <3>1 DEF InOnePlace, QueueFits
      <3>3. IdOf(queue[i]) \in Ids(InMemory, "tx")
        BY <2>0, <3>1, <3>2, HalvesOf
      <3>4. ASSUME IdOf(queue[i]) \in Ids(InMemory, "rx") PROVE FALSE
        <4>1. PICK q \in Places(RunOf(Threads), "rx") : At(RunOf(Threads), q).id = IdOf(queue[i])
          BY <2>0, <3>4 DEF Ids
        <4>2. PICK r \in Threads : \E n \in 1..Len(log[r]) :
                /\ q = <<r, n>> /\ At(RunOf(Threads), q) = log[r][n] /\ "rx" = Kind(r)
          BY <2>0, PlacesAre
        <4>3. r \in RecvrThreads
          BY <4>2 DEF Kind, Threads
        <4>. QED
          BY <2>0, <3>1, <4>1, <4>2, <4>3 DEF InOnePlace, LoggedFits
      <3>. QED
        BY <3>3, <3>4
    <2>. QED
      BY <2>1, <2>2
  <1>. QED
    BY <1>1, BenchmarkInvariant, PTL

\* EventsInsideRun: the span that complete_runner writes holds every event of every thread.
THEOREM EventsAreInsideRuns == Spec => []EventsInsideRun
  <1>1. Inv => EventsInsideRun
    BY InsideBy DEF EventsInsideRun
  <1>. QED
    BY <1>1, BenchmarkInvariant, PTL

\* IdsLoggedOnce: next_id and a channel that delivers once give each side an id once.
THEOREM IdsAreLoggedOnce == Spec => []IdsLoggedOnce
  <1>1. Inv => IdsLoggedOnce
    BY MemoryIs, LoggedOnceBy DEF IdsLoggedOnce
  <1>. QED
    BY <1>1, BenchmarkInvariant, PTL

\* LatencyNotNegative: a reception is logged no earlier than its send began.
THEOREM LatencyIsNotNegative == Spec => []LatencyNotNegative
  <1>1. Inv => LatencyNotNegative
    <2>. DEFINE F == {t \in Threads : pc[t] # "panicked"}
    <2>. SUFFICES ASSUME Inv, NEW p \in Places(RunOf(F), "tx"), NEW q \in Places(RunOf(F), "rx"),
                         At(RunOf(F), p).id = At(RunOf(F), q).id
                  PROVE  At(RunOf(F), p).start <= At(RunOf(F), q).end
      BY MemoryIs DEF LatencyNotNegative
    <2>0. Types /\ TimesFit /\ F \subseteq Threads
      BY DEF Inv
    <2>. HIDE DEF F
    <2>1. PICK s \in F : \E n \in 1..Len(log[s]) :
            /\ p = <<s, n>> /\ At(RunOf(F), p) = log[s][n] /\ "tx" = Kind(s)
      BY <2>0, PlacesAre
    <2>2. PICK r \in F : \E n \in 1..Len(log[r]) :
            /\ q = <<r, n>> /\ At(RunOf(F), q) = log[r][n] /\ "rx" = Kind(r)
      BY <2>0, PlacesAre
    <2>3. s \in SendrThreads /\ r \in RecvrThreads
      BY <2>0, <2>1, <2>2 DEF Threads, Kind
    <2>. QED
      BY <2>0, <2>1, <2>2, <2>3 DEF TimesFit
  <1>. QED
    BY <1>1, BenchmarkInvariant, PTL

\* SomethingIsMeasured: a run that completes sent and received at least one value.
THEOREM SomethingIsAlwaysMeasured == Spec => []SomethingIsMeasured
  <1>1. Inv => SomethingIsMeasured
    BY MeasuredBy, MemoryIs DEF SomethingIsMeasured
  <1>. QED
    BY <1>1, BenchmarkInvariant, PTL

\* What CleanRunsAggregate, in Aggregator, asks of a run: every run that completes
\* leaves a clean one on disk, if no file operation failed.
Written == span # None /\ files = [t \in Threads |-> File(Kind(t), log[t])]
THEOREM CompletedRunsAreClean == Spec => [](Written => Clean(OnDisk))
  <1>1. ASSUME Inv, Written PROVE Clean(OnDisk)
    <2>1. OnDisk = RunOf(Threads) /\ main = "completed"
      BY <1>1 DEF OnDisk, RunOf, Written, Inv, RunFits
    <2>2. \A f \in DOMAIN RunOf(Threads).files : RunOf(Threads).files[f].header
      BY DEF RunOf, Run, File
    <2>3. OnDisk.span = span /\ span # None
      BY <1>1 DEF OnDisk, Run, Written
    <2>. QED
      BY <1>1, <2>1, <2>2, <2>3, InsideBy, MeasuredBy, LoggedOnceBy DEF Clean
  <1>2. Inv => (Written => Clean(OnDisk))
    BY <1>1
  <1>. QED
    BY <1>2, BenchmarkInvariant, PTL
=============================================================================
