----------------------------- MODULE Benchmark -----------------------------
(***************************************************************************)
(* The benchmark engine: bench::test::test_1::run_bench_1 with the runners *)
(* of bench::runner, as the benchmark binary calls it for one version      *)
(* after another.  main makes a channel, one thread per sender and per     *)
(* receiver, meets them at a barrier and joins them; each thread logs its  *)
(* calls and writes its log when it ends.                                  *)
(*                                                                         *)
(* The channel is any that keeps the contract Channel; its steps are taken *)
(* by the thread whose call it is.  A thread may panic inside a call if    *)
(* it is one of Panicking (versions 4 and 5 can panic).                    *)
(*                                                                         *)
(* A file operation may fail, and whoever writes a file only logs that.    *)
(*                                                                         *)
(* Time is a clock that may advance before any step and stops at MaxTime.  *)
(* A thread with a time to live ends after any of its calls, at the latest *)
(* after the one it is in when the clock stops.                            *)
(*                                                                         *)
(* Bounds: MaxTime, and MaxIds ids (see MaySend).                          *)
(*                                                                         *)
(* A definition whose name begins with Bug is a variant of the one that    *)
(* follows it, with a mistake that the properties have to notice.          *)
(***************************************************************************)
EXTENDS EventLog, FiniteSets, SequencesExt

CONSTANTS
  SendrThreads, RecvrThreads,
  MainTx, MainRx,     \* the two handles that maker.channel() returns
  TTLs,               \* which configs there are: <<sendrs_ttl_s set, recvrs_ttl_s set>>
  Panicking,          \* the threads whose calls may panic
  MaxTime, MaxIds

Threads == SendrThreads \cup RecvrThreads
Senders == SendrThreads \cup {MainTx}
Receivers == RecvrThreads \cup {MainRx}

ASSUME BenchmarkAssumption ==
  /\ IsFiniteSet(Threads) /\ SendrThreads # {} /\ RecvrThreads # {}
  /\ Senders \cap Receivers = {} /\ MainTx \notin Threads /\ MainRx \notin Threads
  /\ TTLs \subseteq BOOLEAN \X BOOLEAN /\ Panicking \subseteq Threads
  /\ MaxTime \in Nat /\ MaxIds \in Nat

VARIABLES
  queue, received, sent, state,   \* the channel, as Channel has them
  clock,      \* Instant::now() since the config's runner was spawned
  ttl,        \* the config
  main,       \* where main stands
  pc,         \* where each thread stands
  arrived,    \* threads that have come to the barrier, main among them
  id_bank,
  ids,        \* the ids each sender took, its n-th for its n-th send
  got,        \* what a receiver's call will return
  begun,      \* the start of the event a thread has under way
  log,        \* BenchRunner.log of each thread
  files,      \* what is on disk of the logs of the threads that ended
  span        \* the config's own file: when the run began and ended

channelVars == <<queue, received, sent, state>>
eventVars == <<id_bank, ids, got, begun>>
fileVars == <<log, files, span>>
vars == <<channelVars, clock, ttl, main, pc, arrived, eventVars, fileVars>>

\* The channel starts with the two handles that main keeps for itself.
Chan == INSTANCE Channel WITH FirstSenders <- {MainTx}, FirstReceivers <- {MainRx}

\* A panic that reaches main ends the process.
Alive == main # "panicked"
Goto(t, to) == pc' = [pc EXCEPT ![t] = to]
HandleOf(t) == IF t \in SendrThreads THEN MainTx ELSE MainRx
HasTTL(t) == IF t \in SendrThreads THEN ttl[1] ELSE ttl[2]
Gone(S) == \A h \in S : ~Chan!Live(h)

-----------------------------------------------------------------------------
(* main: run_bench_1, called in the loop of the binary.                    *)

\* Err: no time to live at all, so that nothing would end.
Reject ==
  /\ main = "config" /\ ttl = <<FALSE, FALSE>>
  /\ main' = "rejected"
  /\ UNCHANGED <<channelVars, clock, ttl, pc, arrived, eventVars, fileVars>>

Accept ==
  /\ main = "config" /\ ttl # <<FALSE, FALSE>>
  /\ main' = "spawn"
  /\ UNCHANGED <<channelVars, clock, ttl, pc, arrived, eventVars, fileVars>>

\* The threads in the order of handles, which spawns and joins them.
handles == SetToSeq(SendrThreads) \o SetToSeq(RecvrThreads)
AllSpawned == \A t \in Threads : pc[t] # "none"

SpawnThread ==
  /\ main = "spawn"
  /\ \E i \in DOMAIN handles :
       /\ pc[handles[i]] = "none" /\ \A j \in 1..(i - 1) : pc[handles[j]] # "none"
       /\ Chan!Clone(HandleOf(handles[i]), handles[i])
       /\ Goto(handles[i], "spawned")
  /\ UNCHANGED <<clock, ttl, main, arrived, eventVars, fileVars>>

\* main must not keep the channel open.
BugDropOriginals ==
  /\ main = "spawn" /\ AllSpawned
  /\ main' = "barrier"
  /\ UNCHANGED <<channelVars, clock, ttl, pc, arrived, eventVars, fileVars>>
DropOriginals ==
  /\ main = "spawn" /\ AllSpawned
  /\ \/ Chan!DropHandle(MainTx) /\ UNCHANGED main
     \/ ~Chan!Live(MainTx) /\ Chan!DropHandle(MainRx) /\ main' = "barrier"
  /\ UNCHANGED <<clock, ttl, pc, arrived, eventVars, fileVars>>

MainArrives ==
  /\ main = "barrier"
  /\ main' = "join"
  /\ arrived' = arrived + 1
  /\ UNCHANGED <<channelVars, clock, ttl, pc, eventVars, fileVars>>

BarrierOpen == arrived = Cardinality(Threads) + 1

\* Every handle is joined, then the config's runner writes its file.
BugJoinedReceivers == BarrierOpen /\ \A t \in RecvrThreads : pc[t] = "ended"
BugJoined == BarrierOpen /\ \A t \in Threads : pc[t] \in {"ended", "panicked"}
Joined == BarrierOpen /\ \A t \in Threads : pc[t] = "ended"
Complete ==
  /\ main = "join" /\ Joined
  /\ span' = <<0, clock>>
  /\ main' = "completed"
  /\ UNCHANGED <<channelVars, clock, ttl, pc, arrived, eventVars, log, files>>

\* The config's file could not be written; the binary goes on.
FailComplete ==
  /\ main = "join" /\ Joined
  /\ main' = "completed"
  /\ UNCHANGED <<channelVars, clock, ttl, pc, arrived, eventVars, fileVars>>

\* join().unwrap() on a thread that panicked, when its turn comes.
JoinPanic ==
  /\ main = "join" /\ BarrierOpen
  /\ \E i \in DOMAIN handles :
       pc[handles[i]] = "panicked" /\ \A j \in 1..(i - 1) : pc[handles[j]] = "ended"
  /\ main' = "panicked"
  /\ UNCHANGED <<channelVars, clock, ttl, pc, arrived, eventVars, fileVars>>

-----------------------------------------------------------------------------
(* sender_thread and receiver_thread.                                      *)

ArriveBarrier(t) ==
  /\ pc[t] = "spawned"
  /\ arrived' = arrived + 1
  /\ Goto(t, "waiting")
  /\ UNCHANGED <<channelVars, clock, ttl, main, eventVars, fileVars>>

BugPassBarrier(t) ==
  /\ pc[t] = "waiting" /\ BarrierOpen
  /\ Goto(t, "check")
  /\ UNCHANGED <<channelVars, clock, ttl, main, arrived, eventVars, fileVars>>
PassBarrier(t) ==
  /\ pc[t] = "waiting" /\ BarrierOpen
  /\ Goto(t, "loop")
  /\ UNCHANGED <<channelVars, clock, ttl, main, arrived, eventVars, fileVars>>

\* A bound: MaxIds ids while there is time; then one more for each sender with a time
\* to live, and without one as many as the receivers may still wait for.
MaySend(s) ==
  \/ clock < MaxTime /\ id_bank < MaxIds
  \/ clock = MaxTime /\ HasTTL(s)
  \/ clock = MaxTime /\ id_bank < Len(received) + Cardinality(RecvrThreads)
  \/ Gone(Receivers)

\* next_id
BugTakeId(s) ==
  /\ pc[s] = "loop" /\ MaySend(s)
  /\ id_bank' = id_bank + 1
  /\ ids' = [ids EXCEPT ![s] = Append(@, Len(@))]
  /\ Goto(s, "taken")
  /\ UNCHANGED <<channelVars, clock, ttl, main, arrived, got, begun, fileVars>>
TakeId(s) ==
  /\ pc[s] = "loop" /\ MaySend(s)
  /\ id_bank' = id_bank + 1
  /\ ids' = [ids EXCEPT ![s] = Append(@, id_bank)]
  /\ Goto(s, "taken")
  /\ UNCHANGED <<channelVars, clock, ttl, main, arrived, got, begun, fileVars>>

\* start_event and the call.
Send(s) ==
  /\ pc[s] = "taken"
  /\ Chan!CallSend(s)
  /\ begun' = [begun EXCEPT ![s] = clock]
  /\ Goto(s, "sending")
  /\ UNCHANGED <<clock, ttl, main, arrived, id_bank, ids, got, fileVars>>

Recv(r) ==
  /\ pc[r] = "loop"
  /\ Chan!CallRecv(r)
  /\ begun' = [begun EXCEPT ![r] = clock]
  /\ Goto(r, "receiving")
  /\ UNCHANGED <<clock, ttl, main, arrived, id_bank, ids, got, fileVars>>

\* The call itself.
InCall(t) ==
  /\ \/ t \in SendrThreads /\ (Chan!Admit(t) \/ Chan!Accept(t) \/ Chan!Refuse(t))
                           /\ UNCHANGED got
     \/ t \in RecvrThreads /\ Chan!Receive(t) /\ got' = [got EXCEPT ![t] = Head(queue)]
     \/ t \in RecvrThreads /\ Chan!Close(t) /\ UNCHANGED got
  /\ UNCHANGED <<clock, ttl, main, pc, arrived, id_bank, ids, begun, fileVars>>

\* The locals of a call, out of scope after it.
Forget(t) ==
  /\ begun' = [begun EXCEPT ![t] = 0]
  /\ got' = IF t \in RecvrThreads THEN [got EXCEPT ![t] = None] ELSE got

IdOf(v) == ids[v[1]][v[2]]
BugFinish(t, id) == log' = [log EXCEPT ![t] = Append(@, Event(clock, clock, id))]
Finish(t, id) == log' = [log EXCEPT ![t] = Append(@, Event(begun[t], clock, id))]

\* event.finish of a send that was accepted; a refused one leaves no event.
FinishSend(s) ==
  /\ pc[s] = "sending" /\ state[s] = "accepted"
  /\ Chan!Return(s)
  /\ Finish(s, IdOf(<<s, sent[s]>>)) /\ Forget(s)
  /\ Goto(s, "check")
  /\ UNCHANGED <<clock, ttl, main, arrived, id_bank, ids, files, span>>

FinishRecv(r) ==
  /\ pc[r] = "receiving" /\ state[r] = "received"
  /\ Chan!Return(r)
  /\ Finish(r, IdOf(got[r])) /\ Forget(r)
  /\ Goto(r, "check")
  /\ UNCHANGED <<clock, ttl, main, arrived, id_bank, ids, files, span>>

FailCall(t) ==
  /\ pc[t] \in {"sending", "receiving"} /\ state[t] \in {"refused", "closed"}
  /\ Chan!Return(t) /\ Forget(t)
  /\ Goto(t, "drop")
  /\ UNCHANGED <<clock, ttl, main, arrived, id_bank, ids, fileVars>>

\* keep_sender_alive and keep_receiver_alive.
KeepAlive(t) ==
  /\ pc[t] = "check" /\ (HasTTL(t) => clock < MaxTime)
  /\ Goto(t, "loop")
  /\ UNCHANGED <<channelVars, clock, ttl, main, arrived, eventVars, fileVars>>

Expire(t) ==
  /\ pc[t] = "check" /\ HasTTL(t)
  /\ Goto(t, "drop")
  /\ UNCHANGED <<channelVars, clock, ttl, main, arrived, eventVars, fileVars>>

DropHandle(t) ==
  /\ pc[t] = "drop"
  /\ Chan!DropHandle(t)
  /\ Goto(t, "complete")
  /\ UNCHANGED <<clock, ttl, main, arrived, eventVars, fileVars>>

\* complete_runner; the thread ends.
Kind(t) == IF t \in SendrThreads THEN "tx" ELSE "rx"
Put(t, file) == files' = [u \in DOMAIN files \cup {t} |-> IF u = t THEN file ELSE files[u]]
CompleteRunner(t) ==
  /\ pc[t] = "complete"
  /\ Put(t, File(Kind(t), log[t]))
  /\ Goto(t, "ended")
  /\ UNCHANGED <<channelVars, clock, ttl, main, arrived, eventVars, log, span>>

\* It failed, or the last flush did when the writer was dropped: there is no file, one
\* without a header, or one with the first rows.  The thread ends all the same.
FailRunner(t) ==
  /\ pc[t] = "complete"
  /\ \/ UNCHANGED files
     \/ Put(t, [kind |-> Kind(t), header |-> FALSE, rows |-> <<>>])
     \/ \E n \in 0..(Len(log[t]) - 1) : Put(t, File(Kind(t), SubSeq(log[t], 1, n)))
  /\ Goto(t, "ended")
  /\ UNCHANGED <<channelVars, clock, ttl, main, arrived, eventVars, log, span>>

\* A panic in the call unwinds the thread, which drops its handle and its log.
Panic(t) ==
  /\ t \in Panicking /\ pc[t] \in {"sending", "receiving"} /\ state[t] = "called"
  /\ state' = [state EXCEPT ![t] = "gone"]
  /\ Goto(t, "panicked") /\ Forget(t)
  /\ UNCHANGED <<queue, received, sent, clock, ttl, main, arrived, id_bank, ids, fileVars>>

-----------------------------------------------------------------------------
Tick ==
  /\ clock < MaxTime
  /\ clock' = clock + 1
  /\ UNCHANGED <<channelVars, ttl, main, pc, arrived, eventVars, fileVars>>

Init ==
  /\ Chan!Init
  /\ clock = 0 /\ ttl \in TTLs
  /\ main = "config"
  /\ pc = [t \in Threads |-> "none"]
  /\ arrived = 0
  /\ id_bank = 0
  /\ ids = [s \in SendrThreads |-> <<>>]
  /\ got = [r \in RecvrThreads |-> None]
  /\ begun = [t \in Threads |-> 0]
  /\ log = [t \in Threads |-> <<>>]
  /\ files = <<>> /\ span = None

\* The binary goes on with the next config or version: new runners, a new channel,
\* and reset_ids.
NextConfig ==
  /\ main = "completed" /\ main' = "config"
  /\ queue' = <<>> /\ received' = <<>>
  /\ sent' = [s \in Senders |-> 0]
  /\ state' = [h \in Chan!Handles |-> IF h \in {MainTx, MainRx} THEN "idle" ELSE "none"]
  /\ clock' = 0 /\ ttl' \in TTLs
  /\ pc' = [t \in Threads |-> "none"]
  /\ arrived' = 0 /\ id_bank' = 0
  /\ ids' = [s \in SendrThreads |-> <<>>]
  /\ got' = [r \in RecvrThreads |-> None]
  /\ begun' = [t \in Threads |-> 0]
  /\ log' = [t \in Threads |-> <<>>]
  /\ files' = <<>> /\ span' = None

ThreadStep(t) ==
  /\ Alive
  /\ \/ ArriveBarrier(t) \/ PassBarrier(t)
     \/ t \in SendrThreads /\ (TakeId(t) \/ Send(t) \/ FinishSend(t))
     \/ t \in RecvrThreads /\ (Recv(t) \/ FinishRecv(t))
     \/ InCall(t) \/ FailCall(t) \/ KeepAlive(t) \/ Expire(t) \/ DropHandle(t)
     \/ CompleteRunner(t) \/ FailRunner(t)
MainStep ==
  \/ Reject \/ Accept \/ SpawnThread \/ DropOriginals \/ MainArrives
  \/ Complete \/ FailComplete \/ JoinPanic

Next ==
  \/ MainStep \/ NextConfig
  \/ \E t \in Threads : ThreadStep(t) \/ (Alive /\ Panic(t))
  \/ Alive /\ Tick

Spec == Init /\ [][Next]_vars

\* Threads are scheduled, time passes, and a channel lets every call return that its
\* contract allows to: an assumption about the channel, which versions 3, 4 and 5 do
\* not meet in every case (README).
FairSpec ==
  Spec /\ WF_vars(MainStep) /\ WF_vars(Tick) /\ \A t \in Threads : WF_vars(ThreadStep(t))

-----------------------------------------------------------------------------
(* Properties.                                                             *)

OnDisk == Run(span, files)
\* The logs that the threads hold, or held when they wrote them.
InMemory ==
  Run(span, [t \in {u \in Threads : pc[u] # "panicked"} |-> File(Kind(t), log[t])])

\* Every event on disk lies between the beginning and the end of the run, which are
\* main's, whatever became of the files: the aggregator has a window for each.
EventsInsideRun == span # None => InsideSpan(OnDisk)

\* No id is logged twice by one side, so that ids alone match the two halves.
IdsLoggedOnce == LoggedOnce(InMemory)

\* A run that completes has measured something, however short the time to live: at
\* least one id was both sent and received, so no percentile is taken of no value.
SomethingIsMeasured == main = "completed" => SomethingMeasured(InMemory)

\* The end of a reception never comes before the start of the send: latencies are
\* not negative, although the two instants are taken by two threads.
LatencyNotNegative ==
  \A p \in Places(InMemory, "tx"), q \in Places(InMemory, "rx") :
    At(InMemory, p).id = At(InMemory, q).id => At(InMemory, p).start <= At(InMemory, q).end

\* A run is joined only when every call has been logged: of each value that came out of
\* the channel both halves, of each one left in it the sender's and no other.  A run of
\* which a thread panicked, its log lost, does not complete.
EveryCallLogged ==
  main = "completed" =>
    /\ \A i \in DOMAIN received : IdOf(received[i]) \in Ids(InMemory, "tx") \cap Ids(InMemory, "rx")
    /\ \A i \in DOMAIN queue : IdOf(queue[i]) \in Ids(InMemory, "tx") \ Ids(InMemory, "rx")

\* A run that begins ends, whichever side has a time to live: a side without one
\* ends because the other side is gone.
RunEnds == main = "spawn" ~> main \in {"completed", "panicked"}
=============================================================================
