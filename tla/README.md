# Specifications of mpmc_rs

`mpmc_rs` is a multi-producer multi-consumer channel in five versions, with a
benchmark engine and an aggregator of its event logs. This directory holds TLA+
models of the five channels, of the benchmark engine and of the aggregator, TLC
configurations that check them on small instances, and TLAPS proofs of their safety
properties, and of the refinements, for every value of the constants.

`PROJECT.json` maps every definition to the lines of `src/` it stands for, and
lists the runs, the mutants that show each property to be sensitive to a
mistake in the code, the hazards, the findings and the theorems.

## The system

| Part | State | Operations | What makes it hard |
|---|---|---|---|
| channel traits (`lib.rs`) | none | `send`, `recv` and their errors | the contract every version promises |
| v1, v2 (`v1.rs`, `v2.rs`) | one mutex: queue, two counts | send, recv (busy-waits), clone, drop | closing test and removal in one critical section |
| v3 (`v3.rs`, `v3/`) | linked list with dummy ends, a spin flag per node, `len` under a mutex with a condition variable, two counts | push_back, pop_front, wake_all_readers, clone, drop | hand-over-hand flags taken from both ends, reservation before removal, chained notifications |
| v4 queue (`v4/queue.rs`, `action.rs`, `status.rs`) | a `Vec` of slots (mutex and condition variable each), tickets `start`, `end`, `len`, a status word, a flag per handle, two maps of handles and their counts | pop, push, resize (request, exclusive, reallocate, release), handle creation and drop | lock-free tickets that lap each other, a hand-made exclusion protocol, memory replaced under running threads |
| v4 channel (`v4.rs`) | counts of senders and receivers | send, recv, clone, drop | two counts besides those of the queue |
| v5 (`v5.rs`, `v5/queue.rs`) | the slots and tickets of v4 under a `parking_lot::RwLock`, a resize flag, counter and condition variable | the same | lock upgrades, pops that sleep with a share of the lock, a timed wait |
| benchmark (`bench/src/runner.rs`, `test_1.rs`, `completion.rs`, `benchmark.rs`) | a thread per sender and receiver with its handle and event log, a barrier, a shared counter of ids, main's own two handles | spawn, meet at the barrier, call and log until time is up or the channel closes, drop, write the log, join | threads stopped by time while others wait in the channel, two threads' instants in one event, panics in the version under test |
| aggregator (`bench/src/aggregate*`, `bin/aggregate.rs`) | per run: events by id, windowed metrics; results under a mutex | read rows, match, summarise, save, in jobs of a thread pool; a last job for the summary | files in any order, window and percentile edges, one job of many failing |
| crossbeam adaptor, plots, shell script, example | none of their own | forwarding, drawing | nothing to model |

A client holds `Sender` and `Receiver` handles and moves each to one thread. A
version's handles share one queue through an `Arc`. All interaction is by shared
memory: atomics, mutexes, condition variables. There are no messages, files or
restarts in the channels, so no crash recovery; a *panic* unwinds through the
`Drop` of a handle and is modelled where the code can panic. The benchmark drives one
version after another by the calls of the traits and leaves files, one per thread and
one per config; the aggregator, another process, reads them. `run.sh` runs the two and
`plot.py` in turn.

What makes each part correct:

* **contract**: the values received, in the order of the receptions, are the
  values accepted, in the order of the sends, each once; `Closed` is returned
  only when nothing is left and nobody can send.
* **v3**: no two threads touch a `next` pointer at once without its flag; `len`
  admits as many pops as there are nodes; no `expect` or `unreachable!` fires;
  every push and pop returns; every node left is eventually noticed.
* **v4**: exclusion during a resize; no value lost or duplicated; `NoWriters`
  means empty; a push never waits for a pop ("unbounded"); closing wakes everyone.
* **v5**: the same, with the lock doing the exclusion.
* **benchmark**: a run ends whichever side has a time to live; a run that ends has
  measured something, logged every id at most once a side, inside its own span and with
  no negative latency; when it completes, every call that had an effect is in the logs.
* **aggregator**: what it reports is what the logs hold, in whatever order they are read;
  a run that completed is never refused; one bad run costs no other its result.

## Modules

| Module | Models | Instances | Theorems |
|---|---|---|---|
| `AtomicQueue` | v4: the queue, with a client free to call, clone and drop | `MCAtomicQueue` | `AtomicQueueProofs` (exclusion), `AtomicQueueDelivery` (values) |
| `AtomicChannel` | v4: the channel, with its counts, over `AtomicQueue` | `MCAtomicChannel` | `AtomicChannelProofs` |
| `Channel` | the contract of the traits, as an abstract specification; instantiated by `MutexChannel`, `ListChannel` and `Benchmark` | | |
| `MutexChannel` | v1 and v2 | its own | `MutexChannelProofs` |
| `ListChannel` | v3 | `MCListChannel` | `ListChannelProofs` |
| `RwQueue` | v5 | `MCRwQueue` | `RwQueueProofs` |
| `EventLog` | what a run leaves on disk, and what the aggregator needs of it (`Clean`); extended by `Benchmark` and `Aggregator` | | |
| `Benchmark` | the benchmark engine over any channel that keeps the contract | `MCBenchmark` | `BenchmarkProofs` |
| `WindowedMetric` | windows, percentiles, gauges: operators only, for `Aggregator` | | |
| `Aggregator` | the aggregate binary | `MCAggregator` | `AggregatorProofs` |

The four implementations of the channel are written alike. A handle names the thread that uses
it, `pc[h]` says where that thread stands (`"idle"` between calls, `"none"` before
it is made, `"gone"` after its drop), and one action is one atomic operation of
the code: an atomic load, store or compare_exchange, a critical section, a
notification. Where a critical section reads other shared state (the closing
check under a slot's mutex) it is several actions, and the mutex is held in
between: who holds a lock is read off `pc`, so there is no variable for it. A
failed compare_exchange in a spin loop changes nothing and is not a step. A
client may call, clone and drop at any time and is never obliged to.

Values are pairs `<<sender, n>>`, `n` the number of the send: all values differ and
the order of a sender's values can be read from them.

Names beginning with `Bug` are variants of the definition that follows them, each a
plausible mistake; the property named with it in `PROJECT.json` is violated when
the variant takes the place of the original.

### AtomicQueue (v4)

The code's words map to the variables one to one: `buf`, `cap` (the Vec and its
length), `start`, `end`, `len`, `status`, `action` (`AccessDescriptor.action` of each
handle), `readers`/`writers` and `nReaders`/`nWriters` (the maps and the counts).
`idx` is a thread's slot, `seen` the length of the Vec it computed it for: as a Vec
only ever doubles, `seen[h] # cap` says that the thread's reference points into
freed memory. What a thread does there is undefined behaviour and is chosen
freely (`PutStale`, `WakeSlot`). `todo`, `cur`, `ex`, `saved` are the locals of
`exclusive`. The `unreachable!` arms are `PanicEnter` and `PanicScan`; the unwinding
thread runs the `Drop` (`DropWriter`) like any other. That of the wake-up loop
(`queue.rs:551`) is met only by a thread that unwinds already, where a second panic aborts the
process; the model takes no step there (`EnterWake`). A push reads the length of the
Vec (`LoadLen`), takes its ticket (`ClaimEnd`) and uses its slot (`PutValue`, `PutStale`) in three steps, with a
resize possible in between; the maps are unlocked one after the other.

Left out: the contents of log messages, `try_take` (no caller), capacity 0 (no
caller) and the counters that make map keys unique.

### AtomicChannel (v4)

`ChannelInner` keeps two counts, which a clone raises *before* it makes the handle of the
queue and a drop lowers *before* the handle is dropped. `call[h]` says what the thread of
a handle has done of its call: counted a clone or a drop, loaded `receivers` and found
some (`"push"`) or none (`"refused"`). The steps of the queue are those of
`AtomicQueue`; the client's actions there are taken here by the call that has got so far. The
handles bound the clones (`Spare`): nothing else does.

### ListChannel (v3)

`next` and `flag` describe the nodes (`Front`, `Back` and one per value), `len` the
counter under the mutex. A push is `AccessBack` to `NotifyPush`, a pop `FindZero` or
`Reserve` to `Take`. The state a property about data races needs is all in `pc`:
`RaceFree` says who is about to touch which pointer. `ImplementsChannel` is a
refinement: a value enters the abstract queue at `LinkLast`, a pop leaves with the
value it will return at `Reserve`; the mapping takes the reserved nodes from the
front of the list.

### RwQueue (v5)

Holders of the `RwLock` are read off `pc`: `Shared`, `Upgradable` and `WriterBit` (an
upgrade that waits already shuts readers out, as parking_lot does). `Timeout` is the
end of the 100 ms wait and may come at any moment. `wake_reads` after its two loads
is one step, which loses nothing because a sleeper may wake at any moment anyway.
The flag `resizes.2` is never reset, so the model has at most one resize.

### Channel and MutexChannel (v1, v2)

`Channel` has a FIFO queue, the numbers of handles and the state of each caller.
A call takes effect in one step between its beginning and its return. `MutexChannel`
has the same queue under a mutex; every critical section is one action.

### EventLog, Benchmark and Aggregator

`Benchmark` is `run_bench_1` as the binary calls it for one config after another, over
`Channel`: its steps *are* steps of the contract, taken by the thread whose call it is, so
that one model serves all versions. `main` and `pc[t]` say where main and the threads stand;
`handles` is the order in which main spawns and joins them. `clock` is `Instant::now()`
counted from the start of the config; it may advance before any step, so that an event's
start, its effect and its end are three moments. A thread that has a time to live may find
it over after any call (each thread counts from its own start), and does when the clock
has stopped. A thread of `Panicking` may panic inside a call, which drops its handle and
its log; main meets the panic at its `join`.

`Aggregator` reads a row per step. `file` and `next` are its place, `events` is
`constructed_events`, a pair of halves per id (sender's, receiver's; both, one or none is
the enum of the code), `bp` the windowed backpressure. `pc[c]` is `"failed"` once the job
has panicked, for `run_work` is unwrapped. `Summarisable` and `Opens` collect the ways to
fail: a file of its own missing, an estimate of the number of rows that wraps below zero
(every file one row short for a header that was never written), a row behind the last
window, a percentile of no value. `WindowedMetric` has the arithmetic: integers for times,
percentiles in per mille and their results in thousandths, so that the interpolation is
exact; means are left out, and a throughput is not divided by the length of its window.

Whoever writes a file may fail to: the file is not there, or ends where the failure came
(`FailRunner` for a thread's, `FailComplete` for the run's own). The error is logged and dropped,
the thread ends as any other, and main goes on.

The two meet in `Clean`, what the aggregator needs of a run that completed: its file is
there, so are the headers, its events lie inside its span and end no earlier than they
start, no id is logged twice a side, something was both sent and received. `EventsInsideRun`, `IdsLoggedOnce` and
`SomethingIsMeasured` establish it for every run that completes and whose files were all
written (`CompletedRunsAreClean`); `CleanRunsAggregate` and `GoodRunsSaved` use it. A run that
completes without one of its logs leaves a span like any other (see *Findings*).

The argument rests on the contract, which v3, v4 and v5 keep only in part (see *Findings*). A
value that v4 or v5 loses is an event with one half, which the aggregator accepts. A call that
never returns is a run that never ends, so `RunEnds` holds of v1 and v2 as it stands, and of
the others only while this does not happen: v3 and v4 may leave a receiver asleep when the last
sender goes, and a resizer of v4 and a push of v5 may wait for ever.

## Runs

Each run is one question; the bounds are those of its `.cfg`.

| Run | Question | Instance |
|---|---|---|
| AQcore | v4: types, exclusion of readers from every resize and of all handles from the first, one resizer, readers' flags, no duplicate | 1 reader, 2 writers (3 and 1 pushes; the second writer is cloned), capacity 1, up to 8 slots |
| AQsingle | v4 channel, one writer that sends: a pop stays in one Vec, no panic; before a resize no loss, no overtaking, and `NoWriters` only when nothing is left that no other pop has claimed and nobody can send; a send is refused exactly when no receiver is left | capacity 2, up to 8 slots; 2 readers (one cloned) and 1 writer of 6 pushes, or 2 readers from the start and 1 writer of 2 pushes with a clone |
| AQlive | v4: a filled slot is served, the first resize ends unless a reader sleeps | capacity 1, up to 2 slots, fairness; 2 readers (one cloned) and 1 writer of 3 pushes, or 1 reader and 2 writers of a push each when the slot is full |
| LCcore | v3: races, panics, `len` and `Back` against the list; v3 implements `Channel` | 2 receivers, 2 senders (2 and 1 sends), one of each cloned |
| LClive | v3: pushes and pops return, no sleeper is forgotten | 2 and 2, one send each, fairness |
| MXrefine | v1 and v2 implement `Channel`; `recv` returns once closed | 2 and 2, clones and drops, fairness |
| RQcore | v5: types, exact `len` for a resizer, no duplicate, `Closed` is final until a push meets a full slot | 2 receivers, 2 senders (3 and 1 sends; the second sender is cloned), capacity 2 |
| RQlive | v5: every `recv` returns once the senders are gone | 2 receivers (one cloned), 1 sender of 2 sends, capacity 1, fairness |
| BEcore | the benchmark: the logs of a run, and that it ends | 2 senders, 1 receiver, all four configs of times to live, panics of one sender and the receiver, files that cannot be written, `MaxTime` 1, `MaxIds` 1, fairness |
| AGcore | the aggregator: matching, counts, windows, percentiles; what is saved beside a bad run | one run of 2 senders and a receiver with 3 sent ids and a gap, spans of 0, 3 and 4 with windows of 2; or two runs, one good, the other good or with one of 5 defects that have it refused or one that has not |
| AQbadloss | v4 loses no value (violated) | 1 reader, 1 writer of 4 pushes, capacity 3, up to 6 slots |
| RQbadhang | v5: a push returns (violated) | 1 receiver, 1 sender of 3 sends, capacity 1, fairness |

The runs whose name has `bad` look for a counterexample to what the code's comments
or tests say, and find one; see *Findings*.

`AQsingle` and `AQlive` begin in one of two casts (`Alone`, `Rivals` or `Heirs` in the MC modules): which
handles there are, which a clone may make, and, for `Rivals`, what was sent before: one value that was
received and one that fills the slot.

`FirstResizeExclusive` (`AQcore`) and `FirstResizePerformed` (`AQlive`) stop at the first resize, and
`NoWriterPanic` passes for a single writer (`AQsingle`); *Findings* says why no more is true.

Why the bounds are enough. Two writers are needed for every race about the
status word and the flags, and two pushes with capacity 1 make a push meet a
full slot; three doublings (1 to 8) let a writer win, lose and win again. A
range that wraps needs capacity 2 and four values. In `AQsingle` two readers on two slots let a
pop find its slot empty and no writer left while a value is in the other slot, claimed by the
other pop, or about to be; a clone entered and not counted may be the last writer. In `AQlive` the
other writer may push, wait for the resize, lose the status word and ask again, or drop its
handle, which needs a map the resizer holds. Two readers on one slot are
what lapping and lost notifications need. In v3 a third node gives a pop a
successor that is not `Back` while a push is under way. `MaxCap` and `MaxClosed`
only end the run: no resize starts beyond `MaxCap`, and each reader returns
`NoWriters` at most `MaxClosed` times.

In `BEcore` two instants are enough for every order of two threads' instants, as only order
matters; `MaxIds` bounds the ids taken while time passes, and beyond it each sender may
still make the calls that let the run end (`MaySend`): one after the clock stopped, and
as many as receivers without a time to live wait for. Two senders share the bank of
ids and the queue; with a single receiver the second half of an event still races the
first. A second receiver, or a second id while time passes, is beyond a few minutes.
In `AGcore` the ends 4 and 5 put the end of the run on the edge of a window and inside one, the end
1 makes a run shorter than a window; every start and end of a send and of its reception is
tried. The sent ids leave id 1 empty and come in the order 2, 0, 3, the receiver's in the order 0, 2, 3,
so that either half may be first and `events` grows in jumps.

`MaxReceived` keeps `AQcore` small: its reader begins no pop once two values were popped.
`RQcore` declares its receivers, which all exist from the start, interchangeable.

The runs of safety properties alone use the view `LiveState`, which leaves out locals that
will be assigned before they are read again (in v4 also the flag of a handle that does not
exist, and `len`, which no action reads).

Deadlock is not checked: when all calls have returned and no value is left to
send the system rightly stops, and a reader waits for a writer without end.
That nobody waits who should not is what the liveness properties say.

## Fairness

* v4: weak fairness for each thread's next step, strong fairness for taking a
  slot's mutex, which other threads release again and again. The system's mutexes
  are futexes and do not starve a waiter for ever. Condition variables may wake up
  spuriously but need not.
* v3: strong fairness for each thread's step. The flags are spin locks; a thread
  that finds its flag free again and again is assumed to win it in the end. This
  is what preemptive scheduling gives in practice, and the code has nothing
  stronger; with weak fairness pushes may starve pops at `Back`.
* v5: strong fairness for each thread, as parking_lot's locks are eventually fair;
  a timed wait ends.
* v1, v2: weak fairness; a caller gets the mutex in the end.

* benchmark: weak fairness for main, for each thread and for time. A thread's step
  includes those of its call, which is what the contract promises of a channel: a call
  that can take effect does, in the end. A panic is never obligatory.

Nothing obliges a client to call or to drop, and a thread that panicked unwinds.

## Proofs

TLAPS checks the theorems below for every number of handles, threads, sends and runs, every
capacity and every value of the bounds. What they assume of the constants is named in
the module that declares them: `AQAssumption`, `MutexAssumption`, `LCAssumption` and
`RQAssumption` (senders and receivers are disjoint finite sets, the capacity is positive, what
stands for no value is none), `BenchmarkAssumption` (a thread on each side, as the
configs have; main's handles are no thread's), `AggregatorAssumption` and `PeriodAssumption` (what is
on disk parses, as `parse_row` demands; windows have a length).

| Theorem | Says |
|---|---|
| **v4, exclusion** | `AtomicQueueProofs` |
| `ExclusionInvariant` | status word, readers' flags and the resizer's records agree |
| `ReadersExcluded` | no reader is in the queue while the Vec is replaced |
| `ReadersNeverStale` | a pop never uses a slot of a freed Vec |
| `ResizerUnique` | one resizer at a time |
| `ReadersNeverPanic` | no `unreachable!` about a reader's flag is reached |
| `AloneNeverPanics` | with one writer no `unreachable!` about a writer's flag is reached |
| **v4, delivery** | `AtomicQueueDelivery` |
| `DeliveryInvariant`, `TypeCorrect` | every pop's slot is inside the Vec, what is popped was pushed |
| `DeliveredAtMostOnce` | no value is in two slots, or in one after it was popped |
| `FirstVecInvariant` | before a resize: writers' flags, places of values, counts and tickets |
| `FirstResizeAlone` | with any number of writers, nobody pops or pushes while the first resize replaces the Vec |
| `NothingLostBeforeResize` | before a resize each value sent was received, is in a slot, or is held by its push |
| `ClosedIsTheLastWord` | before a resize `NoWriters` leaves nothing that no other pop has claimed |
| `OneSendersOrder` | before a resize one writer's values are taken in the order sent |
| **v4, channel** | `AtomicChannelProofs` |
| `ChannelRefines` | the channel implements the queue with its free client |
| `ChannelDeliversAtMostOnce` | hence it delivers no value twice either |
| `ReceiversCounted` | `receivers` is the number of receivers in being and of clones begun |
| `SendsAnswerForReceivers` | a send is refused only with no receiver left, and goes on only with one there |
| **v1, v2** | `MutexChannelProofs` |
| `CountsCorrect` | both counts are those of the handles in being |
| `MutexChannelRefines` | v1 and v2 implement `Channel` |
| **v3** | `ListChannelProofs` |
| `ListInvariant` | the nodes form a chain; who holds which flag; what `len` admits |
| `NoDataRace` | no two threads are about to use one `next` pointer without its flag |
| `NothingPanics` | no `expect` or `unreachable!` is reached |
| `ListIsWellFormed` | `len` and `Back` against the list |
| `ListChannelRefines` | v3 implements `Channel` |
| `SendersOrderIsKept` | hence each sender's values come in their order, each once |
| **v5** | `RwQueueProofs` |
| `RwQueueInvariant`, `TypesHold` | who holds the lock, where values are, how far `len` lags |
| `ValuesAppearOnce` | no value is in two slots, or in one after it was popped |
| `ResizerSeesTheLength` | a resizer that holds the lock alone finds the number of values in `len` |
| `ClosedIsTheLastWord` | until a push meets a full slot, `Closed` leaves nothing that no other pop has claimed |
| **benchmark** | `BenchmarkProofs` |
| `BenchmarkInvariant` | the stages of main and threads, the way of every value and its id |
| `EveryCallIsLogged` | when a run completes, the logs hold both halves of each value received and the sender's half of each value left |
| `EventsAreInsideRuns`, `IdsAreLoggedOnce`, `LatencyIsNotNegative`, `SomethingIsAlwaysMeasured` | the properties of the logs that `BEcore` checks |
| `CompletedRunsAreClean` | what a completed run leaves on disk is `Clean`, if no file operation failed |
| **aggregator** | `AggregatorProofs` |
| `AggregatorInvariant` | each half of an event is a row that was read |
| `CleanRunsAreAggregated` | no `Clean` run is refused |
| `EveryEventMatches` | each id ends with the row of its sender and of its receiver, in whatever order files are read |
| `CollectedInvariant` | each row read is in the window of its end and no half twice; summaries report them all |
| `EverythingIsAccounted` | counts, matched pairs and summed latencies are those of the rows on disk |
| `BackpressureIsByWindow` | what is reported of a window is not above what any row that ended in it logged |
| `PercentilesAreOrdered` | the percentiles of a window ascend to the maximum; half of all latencies lie on either side of the overall median |
| `GoodRunsAreSaved` | a refused run costs no clean one its result |

### v4: exclusion

None of these is inductive: that a reader is outside when the Vec
is replaced follows from its flag being `ExternallyBlocked`, which follows from the
resizer having saved that flag. `Exclusion` therefore relates four records: the
status word (held by whoever is between winning and restoring it), the flags saved
by the resizer (each is a blocked flag, saved from `Idle`, and every blocked flag of a
reader is saved, unless a resizer panicked and left the queue wedged), the handles
still to be visited (every reader of the map is to be visited or saved), and each
reader's flag against its place in `pop_front_wait`. The steps of `Next` are sorted in
three: a reader's, a resizing step, any other step of a writer. The first and
the last leave the resizer's records alone (`ReaderFrame`, `BystanderFrame`), so
each conjunct is preserved by a frame lemma; the resizing steps are taken one by one.

The same holds for writers only in two cases, each with an invariant of its own. Before the first
resize is over (`FirstFlags`) nobody has restored a flag, so that a writer's own flag says where it
is, and one that the resizer has blocked is between two operations, or waits for the resize
(`FirstResizeAlone`). With one writer (`OwnFlag`) the flag a resizer restores is always its own, which is all
that `AloneNeverPanics` needs. With two and a second resize, a flag is restored under a push that has moved on, and neither
the exclusion of writers nor the freedom from panics holds (see *Findings*).

### v4: delivery

`DeliveryInvariant` adds where the values are: a push's value is nowhere else until
it is stored, all values in the queue were sent, and the range that `reallocate`
copies, wrapped round or not, names each old slot once (`ReallocatedMoves`). `Take`
needs `Exclusion`: its slot is one of the current Vec. The writers' half needs no
exclusion, which is as well, since it does not hold for writers.

Until the Vec is replaced more can be said, and all of it is one argument about tickets.
Nothing is lost, as what a push has not stored it holds (`KeepsHeld`). The count of
writers is that of the handles born and not yet dropped (`WritersCounted`), so that a
pop that finds it zero under a slot's mutex knows that the slot stays empty (`EmptyHeld`). And the
tickets of each slot balance (`TicketsFit`): the tickets of `end` that name it, with the pops on
their way and those that gave up there, are as many as the tickets of `start`, with the pushes on their
way and the value in the slot; and a pop gives up only at an empty slot, when no writer is
left. Under one writer the n-th value sent goes to
the n-th ticket (`InOrder`), and the last value put in a slot is the one its turn has come to (`LastPut`).

### v4: channel

Refinement by superposition: a step of the channel either is a step of
the queue or leaves the queue alone (`ChannelStep`), so that `TypeCorrect` and `DeliveredAtMostOnce` carry
over. The count needs two facts at once. `CallsFit`: a receiver that has
counted a clone is `"idle"` in the queue, and one that is not made yet is in no call. `CountsFit`: `receivers` is the size of
the set of receivers that are there and have not counted their drop, plus those that have
counted a clone. Neither set changes in a step of the queue itself (`QueueStepPlaces`), and
every action of the channel changes one of them and the count alike. A receiver that has
promised a clone is there itself, so that the count is zero only when nobody is.

### v1 and v2

A refinement with an invariant. `State` maps a place in a call to the
contract's, so that each critical section is the one step of `Channel` in which the call
takes effect, and all its conjuncts but one hold by definition. That one is who is left:
the contract asks whether a handle is there (`SomeSender`, `SomeReceiver`), the code whether
a count is zero. `Inv` says that each count is the size of the set of handles in being;
`Push`, `SendClosed` and `RecvClosed` need it.

### v3

The invariant says that there are a number and a *chain*, the nodes ever linked in their order, for which
`ListFits`. A pointer that a thread has read is a place in the chain; who may move that place is told by
the flags. A node's flag is held by at most one thread, by its `pc`; from this race freedom
follows, and that a thread finds in a flag what its `expect` asks for.

The refinement adds what the contract sees of it. `walk`, the function that follows the
pointers from `Front`, is shown to be the chain (`WalkIs`), by induction over the places. The
contract's queue is the end of the chain from the place where the next pop will
reserve, and its length is `len` and what is `Uncounted`, the nodes that were linked and not counted yet. So only `LinkLast` and `Reserve` change what the contract sees (`AcceptedView`,
`ReceivedView`, `SameView`), though two threads are in the list at once. Closing rests on the
counts (`HandlesHold`) and on this: while a receiver tests for senders under the Mutex, `len` stays zero.

### v5

Most steps move one thread on and change nothing that others look at; they are
treated as one (`Quiet`). The rest of the invariant is about the lock: what a
holder's `pc` excludes of the others. `len` lags behind the slots by pushes that have stored
and not counted and pops that have taken and not counted, all of which hold a share of the lock; so it is exact
for whoever has upgraded. The tickets balance as in v4, up to the first push that meets a full slot.

### Benchmark

Every value that the channel accepted is in one place (`InOnePlace`): in the queue, in the
hands of a call, in a log. When all threads have ended no call holds any (`EveryCallIsLogged`). Its id leads back to the send that logged it or will (`IdsUnique`),
and no instant is ahead of the clock (`TimesFit`). That something is measured rests on why a thread may leave its
loop (`LeftForAReason`). `CompletedRunsAreClean` puts the four together, in the terms in which
`CleanRunsAreAggregated` takes it up.

### Aggregator

`JobFits`: at every point of every order of files, the halves of the events are the rows at the
places the job has `Seen`, and the other way round (`EventsFit`); a clean run therefore never
meets its own half, and each row has a window. That percentiles have a value to be taken from is a fact about what the
folds compute: the lemmas `MetricOfEntries` and `Flattened` evaluate `FoldLeft` and
`FlattenSeq`. `Collected` does the same for the backpressure: a row's length stays in the
window of its end, windows that hold something are reported (`FilledWindows`), each from its start (`TimeInWindow`).

That nothing is lost between windows is shown by weighing (`Heft`). Give each value a weight: a metric then
weighs what its entries weigh (`HeftOfMetric`), whatever windows they fell in, for each `add` puts
one value at the end of one window and leaves the others (`AddIs`). With one as the weight of all, this is the
count that is reported; with each value as its own, the sum (`MetricAccounts`). The entries are those
of the ids that have the halves (`EntriesReckoned`), and a side has as many ids as rows, since it logged
none twice (`RowsAreIds`): a second row with an id would have ended the job, which is the conjunct
`Distinct` of the invariant.

Percentiles are taken from a sorted sequence, so the model says what sorting does: it puts one value after
the other in its place. The result ascends (`InsertedAdds`, `SortedIs`), has the values it was given and weighs what they
weigh, by the weights of the account above. A percentile is the mean of the two values next to its place
(`PercentileLies`): a higher one lies between later neighbours or nearer to the second (`PercentileRises`). As many values as
the median's place says are on its one side in the sorted sequence (`MedianSplits`), and weights of one and zero carry
the count to the sequence as it was (`MedianHalves`).

The library's induction theorems take a predicate, which the provers cannot instantiate. The
inductions over data here are by least counterexample over *sets*: `LeastNat`, `AllNat`, `SubsetInduction`, and
`SubsetRecursion` for functions defined on the subsets of a set, which is how the folds of
the community modules recur.

### What the proofs changed

Three definitions turned out to be wrong where no instance had shown it. `Clean` did not ask that an
event starts no later than it ends, without which a throughput may have no window. The
mapping `State` of v3 had overlapping cases, of which any may be taken.
`BackpressureByWindow` claimed that each window starts before what is in it: a row that ended before
its run began, which no debug assertion stops in the release build, counts for the first.

### Only model-checked

Liveness, in all runs: it is out of the prover's reach. Every invariant and every
action property that a passing run checks is proved.

## Findings

Two runs TLC stops with a counterexample; `PROJECT.json` quotes the line of
the repository that says otherwise.

* **v4 loses values** (`AQbadloss`): a push turned away by a full slot uses up a
  ticket, tickets run ahead of values, and a resize moves the wrong range: the first
  with capacity 3 or more, the second with capacity 2. One writer is enough, and a receiver is there.
* **v5's push hangs** (`RQbadhang`): the flag of the first resize is never reset and
  the loser's loop has no exit; or the upgrade waits for a pop that sleeps with a
  share of the lock.

What else the models allow, and the reason why a property of a passing run says less
than one would like:

* v4's exclusion fails from the second resize on, with two writers. A writer that resized goes on with
  its push while its flag is `ResizeRequested`; another resizer takes it for one that waits
  (`queue.rs:392`) and replaces the Vec under the push. A writer being dropped has left the map
  (`queue.rs:575`) and still walks the slots to wake readers while the Vec is replaced, at the first resize as well.
  TLC shows the one when `AQcore` is given `ExclusiveResize` in place of `FirstResizeExclusive`,
  which therefore stops at the first resize and leaves out the dropped writer.
* v4's resize may wait for ever, with both maps locked and no reader asleep, so that no other resize, clone or drop
  gets through either. A resizer that has seen `ResizeRequested` in a flag accepts nothing else
  (`queue.rs:393`), and the flag's owner, at the end of the push after its own resize, stores
  `Idle`. Or the writer waits for itself: it has saved `Writing`, loses the status word, waits, stores
  `Writing` back (`queue.rs:457-471`), tries again, wins, and waits in `exclusive` for its own flag to be
  something else (`queue.rs:397`). Hence `FirstResizePerformed`.
* v4's writer panics, with two writers: a resizer saves the `ResizeRequested` of such a push and restores it
  when the push has ended; the next push meets `unreachable!` (`queue.rs:503`). `NoWriterPanic`, which
  `AQsingle` checks for one writer, fails in `AQcore`.
* v4 does not keep a sender's order when there are two, even before a resize: a push that pauses
  between its ticket and its slot may find that a push of the other, one round later, has used the slot
  first, and the reader sent there takes that value before an earlier one of the same sender.
  `OrderBeforeResize` is therefore checked with one writer that sends.
* v4 closes early after a resize: a pop sent to the gap a wasted ticket left returns
  `NoWriters` with a value elsewhere in the queue. `ClosedIsFinal` and `NoLossBeforeResize`
  therefore stop at the first resize.
* v4's last drop may wake nobody: the count and the notification are outside the mutex
  that a waiter holds between its check and its wait, and the range of slots that is notified
  comes from two loads, so that readers that leave in between move it past a
  reader that has long been asleep. v4 therefore has no property about the receivers
  that wait when the last sender goes.
* v4's push waits, by way of its resize, for a reader that sleeps in the queue until a
  push, perhaps the resizer's own: hence the exception in `FirstResizePerformed`.
* v3's last drop has the missed wake-up of v4's: v3 has no property about the receivers
  that wait when the last sender goes.
* v5's resizer takes the tickets modulo the number of values, which pops may have
  brought to zero (`v5/queue.rs:170-173`); then it panics and its ticket is wasted. When they are not zero, and
  not as many as the slots, the range that is moved is the wrong one and the values outside it are
  lost: at v5's first resize, which is its last. v5's `ClosedIsFinal` therefore stops
  at the first push that meets a full slot, before any resize, and no property speaks of loss after it.
* A run with a log missing, or cut short, looks whole. A thread that cannot write its log only logs
  the error (`test_1.rs:121-126`, `183-188`), its `join` is `Ok`, and main writes the span
  (`benchmark.rs:162-164`). The aggregator then counts the events as sent and never received, or the
  other way round. What it does read still lies inside the span (`EventsInsideRun`).
* The aggregator may return before its summary is written: the job that writes
  `summary.json` is spawned on the pool and nobody waits for it (`bin/aggregate.rs:131`).
  In the model main returns with `overview` at `"queued"` or `"created"`; `plot.py:368` opens the file
  next.
* The overall p99 and p999 of a distribution are both its median (`metric.rs:184-185`).

Both v4 and v5 are created with 100 000 000 slots, so that the time before a resize is what
tests see. v5's 100 ms wake-ups are what makes `RecvReturnsWhenClosed` hold:
without them the range of slots that `wake_reads` notifies can be empty while a pop
sleeps.

## Not modelled

* A handle shared by reference between threads (`Sender` and `Receiver` of v4 are
  `Sync`): each thread has its own handle, as in the tests and the benchmark.
* Memory: v3's leaked nodes and zeroed payloads, v4's references into a freed Vec
  beyond what the undefined steps choose. Memory orderings: all atomics are
  sequentially consistent in the code, except the benchmark's id counter.
* Integer overflow of the tickets after 2^63 operations.
* Of the benchmark: `create_configs_ramping`, a loop over constants; `CompletionGuard`, which only warns; the length
  a call reports (the aggregator's rows have one of their own choosing). Of the
  aggregator: the prompt, errors of file operations, the JSON layout and the copy of a
  run's numbers into its summary line.
* The crossbeam adaptor forwards to a third-party crate; plots, shell script and example
  have no state.

## Plan

Done, in this order: `AtomicQueue` with its runs and the exclusion and delivery
proofs; `Channel`, `MutexChannel` with its proof; `ListChannel`; `RwQueue`; `AtomicChannel` with its
proofs; `EventLog`, `WindowedMetric`, `Aggregator`; `Benchmark`. Then the proofs: v4 with one
writer and before a resize, v3, v5, the benchmark, the aggregator, the refinement by v3.

Left to model: little that the bounds would bear. A benchmark of two receivers.

Left to prove: that v4 with one writer and one reader implements `Channel` up to its first
resize, which `FirstVecInvariant` and `InOrder` prepare. With several readers it does not
implement it: `Channel` hands values out in order across all receivers, and in v4 a reader may
pause between taking its ticket and locking the slot. A value sent later is then returned by
another reader first, and a reader whose later ticket falls on the same slot may even take the
value of the paused one. What holds for any number of readers is stated by the v4 runs
directly. No document of the repository promises an order across receivers.
