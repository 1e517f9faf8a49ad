----------------------------- MODULE Aggregator -----------------------------
(***************************************************************************)
(* The aggregate binary and bench::aggregate.  For every run found on disk *)
(* (a version and a configuration of the benchmark) a job of the thread    *)
(* pool matches the events of senders and receivers by id, summarises them *)
(* by window of time and saves the result; main waits for all jobs and     *)
(* hands the summary to one more job, which nobody waits for.              *)
(*                                                                         *)
(* A row is one step.  The files of a run come in any order (read_dir),    *)
(* the jobs in any interleaving.  `?` and panics end a job alike: run_work *)
(* is unwrapped inside the job.  Arithmetic is that of the release build,  *)
(* the one run.sh makes.  No file operation fails.                         *)
(*                                                                         *)
(* The runs are not written to while the aggregator reads them (the safety *)
(* condition of from_directory).                                           *)
(*                                                                         *)
(* A definition whose name begins with Bug is a variant of the one that    *)
(* follows it, with a mistake that the properties have to notice.          *)
(***************************************************************************)
EXTENDS EventLog, WindowedMetric

CONSTANT Inputs    \* what may be on disk: for each run, its files

\* A row as parse_row reads it.
RowType == [start : Nat, end : Nat, id : Nat, len : Nat]
FileType == [kind : {"tx", "rx", "other"}, header : BOOLEAN, rows : Seq(RowType)]
RunType(r) ==
  /\ r.span \in (Nat \X Nat) \cup {None}
  /\ IsFiniteSet(DOMAIN r.files) /\ \A f \in DOMAIN r.files : r.files[f] \in FileType

ASSUME AggregatorAssumption ==
  /\ None \notin RowType /\ None \notin Nat \X Nat
  /\ \A input \in Inputs :
       IsFiniteSet(DOMAIN input) /\ \A c \in DOMAIN input : RunType(input[c])

VARIABLES
  run,       \* the files of each run
  pc,        \* where the job of each run stands
  unread,    \* the files not yet opened
  file,      \* the file being read
  next,      \* and its next row
  events,    \* constructed_events: by id, the sender's and the receiver's half
  bp,        \* the backpressure of every row
  summary,   \* the Aggregation of each run
  saved,     \* the runs whose result is on disk
  results,   \* results, under its mutex
  main,      \* where main stands
  overview   \* summary.json

Configs == DOMAIN run
jobVars == <<unread, file, next, events, bp, summary>>
mainVars == <<results, main, overview>>
vars == <<run, pc, jobVars, saved, mainVars>>

\* Which half of an event a row is.
BugHalf(c) == IF run[c].files[file[c]].kind = "rx" THEN 1 ELSE 2
Half(c) == IF run[c].files[file[c]].kind = "tx" THEN 1 ELSE 2
Row(c) == run[c].files[file[c]].rows[next[c]]
MoreRows(c) == next[c] <= Len(run[c].files[file[c]].rows)
Alive == main \notin {"returned", "panicked"}

Empty == <<None, None>>

\* estimated_len before it wraps around: one row less than it has for a file,
\* whatever its name, whose header is missing.
EstimatedLen(c) ==
  LET Rows(f) == IF run[c].files[f].header THEN Len(run[c].files[f].rows) ELSE -1
  IN MapThenSumSet(Rows, DOMAIN run[c].files)

Goto(c, to) == pc' = [pc EXCEPT ![c] = to]

-----------------------------------------------------------------------------
(* Aggregation::from_directory: the rows of every file.                    *)

\* The capacity of half a wrapped estimate cannot be allocated.
Opens(c) == run[c].span # None /\ EstimatedLen(c) >= 0

Open(c) ==
  /\ pc[c] = "start" /\ Opens(c)
  /\ bp' = [bp EXCEPT ![c] = New(run[c].span[1], run[c].span[2])]
  /\ Goto(c, "files")
  /\ UNCHANGED <<run, unread, file, next, events, summary, saved, mainVars>>

FailOpen(c) ==
  /\ pc[c] = "start" /\ ~Opens(c)
  /\ Goto(c, "failed")
  /\ UNCHANGED <<run, jobVars, saved, mainVars>>

OpenFile(c) ==
  /\ pc[c] = "files"
  /\ \E f \in unread[c] :
       /\ unread' = [unread EXCEPT ![c] = @ \ {f}]
       /\ IF run[c].files[f].kind \in {"tx", "rx"}
          THEN /\ file' = [file EXCEPT ![c] = f]
               /\ next' = [next EXCEPT ![c] = 1]
               /\ Goto(c, "rows")
          ELSE UNCHANGED <<file, next, pc>>
  /\ UNCHANGED <<run, events, bp, summary, saved, mainVars>>

\* resize: room for the id of the row, the new places empty.
Grown(c) ==
  [i \in 0..Max({Cardinality(DOMAIN events[c]) - 1, Row(c).id}) |->
     IF i \in DOMAIN events[c] THEN events[c][i] ELSE Empty]

\* A row that is the first of its id, or the other half of it.
NewHalf(c) == Grown(c)[Row(c).id][Half(c)] = None
ReadRow(c) ==
  /\ pc[c] = "rows" /\ MoreRows(c)
  /\ InRange(bp[c], Row(c).end) /\ NewHalf(c)
  /\ bp' = [bp EXCEPT ![c] = Add(@, Row(c).len, Row(c).end)]
  /\ events' = [events EXCEPT ![c] = [Grown(c) EXCEPT ![Row(c).id][Half(c)] = Row(c)]]
  /\ next' = [next EXCEPT ![c] = @ + 1]
  /\ UNCHANGED <<run, pc, unread, file, summary, saved, mainVars>>

\* The row lies after the last window, its half is there already (an error), or
\* the event is complete (unreachable!).
FailRow(c) ==
  /\ pc[c] = "rows" /\ MoreRows(c)
  /\ ~InRange(bp[c], Row(c).end) \/ ~NewHalf(c)
  /\ Goto(c, "failed")
  /\ UNCHANGED <<run, jobVars, saved, mainVars>>

CloseFile(c) ==
  /\ pc[c] = "rows" /\ ~MoreRows(c)
  /\ Goto(c, "files")
  /\ UNCHANGED <<run, jobVars, saved, mainVars>>

-----------------------------------------------------------------------------
(* The metrics of the events, in the order of their ids.                   *)

\* What each metric is given: values and the instants they count for.  Throughput is
\* left undivided by the length of its window, and means are left out.
BugLatencies(e) == IF e[1] = None \/ e[2] = None THEN <<>>
                   ELSE << <<e[2].end - e[2].start, e[1].start>> >>
Sends(e) == IF e[1] = None THEN <<>> ELSE << <<e[1].end - e[1].start, e[1].start>> >>
Recvs(e) == IF e[2] = None THEN <<>> ELSE << <<e[2].end - e[2].start, e[2].start>> >>
Latencies(e) == IF e[1] = None \/ e[2] = None THEN <<>>
                ELSE << <<e[2].end - e[1].start, e[1].start>> >>
Throughputs(e) == IF e[1] = None \/ e[2] = None THEN <<>> ELSE << <<1, e[2].end>> >>

Entries(c, Of(_)) ==
  FlattenSeq([i \in 1..Cardinality(DOMAIN events[c]) |-> Of(events[c][i - 1])])
AllInRange(c, entries) ==
  \A i \in DOMAIN entries : InRange(New(run[c].span[1], run[c].span[2]), entries[i][2])
Metric(c, entries) ==
  FoldLeft(LAMBDA m, e : Add(m, e[1], e[2]), New(run[c].span[1], run[c].span[2]), entries)

Summarisable(c) ==
  /\ \A entries \in {Entries(c, Sends), Entries(c, Recvs), Entries(c, Latencies)} :
       AllInRange(c, entries) /\ CanGenerate(Metric(c, entries))
  /\ AllInRange(c, Entries(c, Throughputs))

Aggregation(c) ==
  [send |-> Generate(Metric(c, Entries(c, Sends))),
   recv |-> Generate(Metric(c, Entries(c, Recvs))),
   latency |-> Generate(Metric(c, Entries(c, Latencies))),
   throughput |-> GenerateGauged(Metric(c, Entries(c, Throughputs)), Total),
   backpressure |-> GenerateGauged(bp[c], Least)]

Aggregate(c) ==
  /\ pc[c] = "files" /\ unread[c] = {} /\ Summarisable(c)
  /\ summary' = [summary EXCEPT ![c] = Aggregation(c)]
  /\ Goto(c, "save")
  /\ UNCHANGED <<run, unread, file, next, events, bp, saved, mainVars>>

FailAggregate(c) ==
  /\ pc[c] = "files" /\ unread[c] = {} /\ ~Summarisable(c)
  /\ Goto(c, "failed")
  /\ UNCHANGED <<run, jobVars, saved, mainVars>>

-----------------------------------------------------------------------------
(* main and the rest of a job.                                             *)

Save(c) ==
  /\ pc[c] = "save"
  /\ saved' = saved \cup {c}
  /\ Goto(c, "push")
  /\ UNCHANGED <<run, jobVars, mainVars>>

PushResult(c) ==
  /\ pc[c] = "push"
  /\ results' = Append(results, c)
  /\ Goto(c, "done")
  /\ UNCHANGED <<run, jobVars, saved, main, overview>>

\* rayon::scope returns once every job has ended, and panics if one of them did.
BugEndScope ==
  /\ main = "scope" /\ \E c \in Configs : pc[c] \in {"done", "failed"}
  /\ main' = IF \E c \in Configs : pc[c] = "failed" THEN "panicked" ELSE "collect"
  /\ UNCHANGED <<run, pc, jobVars, saved, results, overview>>
EndScope ==
  /\ main = "scope" /\ \A c \in Configs : pc[c] \in {"done", "failed"}
  /\ main' = IF \E c \in Configs : pc[c] = "failed" THEN "panicked" ELSE "collect"
  /\ UNCHANGED <<run, pc, jobVars, saved, results, overview>>

\* rayon::spawn queues the job and returns.
SpawnSummary ==
  /\ main = "collect"
  /\ main' = "spawned" /\ overview' = "queued"
  /\ UNCHANGED <<run, pc, jobVars, saved, results>>

CreateSummary ==
  /\ Alive /\ overview = "queued"
  /\ overview' = "created"
  /\ UNCHANGED <<run, pc, jobVars, saved, results, main>>

WriteSummary ==
  /\ Alive /\ overview = "created"
  /\ overview' = "written"
  /\ UNCHANGED <<run, pc, jobVars, saved, results, main>>

\* The process ends with main, and every job with the process.
Return ==
  /\ main = "spawned"
  /\ main' = "returned"
  /\ UNCHANGED <<run, pc, jobVars, saved, results, overview>>

-----------------------------------------------------------------------------
Init ==
  /\ run \in Inputs
  /\ pc = [c \in Configs |-> "start"]
  /\ unread = [c \in Configs |-> DOMAIN run[c].files]
  /\ file = [c \in Configs |-> None] /\ next = [c \in Configs |-> 1]
  /\ events = [c \in Configs |-> <<>>]
  /\ bp = [c \in Configs |-> None] /\ summary = [c \in Configs |-> None]
  /\ saved = {} /\ results = <<>>
  /\ main = "scope" /\ overview = "none"

Job(c) ==
  /\ Alive
  /\ \/ Open(c) \/ FailOpen(c) \/ OpenFile(c) \/ ReadRow(c) \/ FailRow(c) \/ CloseFile(c)
     \/ Aggregate(c) \/ FailAggregate(c) \/ Save(c) \/ PushResult(c)

Main == EndScope \/ SpawnSummary \/ Return
SummaryJob == CreateSummary \/ WriteSummary

Next == (\E c \in Configs : Job(c)) \/ Main \/ SummaryJob

Spec == Init /\ [][Next]_vars

-----------------------------------------------------------------------------
(* Properties.                                                             *)

Summarised(c) == pc[c] \in {"save", "push", "done"}

\* The rows of one side with one id.
RowsOf(r, kind, id) ==
  {At(r, p) : p \in {q \in Places(r, kind) : At(r, q).id = id}}

\* Matching does not depend on the order in which the files are read: each id ends
\* up with the row its sender logged and the row its receiver logged, and an id that
\* one side never logged has that half empty.
EventsMatch ==
  \A c \in Configs : Summarised(c) =>
    /\ Ids(run[c], "tx") \cup Ids(run[c], "rx") \subseteq DOMAIN events[c]
    /\ \A i \in DOMAIN events[c] :
         /\ RowsOf(run[c], "tx", i) = {events[c][i][1]} \ {None}
         /\ RowsOf(run[c], "rx", i) = {events[c][i][2]} \ {None}

\* What a completed run of the benchmark leaves is never refused: each row has a
\* window, no half is met twice, every percentile has a value to be taken from.
CleanRunsAggregate == \A c \in Configs : Clean(run[c]) => pc[c] # "failed"

\* The aggregation accounts for every event, whatever window it fell in: the counts
\* are those of the files, and the latencies add up to the time between the starts
\* of the sends and the ends of the receptions of the ids that have both.
Matched(r) == Ids(r, "tx") \cap Ids(r, "rx")
Elapsed(r, ids) ==
  LET Time(i) == LET tx == CHOOSE e \in RowsOf(r, "tx", i) : TRUE
                     rx == CHOOSE e \in RowsOf(r, "rx", i) : TRUE
                 IN rx.end - tx.start
  IN MapThenSumSet(Time, ids)
Accounts(r, s) ==
  /\ s.send.count = Cardinality(Places(r, "tx"))
  /\ s.recv.count = Cardinality(Places(r, "rx"))
  /\ s.latency.count = Cardinality(Matched(r))
  /\ Total(s.throughput.values) = Cardinality(Matched(r))
  /\ s.latency.sum = Elapsed(r, Matched(r))
AllAccounted == \A c \in Configs : Summarised(c) => Accounts(run[c], summary[c])

\* A value reported for a window is that of the rows which ended in it: the window
\* of a row begins at most Period before the row ended, the last one included. A row
\* that ended before the run began counts for the first.
BackpressureByWindow ==
  \A c \in Configs : Summarised(c) =>
    \A kind \in {"tx", "rx"} : \A p \in Places(run[c], kind) :
      \E k \in DOMAIN summary[c].backpressure.t :
        /\ summary[c].backpressure.t[k] <= Max({At(run[c], p).end, run[c].span[1]})
        /\ \/ At(run[c], p).end < summary[c].backpressure.t[k] + Period
           \/ At(run[c], p).end = run[c].span[2]
        /\ summary[c].backpressure.values[k] <= At(run[c], p).len

InOrder(d) ==
  \A k \in DOMAIN d.t :
    d.p50[k] <= d.p99[k] /\ d.p99[k] <= d.p999[k] /\ d.p999[k] <= 1000 * d.max
HalfEachSide(all, median) ==
  /\ 2 * Cardinality({i \in DOMAIN all : 1000 * all[i] <= median}) >= Len(all)
  /\ 2 * Cardinality({i \in DOMAIN all : 1000 * all[i] >= median}) >= Len(all)
Divides(s, all) ==
  /\ InOrder(s.send) /\ InOrder(s.recv) /\ InOrder(s.latency)
  /\ HalfEachSide(all, s.latency.overall_p50)

\* The percentiles divide what they are taken from: in each window they come in their
\* order and none is above the greatest value, and half of all latencies lie on
\* either side of the overall median.
PercentilesDivide ==
  \A c \in Configs : Summarised(c) =>
    Divides(summary[c], FlattenSeq(Metric(c, Entries(c, Latencies)).buckets))

\* One run that cannot be aggregated takes the summary of all down with it, but not
\* the results of the others: main outlives every job.
GoodRunsSaved ==
  ~Alive => {c \in Configs : Clean(run[c])} \subseteq saved

=============================================================================
