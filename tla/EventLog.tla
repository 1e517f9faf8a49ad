------------------------------ MODULE EventLog ------------------------------
(***************************************************************************)
(* What one run of the benchmark leaves on disk for the aggregator: a file *)
(* of its own with the instants the run began and ended (its span), and a  *)
(* directory with one file per thread, tx_runner_n or rx_runner_n, with a  *)
(* header and a row per event.  Times are integers.                        *)
(***************************************************************************)
EXTENDS Integers, Sequences

CONSTANT None     \* a file that was never written

Event(from, to, id) == [start |-> from, end |-> to, id |-> id]

\* Rows of a thread's file; kind says by its name which side logged them.
\* header is FALSE for a file that was created and never flushed.
File(kind, rows) == [kind |-> kind, header |-> TRUE, rows |-> rows]

Run(span, files) == [span |-> span, files |-> files]

\* Every row of a run by its place.
Places(run, kind) ==
  {p \in UNION {{f} \X DOMAIN run.files[f].rows : f \in DOMAIN run.files} :
     run.files[p[1]].kind = kind}
At(run, p) == run.files[p[1]].rows[p[2]]
Ids(run, kind) == {At(run, p).id : p \in Places(run, kind)}

-----------------------------------------------------------------------------
(* What the aggregator needs of a run that completed.                      *)

InsideSpan(run) ==
  \A kind \in {"tx", "rx"} : \A p \in Places(run, kind) :
    /\ run.span[1] <= At(run, p).start /\ At(run, p).start <= At(run, p).end
    /\ At(run, p).end <= run.span[2]

\* No id is logged twice by the senders, nor twice by the receivers.
LoggedOnce(run) ==
  \A kind \in {"tx", "rx"} : \A p, q \in Places(run, kind) :
    At(run, p).id = At(run, q).id => p = q

SomethingMeasured(run) == Ids(run, "tx") \cap Ids(run, "rx") # {}

Clean(run) ==
  /\ run.span # None
  /\ \A f \in DOMAIN run.files : run.files[f].header
  /\ InsideSpan(run) /\ LoggedOnce(run) /\ SomethingMeasured(run)
=============================================================================
