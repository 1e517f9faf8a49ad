---------------------------- MODULE MCAggregator ----------------------------
(***************************************************************************)
(* Instances of Aggregator for TLC: a run of two senders and one receiver  *)
(* with every choice of times, or two runs, one of which is good or has    *)
(* one of the defects an interrupted benchmark leaves.                     *)
(***************************************************************************)
EXTENDS Aggregator

CONSTANTS a, b

\* The threads of a run, by the names of their files; one is no thread's.
tx0 == "tx_runner_0"
tx1 == "tx_runner_1"
rx0 == "rx_runner_0"
notes == "notes"

Begin == 1
Times(end) == {<<s, e>> \in (Begin..end) \X (Begin..end) : s <= e}
Ev(t, id, len) == Event(t[1], t[2], id) @@ [len |-> len]
Ends == {1, 4, 5}

\* Ids 0, 2 and 3 were sent (1 was refused), 0 and perhaps the others received.
Good(end, s, r, more) ==
  Run(<<Begin, end>>,
      (tx0 :> File("tx", <<Ev(s, 2, 1)>>)) @@
      (tx1 :> File("tx", <<Ev(<<Begin, end>>, 0, 0), Ev(<<Begin, Begin>>, 3, 0)>>)) @@
      (rx0 :> File("rx", <<Ev(r, 0, 2)>> \o
                         (IF more THEN <<Ev(r, 2, 1), Ev(<<end, end>>, 3, 1)>> ELSE <<>>))))
GoodRuns ==
  UNION {{Good(end, s, r, more) :
            s \in Times(end), r \in Times(end), more \in BOOLEAN} : end \in Ends}

One(id, t) == <<Ev(t, id, 0)>>
OneRun(span, sent, received) ==
  Run(span, (tx0 :> File("tx", sent)) @@ (rx0 :> File("rx", received))
            @@ (notes :> File("other", <<>>)))
Fine == OneRun(<<1, 2>>, One(0, <<1, 1>>), One(0, <<1, 2>>))
BadRuns ==
  { OneRun(None, One(0, <<1, 1>>), <<>>),                            \* interrupted
    OneRun(<<1, 2>>, One(0, <<1, 1>>), <<>>),                        \* a log lost
    [Fine EXCEPT !.files[tx0] = [File("tx", <<>>) EXCEPT !.header = FALSE],
                 !.files[rx0] = [File("rx", <<>>) EXCEPT !.header = FALSE]],
    OneRun(<<1, 2>>, One(0, <<1, 1>>) \o One(0, <<2, 2>>), One(0, <<1, 2>>)),
    OneRun(<<1, 2>>, One(0, <<1, 5>>), One(0, <<1, 2>>)),            \* another run's span
    OneRun(<<4, 5>>, One(0, <<1, 2>>), One(0, <<1, 5>>)) }           \* and one not refused

MCInputs ==
  {a :> x : x \in GoodRuns} \cup
  {(a :> Fine) @@ (b :> y) : y \in {Fine} \cup BadRuns}
=============================================================================
