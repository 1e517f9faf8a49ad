--------------------------- MODULE WindowedMetric ---------------------------
(***************************************************************************)
(* bench::aggregate::metric: values collected by the window of time they   *)
(* fall in, and what is reported of each window and of all of them.        *)
(*                                                                         *)
(* Times and values are integers.  A percentile is given in per mille and  *)
(* its result in thousandths, so that the interpolation is exact.          *)
(* generate fails on no value at all; CanGenerate says so.                 *)
(*                                                                         *)
(* A definition whose name begins with Bug is a variant of the one that    *)
(* follows it, with a mistake that the properties have to notice.          *)
(***************************************************************************)
EXTENDS Integers, Sequences, SequencesExt

CONSTANT Period

ASSUME PeriodAssumption == Period \in Nat \ {0}

\* Values in their order, one after the other put in its place.
Inserted(t, x) == InsertAt(t, Cardinality({i \in DOMAIN t : t[i] <= x}) + 1, x)
Sorted(s) == FoldLeft(Inserted, <<>>, s)
Total(s) == FoldLeft(+, 0, s)
Least(s) == Min(Range(s))
Greatest(s) == Last(Sorted(s))

\* v is sorted and not empty; the clamp of the upper index is the code's.
Bugpercentile(v, p) ==
  LET n == Len(v)
      target == p * n
      low == target \div 1000
      high == Min({(target + 999) \div 1000, n - 1})
      weight == target % 1000
  IN v[Min({low, n - 1}) + 1] * (1000 - weight) + v[high + 1] * weight
percentile(v, p) ==
  LET n == Len(v)
      target == p * (n - 1)
      low == target \div 1000
      high == Min({(target + 999) \div 1000, n - 1})
      weight == target % 1000
  IN v[low + 1] * (1000 - weight) + v[high + 1] * weight

-----------------------------------------------------------------------------
(* LazyWindowedMetric.                                                     *)

NBuckets(start, end) == Max({1, (end - start + Period - 1) \div Period})

New(start, end) ==
  [start |-> start, end |-> end, buckets |-> [i \in 1..NBuckets(start, end) |-> <<>>]]

\* Buckets count from 0.  Only the last one holds its end, and the cast to usize
\* takes a time before the start to 0.
BugBucketOf(m, time) == Max({0, (time - m.start) \div Period})
BucketOf(m, time) ==
  IF time = m.end THEN Len(m.buckets) - 1 ELSE Max({0, (time - m.start) \div Period})

InRange(m, time) == BucketOf(m, time) < Len(m.buckets)
Add(m, value, time) ==
  [m EXCEPT !.buckets[BucketOf(m, time) + 1] = Append(@, value)]

Filled(m) ==
  FoldLeftDomain(LAMBDA f, i : IF m.buckets[i] = <<>> THEN f ELSE Append(f, i), <<>>, m.buckets)
BugStarts(m) == [k \in DOMAIN Filled(m) |-> m.start + Filled(m)[k] * Period]
Starts(m) == [k \in DOMAIN Filled(m) |-> m.start + (Filled(m)[k] - 1) * Period]
PerBucket(m, Agg(_)) == [k \in DOMAIN Filled(m) |-> Agg(m.buckets[Filled(m)[k]])]

CanGenerate(m) == \E i \in DOMAIN m.buckets : m.buckets[i] # <<>>

\* The three overall percentiles are all computed with 0.5.
Generate(m) ==
  LET values == FlattenSeq(m.buckets)
      all == Sorted(values)
      PerMille(p) == PerBucket(m, LAMBDA s : percentile(Sorted(s), p))
  IN [t |-> Starts(m), count |-> Len(values), sum |-> Total(values), max |-> Greatest(all),
      p50 |-> PerMille(500), p99 |-> PerMille(990), p999 |-> PerMille(999),
      overall_p50 |-> percentile(all, 500), overall_p99 |-> percentile(all, 500),
      overall_p999 |-> percentile(all, 500)]

\* The mean of no window is not a number, which is no failure.
GenerateGauged(m, Agg(_)) ==
  [t |-> Starts(m), values |-> PerBucket(m, Agg)]
=============================================================================
