-------------------------- MODULE AggregatorProofs --------------------------
(***************************************************************************)
(* The aggregator matches every event, refuses no clean run, reports of    *)
(* each window what the rows that ended in it have logged, and accounts    *)
(* for every row.                                                          *)
(*                                                                         *)
(* A run is refused when an estimate of its length is below zero, when a   *)
(* row has no window or meets its own half, or when there is no value to   *)
(* take a percentile from.  For a clean run none of these happens: the     *)
(* first three follow from what was read so far (the invariant says which  *)
(* half of which event every row is, at any point of any order of files),  *)
(* the last from what the folds over rows and entries compute.             *)
(*                                                                         *)
(* What a fold computes is shown by induction over subsets, which is the   *)
(* argument of a least counterexample here: a set of the cases that hold   *)
(* stands where an induction theorem would take a predicate.  That no row  *)
(* is lost between the windows is shown by weighing: each way to give      *)
(* values a weight gives a metric the weight of its entries.               *)
(***************************************************************************)
EXTENDS Aggregator, FiniteSetTheorems, SequenceTheorems, WellFoundedInduction, TLAPS

-----------------------------------------------------------------------------
(* Induction and recursion over data.                                      *)

\* A set of naturals that is not empty has a least element.
LEMMA LeastNat ==
  ASSUME NEW T \in SUBSET Nat, T # {}
  PROVE  \E x \in T : \A y \in T : x <= y
  <1>. DEFINE R == {ss \in Nat \X Nat : ss[1] < ss[2]}
  <1>1. IsWellFoundedOn(R, Nat)
    BY NatLessThanWellFounded DEF OpToRel
  <1>. HIDE DEF R
  <1>2. PICK x \in T : \A y \in T : ~(<<y, x>> \in R)
    BY <1>1, WFMin
  <1>3. ASSUME NEW y \in T PROVE x <= y
    <2>1. ~(y < x)
      BY <1>2 DEF R
    <2>. QED
      BY <2>1
  <1>. QED
    BY <1>3

\* Induction: a set of naturals with 0 and every successor is all of them.
LEMMA AllNat ==
  ASSUME NEW T, 0 \in T, \A n \in Nat : n \in T => n + 1 \in T
  PROVE  \A n \in Nat : n \in T
  <1>. DEFINE B == {n \in Nat : n \notin T}
  <1>1. SUFFICES ASSUME B # {} PROVE FALSE
    OBVIOUS
  <1>2. PICK x \in B : \A y \in B : x <= y
    BY <1>1, LeastNat
  <1>3. x # 0 /\ x - 1 \in Nat /\ x - 1 \notin B
    BY <1>2
  <1>. QED
    BY <1>2, <1>3

\* What holds of no element, and goes on holding when one more is added, holds of all.
LEMMA SubsetInduction ==
  ASSUME NEW S, IsFiniteSet(S), NEW T, {} \in T,
         \A s \in SUBSET S : s # {} => \E x \in s : s \ {x} \in T => s \in T
  PROVE  S \in T
  <1>. DEFINE P == {n \in Nat : \A s \in SUBSET S : Cardinality(s) = n => s \in T}
  <1>1. \A s \in SUBSET S : IsFiniteSet(s) /\ Cardinality(s) \in Nat
    BY FS_Subset, FS_CardinalityType
  <1>2. 0 \in P
    BY <1>1, FS_EmptySet
  <1>3. ASSUME NEW n \in Nat, n \in P PROVE n + 1 \in P
    <2>1. SUFFICES ASSUME NEW s \in SUBSET S, Cardinality(s) = n + 1 PROVE s \in T
      OBVIOUS
    <2>2. s # {}
      <3>1. s = {} => Cardinality(s) = 0
        BY FS_EmptySet, Zenon
      <3>. QED
        BY <2>1, <3>1
    <2>3. PICK x \in s : s \ {x} \in T => s \in T
      BY <2>2
    <2>4. Cardinality(s \ {x}) = Cardinality(s) - 1
      BY <1>1, FS_RemoveElement
    <2>5. Cardinality(s \ {x}) = n /\ s \ {x} \in SUBSET S
      BY <2>1, <2>4
    <2>. QED
      BY <1>3, <2>3, <2>5
  <1>. HIDE DEF P
  <1>4. \A n \in Nat : n \in P
    BY <1>2, <1>3, AllNat
  <1>. QED
    BY <1>1, <1>4 DEF P

\* A function on the subsets of S, given by recursion on one element less.
Recursion(S, V, base, pick, step) ==
  /\ IsFiniteSet(S) /\ base \in V
  /\ \A s \in SUBSET S : s # {} => pick[s] \in s /\ \A v \in V : step[s][v] \in V

Solves(h, S, V, base, pick, step) ==
  /\ h \in [SUBSET S -> V]
  /\ \A s \in SUBSET S : h[s] = IF s = {} THEN base ELSE step[s][h[s \ {pick[s]}]]

\* Such a function exists.
LEMMA SubsetRecursion ==
  ASSUME NEW S, NEW V, NEW base, NEW pick, NEW step, Recursion(S, V, base, pick, step)
  PROVE  \E h : Solves(h, S, V, base, pick, step)
  <1>. USE DEF Recursion
  <1>. DEFINE D(n) == {s \in SUBSET S : Cardinality(s) <= n}
              Next1(h, s) == IF s = {} THEN base ELSE step[s][h[s \ {pick[s]}]]
              P == {n \in Nat : \E h \in [D(n) -> V] : \A s \in D(n) : h[s] = Next1(h, s)}
  <1>1. \A s \in SUBSET S : IsFiniteSet(s) /\ Cardinality(s) \in Nat
    BY FS_Subset, FS_CardinalityType
  <1>2. 0 \in P
    <2>1. \A s \in D(0) : s = {}
      BY <1>1, FS_EmptySet
    <2>2. [s \in D(0) |-> base] \in [D(0) -> V]
      OBVIOUS
    <2>. QED
      BY <2>1, <2>2
  <1>3. ASSUME NEW n \in Nat, n \in P PROVE n + 1 \in P
    <2>1. PICK h \in [D(n) -> V] : \A s \in D(n) : h[s] = Next1(h, s)
      BY <1>3
    <2>. DEFINE k == [s \in D(n + 1) |-> Next1(h, s)]
    <2>2. ASSUME NEW s \in D(n + 1), s # {} PROVE s \ {pick[s]} \in D(n)
      <3>1. pick[s] \in s /\ s \ {pick[s]} \in SUBSET S
        BY <2>2
      <3>2. Cardinality(s \ {pick[s]}) = Cardinality(s) - 1
        BY <1>1, <3>1, FS_RemoveElement
      <3>. QED
        BY <1>1, <3>1, <3>2
    <2>3. ASSUME NEW s \in D(n + 1) PROVE Next1(h, s) \in V
      <3>1. CASE s = {}
        BY <3>1
      <3>2. CASE s # {}
        <4>1. h[s \ {pick[s]}] \in V /\ s \in SUBSET S
          BY <2>2, <3>2
        <4>. QED
          BY <3>2, <4>1
      <3>. QED
        BY <3>1, <3>2
    <2>4. k \in [D(n + 1) -> V]
      BY <2>3
    <2>5. ASSUME NEW s \in D(n) PROVE s \in D(n + 1) /\ k[s] = h[s]
      <3>1. s \in D(n + 1)
        BY <1>1
      <3>2. k[s] = Next1(h, s)
        BY <3>1
      <3>3. h[s] = Next1(h, s)
        BY <2>1
      <3>. HIDE DEF Next1, D, k
      <3>. QED
        BY <3>1, <3>2, <3>3
    <2>6. ASSUME NEW s \in D(n + 1) PROVE k[s] = Next1(k, s)
      <3>1. k[s] = Next1(h, s)
        OBVIOUS
      <3>2. CASE s # {}
        <4>1. k[s \ {pick[s]}] = h[s \ {pick[s]}]
          BY <2>2, <2>5, <3>2
        <4>. HIDE DEF k, D
        <4>. QED
          BY <3>1, <4>1
      <3>. HIDE DEF k, D
      <3>. QED
        BY <3>1, <3>2
    <2>. HIDE DEF k, D, Next1
    <2>. QED
      BY <2>4, <2>6
  <1>. HIDE DEF P
  <1>4. Cardinality(S) \in Nat /\ Cardinality(S) \in P
    BY <1>1, <1>2, <1>3, AllNat
  <1>5. PICK h \in [D(Cardinality(S)) -> V] : \A s \in D(Cardinality(S)) : h[s] = Next1(h, s)
    BY <1>4 DEF P
  <1>6. D(Cardinality(S)) = SUBSET S
    BY FS_Subset
  <1>7. h \in [SUBSET S -> V] /\ \A s \in SUBSET S : h[s] = Next1(h, s)
    BY <1>5, <1>6
  <1>. QED
    BY <1>7 DEF Solves

\* A greatest element of a finite set of integers that is not empty.
LEMMA MaxOfFinite ==
  ASSUME NEW S \in SUBSET Int, IsFiniteSet(S), S # {}
  PROVE  Max(S) \in S
  <1>. DEFINE T == {s \in SUBSET S : s # {} => \E x \in s : \A y \in s : x >= y}
  <1>1. {} \in T
    OBVIOUS
  <1>2. ASSUME NEW s \in SUBSET S, s # {} PROVE \E x \in s : s \ {x} \in T => s \in T
    <2>1. PICK z \in s : TRUE
      BY <1>2
    <2>2. ASSUME s \ {z} \in T PROVE \E x \in s : \A y \in s : x >= y
      <3>1. CASE s \ {z} = {}
        BY <3>1
      <3>2. CASE s \ {z} # {}
        <4>1. PICK x \in s \ {z} : \A y \in s \ {z} : x >= y
          BY <2>2, <3>2
        <4>2. x \in Int /\ z \in Int
          OBVIOUS
        <4>3. CASE x >= z
          BY <4>1, <4>3
        <4>4. CASE z >= x
          BY <4>1, <4>4
        <4>. QED
          BY <4>2, <4>3, <4>4
      <3>. QED
        BY <3>1, <3>2
    <2>. QED
      BY <2>2
  <1>. HIDE DEF T
  <1>3. S \in T
    BY <1>1, <1>2, SubsetInduction
  <1>4. \E x \in S : \A y \in S : x >= y
    BY <1>3 DEF T
  <1>. QED
    BY <1>4 DEF Max

\* Folds over 1..n take the numbers in their order.
LEMMA MaxOfInterval ==
  ASSUME NEW k \in Nat \ {0}
  PROVE  Max(1..k) = k /\ (1..k) \ {k} = 1..(k - 1) /\ 1..k # {}
  <1>1. k \in 1..k /\ \A y \in 1..k : k >= y
    OBVIOUS
  <1>2. \A x \in 1..k : (\A y \in 1..k : x >= y) => x = k
    BY <1>1
  <1>3. Max(1..k) = k
    BY <1>1, <1>2 DEF Max
  <1>. QED
    BY <1>1, <1>3

\* A fold over 1..n by way of its subsets.
FoldsTo(h, n, V, base, step) ==
  /\ h \in [SUBSET (1..n) -> V]
  /\ \A s \in SUBSET (1..n) :
       h[s] = IF s = {} THEN base ELSE step[Max(s)][h[s \ {Max(s)}]]

\* There is such a fold.
LEMMA IntervalFold ==
  ASSUME NEW n \in Nat, NEW V, NEW base \in V, NEW step \in [1..n -> [V -> V]]
  PROVE  \E h : FoldsTo(h, n, V, base, step)
  <1>. DEFINE S == 1..n
              any == [s \in SUBSET S |-> Max(s)]
              step2 == [s \in SUBSET S |-> step[Max(s)]]
  <1>1. IsFiniteSet(S) /\ S \in SUBSET Int
    <2>1. 1 \in Int /\ n \in Int
      OBVIOUS
    <2>. QED
      BY <2>1, FS_Interval
  <1>2. ASSUME NEW s \in SUBSET S, s # {} PROVE Max(s) \in s
    <2>1. IsFiniteSet(s)
      BY <1>1, FS_Subset
    <2>2. s \in SUBSET Int
      BY <1>1
    <2>. QED
      BY <1>2, <2>1, <2>2, MaxOfFinite
  <1>3. \A s \in SUBSET S : any[s] = Max(s) /\ step2[s] = step[Max(s)]
    OBVIOUS
  <1>4. \A s \in SUBSET S : s # {} => any[s] \in s /\ \A v \in V : step2[s][v] \in V
    BY <1>2, <1>3
  <1>. HIDE DEF any, step2
  <1>5. Recursion(S, V, base, any, step2)
    BY <1>1, <1>4 DEF Recursion
  <1>6. PICK h : Solves(h, S, V, base, any, step2)
    BY <1>5, SubsetRecursion, Zenon
  <1>7. FoldsTo(h, n, V, base, step)
    BY <1>3, <1>6 DEF Solves, FoldsTo
  <1>. QED
    BY <1>7

\* A sum of numbers that are not negative is not negative.
LEMMA EstimateIsNat ==
  ASSUME NEW c, IsFiniteSet(DOMAIN run[c].files),
         \A f \in DOMAIN run[c].files : run[c].files[f].header /\ Len(run[c].files[f].rows) \in Nat
  PROVE  EstimatedLen(c) >= 0
  <1>. DEFINE S == DOMAIN run[c].files
              any(s) == CHOOSE f \in s : TRUE
              Rows(f) == IF run[c].files[f].header THEN Len(run[c].files[f].rows) ELSE -1
              Sum(h, s) == IF s = {} THEN 0 ELSE Rows(any(s)) + h[s \ {any(s)}]
              iter == CHOOSE h : h = [s \in SUBSET S |-> Sum(h, s)]
  <1>0. IsFiniteSet(S)
    OBVIOUS
  <1>1. EstimatedLen(c) = iter[S]
    BY DEF EstimatedLen, MapThenSumSet, MapThenFoldSet
  <1>2. ASSUME NEW s \in SUBSET S, s # {} PROVE any(s) \in s /\ Rows(any(s)) \in Nat
    BY <1>2
  <1>. HIDE DEF S, any, Rows
  <1>3. \E h : h = [s \in SUBSET S |-> Sum(h, s)]
    <2>. DEFINE pick == [s \in SUBSET S |-> any(s)]
                step == [s \in SUBSET S |-> [v \in Nat |-> Rows(any(s)) + v]]
    <2>1. \A s \in SUBSET S : s # {} => pick[s] \in s
      BY <1>2
    <2>2. \A s \in SUBSET S : s # {} => \A v \in Nat : step[s][v] \in Nat
      BY <1>2
    <2>. HIDE DEF pick, step
    <2>3. PICK h \in [SUBSET S -> Nat] :
            \A s \in SUBSET S : h[s] = IF s = {} THEN 0 ELSE step[s][h[s \ {pick[s]}]]
      <3>1. Recursion(S, Nat, 0, pick, step)
        BY <1>0, <2>1, <2>2 DEF Recursion
      <3>. QED
        <4>1. \E h : Solves(h, S, Nat, 0, pick, step)
          BY <3>1, SubsetRecursion, Zenon
        <4>. QED
          BY <4>1 DEF Solves
    <2>4. ASSUME NEW s \in SUBSET S PROVE h[s] = Sum(h, s)
      <3>1. CASE s = {}
        BY <2>3, <3>1
      <3>2. CASE s # {}
        <4>1. pick[s] = any(s) /\ h[s \ {any(s)}] \in Nat
          BY DEF pick
        <4>2. step[s][h[s \ {any(s)}]] = Rows(any(s)) + h[s \ {any(s)}]
          BY <4>1 DEF step
        <4>. QED
          BY <2>3, <3>2, <4>1, <4>2
      <3>. QED
        BY <3>1, <3>2
    <2>. HIDE DEF Sum
    <2>5. h = [s \in SUBSET S |-> Sum(h, s)]
      BY <2>4
    <2>. QED
      BY <2>5
  <1>4. iter = [s \in SUBSET S |-> Sum(iter, s)]
    <2>. HIDE DEF Sum
    <2>. QED
      BY <1>3
  <1>. HIDE DEF iter
  <1>5. \A s \in SUBSET S : iter[s] = Sum(iter, s)
    BY <1>4
  <1>6. iter[S] \in Nat
    <2>. DEFINE T == {s \in SUBSET S : iter[s] \in Nat}
    <2>1. {} \in T
      <3>1. iter[{}] = 0
        BY <1>5
      <3>. QED
        BY <3>1
    <2>2. ASSUME NEW s \in SUBSET S, s # {} PROVE \E x \in s : s \ {x} \in T => s \in T
      <3>1. any(s) \in s /\ Rows(any(s)) \in Nat
        BY <1>2, <2>2
      <3>2. iter[s] = Rows(any(s)) + iter[s \ {any(s)}]
        BY <1>5, <2>2
      <3>3. s \ {any(s)} \in T => s \in T
        BY <3>1, <3>2
      <3>. QED
        BY <3>1, <3>3
    <2>. HIDE DEF T
    <2>3. S \in T
      BY <1>0, <2>1, <2>2, SubsetInduction
    <2>. QED
      BY <2>3 DEF T
  <1>. QED
    BY <1>1, <1>6

-----------------------------------------------------------------------------
(* Windows of time.                                                        *)

\* Max, as resize and BucketOf use it.
LEMMA MaxOfTwo ==
  ASSUME NEW a \in Int, NEW b \in Int
  PROVE  Max({a, b}) = IF a >= b THEN a ELSE b
  <1>. DEFINE m == IF a >= b THEN a ELSE b
  <1>1. m \in {a, b} /\ \A y \in {a, b} : m >= y
    OBVIOUS
  <1>2. ASSUME NEW x \in {a, b}, \A y \in {a, b} : x >= y PROVE x = m
    BY <1>2
  <1>. HIDE DEF m
  <1>3. Max({a, b}) = m
    BY <1>1, <1>2 DEF Max
  <1>. QED
    BY <1>3 DEF m

\* A period later is a window later.
LEMMA Division ==
  ASSUME NEW a \in Int, NEW b \in Int, NEW P \in Nat, P > 0
  PROVE  /\ a \div P \in Int
         /\ a + P <= b => a \div P < b \div P
  <1>1. a \div P \in Int
    OBVIOUS
  <1>2. a + P <= b => a \div P < b \div P
    BY SMTT(30)
  <1>. QED
    BY <1>1, <1>2

\* What New makes, and Add keeps.
Metrics(start, end) ==
  [start : {start}, end : {end}, buckets : [1..NBuckets(start, end) -> Seq(Int)]]

\* new makes a window at least, and one for every period begun.
LEMMA NBucketsAtLeastOne ==
  ASSUME NEW start \in Int, NEW end \in Int
  PROVE  /\ NBuckets(start, end) \in Nat \ {0}
         /\ NBuckets(start, end) >= (end - start + Period - 1) \div Period
  <1>. DEFINE w == (end - start + Period - 1) \div Period
  <1>1. w \in Int
    BY PeriodAssumption, Division
  <1>. HIDE DEF w
  <1>2. Max({1, w}) = IF 1 >= w THEN 1 ELSE w
    BY <1>1, MaxOfTwo
  <1>3. NBuckets(start, end) = Max({1, w})
    BY DEF NBuckets, w
  <1>4. NBuckets(start, end) \in Nat \ {0} /\ NBuckets(start, end) >= w
    BY <1>1, <1>2, <1>3
  <1>. QED
    BY <1>4 DEF w

\* new makes empty windows.
LEMMA NewIsAMetric ==
  ASSUME NEW start, NEW end
  PROVE  New(start, end) \in Metrics(start, end)
  BY DEF New, Metrics

\* A time that is not after the end has a window, and so has what is in range.
LEMMA BucketOfTime ==
  ASSUME NEW start \in Int, NEW end \in Int, NEW m \in Metrics(start, end), NEW t \in Int
  PROVE  /\ t <= end => InRange(m, t)
         /\ InRange(m, t) => BucketOf(m, t) + 1 \in 1..NBuckets(start, end)
  <1>. DEFINE n == NBuckets(start, end)
  <1>1. n \in Nat \ {0} /\ n >= (end - start + Period - 1) \div Period
    BY NBucketsAtLeastOne
  <1>2. m.start = start /\ m.end = end /\ Len(m.buckets) = n
    <2>1. m.start = start /\ m.end = end /\ m.buckets \in [1..n -> Seq(Int)]
      BY DEF Metrics
    <2>. HIDE DEF n
    <2>. QED
      BY <1>1, <2>1
  <1>. HIDE DEF n
  <1>3. CASE t = end
    <2>1. BucketOf(m, t) = n - 1
      BY <1>2, <1>3 DEF BucketOf
    <2>. QED
      BY <1>1, <1>2, <2>1 DEF InRange, n
  <1>4. CASE t # end
    <2>. DEFINE q == (t - start) \div Period
                w == (end - start + Period - 1) \div Period
    <2>1. q \in Int /\ w \in Int /\ (t <= end => q < w)
      <3>1. t <= end => (t - start) + Period <= end - start + Period - 1
        BY <1>4, PeriodAssumption
      <3>2. t - start \in Int /\ end - start + Period - 1 \in Int /\ Period \in Nat /\ Period > 0
        BY PeriodAssumption
      <3>. QED
        BY <3>1, <3>2, Division
    <2>2. n >= w
      BY <1>1
    <2>3. BucketOf(m, t) = Max({0, q})
      BY <1>2, <1>4 DEF BucketOf
    <2>. HIDE DEF q, w
    <2>4. Max({0, q}) = IF 0 >= q THEN 0 ELSE q
      BY <2>1, MaxOfTwo
    <2>5. BucketOf(m, t) \in Nat /\ (t <= end => BucketOf(m, t) < n)
      BY <1>1, <2>1, <2>2, <2>3, <2>4
    <2>. QED
      BY <1>1, <1>2, <2>5 DEF InRange, n
  <1>. QED
    BY <1>3, <1>4

\* new has v at the end of window b, and the other windows as they were.
PutAt(new, m, v, b, n) ==
  /\ b \in 1..n
  /\ \A i \in 1..n :
       /\ m.buckets[i] \in Seq(Int)
       /\ new.buckets[i] = IF i = b THEN Append(m.buckets[i], v) ELSE m.buckets[i]

\* add puts the value at the end of the window of its time.
LEMMA AddIs ==
  ASSUME NEW start \in Int, NEW end \in Int, NEW m \in Metrics(start, end), NEW t \in Int,
         InRange(m, t), NEW v \in Int
  PROVE  /\ Add(m, v, t) \in Metrics(start, end)
         /\ PutAt(Add(m, v, t), m, v, BucketOf(m, t) + 1, NBuckets(start, end))
  <1>. DEFINE b == BucketOf(m, t) + 1
              n == NBuckets(start, end)
              W(bs) == [start |-> start, end |-> end, buckets |-> bs]
  <1>1. b \in 1..n
    BY BucketOfTime
  <1>2. PICK bs \in [1..n -> Seq(Int)] : m = W(bs)
    BY DEF Metrics
  <1>. DEFINE new == Append(bs[b], v)
  <1>3. Add(m, v, t) = [m EXCEPT !.buckets[b] = Append(m.buckets[b], v)]
    BY DEF Add
  <1>. HIDE DEF b, n
  <1>4. Add(m, v, t) = W([bs EXCEPT ![b] = new])
    <2>1. m.buckets = bs
      BY <1>2
    <2>2. \A x, y : [W(x) EXCEPT !.buckets[b] = y] = W([x EXCEPT ![b] = y])
      OBVIOUS
    <2>3. [m EXCEPT !.buckets[b] = new] = [W(bs) EXCEPT !.buckets[b] = new]
      BY <1>2, Zenon
    <2>4. Add(m, v, t) = [m EXCEPT !.buckets[b] = new]
      BY <1>3, <2>1
    <2>. HIDE DEF W, new
    <2>. QED
      BY <2>2, <2>3, <2>4
  <1>5. new \in Seq(Int)
    <2>1. bs[b] \in Seq(Int)
      BY <1>1
    <2>. QED
      BY <2>1, AppendProperties
  <1>6. \A i \in 1..n : /\ m.buckets[i] \in Seq(Int)
                        /\ Add(m, v, t).buckets[i] = IF i = b THEN Append(m.buckets[i], v)
                                                     ELSE m.buckets[i]
    <2>1. m.buckets = bs
      BY <1>2
    <2>3. Add(m, v, t).buckets = [bs EXCEPT ![b] = new]
      BY <1>4
    <2>2. \A i \in 1..n : [bs EXCEPT ![b] = new][i] = IF i = b THEN new ELSE bs[i]
      BY <1>1
    <2>. QED
      BY <2>1, <2>2, <2>3
  <1>. HIDE DEF new
  <1>7. [bs EXCEPT ![b] = new] \in [1..n -> Seq(Int)]
    BY <1>1, <1>5
  <1>8. Add(m, v, t) \in Metrics(start, end)
    BY <1>4, <1>7 DEF Metrics, n
  <1>. QED
    BY <1>1, <1>6, <1>8 DEF b, n, PutAt

-----------------------------------------------------------------------------
(* Entries and their metric.                                               *)

\* Values with their times.
Pairs == Int \X Int

\* p is a metric by way of its entries.
Collects(p, entries, start, end) ==
  /\ p \in [0..Len(entries) -> Metrics(start, end)] /\ p[0] = New(start, end)
  /\ \A k \in 1..Len(entries) : /\ InRange(p[k - 1], entries[k][2])
                                /\ p[k] = Add(p[k - 1], entries[k][1], entries[k][2])

\* Its metric is what is added up so.
LEMMA MetricCollects ==
  ASSUME NEW c, NEW start \in Int, NEW end \in Int, run[c].span = <<start, end>>,
         NEW entries \in Seq(Pairs), AllInRange(c, entries)
  PROVE  \E p : Collects(p, entries, start, end) /\ Metric(c, entries) = p[Len(entries)]
  <1>. DEFINE n == Len(entries)
              S == DOMAIN entries
              V == Metrics(start, end)
              base == New(start, end)
              Grow(m, k) == Add(m, entries[k][1], entries[k][2])
              Fold(h, r) == IF r = {} THEN base ELSE Grow(h[r \ {Max(r)}], Max(r))
              iter == CHOOSE h : h = [r \in SUBSET S |-> Fold(h, r)]
              step == [k \in 1..n |-> [m \in V |-> Grow(m, k)]]
  <1>1. Metric(c, entries) = iter[S]
    BY DEF Metric, FoldLeft, MapThenFoldSet
  <1>2. n \in Nat /\ S = 1..n
    OBVIOUS
  <1>3. base \in V
    BY NewIsAMetric
  <1>4. ASSUME NEW k \in 1..n, NEW m \in V
        PROVE  InRange(m, entries[k][2]) /\ Grow(m, k) \in V
    <2>1. entries[k] \in Int \X Int
      BY <1>2 DEF Pairs
    <2>2. InRange(base, entries[k][2])
      BY <1>2 DEF AllInRange
    <2>3. InRange(m, entries[k][2])
      <3>1. ASSUME NEW x \in V
            PROVE  x.start = start /\ x.end = end /\ Len(x.buckets) = NBuckets(start, end)
        <4>1. x.start = start /\ x.end = end /\ x.buckets \in [1..NBuckets(start, end) -> Seq(Int)]
          BY DEF Metrics
        <4>2. NBuckets(start, end) \in Nat
          BY NBucketsAtLeastOne
        <4>. QED
          BY <4>1, <4>2
      <3>. HIDE DEF V, base
      <3>2. BucketOf(m, entries[k][2]) = BucketOf(base, entries[k][2])
        BY <1>3, <3>1 DEF BucketOf
      <3>. QED
        BY <1>3, <2>2, <3>1, <3>2 DEF InRange
    <2>. QED
      BY <2>1, <2>3, AddIs
  <1>5. \A k \in 1..n : \A m \in V : step[k][m] = Grow(m, k)
    OBVIOUS
  <1>6. step \in [1..n -> [V -> V]]
    BY <1>4
  <1>. HIDE DEF n, S, V, base, Grow, step
  <1>7. PICK h : FoldsTo(h, n, V, base, step)
    BY <1>2, <1>3, <1>6, IntervalFold
  <1>8. ASSUME NEW r \in SUBSET S, r # {} PROVE Max(r) \in r
    <2>1. IsFiniteSet(S)
      <3>1. 1 \in Int /\ n \in Int
        BY <1>2
      <3>. QED
        BY <1>2, <3>1, FS_Interval
    <2>2. IsFiniteSet(r)
      BY <2>1, FS_Subset
    <2>3. r \in SUBSET Int
      BY <1>2
    <2>. QED
      BY <1>8, <2>2, <2>3, MaxOfFinite
  <1>9. ASSUME NEW r \in SUBSET S PROVE h[r] = Fold(h, r)
    <2>1. h[r] = IF r = {} THEN base ELSE step[Max(r)][h[r \ {Max(r)}]]
      BY <1>2, <1>7 DEF FoldsTo
    <2>2. h[r \ {Max(r)}] \in V
      BY <1>2, <1>7 DEF FoldsTo
    <2>. QED
      BY <1>2, <1>5, <1>8, <2>1, <2>2
  <1>10. \A r \in SUBSET S : iter[r] = Fold(iter, r)
    <2>. HIDE DEF Fold
    <2>1. h = [r \in SUBSET S |-> Fold(h, r)]
      BY <1>2, <1>7, <1>9 DEF FoldsTo
    <2>2. iter = [r \in SUBSET S |-> Fold(iter, r)]
      BY <2>1
    <2>. HIDE DEF iter
    <2>. QED
      BY <2>2
  <1>. HIDE DEF iter
  <1>. DEFINE p == [k \in 0..n |-> iter[1..k]]
              P == {k \in Nat : k <= n => p[k] \in V}
  <1>11. p[0] = base
    <2>1. 1..0 = {} /\ {} \in SUBSET S /\ 0 \in 0..n
      BY <1>2
    <2>. QED
      BY <1>10, <2>1
  <1>12. ASSUME NEW k \in Nat, k + 1 <= n PROVE p[k + 1] = Grow(p[k], k + 1)
    <2>1. /\ Max(1..(k + 1)) = k + 1 /\ (1..(k + 1)) \ {k + 1} = 1..k
          /\ 1..(k + 1) # {}
      <3>1. k + 1 \in Nat \ {0} /\ (k + 1) - 1 = k
        OBVIOUS
      <3>. QED
        BY <3>1, MaxOfInterval
    <2>2. 1..(k + 1) \in SUBSET S /\ k + 1 \in 0..n /\ k \in 0..n
      BY <1>2, <1>12
    <2>. QED
      BY <1>10, <2>1, <2>2
  <1>. HIDE DEF p, Fold
  <1>13. ASSUME NEW k \in Nat, k \in P PROVE k + 1 \in P
    <2>1. SUFFICES ASSUME k + 1 <= n PROVE p[k + 1] \in V
      OBVIOUS
    <2>2. k + 1 \in 1..n /\ p[k] \in V
      BY <1>2, <1>13, <2>1
    <2>. QED
      BY <1>4, <1>12, <2>1, <2>2
  <1>14. 0 \in P
    BY <1>3, <1>11
  <1>. HIDE DEF P
  <1>15. \A k \in Nat : k \in P
    BY <1>13, <1>14, AllNat
  <1>16. \A k \in 0..n : p[k] \in V
    BY <1>2, <1>15 DEF P
  <1>17. ASSUME NEW k \in 1..n
         PROVE  InRange(p[k - 1], entries[k][2]) /\ p[k] = Grow(p[k - 1], k)
    <2>1. k - 1 \in Nat /\ (k - 1) + 1 = k /\ k <= n /\ k - 1 \in 0..n
      BY <1>2
    <2>. QED
      BY <1>4, <1>12, <1>16, <2>1
  <1>18. p \in [0..n -> V] /\ p[n] = iter[S]
    BY <1>2, <1>16 DEF p
  <1>. QED
    BY <1>1, <1>11, <1>17, <1>18 DEF Collects, n, V, base, Grow

\* One entry is enough to report.
LEMMA MetricOfEntries ==
  ASSUME NEW c, NEW start \in Int, NEW end \in Int, run[c].span = <<start, end>>,
         NEW entries \in Seq(Pairs), entries # <<>>, AllInRange(c, entries)
  PROVE  CanGenerate(Metric(c, entries))
  <1>. DEFINE n == Len(entries)
              N == NBuckets(start, end)
              v == entries[n][1]
              t == entries[n][2]
  <1>1. n \in Nat /\ n \in 1..n /\ n - 1 \in 0..n /\ n \in 0..n
    <2>1. n \in Nat /\ n # 0
      BY EmptySeq
    <2>. QED
      BY <2>1
  <1>2. v \in Int /\ t \in Int
    <2>1. entries[n] \in Pairs
      BY <1>1
    <2>. QED
      BY <2>1 DEF Pairs
  <1>3. PICK p : Collects(p, entries, start, end) /\ Metric(c, entries) = p[n]
    BY MetricCollects
  <1>4. /\ p[n - 1] \in Metrics(start, end) /\ p[n] \in Metrics(start, end)
        /\ InRange(p[n - 1], t) /\ p[n] = Add(p[n - 1], v, t)
    BY <1>1, <1>3 DEF Collects
  <1>. DEFINE m == p[n - 1]
              b == BucketOf(m, t) + 1
  <1>. HIDE DEF n, v, t, m
  <1>5. m \in Metrics(start, end) /\ InRange(m, t) /\ p[n] = Add(m, v, t)
    BY <1>4 DEF m
  <1>6. PutAt(Add(m, v, t), m, v, b, N)
    BY <1>2, <1>5, AddIs
  <1>. HIDE DEF b, N
  <1>7. /\ b \in 1..N /\ m.buckets[b] \in Seq(Int)
        /\ p[n].buckets[b] = Append(m.buckets[b], v)
    BY <1>5, <1>6 DEF PutAt
  <1>8. p[n].buckets[b] # <<>>
    BY <1>2, <1>7, AppendProperties
  <1>9. DOMAIN p[n].buckets = 1..N
    BY <1>4 DEF Metrics, N
  <1>. QED
    BY <1>3, <1>7, <1>8, <1>9 DEF CanGenerate

\* Two sequences one after the other.
LEMMA Concatenated ==
  ASSUME NEW V, NEW a \in Seq(V), NEW b \in Seq(V)
  PROVE  a \o b \in Seq(V) /\ (a # <<>> \/ b # <<>> => a \o b # <<>>)
  <1>1. a \o b \in Seq(V) /\ Len(a \o b) = Len(a) + Len(b)
    BY ConcatProperties
  <1>2. Len(a) \in Nat /\ Len(b) \in Nat
    OBVIOUS
  <1>3. (a # <<>> => Len(a) # 0) /\ (b # <<>> => Len(b) # 0)
    BY EmptySeq
  <1>4. a \o b = <<>> => Len(a \o b) = 0
    BY EmptySeq
  <1>. QED
    BY <1>1, <1>2, <1>3, <1>4

\* Each of the sequences is joined to those before it.
Flattens(g, seqs, N, V) ==
  /\ g \in [1..N -> Seq(V)]
  /\ \A i \in 1..N : g[i] = IF i = 1 THEN seqs[i] ELSE g[i - 1] \o seqs[i]

\* FlattenSeq joins sequences in this way.
LEMMA FlattenIs ==
  ASSUME NEW V, NEW N \in Nat, NEW seqs \in [1..N -> Seq(V)]
  PROVE  /\ N = 0 => FlattenSeq(seqs) = <<>>
         /\ N # 0 => \E g : Flattens(g, seqs, N, V) /\ FlattenSeq(seqs) = g[N]
  <1>. DEFINE Join(h, i) == IF i = 1 THEN seqs[i] ELSE h[i - 1] \o seqs[i]
              flatten == CHOOSE h : h = [i \in 1..N |-> Join(h, i)]
  <1>1. Len(seqs) = N /\ seqs \in Seq(Seq(V))
    OBVIOUS
  <1>2. CASE N = 0
    <2>1. FlattenSeq(seqs) = seqs
      BY <1>1, <1>2 DEF FlattenSeq
    <2>2. seqs = <<>>
      BY <1>2
    <2>. QED
      BY <1>2, <2>1, <2>2
  <1>3. CASE N # 0
    <2>1. FlattenSeq(seqs) = flatten[N]
      BY <1>1, <1>3 DEF FlattenSeq
    <2>2. PICK h \in [1..N -> Seq(V)] : \A i \in 1..N : h[i] = Join(h, i)
      <3>. DEFINE P == {n \in Nat : \E h \in [1..n -> Seq(V)] :
                                      n <= N => \A i \in 1..n : h[i] = Join(h, i)}
      <3>1. 0 \in P
        <4>1. [i \in 1..0 |-> <<>>] \in [1..0 -> Seq(V)]
          OBVIOUS
        <4>2. \A h1 : \A i \in 1..0 : h1[i] = Join(h1, i)
          OBVIOUS
        <4>. HIDE DEF Join
        <4>. QED
          BY <4>1, <4>2
      <3>2. ASSUME NEW n \in Nat, n \in P PROVE n + 1 \in P
        <4>1. PICK h \in [1..n -> Seq(V)] : n <= N => \A i \in 1..n : h[i] = Join(h, i)
          BY <3>2
        <4>2. CASE n + 1 <= N
          <5>. DEFINE k == [i \in 1..(n + 1) |-> IF i <= n THEN h[i] ELSE Join(h, i)]
          <5>1. seqs[n + 1] \in Seq(V)
            BY <4>2
          <5>2. Join(h, n + 1) \in Seq(V)
            <6>1. CASE n = 0
              BY <5>1, <6>1
            <6>2. CASE n # 0
              <7>1. n + 1 # 1 /\ (n + 1) - 1 = n /\ n \in 1..n
                BY <6>2
              <7>2. h[n] \in Seq(V) /\ Join(h, n + 1) = h[n] \o seqs[n + 1]
                BY <7>1
              <7>. QED
                BY <5>1, <7>2, Concatenated
            <6>. QED
              BY <6>1, <6>2
          <5>3. k \in [1..(n + 1) -> Seq(V)]
            <6>. HIDE DEF Join
            <6>. QED
              BY <5>2
          <5>4. ASSUME NEW i \in 1..(n + 1) PROVE k[i] = Join(k, i)
            <6>1. k[i] = Join(h, i)
              <7>. HIDE DEF Join
              <7>. QED
                BY <4>1, <4>2
            <6>2. i # 1 => h[i - 1] = k[i - 1]
              <7>. HIDE DEF Join
              <7>. QED
                OBVIOUS
            <6>. HIDE DEF k
            <6>. QED
              BY <6>1, <6>2
          <5>. HIDE DEF k, Join
          <5>. QED
            BY <5>3, <5>4
        <4>3. CASE ~(n + 1 <= N)
          <5>1. \E h2 \in [1..(n + 1) -> Seq(V)] : TRUE
            <6>1. [i \in 1..(n + 1) |-> <<>>] \in [1..(n + 1) -> Seq(V)]
              OBVIOUS
            <6>. QED
              BY <6>1
          <5>. HIDE DEF Join
          <5>. QED
            BY <4>3, <5>1
        <4>. QED
          BY <4>2, <4>3
      <3>. HIDE DEF P
      <3>3. N \in P
        BY <3>1, <3>2, AllNat
      <3>. HIDE DEF Join
      <3>. QED
        BY <3>3 DEF P
    <2>3. flatten = [i \in 1..N |-> Join(flatten, i)]
      <3>. HIDE DEF Join
      <3>1. h = [i \in 1..N |-> Join(h, i)]
        BY <2>2
      <3>. QED
        BY <3>1
    <2>. HIDE DEF flatten
    <2>4. \A i \in 1..N : flatten[i] = Join(flatten, i)
      <3>. HIDE DEF Join
      <3>. QED
        BY <2>3
    <2>. DEFINE Q == {n \in Nat : n \in 1..N => flatten[n] \in Seq(V)}
    <2>5. 0 \in Q
      OBVIOUS
    <2>6. ASSUME NEW n \in Nat, n \in Q PROVE n + 1 \in Q
      <3>1. SUFFICES ASSUME n + 1 \in 1..N PROVE flatten[n + 1] \in Seq(V)
        OBVIOUS
      <3>2. seqs[n + 1] \in Seq(V) /\ flatten[n + 1] = Join(flatten, n + 1)
        BY <2>4, <3>1
      <3>3. CASE n = 0
        BY <3>2, <3>3
      <3>4. CASE n # 0
        <4>1. flatten[n] \in Seq(V)
          BY <2>6, <3>1, <3>4
        <4>2. flatten[n + 1] = flatten[n] \o seqs[n + 1]
          <5>1. n + 1 # 1 /\ (n + 1) - 1 = n
            BY <3>4
          <5>. QED
            BY <3>2, <5>1
        <4>. QED
          BY <3>2, <4>1, <4>2, Concatenated
      <3>. QED
        BY <3>3, <3>4
    <2>. HIDE DEF Q
    <2>7. \A n \in Nat : n \in Q
      BY <2>5, <2>6, AllNat
    <2>9. \A n \in 1..N : flatten[n] \in Seq(V)
      BY <2>7 DEF Q
    <2>8. flatten \in [1..N -> Seq(V)]
      <3>. HIDE DEF Join
      <3>. QED
        BY <2>3, <2>9
    <2>. QED
      BY <1>3, <2>1, <2>4, <2>8 DEF Flattens
  <1>. QED
    BY <1>2, <1>3

\* Sequences one after the other: the elements are theirs, and there is one if one
\* of them has one.
LEMMA Flattened ==
  ASSUME NEW V, NEW N \in Nat, NEW seqs \in [1..N -> Seq(V)]
  PROVE  /\ FlattenSeq(seqs) \in Seq(V)
         /\ (\E i \in 1..N : seqs[i] # <<>>) => FlattenSeq(seqs) # <<>>
  <1>1. CASE N = 0
    <2>1. FlattenSeq(seqs) = <<>>
      BY <1>1, FlattenIs
    <2>2. <<>> \in Seq(V) /\ 1..0 = {}
      OBVIOUS
    <2>. QED
      BY <1>1, <2>1, <2>2
  <1>2. CASE N # 0
    <2>1. PICK g : Flattens(g, seqs, N, V) /\ FlattenSeq(seqs) = g[N]
      BY <1>2, FlattenIs
    <2>. DEFINE Some(i) == \E j \in 1..i : seqs[j] # <<>>
                Q == {n \in Nat : n \in 1..N => (Some(n) => g[n] # <<>>)}
    <2>2. 0 \in Q
      OBVIOUS
    <2>3. ASSUME NEW n \in Nat, n \in Q PROVE n + 1 \in Q
      <3>1. SUFFICES ASSUME n + 1 \in 1..N, Some(n + 1) PROVE g[n + 1] # <<>>
        OBVIOUS
      <3>2. seqs[n + 1] \in Seq(V)
        BY <3>1
      <3>3. CASE n = 0
        BY <2>1, <3>1, <3>3 DEF Flattens
      <3>4. CASE n # 0
        <4>1. n \in 1..N /\ n + 1 # 1 /\ (n + 1) - 1 = n
          BY <3>1, <3>4
        <4>2. g[n] \in Seq(V) /\ g[n + 1] = g[n] \o seqs[n + 1]
          BY <2>1, <3>1, <4>1 DEF Flattens
        <4>3. Some(n) \/ seqs[n + 1] # <<>>
          <5>1. PICK j \in 1..(n + 1) : seqs[j] # <<>>
            BY <3>1
          <5>2. j \in 1..n \/ j = n + 1
            OBVIOUS
          <5>. QED
            BY <5>1, <5>2
        <4>4. Some(n) => g[n] # <<>>
          BY <2>3, <4>1
        <4>. HIDE DEF Some
        <4>. QED
          BY <3>2, <4>2, <4>3, <4>4, Concatenated
      <3>. QED
        BY <3>3, <3>4
    <2>. HIDE DEF Q
    <2>4. N \in 1..N /\ \A n \in Nat : n \in Q
      <3>1. \A n \in Nat : n \in Q
        BY <2>2, <2>3, AllNat
      <3>. QED
        BY <1>2, <3>1
    <2>. QED
      BY <2>1, <2>4 DEF Q, Flattens
  <1>. QED
    BY <1>1, <1>2

-----------------------------------------------------------------------------
(* The invariant.                                                          *)

JobStates == {"start", "files", "rows", "save", "push", "done", "failed"}
Halves == RowType \cup {None}

\* The places of the rows that the job has read.
AllPlaces(r) == Places(r, "tx") \cup Places(r, "rx")
Seen(c) ==
  {p \in AllPlaces(run[c]) :
     p[1] \notin unread[c] /\ (pc[c] = "rows" /\ p[1] = file[c] => p[2] < next[c])}

\* The side whose half of an event the row at a place is.
SideAt(r, p) == IF r.files[p[1]].kind = "tx" THEN 1 ELSE 2

\* The halves of the events are the rows at these places, each under its id.
EventsFit(r, places, evs) ==
  /\ \E n \in Nat : evs \in [0..(n - 1) -> Halves \X Halves]
  /\ \A p \in places :
       At(r, p).id \in DOMAIN evs /\ evs[At(r, p).id][SideAt(r, p)] = At(r, p)
  /\ \A i \in DOMAIN evs : \A s \in {1, 2} : evs[i][s] # None =>
       \E p \in places : SideAt(r, p) = s /\ At(r, p) = evs[i][s] /\ At(r, p).id = i

Reading(c) ==
  /\ file[c] \in DOMAIN run[c].files \ unread[c]
  /\ run[c].files[file[c]].kind \in {"tx", "rx"} /\ next[c] \in Nat \ {0}

JobFits(c) ==
  /\ pc[c] \in JobStates
  /\ unread[c] \subseteq DOMAIN run[c].files
  /\ pc[c] = "rows" => Reading(c)
  /\ pc[c] \notin {"start", "failed"} =>
       run[c].span # None /\ bp[c] \in Metrics(run[c].span[1], run[c].span[2])
  /\ pc[c] # "failed" => EventsFit(run[c], Seen(c), events[c])
  /\ Summarised(c) => unread[c] = {}
  /\ pc[c] \in {"push", "done"} => c \in saved
  /\ main # "scope" => pc[c] \in {"done", "failed"}

Inv ==
  /\ run \in Inputs
  /\ DOMAIN pc = Configs /\ DOMAIN unread = Configs /\ DOMAIN file = Configs
  /\ DOMAIN next = Configs /\ DOMAIN events = Configs /\ DOMAIN bp = Configs
  /\ \A c \in Configs : JobFits(c)
  /\ CleanRunsAggregate

-----------------------------------------------------------------------------
(* What is on disk.                                                        *)

\* A place is a file of the run and a row of it.
LEMMA PlacesAre ==
  ASSUME NEW r, NEW kind, NEW p
  PROVE  p \in Places(r, kind) <=>
           /\ p = <<p[1], p[2]>> /\ p[1] \in DOMAIN r.files
           /\ p[2] \in DOMAIN r.files[p[1]].rows /\ r.files[p[1]].kind = kind
  BY DEF Places

\* What a run on disk is made of.
LEMMA RowsOfRuns ==
  ASSUME run \in Inputs, NEW c \in Configs
  PROVE  /\ run[c].span # None => run[c].span \in Nat \X Nat
         /\ IsFiniteSet(DOMAIN run[c].files)
         /\ \A f \in DOMAIN run[c].files :
              /\ run[c].files[f].kind \in {"tx", "rx", "other"}
              /\ run[c].files[f].header \in BOOLEAN
              /\ run[c].files[f].rows \in Seq(RowType)
  <1>1. RunType(run[c])
    BY AggregatorAssumption DEF Configs
  <1>. QED
    BY <1>1 DEF RunType, FileType

\* At a place there is a row.
LEMMA RowAtPlace ==
  ASSUME run \in Inputs, NEW c \in Configs, NEW p \in AllPlaces(run[c])
  PROVE  /\ At(run[c], p) \in RowType /\ At(run[c], p) # None
         /\ At(run[c], p).id \in Nat /\ At(run[c], p).start \in Nat /\ At(run[c], p).end \in Nat
         /\ p[1] \in DOMAIN run[c].files /\ run[c].files[p[1]].kind \in {"tx", "rx"}
         /\ p[2] \in 1..Len(run[c].files[p[1]].rows) /\ p = <<p[1], p[2]>>
         /\ p \in Places(run[c], run[c].files[p[1]].kind)
  <1>1. /\ p = <<p[1], p[2]>> /\ p[1] \in DOMAIN run[c].files
        /\ p[2] \in DOMAIN run[c].files[p[1]].rows /\ run[c].files[p[1]].kind \in {"tx", "rx"}
    BY PlacesAre DEF AllPlaces
  <1>2. run[c].files[p[1]].rows \in Seq(RowType)
    BY <1>1, RowsOfRuns
  <1>3. p[2] \in 1..Len(run[c].files[p[1]].rows)
    BY <1>1, <1>2
  <1>4. At(run[c], p) \in RowType
    BY <1>2, <1>3 DEF At
  <1>5. At(run[c], p) # None
    BY <1>4, AggregatorAssumption
  <1>6. /\ At(run[c], p).id \in Nat /\ At(run[c], p).start \in Nat
        /\ At(run[c], p).end \in Nat
    BY <1>4 DEF RowType
  <1>7. p \in Places(run[c], run[c].files[p[1]].kind)
    BY <1>1, PlacesAre
  <1>. QED
    BY <1>1, <1>3, <1>4, <1>5, <1>6, <1>7

\* Of events that fit all rows, each has the row of its sender and that of its
\* receiver, and the half of a side that logged none is empty.
LEMMA EventsAreRows ==
  ASSUME run \in Inputs, NEW c \in Configs, NEW evs, EventsFit(run[c], AllPlaces(run[c]), evs)
  PROVE  /\ Ids(run[c], "tx") \cup Ids(run[c], "rx") \subseteq DOMAIN evs
         /\ \A i \in DOMAIN evs :
              /\ RowsOf(run[c], "tx", i) = {evs[i][1]} \ {None}
              /\ RowsOf(run[c], "rx", i) = {evs[i][2]} \ {None}
  <1>1. ASSUME NEW kind \in {"tx", "rx"}, NEW p \in Places(run[c], kind)
        PROVE  /\ At(run[c], p).id \in DOMAIN evs /\ At(run[c], p) # None
               /\ evs[At(run[c], p).id][IF kind = "tx" THEN 1 ELSE 2] = At(run[c], p)
    <2>1. p \in AllPlaces(run[c]) /\ run[c].files[p[1]].kind = kind
      BY PlacesAre DEF AllPlaces
    <2>2. SideAt(run[c], p) = IF kind = "tx" THEN 1 ELSE 2
      BY <2>1 DEF SideAt
    <2>. QED
      BY <2>1, <2>2, RowAtPlace DEF EventsFit
  <1>2. Ids(run[c], "tx") \cup Ids(run[c], "rx") \subseteq DOMAIN evs
    BY <1>1 DEF Ids
  <1>3. ASSUME NEW kind \in {"tx", "rx"}, NEW i \in DOMAIN evs
        PROVE  RowsOf(run[c], kind, i) = {evs[i][IF kind = "tx" THEN 1 ELSE 2]} \ {None}
    <2>. DEFINE s == IF kind = "tx" THEN 1 ELSE 2
    <2>1. ASSUME NEW e \in RowsOf(run[c], kind, i) PROVE e = evs[i][s] /\ e # None
      BY <1>1 DEF RowsOf
    <2>2. ASSUME evs[i][s] # None PROVE evs[i][s] \in RowsOf(run[c], kind, i)
      <3>1. s \in {1, 2}
        OBVIOUS
      <3>2. PICK p \in AllPlaces(run[c]) :
               SideAt(run[c], p) = s /\ At(run[c], p) = evs[i][s] /\ At(run[c], p).id = i
        BY <1>1, <2>2, <3>1 DEF EventsFit
      <3>3. /\ p \in Places(run[c], run[c].files[p[1]].kind)
            /\ run[c].files[p[1]].kind \in {"tx", "rx"}
        BY <1>1, RowAtPlace
      <3>4. run[c].files[p[1]].kind = kind
        BY <3>2, <3>3 DEF SideAt
      <3>. QED
        BY <3>2, <3>3, <3>4 DEF RowsOf
    <2>. HIDE DEF s
    <2>3. RowsOf(run[c], kind, i) = {evs[i][s]} \ {None}
      BY <2>1, <2>2
    <2>. QED
      BY <2>3 DEF s
  <1>. QED
    BY <1>2, <1>3

\* The row that is read next, and its place.
LEMMA RowIsNext ==
  ASSUME run \in Inputs, NEW c \in Configs, Reading(c), MoreRows(c)
  PROVE  /\ <<file[c], next[c]>> \in AllPlaces(run[c])
         /\ Row(c) = At(run[c], <<file[c], next[c]>>)
         /\ Half(c) = SideAt(run[c], <<file[c], next[c]>>)
         /\ Row(c) \in RowType
  <1>1. run[c].files[file[c]].rows \in Seq(RowType)
    BY RowsOfRuns DEF Reading
  <1>2. next[c] \in DOMAIN run[c].files[file[c]].rows
    BY <1>1 DEF Reading, MoreRows
  <1>3. <<file[c], next[c]>> \in AllPlaces(run[c])
    BY <1>2, PlacesAre DEF Reading, AllPlaces
  <1>4. Row(c) = At(run[c], <<file[c], next[c]>>)
    BY DEF Row, At
  <1>5. Half(c) = SideAt(run[c], <<file[c], next[c]>>)
    BY DEF Half, SideAt
  <1>6. Row(c) \in RowType
    BY <1>3, <1>4, RowAtPlace
  <1>. QED
    BY <1>3, <1>4, <1>5, <1>6

-----------------------------------------------------------------------------
(* A clean run is never refused.                                           *)

\* Every file of a clean run has its header: the estimate of its length is no wrapped one.
LEMMA CleanOpens ==
  ASSUME run \in Inputs, NEW c \in Configs, Clean(run[c])
  PROVE  Opens(c)
  <1>1. IsFiniteSet(DOMAIN run[c].files) /\ \A f \in DOMAIN run[c].files :
          run[c].files[f].header /\ Len(run[c].files[f].rows) \in Nat
    <2>1. ASSUME NEW f \in DOMAIN run[c].files PROVE Len(run[c].files[f].rows) \in Nat
      <3>1. run[c].files[f].rows \in Seq(RowType)
        BY RowsOfRuns
      <3>. QED
        BY <3>1
    <2>. QED
      BY <2>1, RowsOfRuns DEF Clean
  <1>2. EstimatedLen(c) >= 0
    BY <1>1, EstimateIsNat
  <1>. QED
    BY <1>2 DEF Opens, Clean

\* Where the rows of a clean run lie in time.
LEMMA CleanRow ==
  ASSUME run \in Inputs, NEW c \in Configs, Clean(run[c]), NEW p \in AllPlaces(run[c])
  PROVE  /\ run[c].span \in Nat \X Nat
         /\ At(run[c], p).start <= run[c].span[2] /\ At(run[c], p).end <= run[c].span[2]
  <1>1. run[c].span \in Nat \X Nat
    BY RowsOfRuns DEF Clean
  <1>2. /\ At(run[c], p).start <= At(run[c], p).end
        /\ At(run[c], p).end <= run[c].span[2]
    BY DEF Clean, InsideSpan, AllPlaces
  <1>3. At(run[c], p).start \in Nat /\ At(run[c], p).end \in Nat
    BY RowAtPlace
  <1>. QED
    BY <1>1, <1>2, <1>3

\* constructed_events.len(), of events counted from 0.
LEMMA CountFromZero ==
  ASSUME NEW n \in Nat
  PROVE  Cardinality(0..(n - 1)) = n
  <1>1. CASE n = 0
    <2>1. 0..(n - 1) = {}
      BY <1>1
    <2>2. Cardinality(0..(n - 1)) = 0
      BY <2>1, FS_EmptySet, Zenon
    <2>. QED
      BY <1>1, <2>2
  <1>2. CASE n # 0
    BY <1>2, FS_Interval
  <1>. QED
    BY <1>1, <1>2

\* resize leaves room for the id of the row, and what was there.
LEMMA Grows ==
  ASSUME NEW c, Row(c) \in RowType,
         NEW n \in Nat, events[c] \in [0..(n - 1) -> Halves \X Halves]
  PROVE  \E m \in Nat :
           /\ Grown(c) \in [0..(m - 1) -> Halves \X Halves]
           /\ Row(c).id \in DOMAIN Grown(c) /\ DOMAIN events[c] \subseteq DOMAIN Grown(c)
           /\ \A i \in DOMAIN Grown(c) :
                Grown(c)[i] = IF i \in DOMAIN events[c] THEN events[c][i] ELSE Empty
  <1>. DEFINE to == Max({Cardinality(DOMAIN events[c]) - 1, Row(c).id})
  <1>2. Cardinality(DOMAIN events[c]) = n
    <2>1. DOMAIN events[c] = 0..(n - 1)
      OBVIOUS
    <2>. QED
      BY <2>1, CountFromZero, Zenon
  <1>3. Row(c).id \in Nat
    BY DEF RowType
  <1>4. to = IF n - 1 >= Row(c).id THEN n - 1 ELSE Row(c).id
    <2>1. to = Max({n - 1, Row(c).id})
      BY <1>2, Zenon
    <2>. QED
      BY <1>3, <2>1, MaxOfTwo
  <1>. HIDE DEF to
  <1>5. Row(c).id \in 0..to /\ DOMAIN events[c] \subseteq 0..to /\ to \in Int /\ to + 1 \in Nat
    BY <1>3, <1>4
  <1>6. Grown(c) = [i \in 0..to |-> IF i \in DOMAIN events[c] THEN events[c][i] ELSE Empty]
    BY DEF Grown, to
  <1>7. Empty \in Halves \X Halves
    BY DEF Empty, Halves
  <1>8. Grown(c) \in [0..to -> Halves \X Halves]
    BY <1>6, <1>7
  <1>. DEFINE m == to + 1
  <1>9. 0..to = 0..(m - 1) /\ m \in Nat
    BY <1>5
  <1>. HIDE DEF m
  <1>10. Grown(c) \in [0..(m - 1) -> Halves \X Halves]
    BY <1>8, <1>9
  <1>11. DOMAIN Grown(c) = 0..to
    BY <1>6
  <1>12. \A i \in DOMAIN Grown(c) :
           Grown(c)[i] = IF i \in DOMAIN events[c] THEN events[c][i] ELSE Empty
    BY <1>6
  <1>13. Row(c).id \in DOMAIN Grown(c) /\ DOMAIN events[c] \subseteq DOMAIN Grown(c)
    BY <1>5, <1>11, Zenon
  <1>. QED
    BY <1>9, <1>10, <1>12, <1>13, Zenon

\* Its half of the event is still empty: another row with this id is of the other side.
LEMMA CleanRowIsTaken ==
  ASSUME run \in Inputs, NEW c \in Configs, JobFits(c), pc[c] = "rows", MoreRows(c),
         Clean(run[c])
  PROVE  InRange(bp[c], Row(c).end) /\ NewHalf(c)
  <1>. DEFINE r == run[c]
              p == <<file[c], next[c]>>
  <1>1. Reading(c) /\ EventsFit(r, Seen(c), events[c]) /\ bp[c] \in Metrics(r.span[1], r.span[2])
    BY DEF JobFits
  <1>2. /\ p \in AllPlaces(r) /\ Row(c) = At(r, p) /\ Half(c) = SideAt(r, p)
        /\ Row(c) \in RowType
    BY <1>1, RowIsNext
  <1>3. InRange(bp[c], Row(c).end)
    <2>1. r.span \in Nat \X Nat /\ Row(c).end <= r.span[2]
      BY <1>2, CleanRow
    <2>2. r.span[1] \in Int /\ r.span[2] \in Int /\ Row(c).end \in Int
      BY <1>2, <2>1 DEF RowType
    <2>. QED
      BY <1>1, <2>1, <2>2, BucketOfTime
  <1>4. ASSUME Row(c).id \in DOMAIN events[c], events[c][Row(c).id][Half(c)] # None
        PROVE  FALSE
    <2>1. Half(c) \in {1, 2}
      BY DEF Half
    <2>2. PICK q \in Seen(c) : SideAt(r, q) = Half(c) /\ At(r, q).id = Row(c).id
      BY <1>1, <1>4, <2>1 DEF EventsFit
    <2>3. q \in AllPlaces(r) /\ (q[1] = file[c] => q[2] < next[c])
      BY <2>2 DEF Seen
    <2>4. /\ q \in Places(r, r.files[q[1]].kind) /\ r.files[q[1]].kind \in {"tx", "rx"}
          /\ p \in Places(r, r.files[p[1]].kind) /\ r.files[p[1]].kind \in {"tx", "rx"}
      BY <1>2, <2>3, RowAtPlace
    <2>5. r.files[q[1]].kind = r.files[p[1]].kind
      BY <1>2, <2>2, <2>4 DEF SideAt
    <2>6. p = q
      BY <1>2, <2>2, <2>4, <2>5 DEF Clean, LoggedOnce
    <2>7. next[c] \in Nat
      BY <1>1 DEF Reading
    <2>. QED
      BY <2>3, <2>6, <2>7
  <1>5. NewHalf(c)
    <2>1. PICK n \in Nat : events[c] \in [0..(n - 1) -> Halves \X Halves]
      BY <1>1 DEF EventsFit
    <2>2. Grown(c)[Row(c).id] = IF Row(c).id \in DOMAIN events[c] THEN events[c][Row(c).id]
                                ELSE Empty
      BY <1>2, <2>1, Grows
    <2>3. Empty[Half(c)] = None
      BY DEF Empty, Half
    <2>. QED
      BY <1>4, <2>2, <2>3 DEF NewHalf
  <1>. QED
    BY <1>3, <1>5

\* A value and its instant, of a run that ends at that time.
EntriesUntil(end) == Int \X {t \in Int : t <= end}

\* The entries that g gives for each of n events.
Given(entries, g, n, end) ==
  /\ n \in Nat /\ g \in [0..(n - 1) -> Seq(EntriesUntil(end))]
  /\ entries = FlattenSeq([i \in 1..n |-> g[i - 1]])

\* The entries of one metric: each event gives its own, all of them have a window, and
\* one event that gives an entry is enough to report.
LEMMA EntriesHaveWindows ==
  ASSUME NEW c, NEW start \in Int, NEW end \in Int, run[c].span = <<start, end>>,
         NEW n, NEW g, NEW entries, Given(entries, g, n, end)
  PROVE  /\ AllInRange(c, entries)
         /\ \A i \in DOMAIN g : g[i] # <<>> => CanGenerate(Metric(c, entries))
  <1>. USE DEF Given
  <1>. DEFINE V == EntriesUntil(end)
              seqs == [i \in 1..n |-> g[i - 1]]
  <1>0. entries = FlattenSeq(seqs)
    OBVIOUS
  <1>1. seqs \in [1..n -> Seq(V)]
    OBVIOUS
  <1>2. (\E i \in 0..(n - 1) : g[i] # <<>>) => \E i \in 1..n : seqs[i] # <<>>
    <2>1. ASSUME NEW i \in 0..(n - 1), g[i] # <<>> PROVE i + 1 \in 1..n /\ seqs[i + 1] # <<>>
      <3>1. i + 1 \in 1..n /\ (i + 1) - 1 = i
        OBVIOUS
      <3>. QED
        BY <2>1, <3>1
    <2>. HIDE DEF seqs
    <2>. QED
      BY <2>1
  <1>. HIDE DEF seqs, V
  <1>3. /\ entries \in Seq(V)
        /\ (\E i \in 0..(n - 1) : g[i] # <<>>) => entries # <<>>
    BY <1>0, <1>1, <1>2, Flattened
  <1>4. AllInRange(c, entries)
    <2>1. ASSUME NEW i \in DOMAIN entries
          PROVE  InRange(New(run[c].span[1], run[c].span[2]), entries[i][2])
      <3>1. entries[i] \in V
        BY <1>3
      <3>2. entries[i][2] \in Int /\ entries[i][2] <= end
        BY <3>1 DEF V, EntriesUntil
      <3>3. run[c].span[1] = start /\ run[c].span[2] = end
        OBVIOUS
      <3>. QED
        BY <3>2, <3>3, NewIsAMetric, BucketOfTime
    <2>. QED
      BY <2>1 DEF AllInRange
  <1>5. entries # <<>> => CanGenerate(Metric(c, entries))
    <2>1. \A x \in V : x \in Pairs
      BY DEF V, EntriesUntil, Pairs
    <2>2. entries \in Seq(Pairs)
      BY <1>3, <2>1
    <2>. QED
      BY <1>4, <2>2, MetricOfEntries
  <1>6. \A i \in DOMAIN g : g[i] # <<>> => CanGenerate(Metric(c, entries))
    <2>1. DOMAIN g = 0..(n - 1)
      OBVIOUS
    <2>. HIDE DEF Given
    <2>. QED
      BY <1>3, <1>5, <2>1
  <1>. QED
    BY <1>4, <1>6

\* Every event of a clean run has its windows, and one has both of its halves.
LEMMA CleanIsSummarisable ==
  ASSUME run \in Inputs, NEW c \in Configs, JobFits(c), pc[c] = "files", unread[c] = {},
         Clean(run[c])
  PROVE  Summarisable(c)
  <1>. DEFINE r == run[c]
              evs == events[c]
  <1>1. EventsFit(r, Seen(c), evs)
    BY DEF JobFits
  <1>2. PICK n \in Nat : evs \in [0..(n - 1) -> Halves \X Halves]
    BY <1>1 DEF EventsFit
  <1>3. DOMAIN evs = 0..(n - 1) /\ Cardinality(DOMAIN evs) = n
    <2>1. DOMAIN evs = 0..(n - 1)
      BY <1>2
    <2>. QED
      BY <2>1, CountFromZero, Zenon
  <1>4. PICK start \in Int, end \in Int : r.span = <<start, end>>
    <2>1. r.span \in Nat \X Nat
      BY RowsOfRuns DEF Clean
    <2>. QED
      BY <2>1
  <1>. DEFINE Times == {t \in Int : t <= end}
  <1>5. ASSUME NEW i \in 0..(n - 1), NEW s \in {1, 2}, evs[i][s] # None
        PROVE  /\ evs[i][s].start \in Times /\ evs[i][s].end \in Times
    <2>1. PICK p \in Seen(c) : At(r, p) = evs[i][s]
      <3>1. i \in DOMAIN evs
        BY <1>3
      <3>. HIDE DEF evs
      <3>. QED
        BY <1>1, <1>5, <3>1 DEF EventsFit
    <2>2. p \in AllPlaces(r)
      BY DEF Seen
    <2>3. At(r, p).start \in Nat /\ At(r, p).end \in Nat
      BY <2>2, RowAtPlace
    <2>4. At(r, p).start <= r.span[2] /\ At(r, p).end <= r.span[2]
      BY <2>2, CleanRow
    <2>. QED
      BY <1>4, <2>1, <2>3, <2>4
  <1>6. PICK k \in 0..(n - 1) : evs[k][1] # None /\ evs[k][2] # None
    <2>1. PICK id \in Ids(r, "tx") \cap Ids(r, "rx") : TRUE
      BY DEF Clean, SomethingMeasured
    <2>2. PICK p \in Places(r, "tx"), q \in Places(r, "rx") : At(r, p).id = id /\ At(r, q).id = id
      BY DEF Ids
    <2>3. /\ p \in AllPlaces(r) /\ SideAt(r, p) = 1
          /\ q \in AllPlaces(r) /\ SideAt(r, q) = 2
      BY PlacesAre DEF AllPlaces, SideAt
    <2>4. p \in Seen(c) /\ q \in Seen(c)
      BY <2>3 DEF Seen
    <2>5. id \in DOMAIN evs /\ evs[id][1] = At(r, p) /\ evs[id][2] = At(r, q)
      BY <1>1, <2>2, <2>3, <2>4 DEF EventsFit
    <2>6. At(r, p) # None /\ At(r, q) # None
      BY <2>3, RowAtPlace
    <2>. QED
      BY <1>3, <2>5, <2>6
  <1>. HIDE DEF evs
  <1>. DEFINE V == EntriesUntil(end)
  <1>7. \A x, y : x \in Int /\ y \in Times => << <<x, y>> >> \in Seq(V) /\ << <<x, y>> >> # <<>>
    BY DEF EntriesUntil
  <1>8. <<>> \in Seq(V)
    OBVIOUS
  <1>9. \A x, y \in Times : x \in Int /\ y \in Int /\ x - y \in Int
    OBVIOUS
  <1>. HIDE DEF Times, V
  <1>10. ASSUME NEW i \in 0..(n - 1)
         PROVE  /\ Sends(evs[i]) \in Seq(V) /\ Recvs(evs[i]) \in Seq(V)
                /\ Latencies(evs[i]) \in Seq(V) /\ Throughputs(evs[i]) \in Seq(V)
                /\ evs[i][1] # None /\ evs[i][2] # None =>
                     Sends(evs[i]) # <<>> /\ Recvs(evs[i]) # <<>> /\ Latencies(evs[i]) # <<>>
    <2>. DEFINE e == evs[i]
    <2>1. /\ e[1] # None => e[1].start \in Times /\ e[1].end \in Times
          /\ e[2] # None => e[2].start \in Times /\ e[2].end \in Times
      BY <1>5
    <2>. HIDE DEF e
    <2>2. 1 \in Int
      OBVIOUS
    <2>3. Sends(e) \in Seq(V) /\ (e[1] # None => Sends(e) # <<>>)
      BY <1>7, <1>8, <1>9, <2>1 DEF Sends
    <2>4. Recvs(e) \in Seq(V) /\ (e[2] # None => Recvs(e) # <<>>)
      BY <1>7, <1>8, <1>9, <2>1 DEF Recvs
    <2>5. Latencies(e) \in Seq(V) /\ (e[1] # None /\ e[2] # None => Latencies(e) # <<>>)
      BY <1>7, <1>8, <1>9, <2>1 DEF Latencies
    <2>6. Throughputs(e) \in Seq(V)
      BY <1>7, <1>8, <2>1, <2>2 DEF Throughputs
    <2>. QED
      BY <2>3, <2>4, <2>5, <2>6 DEF e
  <1>11. AllInRange(c, Entries(c, Sends)) /\ CanGenerate(Metric(c, Entries(c, Sends)))
    <2>. DEFINE g == [i \in 0..(n - 1) |-> Sends(evs[i])]
                entries == Entries(c, Sends)
    <2>1. g \in [0..(n - 1) -> Seq(V)] /\ k \in DOMAIN g /\ g[k] # <<>>
      BY <1>6, <1>10
    <2>2. entries = FlattenSeq([i \in 1..n |-> g[i - 1]])
      <3>1. [i \in 1..n |-> Sends(evs[i - 1])] = [i \in 1..n |-> g[i - 1]]
        OBVIOUS
      <3>. HIDE DEF g
      <3>. QED
        BY <1>3, <3>1 DEF Entries, evs
    <2>. HIDE DEF g, entries
    <2>3. Given(entries, g, n, end)
      BY <2>1, <2>2 DEF Given, V
    <2>4. /\ AllInRange(c, entries)
          /\ \A i \in DOMAIN g : g[i] # <<>> => CanGenerate(Metric(c, entries))
      BY <1>4, <2>3, EntriesHaveWindows
    <2>. QED
      BY <1>6, <2>1, <2>4 DEF entries
  <1>12. AllInRange(c, Entries(c, Recvs)) /\ CanGenerate(Metric(c, Entries(c, Recvs)))
    <2>. DEFINE g == [i \in 0..(n - 1) |-> Recvs(evs[i])]
                entries == Entries(c, Recvs)
    <2>1. g \in [0..(n - 1) -> Seq(V)] /\ k \in DOMAIN g /\ g[k] # <<>>
      BY <1>6, <1>10
    <2>2. entries = FlattenSeq([i \in 1..n |-> g[i - 1]])
      <3>1. [i \in 1..n |-> Recvs(evs[i - 1])] = [i \in 1..n |-> g[i - 1]]
        OBVIOUS
      <3>. HIDE DEF g
      <3>. QED
        BY <1>3, <3>1 DEF Entries, evs
    <2>. HIDE DEF g, entries
    <2>3. Given(entries, g, n, end)
      BY <2>1, <2>2 DEF Given, V
    <2>4. /\ AllInRange(c, entries)
          /\ \A i \in DOMAIN g : g[i] # <<>> => CanGenerate(Metric(c, entries))
      BY <1>4, <2>3, EntriesHaveWindows
    <2>. QED
      BY <1>6, <2>1, <2>4 DEF entries
  <1>13. AllInRange(c, Entries(c, Latencies)) /\ CanGenerate(Metric(c, Entries(c, Latencies)))
    <2>. DEFINE g == [i \in 0..(n - 1) |-> Latencies(evs[i])]
                entries == Entries(c, Latencies)
    <2>1. g \in [0..(n - 1) -> Seq(V)] /\ k \in DOMAIN g /\ g[k] # <<>>
      BY <1>6, <1>10
    <2>2. entries = FlattenSeq([i \in 1..n |-> g[i - 1]])
      <3>1. [i \in 1..n |-> Latencies(evs[i - 1])] = [i \in 1..n |-> g[i - 1]]
        OBVIOUS
      <3>. HIDE DEF g
      <3>. QED
        BY <1>3, <3>1 DEF Entries, evs
    <2>. HIDE DEF g, entries
    <2>3. Given(entries, g, n, end)
      BY <2>1, <2>2 DEF Given, V
    <2>4. /\ AllInRange(c, entries)
          /\ \A i \in DOMAIN g : g[i] # <<>> => CanGenerate(Metric(c, entries))
      BY <1>4, <2>3, EntriesHaveWindows
    <2>. QED
      BY <1>6, <2>1, <2>4 DEF entries
  <1>14. AllInRange(c, Entries(c, Throughputs))
    <2>. DEFINE g == [i \in 0..(n - 1) |-> Throughputs(evs[i])]
                entries == Entries(c, Throughputs)
    <2>1. g \in [0..(n - 1) -> Seq(V)]
      BY <1>6, <1>10
    <2>2. entries = FlattenSeq([i \in 1..n |-> g[i - 1]])
      <3>1. [i \in 1..n |-> Throughputs(evs[i - 1])] = [i \in 1..n |-> g[i - 1]]
        OBVIOUS
      <3>. HIDE DEF g
      <3>. QED
        BY <1>3, <3>1 DEF Entries, evs
    <2>. HIDE DEF g, entries
    <2>3. Given(entries, g, n, end)
      BY <2>1, <2>2 DEF Given, V
    <2>4. /\ AllInRange(c, entries)
          /\ \A i \in DOMAIN g : g[i] # <<>> => CanGenerate(Metric(c, entries))
      BY <1>4, <2>3, EntriesHaveWindows
    <2>. QED
      BY <2>4 DEF entries
  <1>. QED
    BY <1>11, <1>12, <1>13, <1>14 DEF Summarisable

-----------------------------------------------------------------------------
(* Steps.                                                                  *)

\* The job of c is the only one that moves.
OnlyJob(c) ==
  /\ run' = run /\ main' = main /\ saved \subseteq saved'
  /\ DOMAIN pc' = Configs /\ DOMAIN unread' = Configs /\ DOMAIN file' = Configs
  /\ DOMAIN next' = Configs /\ DOMAIN events' = Configs /\ DOMAIN bp' = Configs
  /\ \A d \in Configs \ {c} :
       /\ pc'[d] = pc[d] /\ unread'[d] = unread[d] /\ file'[d] = file[d]
       /\ next'[d] = next[d] /\ events'[d] = events[d] /\ bp'[d] = bp[d]

\* A job keeps what is its own: others do not disturb it.
LEMMA OtherJobs ==
  ASSUME NEW c, OnlyJob(c), NEW d \in Configs \ {c}, JobFits(d)
  PROVE  JobFits(d)'
  <1>1. /\ run'[d] = run[d] /\ pc'[d] = pc[d] /\ unread'[d] = unread[d] /\ file'[d] = file[d]
        /\ next'[d] = next[d] /\ events'[d] = events[d] /\ bp'[d] = bp[d] /\ main' = main
        /\ (d \in saved => d \in saved')
    BY DEF OnlyJob
  <1>2. Seen(d)' = Seen(d)
    BY <1>1 DEF Seen
  <1>3. Reading(d)' <=> Reading(d)
    BY <1>1 DEF Reading
  <1>4. EventsFit(run[d], Seen(d), events[d])' <=> EventsFit(run[d], Seen(d), events[d])
    BY <1>1, <1>2 DEF EventsFit
  <1>5. Summarised(d)' <=> Summarised(d)
    BY <1>1 DEF Summarised
  <1>. QED
    BY <1>1, <1>3, <1>4, <1>5 DEF JobFits

\* A step of one job keeps the invariant if it keeps that of the job.
LEMMA OneJob ==
  ASSUME Inv, NEW c \in Configs, OnlyJob(c), JobFits(c)', Clean(run[c]) => pc'[c] # "failed"
  PROVE  Inv'
  <1>1. run' = run /\ run' \in Inputs /\ Configs' = Configs
    BY DEF OnlyJob, Inv, Configs
  <1>2. \A d \in Configs : JobFits(d)'
    BY OtherJobs DEF Inv
  <1>3. CleanRunsAggregate'
    <2>1. ASSUME NEW d \in Configs, Clean(run[d]) PROVE pc'[d] # "failed"
      <3>1. CASE d = c
        BY <2>1, <3>1
      <3>2. CASE d # c
        BY <2>1, <3>2 DEF Inv, CleanRunsAggregate, OnlyJob
      <3>. QED
        BY <3>1, <3>2
    <2>. QED
      BY <1>1, <2>1 DEF CleanRunsAggregate
  <1>. QED
    BY <1>1, <1>2, <1>3 DEF Inv, OnlyJob

\* The row that is read goes to the half it is of, and no other place is disturbed.
LEMMA RowFits ==
  ASSUME run \in Inputs, NEW c \in Configs, Reading(c), MoreRows(c), NewHalf(c),
         EventsFit(run[c], Seen(c), events[c])
  PROVE  EventsFit(run[c], Seen(c) \cup {<<file[c], next[c]>>},
                   [Grown(c) EXCEPT ![Row(c).id][Half(c)] = Row(c)])
  <1>. DEFINE r == run[c]
              p == <<file[c], next[c]>>
              id == Row(c).id
              half == Half(c)
              evs == [Grown(c) EXCEPT ![id][half] = Row(c)]
  <1>1. /\ p \in AllPlaces(r) /\ Row(c) = At(r, p) /\ half = SideAt(r, p)
        /\ Row(c) \in RowType
    BY RowIsNext
  <1>2. PICK n \in Nat : events[c] \in [0..(n - 1) -> Halves \X Halves]
    BY DEF EventsFit
  <1>3. PICK m \in Nat :
           /\ Grown(c) \in [0..(m - 1) -> Halves \X Halves]
           /\ id \in DOMAIN Grown(c) /\ DOMAIN events[c] \subseteq DOMAIN Grown(c)
           /\ \A i \in DOMAIN Grown(c) :
                Grown(c)[i] = IF i \in DOMAIN events[c] THEN events[c][i] ELSE Empty
    BY <1>1, <1>2, Grows
  <1>4. half \in {1, 2} /\ Row(c) \in Halves /\ Grown(c)[id][half] = None
    BY <1>1 DEF Half, Halves, NewHalf
  <1>. HIDE DEF id, half
  <1>5. evs \in [0..(m - 1) -> Halves \X Halves] /\ DOMAIN evs = DOMAIN Grown(c)
    <2>1. Grown(c)[id] \in Halves \X Halves
      BY <1>3
    <2>2. [Grown(c)[id] EXCEPT ![half] = Row(c)] \in Halves \X Halves
      BY <1>4, <2>1
    <2>. QED
      BY <1>3, <2>2
  <1>6. /\ evs[id][half] = Row(c)
        /\ \A i \in DOMAIN evs, s \in {1, 2} :
             i # id \/ s # half => evs[i][s] = Grown(c)[i][s]
    <2>1. Grown(c)[id] \in Halves \X Halves
      BY <1>3
    <2>2. evs[id] = [Grown(c)[id] EXCEPT ![half] = Row(c)]
      BY <1>3
    <2>3. evs[id][half] = Row(c) /\ \A s \in {1, 2} : s # half => evs[id][s] = Grown(c)[id][s]
      BY <1>4, <2>1, <2>2
    <2>4. \A i \in DOMAIN evs : i # id => evs[i] = Grown(c)[i]
      BY <1>3
    <2>. HIDE DEF evs
    <2>. QED
      BY <2>3, <2>4
  <1>. HIDE DEF evs
  <1>7. ASSUME NEW q \in Seen(c) \cup {p}
        PROVE  At(r, q).id \in DOMAIN evs /\ evs[At(r, q).id][SideAt(r, q)] = At(r, q)
    <2>1. CASE q = p
      BY <1>1, <1>3, <1>5, <1>6, <2>1 DEF id
    <2>2. CASE q \in Seen(c)
      <3>. DEFINE i == At(r, q).id
                  s == SideAt(r, q)
      <3>1. i \in DOMAIN events[c] /\ events[c][i][s] = At(r, q)
        BY <2>2 DEF EventsFit
      <3>2. At(r, q) # None /\ s \in {1, 2}
        BY <2>2, RowAtPlace DEF Seen, SideAt
      <3>3. i \in DOMAIN Grown(c) /\ Grown(c)[i][s] = At(r, q)
        BY <1>3, <3>1
      <3>4. i # id \/ s # half
        BY <1>4, <3>2, <3>3
      <3>. QED
        BY <1>5, <1>6, <3>2, <3>3, <3>4
    <2>. QED
      BY <2>1, <2>2
  <1>8. ASSUME NEW i \in DOMAIN evs, NEW s \in {1, 2}, evs[i][s] # None
        PROVE  \E q \in Seen(c) \cup {p} :
                 SideAt(r, q) = s /\ At(r, q) = evs[i][s] /\ At(r, q).id = i
    <2>1. CASE i = id /\ s = half
      BY <1>1, <1>6, <2>1 DEF id
    <2>2. CASE i # id \/ s # half
      <3>1. evs[i][s] = Grown(c)[i][s]
        BY <1>6, <2>2
      <3>2. i \in DOMAIN events[c] /\ evs[i][s] = events[c][i][s]
        <4>1. Empty[s] = None
          BY DEF Empty
        <4>. QED
          BY <1>3, <1>5, <1>8, <3>1, <4>1
      <3>3. PICK q \in Seen(c) : SideAt(r, q) = s /\ At(r, q) = events[c][i][s] /\ At(r, q).id = i
        BY <1>8, <3>2 DEF EventsFit
      <3>. QED
        BY <3>2, <3>3
    <2>. QED
      BY <2>1, <2>2
  <1>9. EventsFit(r, Seen(c) \cup {p}, evs)
    BY <1>5, <1>7, <1>8 DEF EventsFit
  <1>. QED
    BY <1>9 DEF evs, id, half

\* Opening a file reads no row of it.
LEMMA SeenOpening ==
  ASSUME Inv, NEW c \in Configs, OpenFile(c)
  PROVE  Seen(c)' = Seen(c)
  <1>1. JobFits(c) /\ run \in Inputs
    BY DEF Inv
  <1>2. PICK f \in unread[c] :
          /\ unread' = [unread EXCEPT ![c] = @ \ {f}]
          /\ IF run[c].files[f].kind \in {"tx", "rx"}
             THEN /\ file' = [file EXCEPT ![c] = f] /\ next' = [next EXCEPT ![c] = 1]
                  /\ Goto(c, "rows")
             ELSE UNCHANGED <<file, next, pc>>
    BY DEF OpenFile
  <1>3. /\ run' = run /\ pc[c] = "files" /\ unread'[c] = unread[c] \ {f}
        /\ f \in DOMAIN run[c].files
    BY <1>1, <1>2 DEF OpenFile, Inv, JobFits
  <1>4. /\ run[c].files[f].kind \in {"tx", "rx"} =>
             file'[c] = f /\ next'[c] = 1 /\ pc'[c] = "rows"
        /\ run[c].files[f].kind \notin {"tx", "rx"} => pc'[c] = "files"
    BY <1>2, <1>3 DEF Inv, Goto
  <1>5. ASSUME NEW p \in AllPlaces(run[c]) PROVE p \in Seen(c)' <=> p \in Seen(c)
    <2>1. run[c].files[p[1]].kind \in {"tx", "rx"} /\ p[2] >= 1 /\ p[2] \in Nat
      BY <1>1, RowAtPlace
    <2>2. CASE p[1] = f
      <3>1. pc'[c] = "rows" /\ p[1] = file'[c] /\ ~(p[2] < next'[c])
        BY <1>4, <2>1, <2>2
      <3>2. p \notin Seen(c)
        BY <2>2 DEF Seen
      <3>. QED
        BY <3>1, <3>2 DEF Seen
    <2>3. CASE p[1] # f
      BY <1>3, <1>4, <2>3 DEF Seen
    <2>. QED
      BY <2>2, <2>3
  <1>. QED
    BY <1>3, <1>5 DEF Seen

\* The row that is read is one more.
LEMMA SeenReading ==
  ASSUME Inv, NEW c \in Configs, ReadRow(c)
  PROVE  Seen(c)' = Seen(c) \cup {<<file[c], next[c]>>}
  <1>. DEFINE p == <<file[c], next[c]>>
  <1>1. run \in Inputs /\ pc[c] = "rows" /\ pc'[c] = "rows" /\ MoreRows(c) /\ Reading(c)
    BY DEF ReadRow, Inv, JobFits
  <1>2. run' = run /\ unread'[c] = unread[c] /\ file'[c] = file[c] /\ next'[c] = next[c] + 1
    BY DEF ReadRow, Inv
  <1>3. p \in AllPlaces(run[c])
    BY <1>1, RowIsNext
  <1>4. ASSUME NEW q \in AllPlaces(run[c]) PROVE q \in Seen(c)' <=> q \in Seen(c) \/ q = p
    <2>1. q[2] \in Nat /\ q = <<q[1], q[2]>> /\ next[c] \in Nat /\ file[c] \notin unread[c]
      BY <1>1, RowAtPlace DEF Reading
    <2>2. q \in Seen(c) <=> q[1] \notin unread[c] /\ (q[1] = file[c] => q[2] < next[c])
      BY <1>1 DEF Seen
    <2>3. q \in Seen(c)' <=> q[1] \notin unread[c] /\ (q[1] = file[c] => q[2] < next[c] + 1)
      BY <1>1, <1>2 DEF Seen
    <2>4. q = p <=> q[1] = file[c] /\ q[2] = next[c]
      BY <2>1
    <2>. HIDE DEF p
    <2>. QED
      BY <2>1, <2>2, <2>3, <2>4
  <1>. QED
    BY <1>2, <1>3, <1>4 DEF Seen

\* A file is closed once all its rows are read.
LEMMA SeenClosing ==
  ASSUME Inv, NEW c \in Configs, CloseFile(c)
  PROVE  Seen(c)' = Seen(c)
  <1>. DEFINE rows == run[c].files[file[c]].rows
              len == Len(rows)
  <1>1. run \in Inputs /\ pc[c] = "rows" /\ pc'[c] = "files" /\ Reading(c)
    BY DEF CloseFile, Goto, Inv, JobFits
  <1>2. run' = run /\ unread'[c] = unread[c]
    BY DEF CloseFile, jobVars
  <1>3. len \in Nat /\ next[c] \in Nat /\ ~(next[c] <= len)
    <2>1. rows \in Seq(RowType) /\ next[c] \in Nat /\ ~(next[c] <= len)
      BY <1>1, RowsOfRuns DEF Reading, CloseFile, MoreRows
    <2>. HIDE DEF rows
    <2>. QED
      BY <2>1
  <1>4. ASSUME NEW p \in AllPlaces(run[c]), p[1] = file[c] PROVE p[2] < next[c]
    <2>1. p[2] \in 1..len
      BY <1>1, <1>4, RowAtPlace
    <2>. HIDE DEF len
    <2>. QED
      BY <1>3, <2>1
  <1>5. Seen(c) = {p \in AllPlaces(run[c]) : p[1] \notin unread[c]}
    BY <1>1, <1>4 DEF Seen
  <1>6. Seen(c)' = {p \in AllPlaces(run[c]) : p[1] \notin unread[c]}
    BY <1>1, <1>2 DEF Seen
  <1>. QED
    BY <1>5, <1>6

\* A step of a job keeps the invariant: an action each.
LEMMA JobStep ==
  ASSUME Inv, NEW c \in Configs, Job(c)
  PROVE  Inv'
  <1>1. JobFits(c) /\ run \in Inputs
    BY DEF Inv
  <1>2. main = "scope" \/ pc[c] \in {"done", "failed"}
    BY <1>1 DEF JobFits
  <1>3. ASSUME Open(c) PROVE Inv'
    <2>1. OnlyJob(c) /\ pc'[c] = "files" /\ main = "scope"
      BY <1>2, <1>3 DEF Open, Goto, OnlyJob, Inv, mainVars
    <2>2. /\ run' = run /\ unread'[c] = unread[c] /\ events'[c] = events[c]
          /\ bp'[c] = New(run[c].span[1], run[c].span[2]) /\ run[c].span # None
      BY <1>3 DEF Open, Opens, Inv
    <2>3. Seen(c)' = Seen(c) /\ pc[c] # "failed"
      BY <1>3, <2>1, <2>2 DEF Seen, Open
    <2>4. EventsFit(run[c], Seen(c), events[c])'
      BY <1>1, <2>2, <2>3 DEF JobFits, EventsFit
    <2>5. bp'[c] \in Metrics(run[c].span[1], run[c].span[2])
      BY <2>2, NewIsAMetric
    <2>6. JobFits(c)'
      BY <1>1, <2>1, <2>2, <2>4, <2>5 DEF JobFits, JobStates, Summarised, OnlyJob
    <2>. QED
      BY <2>1, <2>6, OneJob
  <1>4. ASSUME pc'[c] = "failed", OnlyJob(c), main = "scope", unread'[c] = unread[c],
               ~Clean(run[c])
        PROVE  Inv'
    <2>1. JobFits(c)'
      BY <1>1, <1>4 DEF JobFits, JobStates, Summarised, OnlyJob
    <2>. QED
      BY <1>4, <2>1, OneJob
  <1>5. ASSUME FailOpen(c) PROVE Inv'
    <2>1. OnlyJob(c) /\ pc'[c] = "failed" /\ main = "scope" /\ unread'[c] = unread[c]
      BY <1>2, <1>5 DEF FailOpen, Goto, OnlyJob, Inv, jobVars, mainVars
    <2>2. ~Clean(run[c])
      BY <1>1, <1>5, CleanOpens DEF FailOpen
    <2>. QED
      BY <1>4, <2>1, <2>2
  <1>6. ASSUME OpenFile(c) PROVE Inv'
    <2>. PICK f \in unread[c] :
           /\ unread' = [unread EXCEPT ![c] = @ \ {f}]
           /\ IF run[c].files[f].kind \in {"tx", "rx"}
              THEN /\ file' = [file EXCEPT ![c] = f]
                   /\ next' = [next EXCEPT ![c] = 1]
                   /\ Goto(c, "rows")
              ELSE UNCHANGED <<file, next, pc>>
      BY <1>6 DEF OpenFile
    <2>1. OnlyJob(c) /\ main = "scope" /\ pc[c] = "files" /\ pc'[c] \in {"files", "rows"}
      BY <1>2, <1>6 DEF OpenFile, Goto, OnlyJob, Inv, mainVars
    <2>2. /\ run' = run /\ unread'[c] = unread[c] \ {f} /\ events'[c] = events[c]
          /\ bp'[c] = bp[c] /\ f \in DOMAIN run[c].files
      BY <1>1, <1>6 DEF OpenFile, Inv, JobFits
    <2>3. /\ run[c].files[f].kind \in {"tx", "rx"} =>
               file'[c] = f /\ next'[c] = 1 /\ pc'[c] = "rows"
          /\ run[c].files[f].kind \notin {"tx", "rx"} => pc'[c] = "files"
      BY <1>6 DEF OpenFile, Inv, Goto
    <2>4. Seen(c)' = Seen(c)
      BY <1>6, SeenOpening
    <2>5. EventsFit(run[c], Seen(c), events[c])'
      BY <1>1, <2>1, <2>2, <2>4 DEF JobFits, EventsFit
    <2>6. (pc[c] = "rows" => Reading(c))'
      BY <2>2, <2>3 DEF Reading
    <2>7. JobFits(c)'
      BY <1>1, <2>1, <2>2, <2>5, <2>6 DEF JobFits, JobStates, Summarised, OnlyJob
    <2>. QED
      BY <2>1, <2>7, OneJob
  <1>7. ASSUME ReadRow(c) PROVE Inv'
    <2>. DEFINE p == <<file[c], next[c]>>
    <2>1. OnlyJob(c) /\ main = "scope" /\ pc[c] = "rows" /\ pc'[c] = "rows"
      BY <1>2, <1>7 DEF ReadRow, OnlyJob, Inv, mainVars
    <2>2. /\ run' = run /\ unread'[c] = unread[c] /\ file'[c] = file[c]
          /\ next'[c] = next[c] + 1
          /\ events'[c] = [Grown(c) EXCEPT ![Row(c).id][Half(c)] = Row(c)]
          /\ bp'[c] = Add(bp[c], Row(c).len, Row(c).end)
      BY <1>7 DEF ReadRow, Inv
    <2>3. MoreRows(c) /\ InRange(bp[c], Row(c).end) /\ NewHalf(c) /\ Reading(c)
      BY <1>1, <1>7 DEF ReadRow, JobFits
    <2>4. p \in AllPlaces(run[c]) /\ Row(c) \in RowType
      BY <1>1, <2>3, RowIsNext
    <2>5. Seen(c)' = Seen(c) \cup {p}
      BY <1>7, SeenReading
    <2>6. EventsFit(run[c], Seen(c), events[c])'
      <3>1. EventsFit(run[c], Seen(c), events[c])
        BY <1>1, <2>1 DEF JobFits
      <3>2. EventsFit(run[c], Seen(c) \cup {p},
                      [Grown(c) EXCEPT ![Row(c).id][Half(c)] = Row(c)])
        BY <1>1, <2>3, <3>1, RowFits
      <3>. QED
        BY <2>2, <2>5, <3>2 DEF EventsFit
    <2>7. bp'[c] \in Metrics(run[c].span[1], run[c].span[2])
      <3>1. run[c].span \in Nat \X Nat /\ bp[c] \in Metrics(run[c].span[1], run[c].span[2])
        BY <1>1, <2>1, RowsOfRuns DEF JobFits
      <3>. QED
        <4>1. /\ run[c].span[1] \in Int /\ run[c].span[2] \in Int
              /\ Row(c).len \in Int /\ Row(c).end \in Int
          BY <2>4, <3>1 DEF RowType
        <4>. QED
          BY <2>2, <2>3, <3>1, <4>1, AddIs
    <2>8. Reading(c)'
      BY <2>2, <2>3 DEF Reading
    <2>9. JobFits(c)'
      BY <1>1, <2>1, <2>2, <2>6, <2>7, <2>8 DEF JobFits, JobStates, Summarised, OnlyJob
    <2>. QED
      BY <2>1, <2>9, OneJob
  <1>8. ASSUME FailRow(c) PROVE Inv'
    <2>1. OnlyJob(c) /\ pc'[c] = "failed" /\ main = "scope" /\ unread'[c] = unread[c]
      BY <1>2, <1>8 DEF FailRow, Goto, OnlyJob, Inv, jobVars, mainVars
    <2>2. ~Clean(run[c])
      BY <1>1, <1>8, CleanRowIsTaken DEF FailRow
    <2>. QED
      BY <1>4, <2>1, <2>2
  <1>9. ASSUME CloseFile(c) PROVE Inv'
    <2>1. OnlyJob(c) /\ main = "scope" /\ pc[c] = "rows" /\ pc'[c] = "files"
      BY <1>2, <1>9 DEF CloseFile, Goto, OnlyJob, Inv, jobVars, mainVars
    <2>2. /\ run' = run /\ unread'[c] = unread[c] /\ file'[c] = file[c] /\ next'[c] = next[c]
          /\ events'[c] = events[c] /\ bp'[c] = bp[c]
      BY <1>9 DEF CloseFile, Inv, jobVars
    <2>3. Seen(c)' = Seen(c)
      BY <1>9, SeenClosing
    <2>4. EventsFit(run[c], Seen(c), events[c])'
      <3>1. EventsFit(run[c], Seen(c), events[c])
        BY <1>1, <2>1 DEF JobFits
      <3>. QED
        BY <2>2, <2>3, <3>1 DEF EventsFit
    <2>5. JobFits(c)'
      BY <1>1, <2>1, <2>2, <2>4 DEF JobFits, JobStates, Summarised, OnlyJob
    <2>. QED
      BY <2>1, <2>5, OneJob
  <1>10. ASSUME FailAggregate(c) PROVE Inv'
    <2>1. OnlyJob(c) /\ pc'[c] = "failed" /\ main = "scope" /\ unread'[c] = unread[c]
      BY <1>2, <1>10 DEF FailAggregate, Goto, OnlyJob, Inv, jobVars, mainVars
    <2>2. ~Clean(run[c])
      BY <1>1, <1>10, CleanIsSummarisable DEF FailAggregate
    <2>. QED
      BY <1>4, <2>1, <2>2
  <1>11. ASSUME NEW from \in {"files", "save", "push"}, NEW to \in {"save", "push", "done"},
                OnlyJob(c), main = "scope", pc[c] = from, pc'[c] = to, unread[c] = {},
                unread'[c] = {}, events'[c] = events[c], bp'[c] = bp[c],
                to \in {"push", "done"} => c \in saved'
         PROVE  Inv'
    <2>1. Seen(c)' = Seen(c)
      BY <1>11 DEF Seen, OnlyJob
    <2>2. EventsFit(run[c], Seen(c), events[c])'
      BY <1>1, <1>11, <2>1 DEF JobFits, EventsFit, OnlyJob
    <2>3. JobFits(c)'
      BY <1>1, <1>11, <2>2 DEF JobFits, JobStates, Summarised, OnlyJob
    <2>. QED
      BY <1>11, <2>3, OneJob
  <1>12. ASSUME Aggregate(c) PROVE Inv'
    <2>1. OnlyJob(c) /\ main = "scope" /\ pc[c] = "files" /\ pc'[c] = "save"
      BY <1>2, <1>12 DEF Aggregate, Goto, OnlyJob, Inv, mainVars
    <2>2. unread[c] = {} /\ unread'[c] = {} /\ events'[c] = events[c] /\ bp'[c] = bp[c]
      BY <1>12 DEF Aggregate
    <2>. QED
      BY <1>11, <2>1, <2>2
  <1>13. ASSUME Save(c) PROVE Inv'
    <2>1. OnlyJob(c) /\ main = "scope" /\ pc[c] = "save" /\ pc'[c] = "push" /\ c \in saved'
      BY <1>2, <1>13 DEF Save, Goto, OnlyJob, Inv, jobVars, mainVars
    <2>2. unread[c] = {} /\ unread'[c] = {} /\ events'[c] = events[c] /\ bp'[c] = bp[c]
      BY <1>1, <1>13, <2>1 DEF Save, jobVars, JobFits, Summarised
    <2>. QED
      BY <1>11, <2>1, <2>2
  <1>14. ASSUME PushResult(c) PROVE Inv'
    <2>1. OnlyJob(c) /\ main = "scope" /\ pc[c] = "push" /\ pc'[c] = "done" /\ saved' = saved
      BY <1>2, <1>14 DEF PushResult, Goto, OnlyJob, Inv, jobVars
    <2>2. unread[c] = {} /\ unread'[c] = {} /\ events'[c] = events[c] /\ bp'[c] = bp[c]
      BY <1>1, <1>14, <2>1 DEF PushResult, jobVars, JobFits, Summarised
    <2>3. c \in saved'
      BY <1>1, <2>1 DEF JobFits
    <2>. QED
      BY <1>11, <2>1, <2>2, <2>3
  <1>. QED
    BY <1>3, <1>5, <1>6, <1>7, <1>8, <1>9, <1>10, <1>12, <1>13, <1>14 DEF Job

\* main, and the job it does not wait for, change nothing that a job of a run reads.
LEMMA MainStep ==
  ASSUME Inv, Main \/ SummaryJob \/ UNCHANGED vars
  PROVE  Inv'
  <1>1. /\ UNCHANGED <<run, pc, jobVars, saved>>
        /\ main' # "scope" => main # "scope" \/ \A c \in Configs : pc[c] \in {"done", "failed"}
    BY DEF Main, SummaryJob, EndScope, SpawnSummary, Return, CreateSummary, WriteSummary, vars,
           mainVars
  <1>2. Configs' = Configs
    BY <1>1 DEF Configs
  <1>3. ASSUME NEW c \in Configs PROVE JobFits(c)'
    <2>1. JobFits(c)
      BY DEF Inv
    <2>2. /\ run' = run /\ pc' = pc /\ unread' = unread /\ file' = file /\ next' = next
          /\ events' = events /\ bp' = bp /\ saved' = saved
      BY <1>1 DEF jobVars
    <2>3. Seen(c)' = Seen(c)
      BY <2>2 DEF Seen
    <2>4. EventsFit(run[c], Seen(c), events[c])' <=> EventsFit(run[c], Seen(c), events[c])
      BY <2>2, <2>3 DEF EventsFit
    <2>5. (Reading(c)' <=> Reading(c)) /\ (Summarised(c)' <=> Summarised(c))
      BY <2>2 DEF Reading, Summarised
    <2>6. main' # "scope" => pc'[c] \in {"done", "failed"}
      BY <1>1, <2>1, <2>2 DEF JobFits
    <2>. QED
      BY <2>1, <2>2, <2>4, <2>5, <2>6 DEF JobFits
  <1>4. CleanRunsAggregate'
    BY <1>1, <1>2 DEF Inv, CleanRunsAggregate
  <1>. QED
    BY <1>1, <1>2, <1>3, <1>4 DEF Inv, jobVars

\* Before any file is opened nothing is read.
LEMMA InitialInv == Init => Inv
  <1>. SUFFICES ASSUME Init PROVE Inv
    OBVIOUS
  <1>1. ASSUME NEW c \in Configs PROVE JobFits(c)
    <2>1. /\ pc[c] = "start" /\ unread[c] = DOMAIN run[c].files /\ events[c] = <<>>
          /\ main = "scope"
      BY DEF Init
    <2>2. Seen(c) = {}
      <3>1. \A p \in AllPlaces(run[c]) : p[1] \in unread[c]
        BY <2>1, PlacesAre DEF AllPlaces
      <3>. QED
        BY <3>1 DEF Seen
    <2>3. EventsFit(run[c], Seen(c), events[c])
      <3>1. <<>> \in [0..(0 - 1) -> Halves \X Halves] /\ DOMAIN <<>> = {}
        OBVIOUS
      <3>2. events[c] = <<>> /\ Seen(c) = {}
        BY <2>1, <2>2
      <3>3. \E n \in Nat : events[c] \in [0..(n - 1) -> Halves \X Halves]
        BY <3>1, <3>2
      <3>. QED
        BY <3>1, <3>2, <3>3 DEF EventsFit
    <2>. QED
      BY <2>1, <2>3 DEF JobFits, JobStates, Summarised
  <1>2. CleanRunsAggregate
    BY DEF Init, CleanRunsAggregate
  <1>. QED
    BY <1>1, <1>2 DEF Init, Inv

-----------------------------------------------------------------------------
(* What is reported of a window.                                           *)

\* The windows that hold a value, found one after the other.
Finds(p, m, n) ==
  /\ p \in [0..n -> Seq(1..n)] /\ p[0] = <<>>
  /\ \A k \in 1..n : p[k] = IF m.buckets[k] = <<>> THEN p[k - 1] ELSE Append(p[k - 1], k)

\* Filled finds them so.
LEMMA FilledFinds ==
  ASSUME NEW start \in Int, NEW end \in Int, NEW m \in Metrics(start, end)
  PROVE  \E p : Finds(p, m, NBuckets(start, end)) /\ Filled(m) = p[NBuckets(start, end)]
  <1>. DEFINE n == NBuckets(start, end)
              index == [i \in DOMAIN m.buckets |-> i]
              S == DOMAIN index
              V == Seq(1..n)
              Grow(f, k) == IF m.buckets[index[k]] = <<>> THEN f ELSE Append(f, index[k])
              Fold(h, r) == IF r = {} THEN <<>> ELSE Grow(h[r \ {Max(r)}], Max(r))
              iter == CHOOSE h : h = [r \in SUBSET S |-> Fold(h, r)]
              step == [k \in 1..n |-> [f \in V |-> Grow(f, k)]]
              none == <<>>
  <1>1. Filled(m) = iter[S]
    BY DEF Filled, FoldLeftDomain, FoldLeft, MapThenFoldSet
  <1>2. n \in Nat /\ S = 1..n /\ \A k \in 1..n : index[k] = k
    BY NBucketsAtLeastOne DEF Metrics
  <1>. HIDE DEF n, index, S
  <1>3. none \in V
    OBVIOUS
  <1>4. ASSUME NEW k \in 1..n, NEW f \in V
        PROVE  /\ Grow(f, k) \in V
               /\ Grow(f, k) = IF m.buckets[k] = <<>> THEN f ELSE Append(f, k)
    <2>1. Grow(f, k) = IF m.buckets[k] = <<>> THEN f ELSE Append(f, k)
      BY <1>2
    <2>2. Append(f, k) \in V
      BY AppendProperties
    <2>. QED
      BY <2>1, <2>2
  <1>5. \A k \in 1..n : \A f \in V : step[k][f] = Grow(f, k)
    OBVIOUS
  <1>6. step \in [1..n -> [V -> V]]
    BY <1>4
  <1>. HIDE DEF V, Grow, step
  <1>7. PICK h : FoldsTo(h, n, V, none, step)
    BY <1>2, <1>3, <1>6, IntervalFold
  <1>8. ASSUME NEW r \in SUBSET S, r # {} PROVE Max(r) \in r
    <2>1. IsFiniteSet(S)
      <3>1. 1 \in Int /\ n \in Int
        BY <1>2
      <3>. QED
        BY <1>2, <3>1, FS_Interval
    <2>2. IsFiniteSet(r)
      BY <2>1, FS_Subset
    <2>3. r \in SUBSET Int
      BY <1>2
    <2>. QED
      BY <1>8, <2>2, <2>3, MaxOfFinite
  <1>9. ASSUME NEW r \in SUBSET S PROVE h[r] = Fold(h, r)
    <2>1. h[r] = IF r = {} THEN none ELSE step[Max(r)][h[r \ {Max(r)}]]
      BY <1>2, <1>7 DEF FoldsTo
    <2>2. h[r \ {Max(r)}] \in V
      BY <1>2, <1>7 DEF FoldsTo
    <2>. QED
      BY <1>2, <1>5, <1>8, <2>1, <2>2
  <1>10. \A r \in SUBSET S : iter[r] = Fold(iter, r)
    <2>. HIDE DEF Fold
    <2>1. h = [r \in SUBSET S |-> Fold(h, r)]
      BY <1>2, <1>7, <1>9 DEF FoldsTo
    <2>2. iter = [r \in SUBSET S |-> Fold(iter, r)]
      BY <2>1
    <2>. HIDE DEF iter
    <2>. QED
      BY <2>2
  <1>. HIDE DEF iter
  <1>. DEFINE p == [k \in 0..n |-> iter[1..k]]
              P == {k \in Nat : k <= n => p[k] \in V}
  <1>11. p[0] = none
    <2>1. 1..0 = {} /\ {} \in SUBSET S /\ 0 \in 0..n
      BY <1>2
    <2>. QED
      BY <1>10, <2>1
  <1>12. ASSUME NEW k \in Nat, k + 1 <= n PROVE p[k + 1] = Grow(p[k], k + 1)
    <2>1. /\ Max(1..(k + 1)) = k + 1 /\ (1..(k + 1)) \ {k + 1} = 1..k
          /\ 1..(k + 1) # {}
      <3>1. k + 1 \in Nat \ {0} /\ (k + 1) - 1 = k
        OBVIOUS
      <3>. QED
        BY <3>1, MaxOfInterval
    <2>2. 1..(k + 1) \in SUBSET S /\ k + 1 \in 0..n /\ k \in 0..n
      BY <1>2, <1>12
    <2>. QED
      BY <1>10, <2>1, <2>2
  <1>. HIDE DEF p, Fold
  <1>13. ASSUME NEW k \in Nat, k \in P PROVE k + 1 \in P
    <2>1. SUFFICES ASSUME k + 1 <= n PROVE p[k + 1] \in V
      OBVIOUS
    <2>2. k + 1 \in 1..n /\ p[k] \in V
      BY <1>2, <1>13, <2>1
    <2>. QED
      BY <1>4, <1>12, <2>1, <2>2
  <1>14. 0 \in P
    BY <1>3, <1>11
  <1>. HIDE DEF P
  <1>15. \A k \in Nat : k \in P
    BY <1>13, <1>14, AllNat
  <1>16. \A k \in 0..n : p[k] \in V
    BY <1>2, <1>15 DEF P
  <1>17. ASSUME NEW k \in 1..n
         PROVE  p[k] = IF m.buckets[k] = <<>> THEN p[k - 1] ELSE Append(p[k - 1], k)
    <2>1. k - 1 \in Nat /\ (k - 1) + 1 = k /\ k <= n /\ k - 1 \in 0..n
      BY <1>2
    <2>. QED
      BY <1>4, <1>12, <1>16, <2>1
  <1>18. p \in [0..n -> V] /\ p[n] = iter[S]
    BY <1>2, <1>16 DEF p
  <1>. QED
    BY <1>1, <1>11, <1>17, <1>18 DEF Finds, n, V

\* A window that holds a value is among those reported.
LEMMA FilledWindows ==
  ASSUME NEW start \in Int, NEW end \in Int, NEW m \in Metrics(start, end),
         NEW w \in 1..NBuckets(start, end), m.buckets[w] # <<>>
  PROVE  \E k \in DOMAIN Filled(m) : Filled(m)[k] = w
  <1>. DEFINE n == NBuckets(start, end)
  <1>1. n \in Nat /\ w \in 1..n
    BY NBucketsAtLeastOne
  <1>2. PICK p : Finds(p, m, n) /\ Filled(m) = p[n]
    BY FilledFinds
  <1>. HIDE DEF n
  <1>. DEFINE Has(f) == \E j \in DOMAIN f : f[j] = w
              P == {k \in Nat : k <= n => (w <= k => Has(p[k]))}
  <1>3. 0 \in P
    BY <1>1
  <1>4. ASSUME NEW k \in Nat, k \in P PROVE k + 1 \in P
    <2>1. SUFFICES ASSUME k + 1 <= n, w <= k + 1 PROVE Has(p[k + 1])
      OBVIOUS
    <2>2. k + 1 \in 1..n /\ k \in 0..n /\ (k + 1) - 1 = k
      BY <1>1, <2>1
    <2>3. p[k] \in Seq(1..n) /\ p[k + 1] = IF m.buckets[k + 1] = <<>> THEN p[k]
                                         ELSE Append(p[k], k + 1)
      BY <1>2, <2>2 DEF Finds
    <2>4. w <= k => Has(p[k])
      BY <1>1, <1>4, <2>1
    <2>5. /\ Len(p[k]) + 1 \in DOMAIN Append(p[k], k + 1)
          /\ Append(p[k], k + 1)[Len(p[k]) + 1] = k + 1
          /\ \A j \in DOMAIN p[k] : /\ j \in DOMAIN Append(p[k], k + 1)
                                    /\ Append(p[k], k + 1)[j] = p[k][j]
      BY <2>2, <2>3, AppendProperties
    <2>6. CASE w = k + 1
      <3>1. p[k + 1] = Append(p[k], k + 1)
        BY <2>3, <2>6
      <3>. QED
        BY <2>5, <2>6, <3>1
    <2>7. CASE w # k + 1
      <3>1. Has(p[k])
        BY <1>1, <2>1, <2>4, <2>7
      <3>. QED
        BY <2>3, <2>5, <3>1
    <2>. QED
      BY <2>6, <2>7
  <1>. HIDE DEF P
  <1>5. \A k \in Nat : k \in P
    BY <1>3, <1>4, AllNat
  <1>. QED
    BY <1>1, <1>2, <1>5 DEF P

\* The least of a window is below its values.
LEMMA LeastIsBelow ==
  ASSUME NEW s \in Seq(Int), NEW v \in Range(s)
  PROVE  Least(s) <= v
  <1>1. Len(s) \in Nat /\ DOMAIN s = 1..Len(s) /\ \A i \in 1..Len(s) : s[i] \in Int
    OBVIOUS
  <1>2. PICK k \in 1..Len(s) : s[k] = v
    BY <1>1 DEF Range
  <1>. DEFINE L == Len(s)
              P == {n \in Nat : n \in 1..L => \E i \in 1..n : \A j \in 1..n : s[i] <= s[j]}
  <1>. HIDE DEF L
  <1>3. 0 \in P
    OBVIOUS
  <1>4. ASSUME NEW n \in Nat, n \in P PROVE n + 1 \in P
    <2>1. SUFFICES ASSUME n + 1 \in 1..L
                   PROVE  \E i \in 1..(n + 1) : \A j \in 1..(n + 1) : s[i] <= s[j]
      OBVIOUS
    <2>2. \A i \in 1..(n + 1) : s[i] \in Int /\ (i \in 1..n \/ i = n + 1)
      BY <1>1, <2>1 DEF L
    <2>3. CASE n = 0
      BY <2>2, <2>3
    <2>4. CASE n # 0
      <3>1. PICK i \in 1..n : \A j \in 1..n : s[i] <= s[j]
        <4>1. n \in 1..L
          BY <1>1, <2>1, <2>4 DEF L
        <4>. QED
          BY <1>4, <4>1
      <3>2. i \in 1..(n + 1) /\ n + 1 \in 1..(n + 1) /\ s[i] \in Int /\ s[n + 1] \in Int
        BY <2>2
      <3>3. CASE s[i] <= s[n + 1]
        <4>1. \A j \in 1..(n + 1) : s[i] <= s[j]
          BY <2>2, <3>1, <3>3
        <4>. QED
          BY <3>2, <4>1
      <3>4. CASE s[n + 1] <= s[i]
        <4>1. ASSUME NEW j \in 1..(n + 1) PROVE s[n + 1] <= s[j]
          <5>1. s[j] \in Int /\ (s[i] <= s[j] \/ j = n + 1)
            BY <2>2, <3>1
          <5>. QED
            BY <3>2, <3>4, <5>1
        <4>. QED
          BY <3>2, <4>1
      <3>5. s[i] <= s[n + 1] \/ s[n + 1] <= s[i]
        BY <3>2
      <3>. QED
        BY <3>3, <3>4, <3>5, Zenon
    <2>. QED
      BY <2>3, <2>4
  <1>. HIDE DEF P
  <1>5. L \in P
    BY <1>1, <1>3, <1>4, AllNat DEF L
  <1>6. PICK i \in 1..L : \A j \in 1..L : s[i] <= s[j]
    BY <1>1, <1>2, <1>5 DEF P, L
  <1>7. s[i] \in Range(s) /\ \A y \in Range(s) : s[i] <= y
    BY <1>1, <1>6 DEF Range, L
  <1>8. \A y \in Range(s) : Least(s) <= y
    BY <1>7 DEF Least, Min
  <1>. QED
    BY <1>8

\* Whole periods, and what is left of one.
LEMMA WholePeriods ==
  ASSUME NEW d \in Int, NEW P \in Nat, P > 0
  PROVE  /\ d \div P \in Int
         /\ (d \div P) * P <= d /\ d < (d \div P) * P + P
  BY SMTT(60)

\* A time lies in its window.
LEMMA TimeInWindow ==
  ASSUME NEW start \in Int, NEW end \in Int, NEW m \in Metrics(start, end), NEW t \in Int,
         InRange(m, t)
  PROVE  /\ start + BucketOf(m, t) * Period \in Int
         /\ start + BucketOf(m, t) * Period <= Max({t, start})
         /\ t < start + BucketOf(m, t) * Period + Period \/ t = end
  <1>. DEFINE n == NBuckets(start, end)
              b == BucketOf(m, t)
  <1>1. Period \in Nat /\ Period > 0
    BY PeriodAssumption
  <1>2. n \in Nat \ {0} /\ n = Max({1, (end - start + Period - 1) \div Period})
    BY NBucketsAtLeastOne DEF NBuckets
  <1>3. m.start = start /\ m.end = end /\ Len(m.buckets) = n
    <2>1. m.start = start /\ m.end = end /\ m.buckets \in [1..n -> Seq(Int)]
      BY DEF Metrics
    <2>. HIDE DEF n
    <2>. QED
      BY <1>2, <2>1
  <1>4. Max({t, start}) = IF t >= start THEN t ELSE start
    BY MaxOfTwo
  <1>. HIDE DEF n
  <1>5. CASE t = end
    <2>. DEFINE e == end - start + Period - 1
                q == e \div Period
    <2>1. b = n - 1
      BY <1>3, <1>5 DEF BucketOf
    <2>2. e \in Int
      BY <1>1
    <2>. HIDE DEF e
    <2>3. q \in Int /\ q * Period <= e
      BY <1>1, <2>2, WholePeriods
    <2>4. n = IF 1 >= q THEN 1 ELSE q
      BY <1>2, <2>3, MaxOfTwo DEF e
    <2>. HIDE DEF q, b
    <2>5. CASE 1 >= q
      <3>1. b = 0
        BY <2>1, <2>4, <2>5
      <3>. QED
        BY <1>1, <1>4, <1>5, <3>1 DEF b
    <2>6. CASE ~(1 >= q)
      <3>1. b = q - 1
        BY <2>1, <2>3, <2>4, <2>6
      <3>2. b \in Int /\ b * Period = q * Period - Period /\ q * Period \in Int
        BY <1>1, <2>3, <3>1
      <3>3. start + b * Period <= end
        BY <1>1, <2>2, <2>3, <3>2 DEF e
      <3>. QED
        BY <1>1, <1>4, <1>5, <3>2, <3>3 DEF b
    <2>. QED
      BY <2>5, <2>6
  <1>6. CASE t # end
    <2>. DEFINE d == t - start
                q == d \div Period
    <2>1. b = Max({0, q})
      BY <1>3, <1>6 DEF BucketOf
    <2>2. d \in Int
      OBVIOUS
    <2>. HIDE DEF d
    <2>3. q \in Int /\ q * Period <= d /\ d < q * Period + Period
      BY <1>1, <2>2, WholePeriods
    <2>4. b = IF 0 >= q THEN 0 ELSE q
      BY <2>1, <2>3, MaxOfTwo
    <2>. HIDE DEF q, b
    <2>5. CASE 0 >= q
      <3>1. b = 0
        BY <2>4, <2>5
      <3>2. q * Period <= 0
        BY <1>1, <2>3, <2>5
      <3>. QED
        BY <1>1, <1>4, <2>2, <2>3, <3>1, <3>2 DEF b, d
    <2>6. CASE ~(0 >= q)
      <3>1. b = q
        BY <2>4, <2>6
      <3>2. q * Period \in Int
        BY <1>1, <2>3
      <3>. QED
        BY <1>1, <1>4, <2>2, <2>3, <3>1, <3>2 DEF b, d
    <2>. QED
      BY <2>5, <2>6
  <1>. QED
    BY <1>5, <1>6

\* The gauge of a metric, as the backpressure is reported.
Reported(m) == GenerateGauged(m, Least)

\* The values of a time's window are not below what is reported of it.
LEMMA ReportedOfWindow ==
  ASSUME NEW start \in Int, NEW end \in Int, NEW m \in Metrics(start, end), NEW t \in Int,
         InRange(m, t), NEW v \in Range(m.buckets[BucketOf(m, t) + 1])
  PROVE  \E k \in DOMAIN Reported(m).t :
           /\ Reported(m).t[k] <= Max({t, start})
           /\ t < Reported(m).t[k] + Period \/ t = end
           /\ Reported(m).values[k] <= v
  <1>. DEFINE b == BucketOf(m, t)
              w == b + 1
  <1>1. w \in 1..NBuckets(start, end) /\ NBuckets(start, end) \in Nat \ {0}
    BY BucketOfTime, NBucketsAtLeastOne
  <1>2. m.start = start /\ m.buckets[w] \in Seq(Int)
    BY <1>1 DEF Metrics
  <1>3. m.buckets[w] # <<>>
    BY <1>2 DEF Range
  <1>4. PICK k \in DOMAIN Filled(m) : Filled(m)[k] = w
    BY <1>1, <1>3, FilledWindows
  <1>5. /\ DOMAIN Reported(m).t = DOMAIN Filled(m)
        /\ Reported(m).t[k] = start + (Filled(m)[k] - 1) * Period
        /\ Reported(m).values[k] = Least(m.buckets[Filled(m)[k]])
    BY <1>2 DEF Reported, GenerateGauged, Starts, PerBucket
  <1>6. Least(m.buckets[w]) <= v
    BY <1>2, LeastIsBelow
  <1>7. /\ start + b * Period \in Int
        /\ start + b * Period <= Max({t, start})
        /\ t < start + b * Period + Period \/ t = end
    BY TimeInWindow
  <1>8. w - 1 = b
    <2>1. BucketOf(m, t) + 1 \in 1..NBuckets(start, end)
      BY <1>1
    <2>2. b \in Int
      <3>1. CASE t = m.end
        <4>1. b = Len(m.buckets) - 1
          BY <3>1 DEF BucketOf
        <4>2. Len(m.buckets) = NBuckets(start, end)
          BY <1>1 DEF Metrics
        <4>. HIDE DEF b
        <4>. QED
          BY <1>1, <4>1, <4>2
      <3>2. CASE t # m.end
        <4>1. (t - start) \div Period \in Int
          BY PeriodAssumption, WholePeriods
        <4>2. b = Max({0, (t - start) \div Period})
          BY <1>2, <3>2 DEF BucketOf
        <4>. HIDE DEF b
        <4>. QED
          BY <4>1, <4>2, MaxOfTwo
      <3>. QED
        BY <3>1, <3>2
    <2>. HIDE DEF b
    <2>. QED
      BY <2>2
  <1>9. Reported(m).t[k] = start + b * Period
    BY <1>4, <1>5, <1>8
  <1>. HIDE DEF b
  <1>. QED
    BY <1>4, <1>5, <1>6, <1>7, <1>9

\* new is m with the value v in the window of time t.
AddsTo(new, m, v, t, n) ==
  /\ v \in Range(new.buckets[BucketOf(m, t) + 1])
  /\ \A w \in 1..n : Range(m.buckets[w]) \subseteq Range(new.buckets[w])
  /\ \A u : BucketOf(new, u) = BucketOf(m, u)

\* A value that is added goes to the window of its time, and nothing is taken away.
LEMMA AddToWindow ==
  ASSUME NEW start \in Int, NEW end \in Int, NEW m \in Metrics(start, end), NEW t \in Int,
         InRange(m, t), NEW v \in Int
  PROVE  AddsTo(Add(m, v, t), m, v, t, NBuckets(start, end))
  <1>. DEFINE new == Add(m, v, t)
              b == BucketOf(m, t) + 1
              n == NBuckets(start, end)
  <1>1. new \in Metrics(start, end) /\ PutAt(new, m, v, b, n)
    BY AddIs
  <1>2. \A x \in Metrics(start, end) : x.end = end /\ x.start = start /\ Len(x.buckets) = n
    <2>1. \A x \in Metrics(start, end) :
            x.end = end /\ x.start = start /\ x.buckets \in [1..n -> Seq(Int)]
      BY DEF Metrics
    <2>2. n \in Nat
      BY NBucketsAtLeastOne
    <2>. HIDE DEF n
    <2>. QED
      BY <2>1, <2>2
  <1>. HIDE DEF new, n, b
  <1>3. \A u : BucketOf(new, u) = BucketOf(m, u)
    BY <1>1, <1>2 DEF BucketOf
  <1>4. ASSUME NEW s \in Seq(Int)
        PROVE  v \in Range(Append(s, v)) /\ Range(s) \subseteq Range(Append(s, v))
    <2>. DEFINE a == Append(s, v)
    <2>1. /\ Len(s) \in Nat /\ DOMAIN a = 1..(Len(s) + 1) /\ a[Len(s) + 1] = v
          /\ DOMAIN s = 1..Len(s) /\ \A j \in 1..Len(s) : a[j] = s[j]
      BY AppendProperties
    <2>. HIDE DEF a
    <2>2. Len(s) + 1 \in DOMAIN a /\ \A j \in DOMAIN s : j \in DOMAIN a /\ a[j] = s[j]
      BY <2>1
    <2>3. v \in Range(a) /\ Range(s) \subseteq Range(a)
      BY <2>1, <2>2 DEF Range
    <2>. QED
      BY <2>3 DEF a
  <1>5. /\ v \in Range(new.buckets[b])
        /\ \A w \in 1..n : Range(m.buckets[w]) \subseteq Range(new.buckets[w])
    BY <1>1, <1>4 DEF PutAt
  <1>. QED
    BY <1>3, <1>5 DEF AddsTo, b, n, new

-----------------------------------------------------------------------------
(* Sums, and what a sequence weighs when each element has a weight.        *)

\* p adds up the first N terms of u; a sum is such a p at its end.
IsSum(u, N, p) ==
  /\ p \in [0..N -> Int] /\ p[0] = 0
  /\ \A k \in 1..N : p[k] = p[k - 1] + u[k]
SumTo(u, N) == (CHOOSE p : IsSum(u, N, p))[N]

\* There is such a p.
LEMMA SumExists ==
  ASSUME NEW u, NEW N \in Nat, \A k \in 1..N : u[k] \in Int
  PROVE  \E p : IsSum(u, N, p)
  <1>. DEFINE P == {n \in Nat : n <= N => \E p : IsSum(u, n, p)}
  <1>1. 0 \in P
    <2>1. IsSum(u, 0, [k \in 0..0 |-> 0])
      BY DEF IsSum
    <2>. QED
      BY <2>1
  <1>2. ASSUME NEW n \in Nat, n \in P PROVE n + 1 \in P
    <2>1. SUFFICES ASSUME n + 1 <= N PROVE \E p : IsSum(u, n + 1, p)
      OBVIOUS
    <2>2. PICK p : IsSum(u, n, p)
      BY <1>2, <2>1
    <2>3. u[n + 1] \in Int
      BY <2>1
    <2>. DEFINE q == [k \in 0..(n + 1) |-> IF k <= n THEN p[k] ELSE p[n] + u[n + 1]]
    <2>4. q \in [0..(n + 1) -> Int]
      BY <2>2, <2>3 DEF IsSum
    <2>5. ASSUME NEW k \in 1..(n + 1) PROVE q[k] = q[k - 1] + u[k]
      BY <2>2 DEF IsSum
    <2>6. q[0] = 0
      BY <2>2 DEF IsSum
    <2>. HIDE DEF q
    <2>. QED
      BY <2>4, <2>5, <2>6 DEF IsSum
  <1>. HIDE DEF P
  <1>3. N \in P
    BY <1>1, <1>2, AllNat
  <1>. QED
    BY <1>3 DEF P

\* Two of them that count the same terms agree.
LEMMA SumIsOne ==
  ASSUME NEW u, NEW w, NEW N \in Nat, NEW M \in Nat, NEW p, NEW q,
         IsSum(u, N, p), IsSum(w, M, q), NEW n \in Nat, n <= N, n <= M,
         \A k \in 1..n : u[k] = w[k]
  PROVE  p[n] = q[n]
  <1>. DEFINE P == {k \in Nat : k <= n => p[k] = q[k]}
  <1>1. 0 \in P
    BY DEF IsSum
  <1>2. ASSUME NEW k \in Nat, k \in P PROVE k + 1 \in P
    <2>1. SUFFICES ASSUME k + 1 <= n PROVE p[k + 1] = q[k + 1]
      OBVIOUS
    <2>2. k + 1 \in 1..n /\ k + 1 \in 1..N /\ k + 1 \in 1..M /\ (k + 1) - 1 = k
      BY <2>1
    <2>3. p[k] = q[k]
      BY <1>2, <2>1
    <2>4. p[k + 1] = p[k] + u[k + 1] /\ q[k + 1] = q[k] + w[k + 1]
      BY <2>2 DEF IsSum
    <2>. QED
      BY <2>2, <2>3, <2>4
  <1>. HIDE DEF P
  <1>3. n \in P
    BY <1>1, <1>2, AllNat
  <1>. QED
    BY <1>3 DEF P

\* A sum, term by term.
LEMMA SumIs ==
  ASSUME NEW u, NEW N \in Nat, \A k \in 1..N : u[k] \in Int
  PROVE  /\ SumTo(u, 0) = 0
         /\ \A n \in 0..N : SumTo(u, n) \in Int
         /\ \A n \in 1..N : SumTo(u, n) = SumTo(u, n - 1) + u[n]
  <1>1. PICK p : IsSum(u, N, p)
    BY SumExists
  <1>2. ASSUME NEW n \in 0..N PROVE SumTo(u, n) = p[n]
    <2>. DEFINE q == CHOOSE q : IsSum(u, n, q)
    <2>1. n \in Nat /\ n <= N /\ n <= n /\ \A k \in 1..n : u[k] \in Int
      OBVIOUS
    <2>2. IsSum(u, n, q)
      BY <2>1, SumExists
    <2>. HIDE DEF q
    <2>3. q[n] = p[n]
      BY <1>1, <2>1, <2>2, SumIsOne
    <2>. QED
      BY <2>3 DEF SumTo, q
  <1>3. \A n \in 1..N : n - 1 \in 0..N /\ n \in 0..N
    OBVIOUS
  <1>4. 0 \in 0..N
    OBVIOUS
  <1>5. p \in [0..N -> Int] /\ p[0] = 0 /\ \A k \in 1..N : p[k] = p[k - 1] + u[k]
    BY <1>1 DEF IsSum
  <1>. QED
    BY <1>2, <1>3, <1>4, <1>5

\* Equal terms make equal sums.
LEMMA SumSame ==
  ASSUME NEW u, NEW w, NEW N \in Nat, \A k \in 1..N : u[k] \in Int /\ u[k] = w[k]
  PROVE  SumTo(u, N) = SumTo(w, N)
  <1>. DEFINE p == CHOOSE p : IsSum(u, N, p)
              q == CHOOSE q : IsSum(w, N, q)
  <1>1. IsSum(u, N, p) /\ IsSum(w, N, q)
    BY SumExists
  <1>. HIDE DEF p, q
  <1>2. p[N] = q[N]
    <2>1. N <= N /\ \A k \in 1..N : u[k] = w[k]
      OBVIOUS
    <2>. QED
      BY <1>1, <2>1, SumIsOne
  <1>. QED
    BY <1>2 DEF SumTo, p, q

\* One term that is greater by v makes a sum that is.
LEMMA SumBump ==
  ASSUME NEW u, NEW w, NEW N \in Nat, NEW b \in 1..N, NEW v \in Int,
         \A k \in 1..N : u[k] \in Int /\ w[k] = IF k = b THEN u[k] + v ELSE u[k]
  PROVE  SumTo(w, N) = SumTo(u, N) + v
  <1>. DEFINE P == {n \in Nat : n <= N =>
                     SumTo(w, n) = IF b <= n THEN SumTo(u, n) + v ELSE SumTo(u, n)}
  <1>1. \A k \in 1..N : u[k] \in Int /\ w[k] \in Int
    OBVIOUS
  <1>2. /\ SumTo(u, 0) = 0 /\ SumTo(w, 0) = 0
        /\ \A n \in 0..N : SumTo(u, n) \in Int /\ SumTo(w, n) \in Int
        /\ \A n \in 1..N : /\ SumTo(u, n) = SumTo(u, n - 1) + u[n]
                           /\ SumTo(w, n) = SumTo(w, n - 1) + w[n]
    BY <1>1, SumIs
  <1>3. 0 \in P
    BY <1>2
  <1>4. ASSUME NEW n \in Nat, n \in P PROVE n + 1 \in P
    <2>1. SUFFICES ASSUME n + 1 <= N
                   PROVE  SumTo(w, n + 1) = IF b <= n + 1 THEN SumTo(u, n + 1) + v
                                            ELSE SumTo(u, n + 1)
      OBVIOUS
    <2>2. n + 1 \in 1..N /\ (n + 1) - 1 = n /\ n \in 0..N
      BY <2>1
    <2>3. /\ SumTo(u, n + 1) = SumTo(u, n) + u[n + 1] /\ SumTo(w, n + 1) = SumTo(w, n) + w[n + 1]
          /\ SumTo(u, n) \in Int /\ SumTo(w, n) \in Int /\ u[n + 1] \in Int
          /\ w[n + 1] = IF n + 1 = b THEN u[n + 1] + v ELSE u[n + 1]
      BY <1>2, <2>2
    <2>4. SumTo(w, n) = IF b <= n THEN SumTo(u, n) + v ELSE SumTo(u, n)
      BY <1>4, <2>1
    <2>. QED
      BY <2>3, <2>4
  <1>. HIDE DEF P
  <1>5. N \in P
    BY <1>3, <1>4, AllNat
  <1>. QED
    BY <1>5 DEF P

\* A sum of zeros.
LEMMA SumZeros ==
  ASSUME NEW u, NEW N \in Nat, \A k \in 1..N : u[k] = 0
  PROVE  SumTo(u, N) = 0
  <1>1. /\ SumTo(u, 0) = 0 /\ \A n \in 1..N : SumTo(u, n) = SumTo(u, n - 1) + u[n]
    BY SumIs
  <1>. DEFINE P == {n \in Nat : n <= N => SumTo(u, n) = 0}
  <1>2. ASSUME NEW n \in Nat, n \in P PROVE n + 1 \in P
    <2>1. SUFFICES ASSUME n + 1 <= N PROVE SumTo(u, n + 1) = 0
      OBVIOUS
    <2>2. n + 1 \in 1..N /\ (n + 1) - 1 = n /\ SumTo(u, n) = 0
      BY <1>2, <2>1
    <2>. QED
      BY <1>1, <2>2
  <1>3. 0 \in P
    BY <1>1
  <1>. HIDE DEF P
  <1>4. \A n \in Nat : n \in P
    BY <1>2, <1>3, AllNat
  <1>. QED
    BY <1>4 DEF P

\* ... and of ones.
LEMMA SumOnes ==
  ASSUME NEW u, NEW N \in Nat, \A k \in 1..N : u[k] = 1
  PROVE  SumTo(u, N) = N
  <1>1. /\ SumTo(u, 0) = 0 /\ \A n \in 1..N : SumTo(u, n) = SumTo(u, n - 1) + u[n]
    BY SumIs
  <1>. DEFINE P == {n \in Nat : n <= N => SumTo(u, n) = n}
  <1>2. ASSUME NEW n \in Nat, n \in P PROVE n + 1 \in P
    <2>1. SUFFICES ASSUME n + 1 <= N PROVE SumTo(u, n + 1) = n + 1
      OBVIOUS
    <2>2. n + 1 \in 1..N /\ (n + 1) - 1 = n /\ SumTo(u, n) = n
      BY <1>2, <2>1
    <2>. QED
      BY <1>1, <2>2
  <1>3. 0 \in P
    BY <1>1
  <1>. HIDE DEF P
  <1>4. \A n \in Nat : n \in P
    BY <1>2, <1>3, AllNat
  <1>. QED
    BY <1>4 DEF P

\* What a sequence weighs: the sum over its elements.
Weight(s, W) == SumTo([j \in 1..Len(s) |-> W[s[j]]], Len(s))

\* It is an integer, and nothing weighs nothing.
LEMMA WeightIsInt ==
  ASSUME NEW V, NEW W \in [V -> Int], NEW s \in Seq(V)
  PROVE  /\ Weight(s, W) \in Int /\ Weight(<<>>, W) = 0
         /\ Len(s) \in Nat /\ \A j \in 1..Len(s) : s[j] \in V /\ W[s[j]] \in Int
  <1>1. Len(s) \in Nat /\ \A j \in 1..Len(s) : s[j] \in V
    OBVIOUS
  <1>2. \A j \in 1..Len(s) : W[s[j]] \in Int
    BY <1>1
  <1>. DEFINE N == Len(s)
              u == [j \in 1..N |-> W[s[j]]]
  <1>. HIDE DEF N
  <1>3. N \in Nat /\ \A j \in 1..N : u[j] \in Int
    BY <1>1, <1>2 DEF N
  <1>. HIDE DEF u
  <1>4. SumTo(u, N) \in Int
    <2>1. N \in 0..N
      BY <1>3
    <2>. QED
      BY <1>3, <2>1, SumIs
  <1>5. Weight(<<>>, W) = 0
    <2>. DEFINE z == [j \in 1..0 |-> W[<<>>[j]]]
    <2>1. Weight(<<>>, W) = SumTo(z, 0)
      BY DEF Weight
    <2>2. \A k \in 1..0 : z[k] \in Int
      OBVIOUS
    <2>. HIDE DEF z
    <2>. QED
      BY <2>1, <2>2, SumIs
  <1>. QED
    BY <1>1, <1>2, <1>4, <1>5 DEF Weight, u, N

\* Sequences one after the other weigh what they weigh together.
LEMMA WeightConcat ==
  ASSUME NEW V, NEW W \in [V -> Int], NEW a \in Seq(V), NEW b \in Seq(V)
  PROVE  Weight(a \o b, W) = Weight(a, W) + Weight(b, W)
  <1>. DEFINE A == Len(a)
              B == Len(b)
              u == [j \in 1..A |-> W[a[j]]]
              w == [j \in 1..B |-> W[b[j]]]
              z == [j \in 1..Len(a \o b) |-> W[(a \o b)[j]]]
  <1>1. A \in Nat /\ B \in Nat /\ Len(a \o b) = A + B
    BY ConcatProperties
  <1>2. /\ \A j \in 1..A : a[j] \in V /\ W[a[j]] \in Int
        /\ \A j \in 1..B : b[j] \in V /\ W[b[j]] \in Int
    BY WeightIsInt
  <1>3. /\ \A j \in 1..A : (a \o b)[j] = a[j]
        /\ \A j \in 1..B : (a \o b)[A + j] = b[j]
    <2>1. \A j \in 1..(Len(a) + Len(b)) :
            (a \o b)[j] = IF j <= Len(a) THEN a[j] ELSE b[j - Len(a)]
      BY ConcatProperties
    <2>2. \A j \in 1..A : j \in 1..(A + B) /\ j <= A
      BY <1>1
    <2>3. \A j \in 1..B : A + j \in 1..(A + B) /\ ~(A + j <= A) /\ (A + j) - A = j
      BY <1>1
    <2>. QED
      BY <2>1, <2>2, <2>3
  <1>4. /\ Weight(a, W) = SumTo(u, A) /\ Weight(b, W) = SumTo(w, B)
        /\ Weight(a \o b, W) = SumTo(z, A + B)
    BY <1>1 DEF Weight
  <1>. HIDE DEF A, B
  <1>5. /\ \A j \in 1..A : z[j] = u[j] /\ u[j] \in Int
        /\ \A j \in 1..B : z[A + j] = w[j] /\ w[j] \in Int
    <2>1. \A j \in 1..A : j \in 1..(A + B)
      BY <1>1
    <2>2. \A j \in 1..B : A + j \in 1..(A + B)
      BY <1>1
    <2>. QED
      BY <1>1, <1>2, <1>3, <2>1, <2>2
  <1>. HIDE DEF u, w, z
  <1>6. \A j \in 1..(A + B) : z[j] \in Int
    <2>1. ASSUME NEW j \in 1..(A + B), ~(j \in 1..A) PROVE z[j] \in Int
      <3>1. j - A \in 1..B /\ A + (j - A) = j
        BY <1>1, <2>1
      <3>2. z[A + (j - A)] = w[j - A] /\ w[j - A] \in Int
        BY <1>5, <3>1
      <3>. QED
        BY <3>1, <3>2
    <2>. QED
      BY <1>5, <2>1
  <1>7. SumTo(z, A) = SumTo(u, A)
    BY <1>1, <1>5, SumSame
  <1>. DEFINE P == {n \in Nat : n <= B => SumTo(z, A + n) = SumTo(z, A) + SumTo(w, n)}
  <1>8. /\ SumTo(w, 0) = 0 /\ \A n \in 0..B : SumTo(w, n) \in Int
        /\ \A n \in 1..B : SumTo(w, n) = SumTo(w, n - 1) + w[n]
    BY <1>1, <1>5, SumIs
  <1>9. /\ \A n \in 0..(A + B) : SumTo(z, n) \in Int
        /\ \A n \in 1..(A + B) : SumTo(z, n) = SumTo(z, n - 1) + z[n]
    <2>1. A + B \in Nat
      BY <1>1
    <2>. QED
      BY <1>6, <2>1, SumIs
  <1>10. 0 \in P
    <2>1. A + 0 = A /\ A \in 0..(A + B)
      BY <1>1
    <2>2. SumTo(z, A) \in Int
      BY <1>9, <2>1
    <2>. QED
      BY <1>8, <2>1, <2>2
  <1>11. ASSUME NEW n \in Nat, n \in P PROVE n + 1 \in P
    <2>1. SUFFICES ASSUME n + 1 <= B PROVE SumTo(z, A + (n + 1)) = SumTo(z, A) + SumTo(w, n + 1)
      OBVIOUS
    <2>2. /\ n + 1 \in 1..B /\ (n + 1) - 1 = n /\ A + (n + 1) \in 1..(A + B) /\ n \in 0..B
          /\ (A + (n + 1)) - 1 = A + n /\ A \in 0..(A + B)
      BY <1>1, <2>1
    <2>3. SumTo(w, n + 1) = SumTo(w, n) + w[n + 1] /\ SumTo(w, n) \in Int /\ w[n + 1] \in Int
      BY <1>5, <1>8, <2>2
    <2>4. SumTo(z, A + (n + 1)) = SumTo(z, A + n) + w[n + 1] /\ SumTo(z, A) \in Int
      BY <1>5, <1>9, <2>2
    <2>5. SumTo(z, A + n) = SumTo(z, A) + SumTo(w, n)
      <3>1. n <= B
        BY <1>1, <2>1
      <3>. QED
        BY <1>11, <3>1
    <2>. QED
      BY <2>3, <2>4, <2>5
  <1>. HIDE DEF P
  <1>12. B \in P
    BY <1>1, <1>10, <1>11, AllNat
  <1>. QED
    BY <1>1, <1>4, <1>7, <1>12 DEF P

\* One element alone.
LEMMA WeightOne ==
  ASSUME NEW V, NEW W \in [V -> Int], NEW x \in V
  PROVE  Weight(<<x>>, W) = W[x]
  <1>. DEFINE u == [j \in 1..1 |-> W[<<x>>[j]]]
  <1>1. Weight(<<x>>, W) = SumTo(u, 1)
    BY DEF Weight
  <1>2. \A k \in 1..1 : u[k] \in Int /\ u[k] = W[x]
    OBVIOUS
  <1>. HIDE DEF u
  <1>3. SumTo(u, 0) = 0 /\ \A n \in 1..1 : SumTo(u, n) = SumTo(u, n - 1) + u[n]
    BY <1>2, SumIs
  <1>4. 1 \in 1..1 /\ 1 - 1 = 0
    OBVIOUS
  <1>5. SumTo(u, 1) = SumTo(u, 0) + u[1] /\ u[1] \in Int /\ u[1] = W[x]
    BY <1>2, <1>3, <1>4
  <1>. QED
    BY <1>1, <1>3, <1>5

\* An element more.
LEMMA WeightAppend ==
  ASSUME NEW V, NEW W \in [V -> Int], NEW s \in Seq(V), NEW x \in V
  PROVE  Weight(Append(s, x), W) = Weight(s, W) + W[x]
  <1>1. Append(s, x) = s \o <<x>> /\ <<x>> \in Seq(V)
    OBVIOUS
  <1>2. Weight(s \o <<x>>, W) = Weight(s, W) + Weight(<<x>>, W)
    BY <1>1, WeightConcat
  <1>. QED
    BY <1>1, <1>2, WeightOne

\* What each of N sequences weighs.
Weights(seqs, W, N) == [i \in 1..N |-> Weight(seqs[i], W)]

\* Sequences joined weigh what they weigh one by one.
LEMMA WeightFlatten ==
  ASSUME NEW V, NEW W \in [V -> Int], NEW N \in Nat, NEW seqs \in [1..N -> Seq(V)]
  PROVE  /\ FlattenSeq(seqs) \in Seq(V)
         /\ \A i \in 1..N : Weight(seqs[i], W) \in Int
         /\ Weight(FlattenSeq(seqs), W) = SumTo(Weights(seqs, W, N), N)
  <1>. DEFINE u == Weights(seqs, W, N)
  <1>1. \A i \in 1..N : seqs[i] \in Seq(V) /\ u[i] \in Int /\ u[i] = Weight(seqs[i], W)
    BY WeightIsInt DEF Weights
  <1>. HIDE DEF u
  <1>2. /\ SumTo(u, 0) = 0 /\ \A n \in 0..N : SumTo(u, n) \in Int
        /\ \A n \in 1..N : SumTo(u, n) = SumTo(u, n - 1) + u[n]
    BY <1>1, SumIs
  <1>3. Weight(FlattenSeq(seqs), W) = SumTo(u, N)
    <2>1. CASE N = 0
      <3>1. FlattenSeq(seqs) = <<>>
        BY <2>1, FlattenIs
      <3>2. Weight(<<>>, W) = 0
        <4>1. <<>> \in Seq(V)
          OBVIOUS
        <4>. QED
          BY <4>1, WeightIsInt
      <3>. QED
        BY <1>2, <2>1, <3>1, <3>2
    <2>2. CASE N # 0
      <3>1. PICK g : Flattens(g, seqs, N, V) /\ FlattenSeq(seqs) = g[N]
        BY <2>2, FlattenIs
      <3>. DEFINE P == {n \in Nat : n \in 1..N => Weight(g[n], W) = SumTo(u, n)}
      <3>2. 0 \in P
        OBVIOUS
      <3>3. ASSUME NEW n \in Nat, n \in P PROVE n + 1 \in P
        <4>1. SUFFICES ASSUME n + 1 \in 1..N PROVE Weight(g[n + 1], W) = SumTo(u, n + 1)
          OBVIOUS
        <4>2. SumTo(u, n + 1) = SumTo(u, n) + u[n + 1] /\ u[n + 1] = Weight(seqs[n + 1], W)
              /\ u[n + 1] \in Int /\ seqs[n + 1] \in Seq(V)
          <5>1. (n + 1) - 1 = n
            OBVIOUS
          <5>. QED
            BY <1>1, <1>2, <4>1, <5>1
        <4>3. CASE n = 0
          <5>1. g[n + 1] = seqs[n + 1]
            BY <3>1, <4>1, <4>3 DEF Flattens
          <5>. QED
            BY <1>2, <4>2, <4>3, <5>1
        <4>4. CASE n # 0
          <5>1. n \in 1..N /\ n + 1 # 1 /\ (n + 1) - 1 = n
            BY <4>1, <4>4
          <5>2. g[n] \in Seq(V) /\ g[n + 1] = g[n] \o seqs[n + 1]
            BY <3>1, <4>1, <5>1 DEF Flattens
          <5>3. Weight(g[n], W) = SumTo(u, n)
            BY <3>3, <5>1
          <5>4. Weight(g[n] \o seqs[n + 1], W) = Weight(g[n], W) + Weight(seqs[n + 1], W)
            BY <4>2, <5>2, WeightConcat
          <5>. QED
            BY <4>2, <5>2, <5>3, <5>4
        <4>. QED
          BY <4>3, <4>4
      <3>. HIDE DEF P
      <3>4. N \in 1..N /\ \A n \in Nat : n \in P
        <4>1. \A n \in Nat : n \in P
          BY <3>2, <3>3, AllNat
        <4>. QED
          BY <2>2, <4>1
      <3>. QED
        BY <3>1, <3>4 DEF P
    <2>. QED
      BY <2>1, <2>2
  <1>. QED
    BY <1>1, <1>3, Flattened DEF u

\* Total adds the elements up.
LEMMA TotalIs ==
  ASSUME NEW s \in Seq(Int)
  PROVE  Total(s) = Weight(s, [x \in Int |-> x])
  <1>. DEFINE n == Len(s)
              S == DOMAIN s
              Fold(h, r) == IF r = {} THEN 0 ELSE h[r \ {Max(r)}] + s[Max(r)]
              iter == CHOOSE h : h = [r \in SUBSET S |-> Fold(h, r)]
              step == [k \in 1..n |-> [v \in Int |-> v + s[k]]]
              u == [j \in 1..n |-> [x \in Int |-> x][s[j]]]
  <1>1. Total(s) = iter[S]
    BY DEF Total, FoldLeft, MapThenFoldSet
  <1>2. n \in Nat /\ S = 1..n /\ \A k \in 1..n : s[k] \in Int
    OBVIOUS
  <1>3. \A k \in 1..n : \A v \in Int : step[k][v] = v + s[k]
    OBVIOUS
  <1>4. \A k \in 1..n : u[k] = s[k]
    BY <1>2
  <1>5. Weight(s, [x \in Int |-> x]) = SumTo(u, n)
    BY DEF Weight
  <1>6. step \in [1..n -> [Int -> Int]]
    BY <1>2
  <1>. HIDE DEF n, S, step, u
  <1>7. PICK h : FoldsTo(h, n, Int, 0, step)
    <2>1. 0 \in Int
      OBVIOUS
    <2>. QED
      BY <1>2, <1>6, <2>1, IntervalFold
  <1>8. ASSUME NEW r \in SUBSET S, r # {} PROVE Max(r) \in r
    <2>1. IsFiniteSet(S)
      <3>1. 1 \in Int /\ n \in Int
        BY <1>2
      <3>. QED
        BY <1>2, <3>1, FS_Interval
    <2>2. IsFiniteSet(r)
      BY <2>1, FS_Subset
    <2>3. r \in SUBSET Int
      BY <1>2
    <2>. QED
      BY <1>8, <2>2, <2>3, MaxOfFinite
  <1>9. ASSUME NEW r \in SUBSET S PROVE h[r] = Fold(h, r)
    <2>1. h[r] = IF r = {} THEN 0 ELSE step[Max(r)][h[r \ {Max(r)}]]
      BY <1>2, <1>7 DEF FoldsTo
    <2>2. h[r \ {Max(r)}] \in Int
      BY <1>2, <1>7 DEF FoldsTo
    <2>. QED
      BY <1>2, <1>3, <1>8, <2>1, <2>2
  <1>10. \A r \in SUBSET S : iter[r] = Fold(iter, r)
    <2>. HIDE DEF Fold
    <2>1. h = [r \in SUBSET S |-> Fold(h, r)]
      BY <1>2, <1>7, <1>9 DEF FoldsTo
    <2>2. iter = [r \in SUBSET S |-> Fold(iter, r)]
      BY <2>1
    <2>. HIDE DEF iter
    <2>. QED
      BY <2>2
  <1>. HIDE DEF iter
  <1>11. /\ SumTo(u, 0) = 0 /\ \A k \in 0..n : SumTo(u, k) \in Int
         /\ \A k \in 1..n : SumTo(u, k) = SumTo(u, k - 1) + u[k]
    <2>1. \A k \in 1..n : u[k] \in Int
      BY <1>2, <1>4
    <2>. QED
      BY <1>2, <2>1, SumIs
  <1>. DEFINE P == {k \in Nat : k <= n => iter[1..k] = SumTo(u, k)}
  <1>12. 0 \in P
    <2>1. 1..0 = {} /\ {} \in SUBSET S
      OBVIOUS
    <2>. QED
      BY <1>10, <1>11, <2>1
  <1>13. ASSUME NEW k \in Nat, k \in P PROVE k + 1 \in P
    <2>1. SUFFICES ASSUME k + 1 <= n PROVE iter[1..(k + 1)] = SumTo(u, k + 1)
      OBVIOUS
    <2>2. /\ Max(1..(k + 1)) = k + 1 /\ (1..(k + 1)) \ {k + 1} = 1..k
          /\ 1..(k + 1) # {}
      <3>1. k + 1 \in Nat \ {0} /\ (k + 1) - 1 = k
        OBVIOUS
      <3>. QED
        BY <3>1, MaxOfInterval
    <2>3. 1..(k + 1) \in SUBSET S /\ k + 1 \in 1..n /\ (k + 1) - 1 = k
      BY <1>2, <2>1
    <2>4. iter[1..(k + 1)] = iter[1..k] + s[k + 1]
      BY <1>10, <2>2, <2>3
    <2>5. iter[1..k] = SumTo(u, k)
      BY <1>2, <1>13, <2>1
    <2>. QED
      BY <1>4, <1>11, <2>3, <2>4, <2>5
  <1>. HIDE DEF P, Fold
  <1>14. \A k \in Nat : k \in P
    BY <1>12, <1>13, AllNat
  <1>. QED
    BY <1>1, <1>2, <1>5, <1>14 DEF P

-----------------------------------------------------------------------------
(* What a metric holds, in whichever windows.                              *)

\* What values may weigh.
Weighings == [Int -> Int]

\* What the values of a metric weigh.
Heft(m, W) == Weight(FlattenSeq(m.buckets), W)

\* A new metric holds nothing.
LEMMA HeftOfNew ==
  ASSUME NEW start \in Int, NEW end \in Int, NEW W \in Weighings
  PROVE  Heft(New(start, end), W) = 0
  <1>. DEFINE n == NBuckets(start, end)
              bs == [i \in 1..n |-> <<>>]
              u == Weights(bs, W, n)
  <1>1. n \in Nat
    BY NBucketsAtLeastOne
  <1>2. New(start, end).buckets = bs
    BY DEF New
  <1>. HIDE DEF n
  <1>3. bs \in [1..n -> Seq(Int)]
    OBVIOUS
  <1>4. \A i \in 1..n : u[i] = 0
    <2>1. <<>> \in Seq(Int)
      OBVIOUS
    <2>2. Weight(<<>>, W) = 0
      BY <2>1, WeightIsInt DEF Weighings
    <2>. QED
      BY <2>2 DEF Weights
  <1>. HIDE DEF bs
  <1>5. Weight(FlattenSeq(bs), W) = SumTo(u, n)
    <2>. DEFINE V == Int
    <2>1. bs \in [1..n -> Seq(V)] /\ W \in [V -> Int]
      BY <1>3 DEF Weighings
    <2>. HIDE DEF V
    <2>. QED
      BY <1>1, <2>1, WeightFlatten
  <1>. HIDE DEF u
  <1>. QED
    BY <1>1, <1>2, <1>4, <1>5, SumZeros DEF Heft

\* A value that is added is held once, in whichever window.
LEMMA HeftOfAdd ==
  ASSUME NEW start \in Int, NEW end \in Int, NEW m \in Metrics(start, end), NEW t \in Int,
         InRange(m, t), NEW v \in Int, NEW W \in Weighings
  PROVE  Heft(Add(m, v, t), W) = Heft(m, W) + W[v]
  <1>. DEFINE n == NBuckets(start, end)
              b == BucketOf(m, t) + 1
              old == m.buckets
              new == Add(m, v, t).buckets
              u == Weights(old, W, n)
              w == Weights(new, W, n)
  <1>1. n \in Nat
    BY NBucketsAtLeastOne
  <1>2. /\ Add(m, v, t) \in Metrics(start, end) /\ b \in 1..n
        /\ \A i \in 1..n : /\ old[i] \in Seq(Int)
                           /\ new[i] = IF i = b THEN Append(old[i], v) ELSE old[i]
    <2>1. Add(m, v, t) \in Metrics(start, end) /\ PutAt(Add(m, v, t), m, v, b, n)
      BY AddIs
    <2>. HIDE DEF b, n
    <2>. QED
      BY <2>1 DEF PutAt
  <1>3. old \in [1..n -> Seq(Int)] /\ new \in [1..n -> Seq(Int)]
    BY <1>2 DEF Metrics
  <1>. HIDE DEF n, b, old, new
  <1>4. Weight(FlattenSeq(old), W) = SumTo(u, n) /\ Weight(FlattenSeq(new), W) = SumTo(w, n)
    <2>. DEFINE V == Int
    <2>1. old \in [1..n -> Seq(V)] /\ new \in [1..n -> Seq(V)] /\ W \in [V -> Int]
      BY <1>3 DEF Weighings
    <2>. HIDE DEF V
    <2>2. Weight(FlattenSeq(old), W) = SumTo(u, n)
      BY <1>1, <2>1, WeightFlatten
    <2>3. Weight(FlattenSeq(new), W) = SumTo(w, n)
      BY <1>1, <2>1, WeightFlatten
    <2>. QED
      BY <2>2, <2>3
  <1>5. ASSUME NEW i \in 1..n PROVE u[i] \in Int /\ w[i] = IF i = b THEN u[i] + W[v] ELSE u[i]
    <2>1. old[i] \in Seq(Int)
      BY <1>2
    <2>2. Weight(old[i], W) \in Int /\ Weight(Append(old[i], v), W) = Weight(old[i], W) + W[v]
      <3>1. W \in [Int -> Int]
        BY DEF Weighings
      <3>. QED
        BY <2>1, <3>1, WeightIsInt, WeightAppend
    <2>. QED
      BY <1>2, <2>2 DEF Weights
  <1>6. W[v] \in Int
    BY DEF Weighings
  <1>. HIDE DEF u, w
  <1>7. SumTo(w, n) = SumTo(u, n) + W[v]
    BY <1>1, <1>2, <1>5, <1>6, SumBump
  <1>. QED
    BY <1>4, <1>7 DEF Heft, old, new

\* What the value of an entry weighs.
ValueWeight(W) == [e \in Pairs |-> W[e[1]]]

\* A metric holds the value of every entry once.
LEMMA HeftOfMetric ==
  ASSUME NEW c, NEW start \in Int, NEW end \in Int, run[c].span = <<start, end>>,
         NEW entries \in Seq(Pairs), AllInRange(c, entries), NEW W \in Weighings
  PROVE  /\ Metric(c, entries) \in Metrics(start, end)
         /\ Heft(Metric(c, entries), W) = Weight(entries, ValueWeight(W))
  <1>. DEFINE n == Len(entries)
              u == [j \in 1..n |-> ValueWeight(W)[entries[j]]]
  <1>1. n \in Nat /\ \A k \in 1..n : entries[k] \in Int \X Int
    <2>1. n \in Nat /\ \A k \in 1..n : entries[k] \in Pairs
      OBVIOUS
    <2>. QED
      BY <2>1 DEF Pairs
  <1>2. PICK p : Collects(p, entries, start, end) /\ Metric(c, entries) = p[n]
    BY MetricCollects
  <1>3. \A k \in 1..n : u[k] = W[entries[k][1]] /\ u[k] \in Int
    BY <1>1 DEF ValueWeight, Weighings, Pairs
  <1>4. Weight(entries, ValueWeight(W)) = SumTo(u, n)
    BY DEF Weight
  <1>5. /\ p \in [0..n -> Metrics(start, end)] /\ p[0] = New(start, end)
        /\ \A k \in 1..n : /\ InRange(p[k - 1], entries[k][2])
                           /\ p[k] = Add(p[k - 1], entries[k][1], entries[k][2])
    BY <1>2 DEF Collects
  <1>. HIDE DEF n, u
  <1>6. /\ SumTo(u, 0) = 0
        /\ \A k \in 1..n : SumTo(u, k) = SumTo(u, k - 1) + u[k]
    BY <1>1, <1>3, SumIs
  <1>. DEFINE P == {k \in Nat : k <= n => Heft(p[k], W) = SumTo(u, k)}
  <1>7. 0 \in P
    <2>1. Heft(New(start, end), W) = 0
      BY HeftOfNew
    <2>. QED
      BY <1>5, <1>6, <2>1
  <1>8. ASSUME NEW k \in Nat, k \in P PROVE k + 1 \in P
    <2>1. SUFFICES ASSUME k + 1 <= n PROVE Heft(p[k + 1], W) = SumTo(u, k + 1)
      OBVIOUS
    <2>2. k + 1 \in 1..n /\ (k + 1) - 1 = k /\ k \in 0..n /\ k <= n
      BY <1>1, <2>1
    <2>5. Heft(p[k], W) = SumTo(u, k)
      BY <1>8, <2>2
    <2>. DEFINE v == entries[k + 1][1]
                t == entries[k + 1][2]
                m == p[k]
    <2>3. /\ m \in Metrics(start, end) /\ InRange(m, t) /\ p[k + 1] = Add(m, v, t)
          /\ v \in Int /\ t \in Int /\ u[k + 1] = W[v]
          /\ SumTo(u, k + 1) = SumTo(u, k) + u[k + 1]
      BY <1>1, <1>3, <1>5, <1>6, <2>2
    <2>. HIDE DEF v, t, m
    <2>4. Heft(Add(m, v, t), W) = Heft(m, W) + W[v]
      BY <2>3, HeftOfAdd
    <2>. QED
      BY <2>3, <2>4, <2>5 DEF m
  <1>. HIDE DEF P
  <1>9. \A k \in Nat : k \in P
    BY <1>7, <1>8, AllNat
  <1>10. p[n] \in Metrics(start, end) /\ Heft(p[n], W) = SumTo(u, n)
    BY <1>1, <1>5, <1>9 DEF P
  <1>. QED
    BY <1>2, <1>4, <1>10

\* Two ways to weigh a value.
Ones == [x \in Int |-> 1]
Same == [x \in Int |-> x]

\* Both give an integer for each.
LEMMA BothWeigh == Ones \in Weighings /\ Same \in Weighings
  BY DEF Ones, Same, Weighings

\* A sequence has as many elements as they weigh when each weighs one.
LEMMA LenIsWeight ==
  ASSUME NEW s \in Seq(Int)
  PROVE  Weight(s, Ones) = Len(s)
  <1>. DEFINE n == Len(s)
              u == [j \in 1..n |-> Ones[s[j]]]
  <1>1. n \in Nat /\ \A j \in 1..n : s[j] \in Int
    OBVIOUS
  <1>2. \A j \in 1..n : u[j] = 1
    BY <1>1 DEF Ones
  <1>3. Weight(s, Ones) = SumTo(u, n)
    BY DEF Weight
  <1>. HIDE DEF n, u
  <1>4. SumTo(u, n) = n
    BY <1>1, <1>2, SumOnes
  <1>. QED
    BY <1>3, <1>4 DEF n

\* The terms of a sum over a set of indices that count from 0.
Terms(D, f, n) == [i \in 1..n |-> IF i - 1 \in D THEN f[i - 1] ELSE 0]

\* iter adds f up over the subsets of D, one element less at a time.
SumsOver(iter, D, f) ==
  /\ iter[{}] = 0
  /\ \A s \in SUBSET D : s # {} => \E x \in s : iter[s] = f[x] + iter[s \ {x}]

\* A sum taken over one element less at a time is the sum in their order.
LEMMA SumOverSet ==
  ASSUME NEW n \in Nat, NEW D \in SUBSET (0..(n - 1)), NEW f \in [D -> Int],
         NEW iter, SumsOver(iter, D, f)
  PROVE  iter[D] = SumTo(Terms(D, f, n), n)
  <1>. DEFINE T == {s \in SUBSET D : iter[s] = SumTo(Terms(s, f, n), n)}
  <1>1. IsFiniteSet(D)
    <2>1. IsFiniteSet(0..(n - 1))
      <3>1. 0 \in Int /\ n - 1 \in Int
        OBVIOUS
      <3>. QED
        BY <3>1, FS_Interval
    <2>. QED
      BY <2>1, FS_Subset
  <1>2. {} \in T
    <2>1. \A i \in 1..n : Terms({}, f, n)[i] = 0
      BY DEF Terms
    <2>2. SumTo(Terms({}, f, n), n) = 0
      BY <2>1, SumZeros
    <2>. QED
      BY <2>2 DEF SumsOver
  <1>3. ASSUME NEW s \in SUBSET D, s # {} PROVE \E x \in s : s \ {x} \in T => s \in T
    <2>1. PICK x \in s : iter[s] = f[x] + iter[s \ {x}]
      BY <1>3 DEF SumsOver
    <2>2. SUFFICES ASSUME s \ {x} \in T PROVE s \in T
      BY <2>1
    <2>. DEFINE u == Terms(s \ {x}, f, n)
                w == Terms(s, f, n)
                b == x + 1
                v == f[x]
    <2>3. x \in 0..(n - 1) /\ b \in 1..n /\ v \in Int /\ b - 1 = x
      OBVIOUS
    <2>4. ASSUME NEW k \in 1..n
          PROVE  u[k] \in Int /\ w[k] = IF k = b THEN u[k] + v ELSE u[k]
      <3>1. k - 1 \in Int /\ (k - 1 = x <=> k = b)
        BY <2>3
      <3>2. /\ u[k] = IF k - 1 \in s \ {x} THEN f[k - 1] ELSE 0
            /\ w[k] = IF k - 1 \in s THEN f[k - 1] ELSE 0
        BY DEF Terms
      <3>3. \A j \in D : f[j] \in Int
        OBVIOUS
      <3>4. CASE k = b
        BY <2>3, <3>2, <3>4
      <3>5. CASE k # b
        BY <3>1, <3>2, <3>3, <3>5
      <3>. QED
        BY <3>4, <3>5
    <2>. HIDE DEF u, w, b, v
    <2>5. SumTo(w, n) = SumTo(u, n) + v
      BY <2>3, <2>4, SumBump
    <2>6. SumTo(u, n) \in Int
      <3>1. n \in 0..n
        OBVIOUS
      <3>. QED
        BY <2>4, <3>1, SumIs
    <2>. QED
      BY <2>1, <2>2, <2>3, <2>5, <2>6 DEF u, w, v
  <1>. HIDE DEF T
  <1>4. D \in T
    BY <1>1, <1>2, <1>3, SubsetInduction
  <1>. QED
    BY <1>4 DEF T

\* A set has as many elements as the sum of a one for each.
LEMMA CountOfSet ==
  ASSUME NEW n \in Nat, NEW D \in SUBSET (0..(n - 1)), NEW f, \A i \in D : f[i] = 1
  PROVE  Cardinality(D) = SumTo(Terms(D, f, n), n)
  <1>. DEFINE card == [s \in SUBSET D |-> Cardinality(s)]
              g == [i \in D |-> 1]
  <1>1. IsFiniteSet(D)
    <2>1. IsFiniteSet(0..(n - 1))
      <3>1. 0 \in Int /\ n - 1 \in Int
        OBVIOUS
      <3>. QED
        BY <3>1, FS_Interval
    <2>. QED
      BY <2>1, FS_Subset
  <1>2. g \in [D -> Int] /\ \A i \in D : g[i] = 1
    OBVIOUS
  <1>3. Terms(D, f, n) = Terms(D, g, n)
    BY DEF Terms
  <1>4. card[D] = Cardinality(D) /\ card[{}] = 0
    BY FS_EmptySet
  <1>5. ASSUME NEW s \in SUBSET D, s # {}
        PROVE  \E x \in s : card[s] = g[x] + card[s \ {x}]
    <2>1. PICK x \in s : TRUE
      BY <1>5
    <2>2. IsFiniteSet(s)
      BY <1>1, FS_Subset
    <2>3. Cardinality(s \ {x}) = Cardinality(s) - 1 /\ Cardinality(s) \in Nat
      BY <2>2, FS_RemoveElement, FS_CardinalityType
    <2>4. card[s] = Cardinality(s) /\ card[s \ {x}] = Cardinality(s \ {x}) /\ g[x] = 1
      OBVIOUS
    <2>. HIDE DEF card, g
    <2>5. card[s] = g[x] + card[s \ {x}]
      BY <2>3, <2>4
    <2>. QED
      BY <2>5
  <1>. HIDE DEF card, g
  <1>6. SumsOver(card, D, g)
    BY <1>4, <1>5 DEF SumsOver
  <1>7. card[D] = SumTo(Terms(D, g, n), n)
    BY <1>2, <1>6, SumOverSet
  <1>. QED
    BY <1>3, <1>4, <1>7

\* The metric of events of which those in D give one entry each, that of f.
GivesOne(seqs, D, f, n) ==
  /\ n \in Nat /\ D \in SUBSET (0..(n - 1)) /\ f \in [D -> Pairs]
  /\ seqs \in [1..n -> Seq(Pairs)]
  /\ \A i \in 1..n : seqs[i] = IF i - 1 \in D THEN <<f[i - 1]>> ELSE <<>>

\* It holds the values of f, each once.
LEMMA HeftOfEvents ==
  ASSUME NEW c, NEW start \in Int, NEW end \in Int, run[c].span = <<start, end>>,
         NEW n, NEW D, NEW f, NEW seqs, GivesOne(seqs, D, f, n),
         AllInRange(c, FlattenSeq(seqs)), NEW W \in Weighings
  PROVE  /\ Metric(c, FlattenSeq(seqs)) \in Metrics(start, end)
         /\ Heft(Metric(c, FlattenSeq(seqs)), W) = SumTo(Terms(D, [i \in D |-> W[f[i][1]]], n), n)
  <1>. DEFINE h == [i \in D |-> W[f[i][1]]]
              w == Terms(D, h, n)
              X == ValueWeight(W)
              u == Weights(seqs, X, n)
  <1>1. /\ n \in Nat /\ D \in SUBSET (0..(n - 1)) /\ f \in [D -> Pairs]
        /\ seqs \in [1..n -> Seq(Pairs)]
        /\ \A i \in 1..n : seqs[i] = IF i - 1 \in D THEN <<f[i - 1]>> ELSE <<>>
    BY DEF GivesOne
  <1>2. X \in [Pairs -> Int] /\ \A e \in Pairs : X[e] = W[e[1]]
    BY DEF ValueWeight, Pairs, Weighings
  <1>. HIDE DEF X
  <1>3. /\ FlattenSeq(seqs) \in Seq(Pairs)
        /\ Weight(FlattenSeq(seqs), X) = SumTo(u, n)
    BY <1>1, <1>2, WeightFlatten
  <1>4. /\ Metric(c, FlattenSeq(seqs)) \in Metrics(start, end)
        /\ Heft(Metric(c, FlattenSeq(seqs)), W) = Weight(FlattenSeq(seqs), X)
    BY <1>3, HeftOfMetric DEF X
  <1>5. ASSUME NEW i \in 1..n PROVE u[i] \in Int /\ u[i] = w[i]
    <2>1. u[i] = Weight(seqs[i], X)
      BY DEF Weights
    <2>2. w[i] = IF i - 1 \in D THEN h[i - 1] ELSE 0
      BY DEF Terms
    <2>3. CASE i - 1 \in D
      <3>1. f[i - 1] \in Pairs /\ seqs[i] = <<f[i - 1]>> /\ h[i - 1] = W[f[i - 1][1]]
        BY <1>1, <2>3
      <3>2. Weight(<<f[i - 1]>>, X) = X[f[i - 1]] /\ X[f[i - 1]] \in Int
        BY <1>2, <3>1, WeightOne
      <3>. HIDE DEF h
      <3>. QED
        BY <1>2, <2>1, <2>2, <2>3, <3>1, <3>2
    <2>4. CASE i - 1 \notin D
      <3>1. seqs[i] = <<>> /\ <<>> \in Seq(Pairs)
        BY <1>1, <2>4
      <3>2. Weight(<<>>, X) = 0
        BY <1>2, <3>1, WeightIsInt
      <3>. QED
        BY <2>1, <2>2, <2>4, <3>1, <3>2
    <2>. QED
      BY <2>3, <2>4
  <1>. HIDE DEF h, u, w
  <1>6. SumTo(u, n) = SumTo(w, n)
    BY <1>1, <1>5, SumSame
  <1>. QED
    BY <1>3, <1>4, <1>6 DEF w, h

\* Gauging each window by its total and adding up is adding up.
LEMMA GaugedTotal ==
  ASSUME NEW start \in Int, NEW end \in Int, NEW m \in Metrics(start, end)
  PROVE  Total(GenerateGauged(m, Total).values) = Heft(m, Same)
  <1>. DEFINE n == NBuckets(start, end)
              bs == m.buckets
              F == Filled(m)
              B == [i \in 1..n |-> Total(bs[i])]
              values == [k \in DOMAIN F |-> Total(bs[F[k]])]
              w == Weights(bs, Same, n)
  <1>1. n \in Nat
    BY NBucketsAtLeastOne
  <1>2. bs \in [1..n -> Seq(Int)]
    BY DEF Metrics
  <1>3. GenerateGauged(m, Total).values = values
    BY DEF GenerateGauged, PerBucket
  <1>4. PICK p : Finds(p, m, n) /\ F = p[n]
    BY FilledFinds
  <1>. HIDE DEF n, F
  <1>5. \A i \in 1..n : B[i] = w[i] /\ B[i] \in Int
    <2>1. ASSUME NEW i \in 1..n PROVE Total(bs[i]) = Weight(bs[i], Same) /\ Total(bs[i]) \in Int
      <3>1. bs[i] \in Seq(Int)
        BY <1>2
      <3>2. Total(bs[i]) = Weight(bs[i], Same)
        BY <3>1, TotalIs DEF Same
      <3>3. Weight(bs[i], Same) \in Int
        BY <3>1, BothWeigh, WeightIsInt DEF Weighings
      <3>. QED
        BY <3>2, <3>3
    <2>. HIDE DEF bs
    <2>. QED
      BY <2>1 DEF Weights
  <1>6. Weight(FlattenSeq(bs), Same) = SumTo(w, n)
    <2>. DEFINE V == Int
    <2>1. bs \in [1..n -> Seq(V)] /\ Same \in [V -> Int]
      BY <1>2, BothWeigh DEF Weighings
    <2>. HIDE DEF V, bs
    <2>. QED
      BY <1>1, <2>1, WeightFlatten
  <1>7. B \in [1..n -> Int]
    BY <1>5
  <1>. HIDE DEF B, w
  <1>8. SumTo(B, n) = SumTo(w, n)
    BY <1>1, <1>5, SumSame
  <1>9. F \in Seq(1..n) /\ Weight(F, B) = SumTo(B, n)
    <2>1. /\ p \in [0..n -> Seq(1..n)] /\ p[0] = <<>>
          /\ \A k \in 1..n : p[k] = IF bs[k] = <<>> THEN p[k - 1] ELSE Append(p[k - 1], k)
      BY <1>4 DEF Finds
    <2>2. /\ SumTo(B, 0) = 0
          /\ \A k \in 1..n : SumTo(B, k) = SumTo(B, k - 1) + B[k]
          /\ \A k \in 0..n : SumTo(B, k) \in Int
      BY <1>1, <1>7, SumIs
    <2>3. ASSUME NEW k \in 1..n, bs[k] = <<>> PROVE B[k] = 0
      <3>1. <<>> \in Seq(Int)
        OBVIOUS
      <3>2. Total(<<>>) = Weight(<<>>, Same)
        BY <3>1, TotalIs DEF Same
      <3>3. Weight(<<>>, Same) = 0
        BY <3>1, BothWeigh, WeightIsInt DEF Weighings
      <3>. QED
        BY <2>3, <3>2, <3>3 DEF B
    <2>. DEFINE P == {k \in Nat : k <= n => Weight(p[k], B) = SumTo(B, k)}
    <2>4. 0 \in P
      <3>1. <<>> \in Seq(1..n)
        OBVIOUS
      <3>2. Weight(<<>>, B) = 0
        BY <1>7, <3>1, WeightIsInt
      <3>. QED
        BY <2>1, <2>2, <3>2
    <2>. HIDE DEF bs
    <2>5. ASSUME NEW k \in Nat, k \in P PROVE k + 1 \in P
      <3>1. SUFFICES ASSUME k + 1 <= n PROVE Weight(p[k + 1], B) = SumTo(B, k + 1)
        OBVIOUS
      <3>2. k + 1 \in 1..n /\ (k + 1) - 1 = k /\ k \in 0..n
        BY <1>1, <3>1
      <3>3. Weight(p[k], B) = SumTo(B, k)
        BY <1>1, <2>5, <3>1
      <3>4. /\ SumTo(B, k + 1) = SumTo(B, k) + B[k + 1] /\ B[k + 1] \in Int /\ SumTo(B, k) \in Int
            /\ p[k + 1] = IF bs[k + 1] = <<>> THEN p[k] ELSE Append(p[k], k + 1)
            /\ p[k] \in Seq(1..n)
        BY <1>7, <2>1, <2>2, <3>2
      <3>5. CASE bs[k + 1] = <<>>
        BY <2>3, <3>2, <3>3, <3>4, <3>5
      <3>6. CASE bs[k + 1] # <<>>
        <4>1. Weight(Append(p[k], k + 1), B) = Weight(p[k], B) + B[k + 1]
          BY <1>7, <3>2, <3>4, WeightAppend
        <4>. QED
          BY <3>3, <3>4, <3>6, <4>1
      <3>. QED
        BY <3>5, <3>6
    <2>. HIDE DEF P
    <2>6. \A k \in Nat : k \in P
      BY <2>4, <2>5, AllNat
    <2>7. n \in 0..n
      BY <1>1
    <2>8. p[n] \in Seq(1..n) /\ Weight(p[n], B) = SumTo(B, n)
      BY <1>1, <2>1, <2>6, <2>7 DEF P
    <2>. QED
      BY <1>4, <2>8
  <1>10. Total(values) = Weight(F, B)
    <2>1. Len(F) \in Nat /\ DOMAIN F = 1..Len(F) /\ \A k \in 1..Len(F) : F[k] \in 1..n
      <3>. DEFINE V == 1..n
      <3>1. F \in Seq(V)
        BY <1>9
      <3>. HIDE DEF V
      <3>2. Len(F) \in Nat /\ DOMAIN F = 1..Len(F) /\ \A k \in 1..Len(F) : F[k] \in V
        BY <3>1
      <3>. QED
        BY <3>2 DEF V
    <2>2. \A k \in 1..Len(F) : values[k] = B[F[k]] /\ values[k] \in Int
      BY <1>7, <2>1 DEF B
    <2>. DEFINE L == Len(F)
    <2>3. values \in Seq(Int) /\ Len(values) = Len(F)
      <3>1. DOMAIN values = 1..L /\ L \in Nat /\ values = [k \in 1..L |-> values[k]]
        BY <2>1
      <3>2. \A k \in 1..L : values[k] \in Int
        BY <2>2
      <3>. HIDE DEF values, L
      <3>3. values \in [1..L -> Int]
        BY <3>1, <3>2
      <3>4. values \in Seq(Int) /\ Len(values) = L
        BY <3>1, <3>3
      <3>. QED
        BY <3>4 DEF L
    <2>. HIDE DEF values
    <2>4. Total(values) = Weight(values, Same)
      BY <2>3, TotalIs DEF Same
    <2>. DEFINE x == [j \in 1..Len(values) |-> Same[values[j]]]
                y == [j \in 1..Len(F) |-> B[F[j]]]
    <2>5. Weight(values, Same) = SumTo(x, Len(F)) /\ Weight(F, B) = SumTo(y, Len(F))
      BY <2>3 DEF Weight
    <2>6. \A k \in 1..Len(F) : x[k] \in Int /\ x[k] = y[k]
      BY <2>2, <2>3 DEF Same
    <2>. HIDE DEF x, y
    <2>7. SumTo(x, Len(F)) = SumTo(y, Len(F))
      BY <2>1, <2>6, SumSame
    <2>. QED
      BY <2>4, <2>5, <2>7
  <1>. QED
    BY <1>3, <1>6, <1>8, <1>9, <1>10 DEF Heft

-----------------------------------------------------------------------------
(* What is reported of all windows.                                        *)

\* Of the rows that were read, no two are the same half of one event.
Distinct(r, places) ==
  \A p, q \in places :
    SideAt(r, p) = SideAt(r, q) /\ At(r, p).id = At(r, q).id => p = q

\* A side has logged as many rows as ids when it has logged none twice.
LEMMA RowsAreIds ==
  ASSUME NEW r, NEW kind \in {"tx", "rx"}, Distinct(r, AllPlaces(r)), IsFiniteSet(Ids(r, kind))
  PROVE  Cardinality(Places(r, kind)) = Cardinality(Ids(r, kind))
  <1>. DEFINE I == Ids(r, kind)
              P == Places(r, kind)
              g == [i \in I |-> CHOOSE p \in P : At(r, p).id = i]
  <1>1. \A i \in I : g[i] \in P /\ At(r, g[i]).id = i
    BY DEF Ids
  <1>2. ASSUME NEW p \in P PROVE At(r, p).id \in I /\ g[At(r, p).id] = p
    <2>1. At(r, p).id \in I
      BY DEF Ids
    <2>2. \A q \in P : q \in AllPlaces(r) /\ r.files[q[1]].kind = kind
      BY PlacesAre DEF AllPlaces
    <2>3. \A q \in P : SideAt(r, q) = SideAt(r, p)
      BY <2>2 DEF SideAt
    <2>4. g[At(r, p).id] \in P /\ At(r, g[At(r, p).id]).id = At(r, p).id
      BY <1>1, <2>1
    <2>. HIDE DEF g, P, I
    <2>. QED
      BY <2>1, <2>2, <2>3, <2>4 DEF Distinct
  <1>3. g \in [I -> P]
    BY <1>1
  <1>. HIDE DEF g, P, I
  <1>4. g \in Bijection(I, P)
    <2>1. IsInjective(g)
      BY <1>1, <1>3 DEF IsInjective
    <2>2. \A p \in P : \E i \in I : g[i] = p
      BY <1>2
    <2>. QED
      BY <1>3, <2>1, <2>2 DEF Bijection, Injection, Surjection
  <1>5. ExistsBijection(I, P)
    BY <1>4 DEF ExistsBijection
  <1>6. IsFiniteSet(I)
    BY DEF I
  <1>7. Cardinality(P) = Cardinality(I)
    BY <1>5, <1>6, FS_Bijection
  <1>. QED
    BY <1>7 DEF P, I

\* What a metric reports of events of which those in D give one entry each, that of f.
Reckons(m, D, f, n) ==
  /\ Generate(m).count = Cardinality(D)
  /\ Generate(m).sum = SumTo(Terms(D, [i \in D |-> f[i][1]], n), n)
  /\ (\A i \in D : f[i][1] = 1) => Total(GenerateGauged(m, Total).values) = Cardinality(D)

LEMMA MetricAccounts ==
  ASSUME NEW c, NEW start \in Int, NEW end \in Int, run[c].span = <<start, end>>,
         NEW n, NEW D, NEW f, NEW seqs, GivesOne(seqs, D, f, n),
         AllInRange(c, FlattenSeq(seqs)), NEW m, m = Metric(c, FlattenSeq(seqs))
  PROVE  Reckons(m, D, f, n)
  <1>. DEFINE bs == m.buckets
              N == NBuckets(start, end)
              V == Int
              one == [i \in D |-> Ones[f[i][1]]]
              val == [i \in D |-> Same[f[i][1]]]
              raw == [i \in D |-> f[i][1]]
  <1>1. n \in Nat /\ D \in SUBSET (0..(n - 1)) /\ f \in [D -> Pairs]
    BY DEF GivesOne
  <1>2. \A i \in D : f[i][1] \in Int
    BY <1>1 DEF Pairs
  <1>3. m \in Metrics(start, end) /\ Heft(m, Ones) = SumTo(Terms(D, one, n), n)
    BY BothWeigh, HeftOfEvents
  <1>4. Heft(m, Same) = SumTo(Terms(D, val, n), n)
    BY BothWeigh, HeftOfEvents
  <1>5. \A i \in D : one[i] = 1 /\ val[i] = raw[i]
    BY <1>2 DEF Ones, Same
  <1>6. Terms(D, val, n) = Terms(D, raw, n)
    BY <1>5 DEF Terms
  <1>. HIDE DEF one, val, raw
  <1>7. SumTo(Terms(D, one, n), n) = Cardinality(D)
    BY <1>1, <1>5, CountOfSet
  <1>8. FlattenSeq(bs) \in Seq(Int)
    <2>1. N \in Nat /\ bs \in [1..N -> Seq(V)]
      BY <1>3, NBucketsAtLeastOne DEF Metrics
    <2>. HIDE DEF V, N, bs
    <2>2. FlattenSeq(bs) \in Seq(V)
      BY <2>1, Flattened
    <2>. QED
      BY <2>2 DEF V
  <1>9. Generate(m).count = Len(FlattenSeq(bs)) /\ Generate(m).sum = Total(FlattenSeq(bs))
    BY DEF Generate
  <1>10. Len(FlattenSeq(bs)) = Heft(m, Ones) /\ Total(FlattenSeq(bs)) = Heft(m, Same)
    BY <1>8, LenIsWeight, TotalIs DEF Heft, Same
  <1>11. (\A i \in D : f[i][1] = 1) => Heft(m, Same) = Cardinality(D)
    <2>1. (\A i \in D : f[i][1] = 1) => \A i \in D : raw[i] = 1
      BY DEF raw
    <2>. QED
      BY <1>1, <1>4, <1>6, <2>1, CountOfSet
  <1>12. Total(GenerateGauged(m, Total).values) = Heft(m, Same)
    BY <1>3, GaugedTotal
  <1>. QED
    BY <1>3, <1>4, <1>6, <1>7, <1>9, <1>10, <1>11, <1>12 DEF raw, Reckons

\* The time between both halves of the events in D, added up in any order.
LEMMA TimesAddUp ==
  ASSUME NEW r, NEW n \in Nat, NEW D \in SUBSET (0..(n - 1)), NEW f \in [D -> Int],
         \A i \in D : \E e, g : /\ RowsOf(r, "tx", i) = {e} /\ RowsOf(r, "rx", i) = {g}
                                /\ f[i] = g.end - e.start
  PROVE  Elapsed(r, D) = SumTo(Terms(D, f, n), n)
  <1>. DEFINE any(s) == CHOOSE i \in s : TRUE
              Time(i) == (CHOOSE e \in RowsOf(r, "rx", i) : TRUE).end
                           - (CHOOSE e \in RowsOf(r, "tx", i) : TRUE).start
              Adds(h, s) == IF s = {} THEN 0 ELSE Time(any(s)) + h[s \ {any(s)}]
              iter == CHOOSE h : h = [s \in SUBSET D |-> Adds(h, s)]
  <1>1. Elapsed(r, D) = iter[D]
    BY DEF Elapsed, MapThenSumSet, MapThenFoldSet
  <1>2. ASSUME NEW i \in D PROVE Time(i) = f[i] /\ f[i] \in Int
    <2>1. PICK e, g : /\ RowsOf(r, "tx", i) = {e} /\ RowsOf(r, "rx", i) = {g}
                      /\ f[i] = g.end - e.start
      OBVIOUS
    <2>. DEFINE S == RowsOf(r, "tx", i)
                T == RowsOf(r, "rx", i)
    <2>2. S = {e} /\ T = {g}
      BY <2>1
    <2>. HIDE DEF S, T
    <2>3. (CHOOSE y \in S : TRUE) = e /\ (CHOOSE y \in T : TRUE) = g
      BY <2>2
    <2>4. Time(i) = (CHOOSE y \in T : TRUE).end - (CHOOSE y \in S : TRUE).start
      BY DEF S, T
    <2>. QED
      BY <2>1, <2>3, <2>4
  <1>3. ASSUME NEW s \in SUBSET D, s # {} PROVE any(s) \in s
    BY <1>3
  <1>4. IsFiniteSet(D)
    <2>1. IsFiniteSet(0..(n - 1))
      <3>1. 0 \in Int /\ n - 1 \in Int
        OBVIOUS
      <3>. QED
        BY <3>1, FS_Interval
    <2>. QED
      BY <2>1, FS_Subset
  <1>. HIDE DEF any, Time
  <1>5. \E h : h = [s \in SUBSET D |-> Adds(h, s)]
    <2>. DEFINE pick == [s \in SUBSET D |-> any(s)]
                step == [s \in SUBSET D |-> [v \in Int |-> f[any(s)] + v]]
    <2>1. \A s \in SUBSET D : pick[s] = any(s) /\ \A v \in Int : step[s][v] = f[any(s)] + v
      OBVIOUS
    <2>2. ASSUME NEW s \in SUBSET D, s # {}
          PROVE  pick[s] \in s /\ \A v \in Int : step[s][v] \in Int
      <3>1. any(s) \in s
        BY <1>3, <2>2
      <3>2. f[any(s)] \in Int
        BY <3>1
      <3>. HIDE DEF pick, step
      <3>. QED
        BY <2>1, <3>1, <3>2
    <2>3. 0 \in Int
      OBVIOUS
    <2>. HIDE DEF pick, step
    <2>4. Recursion(D, Int, 0, pick, step)
      BY <1>4, <2>2, <2>3 DEF Recursion
    <2>5. PICK h : Solves(h, D, Int, 0, pick, step)
      BY <2>4, SubsetRecursion, Zenon
    <2>6. ASSUME NEW s \in SUBSET D PROVE h[s] = Adds(h, s)
      <3>1. h[s] = IF s = {} THEN 0 ELSE step[s][h[s \ {pick[s]}]]
        BY <2>5 DEF Solves
      <3>2. h[s \ {any(s)}] \in Int
        BY <2>5 DEF Solves
      <3>3. s # {} => Time(any(s)) = f[any(s)]
        BY <1>2, <1>3
      <3>. QED
        BY <2>1, <3>1, <3>2, <3>3
    <2>. HIDE DEF Adds
    <2>7. h = [s \in SUBSET D |-> Adds(h, s)]
      BY <2>5, <2>6 DEF Solves
    <2>. QED
      BY <2>7
  <1>6. \A s \in SUBSET D : iter[s] = Adds(iter, s)
    <2>. HIDE DEF Adds
    <2>1. iter = [s \in SUBSET D |-> Adds(iter, s)]
      BY <1>5
    <2>. HIDE DEF iter
    <2>. QED
      BY <2>1
  <1>. HIDE DEF iter
  <1>7. SumsOver(iter, D, f)
    <2>1. iter[{}] = 0
      BY <1>6
    <2>2. ASSUME NEW s \in SUBSET D, s # {} PROVE \E x \in s : iter[s] = f[x] + iter[s \ {x}]
      BY <1>2, <1>3, <1>6, <2>2
    <2>. QED
      BY <2>1, <2>2 DEF SumsOver
  <1>. QED
    BY <1>1, <1>7, SumOverSet

\* The same of the entries that events counted from 0 give.
LEMMA EntriesReckoned ==
  ASSUME NEW c, NEW start \in Int, NEW end \in Int, run[c].span = <<start, end>>,
         NEW n \in Nat, NEW D \in SUBSET (0..(n - 1)), NEW f \in [D -> Pairs],
         NEW g, \A i \in 0..(n - 1) : g[i] = IF i \in D THEN <<f[i]>> ELSE <<>>,
         NEW entries, entries = FlattenSeq([i \in 1..n |-> g[i - 1]]), AllInRange(c, entries)
  PROVE  Reckons(Metric(c, entries), D, f, n)
  <1>. DEFINE seqs == [i \in 1..n |-> g[i - 1]]
  <1>1. \A i \in 1..n : seqs[i] = IF i - 1 \in D THEN <<f[i - 1]>> ELSE <<>>
    BY SMT
  <1>2. seqs \in [1..n -> Seq(Pairs)]
    <2>. DEFINE V == Pairs
    <2>1. \A i \in D : f[i] \in V
      OBVIOUS
    <2>. HIDE DEF V
    <2>2. \A i \in 1..n : seqs[i] \in Seq(V)
      <3>. HIDE DEF seqs
      <3>1. \A x \in V : <<x>> \in Seq(V)
        OBVIOUS
      <3>2. <<>> \in Seq(V)
        OBVIOUS
      <3>. QED
        BY <1>1, <2>1, <3>1, <3>2
    <2>3. seqs \in [1..n -> Seq(V)]
      BY <2>2
    <2>. QED
      BY <2>3 DEF V
  <1>3. GivesOne(seqs, D, f, n) /\ entries = FlattenSeq(seqs)
    BY <1>1, <1>2 DEF GivesOne
  <1>. HIDE DEF seqs
  <1>4. AllInRange(c, FlattenSeq(seqs)) /\ Metric(c, entries) = Metric(c, FlattenSeq(seqs))
    BY <1>3
  <1>. QED
    BY <1>3, <1>4, MetricAccounts

\* The summary of a run whose rows are all read, none of them twice, accounts for all.
LEMMA AggregationAccounts ==
  ASSUME run \in Inputs, NEW c \in Configs, run[c].span # None, Distinct(run[c], AllPlaces(run[c])),
         EventsFit(run[c], AllPlaces(run[c]), events[c]), Summarisable(c)
  PROVE  Accounts(run[c], Aggregation(c))
  <1>. DEFINE r == run[c]
              evs == events[c]
              D1 == Ids(r, "tx")
              D2 == Ids(r, "rx")
              D == Matched(r)
  <1>1. PICK n \in Nat : evs \in [0..(n - 1) -> Halves \X Halves]
    BY DEF EventsFit
  <1>2. DOMAIN evs = 0..(n - 1) /\ Cardinality(DOMAIN evs) = n
    <2>1. DOMAIN evs = 0..(n - 1)
      BY <1>1
    <2>. QED
      BY <2>1, CountFromZero, Zenon
  <1>3. PICK start \in Int, end \in Int : r.span = <<start, end>>
    <2>1. r.span \in Nat \X Nat
      BY RowsOfRuns
    <2>. QED
      BY <2>1
  <1>4. /\ D1 \subseteq 0..(n - 1) /\ D2 \subseteq 0..(n - 1)
        /\ \A i \in 0..(n - 1) :
             /\ RowsOf(r, "tx", i) = {evs[i][1]} \ {None}
             /\ RowsOf(r, "rx", i) = {evs[i][2]} \ {None}
    <2>1. EventsFit(run[c], AllPlaces(run[c]), evs)
      OBVIOUS
    <2>. HIDE DEF evs
    <2>2. /\ Ids(run[c], "tx") \cup Ids(run[c], "rx") \subseteq DOMAIN evs
          /\ \A i \in DOMAIN evs :
               /\ RowsOf(run[c], "tx", i) = {evs[i][1]} \ {None}
               /\ RowsOf(run[c], "rx", i) = {evs[i][2]} \ {None}
      BY <2>1, EventsAreRows
    <2>. QED
      BY <1>2, <2>2
  <1>5. ASSUME NEW i \in 0..(n - 1)
        PROVE  /\ i \in D1 <=> evs[i][1] # None
               /\ i \in D2 <=> evs[i][2] # None
               /\ evs[i][1] # None => evs[i][1] \in RowType
               /\ evs[i][2] # None => evs[i][2] \in RowType
    <2>1. \A kind : i \in Ids(r, kind) <=> RowsOf(r, kind, i) # {}
      BY DEF Ids, RowsOf
    <2>2. evs[i] \in Halves \X Halves
      BY <1>1
    <2>. HIDE DEF evs
    <2>3. evs[i][1] # None => evs[i][1] \in RowType
      BY <2>2 DEF Halves
    <2>4. evs[i][2] # None => evs[i][2] \in RowType
      BY <2>2 DEF Halves
    <2>5. (i \in D1 <=> evs[i][1] # None) /\ (i \in D2 <=> evs[i][2] # None)
      BY <1>4, <2>1
    <2>. QED
      BY <2>3, <2>4, <2>5
  <1>6. D = D1 \cap D2 /\ D \subseteq 0..(n - 1)
    BY <1>4 DEF Matched
  <1>. HIDE DEF evs, D1, D2, D, r
  <1>7. /\ \A i \in D1 : evs[i][1].start \in Int /\ evs[i][1].end \in Int
        /\ \A i \in D2 : evs[i][2].start \in Int /\ evs[i][2].end \in Int
    BY <1>4, <1>5 DEF RowType
  <1>8. /\ \A i \in 0..(n - 1) : i \in D <=> evs[i][1] # None /\ evs[i][2] # None
        /\ \A i \in D : evs[i][1].start \in Int /\ evs[i][2].end \in Int
    BY <1>4, <1>5, <1>6, <1>7
  <1>9. r = run[c] /\ evs = events[c] /\ run[c].span = <<start, end>>
    BY <1>3 DEF r, evs
  <1>10. /\ AllInRange(c, Entries(c, Sends)) /\ AllInRange(c, Entries(c, Recvs))
         /\ AllInRange(c, Entries(c, Latencies)) /\ AllInRange(c, Entries(c, Throughputs))
    BY DEF Summarisable
  <1>11. Generate(Metric(c, Entries(c, Sends))).count = Cardinality(D1)
    <2>. DEFINE f == [i \in D1 |-> <<evs[i][1].end - evs[i][1].start, evs[i][1].start>>]
                g == [i \in 0..(n - 1) |-> Sends(evs[i])]
                entries == Entries(c, Sends)
    <2>1. f \in [D1 -> Pairs]
      BY <1>7 DEF Pairs
    <2>2. \A i \in 0..(n - 1) : g[i] = IF i \in D1 THEN <<f[i]>> ELSE <<>>
      BY <1>5 DEF Sends
    <2>3. entries = FlattenSeq([i \in 1..n |-> g[i - 1]])
      <3>1. [i \in 1..n |-> Sends(evs[i - 1])] = [i \in 1..n |-> g[i - 1]]
        OBVIOUS
      <3>. HIDE DEF g
      <3>. QED
        BY <1>2, <1>9, <3>1 DEF Entries
    <2>4. AllInRange(c, entries)
      BY <1>10
    <2>. HIDE DEF f, g, entries
    <2>5. Reckons(Metric(c, entries), D1, f, n)
      BY <1>4, <1>6, <1>9, <2>1, <2>2, <2>3, <2>4, EntriesReckoned
    <2>. QED
      BY <2>5 DEF Reckons, entries
  <1>12. Generate(Metric(c, Entries(c, Recvs))).count = Cardinality(D2)
    <2>. DEFINE f == [i \in D2 |-> <<evs[i][2].end - evs[i][2].start, evs[i][2].start>>]
                g == [i \in 0..(n - 1) |-> Recvs(evs[i])]
                entries == Entries(c, Recvs)
    <2>1. f \in [D2 -> Pairs]
      BY <1>7 DEF Pairs
    <2>2. \A i \in 0..(n - 1) : g[i] = IF i \in D2 THEN <<f[i]>> ELSE <<>>
      BY <1>5 DEF Recvs
    <2>3. entries = FlattenSeq([i \in 1..n |-> g[i - 1]])
      <3>1. [i \in 1..n |-> Recvs(evs[i - 1])] = [i \in 1..n |-> g[i - 1]]
        OBVIOUS
      <3>. HIDE DEF g
      <3>. QED
        BY <1>2, <1>9, <3>1 DEF Entries
    <2>4. AllInRange(c, entries)
      BY <1>10
    <2>. HIDE DEF f, g, entries
    <2>5. Reckons(Metric(c, entries), D2, f, n)
      BY <1>4, <1>6, <1>9, <2>1, <2>2, <2>3, <2>4, EntriesReckoned
    <2>. QED
      BY <2>5 DEF Reckons, entries
  <1>13. /\ Generate(Metric(c, Entries(c, Latencies))).count = Cardinality(D)
         /\ Generate(Metric(c, Entries(c, Latencies))).sum
              = SumTo(Terms(D, [i \in D |-> evs[i][2].end - evs[i][1].start], n), n)
    <2>. DEFINE f == [i \in D |-> <<evs[i][2].end - evs[i][1].start, evs[i][1].start>>]
                g == [i \in 0..(n - 1) |-> Latencies(evs[i])]
                entries == Entries(c, Latencies)
    <2>1. f \in [D -> Pairs]
      BY <1>8 DEF Pairs
    <2>2. \A i \in 0..(n - 1) : g[i] = IF i \in D THEN <<f[i]>> ELSE <<>>
      BY <1>8 DEF Latencies
    <2>3. entries = FlattenSeq([i \in 1..n |-> g[i - 1]])
      <3>1. [i \in 1..n |-> Latencies(evs[i - 1])] = [i \in 1..n |-> g[i - 1]]
        OBVIOUS
      <3>. HIDE DEF g
      <3>. QED
        BY <1>2, <1>9, <3>1 DEF Entries
    <2>4. AllInRange(c, entries)
      BY <1>10
    <2>5. [i \in D |-> f[i][1]] = [i \in D |-> evs[i][2].end - evs[i][1].start]
      OBVIOUS
    <2>. HIDE DEF f, g, entries
    <2>6. Reckons(Metric(c, entries), D, f, n)
      BY <1>4, <1>6, <1>9, <2>1, <2>2, <2>3, <2>4, EntriesReckoned
    <2>. QED
      BY <2>5, <2>6 DEF Reckons, entries
  <1>14. Total(GenerateGauged(Metric(c, Entries(c, Throughputs)), Total).values) = Cardinality(D)
    <2>. DEFINE f == [i \in D |-> <<1, evs[i][2].end>>]
                g == [i \in 0..(n - 1) |-> Throughputs(evs[i])]
                entries == Entries(c, Throughputs)
    <2>1. f \in [D -> Pairs]
      BY <1>8 DEF Pairs
    <2>2. \A i \in 0..(n - 1) : g[i] = IF i \in D THEN <<f[i]>> ELSE <<>>
      BY <1>8 DEF Throughputs
    <2>3. entries = FlattenSeq([i \in 1..n |-> g[i - 1]])
      <3>1. [i \in 1..n |-> Throughputs(evs[i - 1])] = [i \in 1..n |-> g[i - 1]]
        OBVIOUS
      <3>. HIDE DEF g
      <3>. QED
        BY <1>2, <1>9, <3>1 DEF Entries
    <2>4. AllInRange(c, entries)
      BY <1>10
    <2>5. \A i \in D : f[i][1] = 1
      OBVIOUS
    <2>. HIDE DEF f, g, entries
    <2>6. Reckons(Metric(c, entries), D, f, n)
      BY <1>4, <1>6, <1>9, <2>1, <2>2, <2>3, <2>4, EntriesReckoned
    <2>. QED
      BY <2>5, <2>6 DEF Reckons, entries
  <1>15. /\ Cardinality(Places(r, "tx")) = Cardinality(D1)
         /\ Cardinality(Places(r, "rx")) = Cardinality(D2)
    <2>1. IsFiniteSet(0..(n - 1))
      <3>1. 0 \in Int /\ n - 1 \in Int
        OBVIOUS
      <3>. QED
        BY <3>1, FS_Interval
    <2>2. IsFiniteSet(D1) /\ IsFiniteSet(D2)
      BY <1>4, <2>1, FS_Subset
    <2>. QED
      BY <1>9, <2>2, RowsAreIds DEF D1, D2
  <1>16. Elapsed(r, D)
           = SumTo(Terms(D, [i \in D |-> evs[i][2].end - evs[i][1].start], n), n)
    <2>. DEFINE f == [i \in D |-> evs[i][2].end - evs[i][1].start]
    <2>1. f \in [D -> Int]
      BY <1>8
    <2>2. \A i \in D : \E e, g : /\ RowsOf(r, "tx", i) = {e} /\ RowsOf(r, "rx", i) = {g}
                                /\ f[i] = g.end - e.start
      BY <1>4, <1>6, <1>8
    <2>. HIDE DEF f
    <2>3. Elapsed(r, D) = SumTo(Terms(D, f, n), n)
      BY <1>6, <2>1, <2>2, TimesAddUp
    <2>. QED
      BY <2>3 DEF f
  <1>17. /\ Aggregation(c).send = Generate(Metric(c, Entries(c, Sends)))
         /\ Aggregation(c).recv = Generate(Metric(c, Entries(c, Recvs)))
         /\ Aggregation(c).latency = Generate(Metric(c, Entries(c, Latencies)))
         /\ Aggregation(c).throughput = GenerateGauged(Metric(c, Entries(c, Throughputs)), Total)
    BY DEF Aggregation
  <1>. QED
    BY <1>9, <1>11, <1>12, <1>13, <1>14, <1>15, <1>16, <1>17 DEF Accounts, D

-----------------------------------------------------------------------------
(* Sorting.                                                                *)

Ascends(s) == \A i, j \in 1..Len(s) : i <= j => s[i] <= s[j]

\* 1..k has k elements.
LEMMA CountFromOne ==
  ASSUME NEW k \in Nat
  PROVE  Cardinality(1..k) = k
  <1>1. CASE k = 0
    <2>1. 1..k = {}
      BY <1>1
    <2>2. Cardinality(1..k) = 0
      BY <2>1, FS_EmptySet, Zenon
    <2>. QED
      BY <1>1, <2>2
  <1>2. CASE k # 0
    <2>1. 1 \in Int /\ k \in Int /\ k - 1 + 1 = k /\ 1 <= k
      BY <1>2
    <2>. QED
      BY <1>2, <2>1, FS_Interval
  <1>. QED
    BY <1>1, <1>2

\* In an ascending sequence the elements up to a value come first.
LEMMA UpTo ==
  ASSUME NEW t \in Seq(Int), Ascends(t), NEW x \in Int
  PROVE  \E k \in 0..Len(t) :
           /\ Cardinality({i \in DOMAIN t : t[i] <= x}) = k
           /\ \A i \in 1..k : t[i] <= x
           /\ \A i \in (k + 1)..Len(t) : x <= t[i]
  <1>. DEFINE n == Len(t)
              L == {i \in DOMAIN t : t[i] <= x}
              T == {j \in Nat : \A i \in L : i <= j}
  <1>1. n \in Nat /\ DOMAIN t = 1..n /\ \A i \in 1..n : t[i] \in Int
    OBVIOUS
  <1>2. n \in T /\ T \in SUBSET Nat
    BY <1>1
  <1>3. PICK k \in T : \A y \in T : k <= y
    <2>. HIDE DEF T
    <2>. QED
      BY <1>2, LeastNat
  <1>4. k \in 0..n
    BY <1>1, <1>2, <1>3
  <1>5. k # 0 => k \in L
    <2>1. ASSUME k # 0, k \notin L PROVE k - 1 \in T
      <3>1. \A i \in L : i <= k /\ i # k /\ i \in Int
        BY <1>1, <1>3, <2>1
      <3>2. k - 1 \in Nat /\ \A i \in L : i <= k - 1
        BY <1>4, <2>1, <3>1
      <3>. HIDE DEF L
      <3>. QED
        BY <3>2
    <2>. HIDE DEF T
    <2>. QED
      BY <1>3, <1>4, <2>1
  <1>6. \A i \in 1..k : i \in 1..n /\ t[i] <= x
    <2>1. ASSUME NEW i \in 1..k PROVE i \in 1..n /\ t[i] <= x
      <3>1. k \in 1..n /\ t[k] <= x /\ i \in 1..n /\ i <= k
        BY <1>1, <1>4, <1>5
      <3>2. t[i] <= t[k]
        BY <3>1 DEF Ascends
      <3>3. t[i] \in Int /\ t[k] \in Int
        BY <1>1, <3>1
      <3>. QED
        BY <3>1, <3>2, <3>3
    <2>. QED
      BY <2>1
  <1>7. ASSUME NEW i \in (k + 1)..n PROVE x <= t[i]
    <2>1. i \in 1..n /\ i \notin L /\ t[i] \in Int
      BY <1>1, <1>3, <1>4
    <2>. QED
      BY <1>1, <2>1
  <1>8. L = 1..k
    BY <1>1, <1>3, <1>4, <1>6
  <1>9. Cardinality(L) = k
    <2>1. Cardinality(1..k) = k
      BY <1>4, CountFromOne
    <2>. QED
      BY <1>8, <2>1
  <1>. QED
    BY <1>4, <1>6, <1>7, <1>9

\* new is t with x between the elements up to it and those above.
InsertedAt(new, t, x, k) ==
  /\ new \in Seq(Int) /\ Len(new) = Len(t) + 1
  /\ \A i \in 1..k : new[i] = t[i]
  /\ new[k + 1] = x
  /\ \A i \in (k + 1)..Len(t) : new[i + 1] = t[i]
  /\ \A W \in Weighings : Weight(new, W) = Weight(t, W) + W[x]

\* InsertAt leaves the other elements in their order, and each weighs what it did.
LEMMA InsertAtIs ==
  ASSUME NEW t \in Seq(Int), NEW x \in Int, NEW k \in 0..Len(t)
  PROVE  InsertedAt(InsertAt(t, k + 1, x), t, x, k)
  <1>. DEFINE n == Len(t)
              V == Int
              a == SubSeq(t, 1, k)
              b == SubSeq(t, k + 1, n)
              one == <<x>>
              new == (a \o one) \o b
  <1>1. n \in Nat /\ k \in Nat /\ k <= n /\ \A i \in 1..n : t[i] \in V
    OBVIOUS
  <1>2. InsertAt(t, k + 1, x) = new
    <2>1. (k + 1) - 1 = k
      BY <1>1
    <2>2. InsertAt(t, k + 1, x) = (SubSeq(t, 1, (k + 1) - 1) \o <<x>>) \o SubSeq(t, k + 1, n)
      BY DEF InsertAt
    <2>. QED
      BY <2>1, <2>2
  <1>3. a \in Seq(V) /\ Len(a) = k /\ \A i \in 1..k : a[i] = t[i]
    <2>1. 1 \in Int /\ k \in Int /\ \A i \in 1..k : t[i] \in V
      BY <1>1
    <2>. HIDE DEF V
    <2>2. /\ a \in Seq(V) /\ Len(a) = (IF 1 <= k THEN k - 1 + 1 ELSE 0)
          /\ \A i \in 1..(k - 1 + 1) : a[i] = t[1 + i - 1]
      BY <2>1, SubSeqProperties
    <2>. HIDE DEF a
    <2>3. Len(a) = k
      BY <1>1, <2>2
    <2>. QED
      BY <1>1, <2>2, <2>3
  <1>4. b \in Seq(V) /\ Len(b) = n - k /\ \A i \in 1..(n - k) : b[i] = t[k + i]
    <2>1. k + 1 \in Int /\ n \in Int /\ \A i \in (k + 1)..n : t[i] \in V
      BY <1>1
    <2>. HIDE DEF V
    <2>2. /\ b \in Seq(V) /\ Len(b) = (IF k + 1 <= n THEN n - (k + 1) + 1 ELSE 0)
          /\ \A i \in 1..(n - (k + 1) + 1) : b[i] = t[(k + 1) + i - 1]
      BY <2>1, SubSeqProperties
    <2>. HIDE DEF b
    <2>3. Len(b) = n - k
      BY <1>1, <2>2
    <2>4. ASSUME NEW i \in 1..(n - k) PROVE b[i] = t[k + i]
      <3>1. (k + 1) + i - 1 = k + i /\ i \in 1..(n - (k + 1) + 1)
        BY <1>1
      <3>. QED
        BY <2>2, <3>1
    <2>. QED
      BY <2>2, <2>3, <2>4
  <1>5. t = a \o b
    <2>1. /\ a \o b \in Seq(V) /\ Len(a \o b) = n
          /\ \A i \in 1..n : (a \o b)[i] = IF i <= k THEN a[i] ELSE b[i - k]
      <3>. HIDE DEF a, b, V, n
      <3>1. /\ a \o b \in Seq(V) /\ Len(a \o b) = Len(a) + Len(b)
            /\ \A i \in 1..(Len(a) + Len(b)) :
                 (a \o b)[i] = IF i <= Len(a) THEN a[i] ELSE b[i - Len(a)]
        BY <1>3, <1>4, ConcatProperties
      <3>2. Len(a) + Len(b) = n
        BY <1>1, <1>3, <1>4
      <3>. QED
        BY <1>3, <3>1, <3>2
    <2>. DEFINE c == a \o b
    <2>. HIDE DEF a, b
    <2>2. \A i \in 1..n : c[i] = t[i]
      BY <1>1, <1>3, <1>4, <2>1
    <2>3. t \in Seq(V)
      OBVIOUS
    <2>. HIDE DEF V, c
    <2>4. c \in Seq(V) /\ Len(c) = Len(t) /\ \A i \in 1..Len(t) : c[i] = t[i]
      BY <2>1, <2>2 DEF c
    <2>5. c = t
      BY <2>3, <2>4, SeqEqual
    <2>. QED
      BY <2>5 DEF c
  <1>6. one \in Seq(V) /\ Len(one) = 1 /\ one[1] = x
    OBVIOUS
  <1>. HIDE DEF a, b, one, n, V, new
  <1>7. /\ a \o one \in Seq(V) /\ Len(a \o one) = k + 1
        /\ \A i \in 1..(k + 1) : (a \o one)[i] = IF i <= k THEN a[i] ELSE one[i - k]
    <2>. DEFINE c == a \o one
    <2>1. /\ c \in Seq(V) /\ Len(c) = Len(a) + Len(one)
          /\ \A i \in 1..(Len(a) + Len(one)) : c[i] = IF i <= Len(a) THEN a[i] ELSE one[i - Len(a)]
      BY <1>3, <1>6, ConcatProperties
    <2>. HIDE DEF c
    <2>2. c \in Seq(V) /\ Len(c) = k + 1
      BY <1>3, <1>6, <2>1
    <2>3. \A i \in 1..(k + 1) : c[i] = IF i <= k THEN a[i] ELSE one[i - k]
      BY <1>3, <1>6, <2>1
    <2>. QED
      BY <2>2, <2>3 DEF c
  <1>8. /\ new \in Seq(V) /\ Len(new) = (k + 1) + (n - k)
        /\ \A i \in 1..((k + 1) + (n - k)) :
             new[i] = IF i <= k + 1 THEN (a \o one)[i] ELSE b[i - (k + 1)]
    <2>. DEFINE c == a \o one
    <2>1. c \in Seq(V) /\ Len(c) = k + 1 /\ new = c \o b
      BY <1>7 DEF new
    <2>. HIDE DEF c
    <2>2. /\ c \o b \in Seq(V) /\ Len(c \o b) = Len(c) + Len(b)
          /\ \A i \in 1..(Len(c) + Len(b)) :
               (c \o b)[i] = IF i <= Len(c) THEN c[i] ELSE b[i - Len(c)]
      BY <1>4, <2>1, ConcatProperties
    <2>3. new \in Seq(V) /\ Len(new) = (k + 1) + (n - k)
      BY <1>4, <2>1, <2>2
    <2>4. \A i \in 1..((k + 1) + (n - k)) :
            new[i] = IF i <= k + 1 THEN c[i] ELSE b[i - (k + 1)]
      BY <1>4, <2>1, <2>2
    <2>. QED
      BY <2>3, <2>4 DEF c
  <1>9. Len(new) = n + 1
    BY <1>1, <1>8
  <1>10. ASSUME NEW i \in 1..k PROVE new[i] = t[i]
    <2>1. i <= k /\ i <= k + 1 /\ i \in 1..(k + 1) /\ i \in 1..((k + 1) + (n - k))
      BY <1>1
    <2>. QED
      BY <1>3, <1>7, <1>8, <2>1
  <1>11. new[k + 1] = x
    <2>1. /\ k + 1 <= k + 1 /\ ~(k + 1 <= k) /\ (k + 1) - k = 1
          /\ k + 1 \in 1..(k + 1) /\ k + 1 \in 1..((k + 1) + (n - k))
      BY <1>1
    <2>. QED
      BY <1>6, <1>7, <1>8, <2>1
  <1>12. ASSUME NEW i \in (k + 1)..n PROVE new[i + 1] = t[i]
    <2>1. /\ ~(i + 1 <= k + 1) /\ (i + 1) - (k + 1) = i - k /\ i - k \in 1..(n - k)
          /\ i + 1 \in 1..((k + 1) + (n - k)) /\ k + (i - k) = i
      BY <1>1
    <2>2. new[i + 1] = b[i - k] /\ b[i - k] = t[k + (i - k)]
      BY <1>4, <1>8, <2>1
    <2>. QED
      BY <2>1, <2>2
  <1>13. ASSUME NEW W \in Weighings PROVE Weight(new, W) = Weight(t, W) + W[x]
    <2>1. W \in [V -> Int] /\ x \in V /\ W[x] \in Int
      BY DEF Weighings, V
    <2>2. Weight(new, W) = Weight(a \o one, W) + Weight(b, W)
      BY <1>4, <1>7, <2>1, WeightConcat DEF new
    <2>3. Weight(a \o one, W) = Weight(a, W) + Weight(one, W)
      BY <1>3, <1>6, <2>1, WeightConcat
    <2>4. Weight(one, W) = W[x]
      BY <2>1, WeightOne DEF one
    <2>5. Weight(t, W) = Weight(a, W) + Weight(b, W)
      BY <1>3, <1>4, <1>5, <2>1, WeightConcat
    <2>6. Weight(a, W) \in Int /\ Weight(b, W) \in Int
      BY <1>3, <1>4, <2>1, WeightIsInt
    <2>. QED
      BY <2>1, <2>2, <2>3, <2>4, <2>5, <2>6
  <1>. QED
    BY <1>2, <1>8, <1>9, <1>10, <1>11, <1>12, <1>13 DEF InsertedAt, n, V

\* A value put in its place among ascending ones.
Adds(new, t, x) ==
  /\ new \in Seq(Int) /\ Ascends(new)
  /\ \A i \in 1..Len(t) : \E j \in 1..Len(new) : new[j] = t[i]
  /\ \E j \in 1..Len(new) : new[j] = x
  /\ \A j \in 1..Len(new) : new[j] = x \/ \E i \in 1..Len(t) : new[j] = t[i]
  /\ \A W \in Weighings : Weight(new, W) = Weight(t, W) + W[x]

LEMMA InsertedAdds ==
  ASSUME NEW t \in Seq(Int), Ascends(t), NEW x \in Int
  PROVE  Adds(Inserted(t, x), t, x)
  <1>. DEFINE n == Len(t)
              new == Inserted(t, x)
  <1>1. n \in Nat /\ \A i \in 1..n : t[i] \in Int
    OBVIOUS
  <1>2. PICK k \in 0..n : /\ Cardinality({i \in DOMAIN t : t[i] <= x}) = k
                          /\ \A i \in 1..k : t[i] <= x
                          /\ \A i \in (k + 1)..n : x <= t[i]
    BY UpTo
  <1>3. InsertedAt(new, t, x, k)
    <2>1. new = InsertAt(t, k + 1, x)
      BY <1>2 DEF Inserted
    <2>. HIDE DEF new
    <2>. QED
      BY <2>1, InsertAtIs
  <1>. HIDE DEF new, n
  <1>4. /\ new \in Seq(Int) /\ Len(new) = n + 1
        /\ \A i \in 1..k : new[i] = t[i]
        /\ new[k + 1] = x
        /\ \A i \in (k + 1)..n : new[i + 1] = t[i]
        /\ \A W \in Weighings : Weight(new, W) = Weight(t, W) + W[x]
    BY <1>3 DEF InsertedAt, n
  <1>5. ASSUME NEW i \in 1..(n + 1)
        PROVE  \/ i \in 1..k /\ new[i] = t[i] /\ new[i] <= x
               \/ i = k + 1 /\ new[i] = x
               \/ i - 1 \in (k + 1)..n /\ new[i] = t[i - 1] /\ x <= new[i]
    <2>1. CASE i <= k
      BY <1>1, <1>2, <1>4, <2>1
    <2>2. CASE i = k + 1
      BY <1>4, <2>2
    <2>3. CASE i > k + 1
      <3>1. i - 1 \in (k + 1)..n /\ (i - 1) + 1 = i
        BY <1>1, <1>2, <2>3
      <3>. QED
        BY <1>2, <1>4, <3>1
    <2>. QED
      BY <1>1, <1>2, <2>1, <2>2, <2>3
  <1>6. \A i, j \in 1..n : i <= j => t[i] <= t[j]
    BY DEF Ascends, n
  <1>7. ASSUME NEW i \in 1..(n + 1), NEW j \in 1..(n + 1), i <= j PROVE new[i] <= new[j]
    <2>1. new[i] \in Int /\ new[j] \in Int
      BY <1>1, <1>4
    <2>2. CASE i \in 1..k /\ j \in 1..k
      <3>1. i \in 1..n /\ j \in 1..n /\ new[i] = t[i] /\ new[j] = t[j]
        BY <1>1, <1>2, <1>4, <2>2
      <3>. QED
        BY <1>6, <1>7, <3>1
    <2>3. CASE i \notin 1..k /\ i # k + 1 /\ j \notin 1..k /\ j # k + 1
      <3>1. i - 1 \in 1..n /\ j - 1 \in 1..n /\ i - 1 <= j - 1
        BY <1>1, <1>2, <1>7, <2>3
      <3>2. new[i] = t[i - 1] /\ new[j] = t[j - 1]
        BY <1>5, <2>3
      <3>. QED
        BY <1>6, <3>1, <3>2
    <2>4. CASE i \in 1..k /\ j \notin 1..k
      BY <1>2, <1>5, <2>1, <2>4
    <2>5. CASE i = k + 1
      <3>1. j \notin 1..k
        BY <1>1, <1>2, <1>7, <2>5
      <3>. QED
        BY <1>2, <1>5, <2>1, <2>5, <3>1
    <2>6. CASE i \notin 1..k /\ i # k + 1 /\ (j \in 1..k \/ j = k + 1)
      BY <1>1, <1>2, <1>7, <2>6
    <2>. QED
      BY <2>2, <2>3, <2>4, <2>5, <2>6
  <1>8. ASSUME NEW i \in 1..n PROVE \E j \in 1..(n + 1) : new[j] = t[i]
    <2>1. CASE i <= k
      BY <1>1, <1>2, <1>4, <2>1
    <2>2. CASE i > k
      <3>1. i + 1 \in 1..(n + 1) /\ i \in (k + 1)..n
        BY <1>1, <1>2, <2>2
      <3>. QED
        BY <1>4, <3>1
    <2>. QED
      BY <1>1, <1>2, <2>1, <2>2
  <1>9. \A j \in 1..(n + 1) : new[j] = x \/ \E i \in 1..n : new[j] = t[i]
    <2>1. ASSUME NEW j \in 1..(n + 1), new[j] # x PROVE \E i \in 1..n : new[j] = t[i]
      <3>1. CASE j \in 1..k
        <4>1. j \in 1..n /\ new[j] = t[j]
          BY <1>1, <1>2, <1>4, <3>1
        <4>. QED
          BY <4>1
      <3>2. CASE j \notin 1..k
        <4>1. j - 1 \in 1..n /\ new[j] = t[j - 1]
          BY <1>1, <1>2, <1>4, <1>5, <2>1, <3>2
        <4>. QED
          BY <4>1
      <3>. QED
        BY <3>1, <3>2
    <2>. QED
      BY <2>1
  <1>10. k + 1 \in 1..(n + 1)
    BY <1>1, <1>2
  <1>. QED
    BY <1>4, <1>7, <1>8, <1>9, <1>10 DEF Adds, Ascends, new, n

\* p sorts s by way of its elements.
Ascending == {t \in Seq(Int) : Ascends(t)}
Sorting(p, s) ==
  /\ p \in [0..Len(s) -> Ascending] /\ p[0] = <<>>
  /\ \A k \in 1..Len(s) : p[k] = Inserted(p[k - 1], s[k])

\* Sorted does so.
LEMMA SortedSorts ==
  ASSUME NEW s \in Seq(Int)
  PROVE  \E p : Sorting(p, s) /\ Sorted(s) = p[Len(s)]
  <1>. DEFINE n == Len(s)
              S == DOMAIN s
              V == Ascending
              none == <<>>
              Grow(t, k) == Inserted(t, s[k])
              Fold(h, r) == IF r = {} THEN none ELSE Grow(h[r \ {Max(r)}], Max(r))
              iter == CHOOSE h : h = [r \in SUBSET S |-> Fold(h, r)]
              step == [k \in 1..n |-> [t \in V |-> Grow(t, k)]]
  <1>1. Sorted(s) = iter[S]
    BY DEF Sorted, FoldLeft, MapThenFoldSet
  <1>2. n \in Nat /\ S = 1..n /\ \A k \in 1..n : s[k] \in Int
    OBVIOUS
  <1>3. none \in V
    BY DEF Ascending, Ascends
  <1>4. ASSUME NEW k \in 1..n, NEW t \in V PROVE Grow(t, k) \in V
    <2>1. t \in Seq(Int) /\ Ascends(t) /\ s[k] \in Int
      BY <1>2 DEF Ascending
    <2>. QED
      BY <2>1, InsertedAdds DEF Adds, Ascending
  <1>5. \A k \in 1..n : \A t \in V : step[k][t] = Grow(t, k)
    OBVIOUS
  <1>6. step \in [1..n -> [V -> V]]
    BY <1>4
  <1>. HIDE DEF n, S, V, none, Grow, step
  <1>7. PICK h : FoldsTo(h, n, V, none, step)
    BY <1>2, <1>3, <1>6, IntervalFold
  <1>8. ASSUME NEW r \in SUBSET S, r # {} PROVE Max(r) \in r
    <2>1. IsFiniteSet(S)
      <3>1. 1 \in Int /\ n \in Int
        BY <1>2
      <3>. QED
        BY <1>2, <3>1, FS_Interval
    <2>2. IsFiniteSet(r)
      BY <2>1, FS_Subset
    <2>3. r \in SUBSET Int
      BY <1>2
    <2>. QED
      BY <1>8, <2>2, <2>3, MaxOfFinite
  <1>9. ASSUME NEW r \in SUBSET S PROVE h[r] = Fold(h, r)
    <2>1. h[r] = IF r = {} THEN none ELSE step[Max(r)][h[r \ {Max(r)}]]
      BY <1>2, <1>7 DEF FoldsTo
    <2>2. h[r \ {Max(r)}] \in V
      BY <1>2, <1>7 DEF FoldsTo
    <2>. QED
      BY <1>2, <1>5, <1>8, <2>1, <2>2
  <1>10. \A r \in SUBSET S : iter[r] = Fold(iter, r)
    <2>. HIDE DEF Fold
    <2>1. h = [r \in SUBSET S |-> Fold(h, r)]
      BY <1>2, <1>7, <1>9 DEF FoldsTo
    <2>2. iter = [r \in SUBSET S |-> Fold(iter, r)]
      BY <2>1
    <2>. HIDE DEF iter
    <2>. QED
      BY <2>2
  <1>. HIDE DEF iter
  <1>. DEFINE p == [k \in 0..n |-> iter[1..k]]
              P == {k \in Nat : k <= n => p[k] \in V}
  <1>11. p[0] = none
    <2>1. 1..0 = {} /\ {} \in SUBSET S /\ 0 \in 0..n
      BY <1>2
    <2>. QED
      BY <1>10, <2>1
  <1>12. ASSUME NEW k \in Nat, k + 1 <= n PROVE p[k + 1] = Grow(p[k], k + 1)
    <2>1. /\ Max(1..(k + 1)) = k + 1 /\ (1..(k + 1)) \ {k + 1} = 1..k
          /\ 1..(k + 1) # {}
      <3>1. k + 1 \in Nat \ {0} /\ (k + 1) - 1 = k
        OBVIOUS
      <3>. QED
        BY <3>1, MaxOfInterval
    <2>2. 1..(k + 1) \in SUBSET S /\ k + 1 \in 0..n /\ k \in 0..n
      BY <1>2, <1>12
    <2>. QED
      BY <1>10, <2>1, <2>2
  <1>. HIDE DEF p, Fold
  <1>13. ASSUME NEW k \in Nat, k \in P PROVE k + 1 \in P
    <2>1. SUFFICES ASSUME k + 1 <= n PROVE p[k + 1] \in V
      OBVIOUS
    <2>2. k + 1 \in 1..n /\ p[k] \in V
      BY <1>2, <1>13, <2>1
    <2>. QED
      BY <1>4, <1>12, <2>1, <2>2
  <1>14. 0 \in P
    BY <1>3, <1>11
  <1>. HIDE DEF P
  <1>15. \A k \in Nat : k \in P
    BY <1>13, <1>14, AllNat
  <1>16. \A k \in 0..n : p[k] \in V
    BY <1>2, <1>15 DEF P
  <1>17. ASSUME NEW k \in 1..n PROVE p[k] = Grow(p[k - 1], k)
    <2>1. k - 1 \in Nat /\ (k - 1) + 1 = k /\ k <= n
      BY <1>2
    <2>. QED
      BY <1>12, <2>1
  <1>18. p \in [0..n -> V] /\ p[n] = iter[S]
    BY <1>2, <1>16 DEF p
  <1>. QED
    BY <1>1, <1>11, <1>17, <1>18 DEF Sorting, n, V, none, Grow

\* t has the values of s, in ascending order.
SortOf(t, s) ==
  /\ t \in Seq(Int) /\ Ascends(t) /\ Len(t) = Len(s)
  /\ \A i \in 1..Len(s) : \E j \in 1..Len(t) : t[j] = s[i]
  /\ \A j \in 1..Len(t) : \E i \in 1..Len(s) : t[j] = s[i]
  /\ \A W \in Weighings : Weight(t, W) = Weight(s, W)

LEMMA SortedIs ==
  ASSUME NEW s \in Seq(Int)
  PROVE  SortOf(Sorted(s), s)
  <1>. DEFINE n == Len(s)
  <1>1. n \in Nat /\ \A i \in 1..n : s[i] \in Int
    OBVIOUS
  <1>2. PICK p : Sorting(p, s) /\ Sorted(s) = p[n]
    BY SortedSorts
  <1>3. /\ \A k \in 0..n : p[k] \in Seq(Int) /\ Ascends(p[k])
        /\ p[0] = <<>> /\ \A k \in 1..n : p[k] = Inserted(p[k - 1], s[k])
    BY <1>2 DEF Sorting, Ascending
  <1>. HIDE DEF n
  <1>4. ASSUME NEW k \in Nat, k + 1 <= n
        PROVE  p[k + 1] \in Seq(Int) /\ p[k] \in Seq(Int) /\ Adds(p[k + 1], p[k], s[k + 1])
    <2>1. k \in 0..n /\ k + 1 \in 0..n /\ k + 1 \in 1..n /\ (k + 1) - 1 = k
      BY <1>1, <1>4
    <2>. QED
      BY <1>1, <1>3, <2>1, InsertedAdds
  <1>. DEFINE u(W) == [j \in 1..n |-> W[s[j]]]
  <1>5. ASSUME NEW W \in Weighings PROVE Weight(p[n], W) = Weight(s, W)
    <2>. DEFINE w == u(W)
                P == {k \in Nat : k <= n => Weight(p[k], W) = SumTo(w, k)}
    <2>1. \A j \in 1..n : w[j] \in Int /\ w[j] = W[s[j]]
      BY <1>1 DEF Weighings
    <2>. HIDE DEF w
    <2>2. SumTo(w, 0) = 0 /\ \A k \in 1..n : SumTo(w, k) = SumTo(w, k - 1) + w[k]
      BY <1>1, <2>1, SumIs
    <2>3. Weight(<<>>, W) = 0
      <3>. DEFINE V == Int
                  none == <<>>
      <3>1. W \in [V -> Int] /\ none \in Seq(V)
        BY DEF Weighings
      <3>. HIDE DEF V, none
      <3>2. Weight(<<>>, W) = 0
        BY <3>1, WeightIsInt
      <3>. QED
        BY <3>2
    <2>4. 0 \in P
      BY <1>3, <2>2, <2>3
    <2>5. ASSUME NEW k \in Nat, k \in P PROVE k + 1 \in P
      <3>1. SUFFICES ASSUME k + 1 <= n PROVE Weight(p[k + 1], W) = SumTo(w, k + 1)
        OBVIOUS
      <3>2. k + 1 \in 1..n /\ (k + 1) - 1 = k /\ k <= n
        BY <1>1, <3>1
      <3>3. Weight(p[k + 1], W) = Weight(p[k], W) + W[s[k + 1]]
        BY <1>4, <3>1 DEF Adds
      <3>4. Weight(p[k], W) = SumTo(w, k)
        BY <2>5, <3>2
      <3>5. SumTo(w, k + 1) = SumTo(w, k) + w[k + 1]
        BY <2>2, <3>2
      <3>. QED
        BY <2>1, <3>2, <3>3, <3>4, <3>5
    <2>. HIDE DEF P
    <2>6. \A k \in Nat : k \in P
      BY <2>4, <2>5, AllNat
    <2>7. Weight(p[n], W) = SumTo(w, n)
      BY <1>1, <2>6 DEF P
    <2>. QED
      BY <2>7 DEF Weight, w, n
  <1>. HIDE DEF u
  <1>6. /\ \A i \in 1..n : \E j \in 1..Len(p[n]) : p[n][j] = s[i]
        /\ \A j \in 1..Len(p[n]) : \E i \in 1..n : p[n][j] = s[i]
    <2>. DEFINE Has(k) == /\ \A i \in 1..k : \E j \in 1..Len(p[k]) : p[k][j] = s[i]
                          /\ \A j \in 1..Len(p[k]) : \E i \in 1..k : p[k][j] = s[i]
                P == {k \in Nat : k <= n => Has(k)}
    <2>1. Has(0)
      BY <1>3
    <2>2. ASSUME NEW k \in Nat, k + 1 <= n, Has(k) PROVE Has(k + 1)
      <3>1. \A i \in 1..(k + 1) : i \in 1..k \/ i = k + 1
        OBVIOUS
      <3>2. /\ \A i \in 1..Len(p[k]) : \E j \in 1..Len(p[k + 1]) : p[k + 1][j] = p[k][i]
            /\ \E j \in 1..Len(p[k + 1]) : p[k + 1][j] = s[k + 1]
            /\ \A j \in 1..Len(p[k + 1]) :
                 p[k + 1][j] = s[k + 1] \/ \E i \in 1..Len(p[k]) : p[k + 1][j] = p[k][i]
        BY <1>4, <2>2 DEF Adds
      <3>3. \A i \in 1..(k + 1) : \E j \in 1..Len(p[k + 1]) : p[k + 1][j] = s[i]
        <4>1. ASSUME NEW i \in 1..k PROVE \E j \in 1..Len(p[k + 1]) : p[k + 1][j] = s[i]
          <5>1. PICK j \in 1..Len(p[k]) : p[k][j] = s[i]
            BY <2>2
          <5>. QED
            BY <3>2, <5>1
        <4>. QED
          BY <3>1, <3>2, <4>1
      <3>4. \A j \in 1..Len(p[k + 1]) : \E i \in 1..(k + 1) : p[k + 1][j] = s[i]
        <4>1. k + 1 \in 1..(k + 1) /\ \A i \in 1..k : i \in 1..(k + 1)
          OBVIOUS
        <4>2. ASSUME NEW j \in 1..Len(p[k + 1]), NEW i \in 1..Len(p[k]), p[k + 1][j] = p[k][i]
              PROVE  \E l \in 1..(k + 1) : p[k + 1][j] = s[l]
          <5>1. PICK l \in 1..k : p[k][i] = s[l]
            BY <2>2
          <5>2. p[k + 1][j] = s[l]
            BY <4>2, <5>1
          <5>. QED
            BY <4>1, <5>2
        <4>. QED
          BY <3>2, <4>1, <4>2
      <3>. QED
        BY <3>3, <3>4
    <2>. HIDE DEF Has
    <2>3. 0 \in P /\ \A k \in Nat : k \in P => k + 1 \in P
      BY <1>1, <2>1, <2>2
    <2>. HIDE DEF P
    <2>4. \A k \in Nat : k \in P
      BY <2>3, AllNat
    <2>5. n \in Nat /\ n <= n
      BY <1>1
    <2>6. Has(n)
      BY <2>4, <2>5 DEF P
    <2>. QED
      BY <2>6 DEF Has
  <1>7. Len(p[n]) = n
    <2>1. Weight(p[n], Ones) = Weight(s, Ones)
      BY <1>5, BothWeigh
    <2>2. p[n] \in Seq(Int)
      BY <1>1, <1>3
    <2>3. Weight(p[n], Ones) = Len(p[n]) /\ Weight(s, Ones) = Len(s)
      BY <2>2, LenIsWeight
    <2>. QED
      BY <2>1, <2>3 DEF n
  <1>8. p[n] \in Seq(Int) /\ Ascends(p[n])
    BY <1>1, <1>3
  <1>. QED
    BY <1>2, <1>5, <1>6, <1>7, <1>8 DEF SortOf, n

-----------------------------------------------------------------------------
(* Percentiles.                                                            *)

\* Min, as percentile uses it.
LEMMA MinOfTwo ==
  ASSUME NEW a \in Int, NEW b \in Int
  PROVE  Min({a, b}) = IF a <= b THEN a ELSE b
  <1>. DEFINE m == IF a <= b THEN a ELSE b
  <1>1. m \in {a, b} /\ \A y \in {a, b} : m <= y
    OBVIOUS
  <1>2. ASSUME NEW x \in {a, b}, \A y \in {a, b} : x <= y PROVE x = m
    BY <1>2
  <1>. HIDE DEF m
  <1>3. Min({a, b}) = m
    BY <1>1, <1>2 DEF Min
  <1>. QED
    BY <1>3 DEF m

\* The mean of two values of which the second weighs w in a thousand.
MeanOf(a, b, w) == a * (1000 - w) + b * w

\* What the second may weigh.
Thousandths == 0..1000

\* A mean of two values is between them, and nearer to the second the more that weighs.
LEMMA Mean ==
  ASSUME NEW a \in Int, NEW b \in Int, a <= b, NEW w \in Thousandths
  PROVE  /\ MeanOf(a, b, w) \in Int
         /\ 1000 * a <= MeanOf(a, b, w) /\ MeanOf(a, b, w) <= 1000 * b
         /\ \A x \in Thousandths : w <= x => MeanOf(a, b, w) <= MeanOf(a, b, x)
  <1>. DEFINE K == Thousandths
              d == b - a
              rise == [x \in K |-> d * x]
              mean == [x \in K |-> a * (1000 - x) + b * x]
  <1>1. d \in Nat /\ b = a + d
    OBVIOUS
  <1>2. ASSUME NEW x \in K
        PROVE  mean[x] = a * (1000 - x) + b * x /\ mean[x] = 1000 * a + rise[x] /\ rise[x] \in Int
    <2>1. a * (1000 - x) + (a + d) * x = 1000 * a + d * x /\ d * x \in Int
      <3>. HIDE DEF d
      <3>1. x \in Int
        BY DEF Thousandths
      <3>. QED
        BY <1>1, <3>1, SMTT(30)
    <2>2. mean[x] = a * (1000 - x) + b * x /\ rise[x] = d * x
      OBVIOUS
    <2>. HIDE DEF mean, rise, d
    <2>. QED
      BY <1>1, <2>1, <2>2
  <1>3. ASSUME NEW x \in K, NEW y \in K, x <= y PROVE rise[x] <= rise[y]
    <2>1. rise[x] = d * x /\ rise[y] = d * y
      OBVIOUS
    <2>. HIDE DEF d, rise
    <2>2. y - x \in Nat /\ d * y = d * x + d * (y - x) /\ x \in Int /\ y \in Int
      BY <1>1, <1>3 DEF Thousandths
    <2>3. d * (y - x) \in Nat
      BY <1>1, <2>2
    <2>4. d * x \in Int /\ d * y \in Int
      BY <1>1, <2>2
    <2>. QED
      BY <2>1, <2>2, <2>3, <2>4
  <1>4. rise[0] = 0 /\ rise[1000] = 1000 * b - 1000 * a
    BY DEF Thousandths
  <1>5. 0 \in K /\ 1000 \in K /\ w \in K /\ 0 <= w /\ w <= 1000 /\ w \in Int
    BY DEF Thousandths
  <1>. HIDE DEF rise, mean, d, K
  <1>6. rise[0] <= rise[w] /\ rise[w] <= rise[1000]
    BY <1>3, <1>5
  <1>7. mean[w] = 1000 * a + rise[w] /\ rise[w] \in Int
    BY <1>2, <1>5
  <1>8. mean[w] \in Int /\ 1000 * a <= mean[w] /\ mean[w] <= 1000 * b
    BY <1>4, <1>6, <1>7
  <1>9. ASSUME NEW x \in Thousandths, w <= x PROVE mean[w] <= MeanOf(a, b, x)
    <2>1. x \in K /\ w <= x
      BY <1>9 DEF K
    <2>2. /\ mean[x] = a * (1000 - x) + b * x /\ mean[x] = 1000 * a + rise[x] /\ rise[x] \in Int
      BY <1>2, <2>1
    <2>3. rise[w] <= rise[x]
      BY <1>3, <1>5, <2>1
    <2>4. mean[w] <= mean[x]
      BY <1>7, <2>2, <2>3
    <2>. QED
      BY <2>2, <2>4 DEF MeanOf
  <1>10. mean[w] = MeanOf(a, b, w)
    BY <1>2, <1>5 DEF MeanOf
  <1>. QED
    BY <1>8, <1>9, <1>10

\* The percentiles that are taken.
PerMilles == {500, 990, 999}

\* A percentile is the mean of two neighbours, those on either side of its place.
Lies(v, p, low, high, w) ==
  /\ low \in 0..(Len(v) - 1) /\ high \in 0..(Len(v) - 1) /\ w \in 0..999
  /\ p * (Len(v) - 1) = 1000 * low + w
  /\ high = IF w = 0 THEN low ELSE low + 1
  /\ percentile(v, p) = MeanOf(v[low + 1], v[high + 1], w)

LEMMA PercentileLies ==
  ASSUME NEW v \in Seq(Int), Len(v) # 0, NEW p \in PerMilles
  PROVE  \E low, high, w : Lies(v, p, low, high, w)
  <1>. DEFINE n == Len(v)
              target == p * (n - 1)
              low == target \div 1000
              up == (target + 999) \div 1000
              high == Min({up, n - 1})
              w == target % 1000
  <1>1. n \in Nat /\ n # 0
    OBVIOUS
  <1>2. percentile(v, p) = MeanOf(v[low + 1], v[high + 1], w)
    BY DEF percentile, MeanOf
  <1>3. target \in Nat /\ target <= 999 * (n - 1)
    <2>1. p = 500 \/ p = 990 \/ p = 999
      BY DEF PerMilles
    <2>. HIDE DEF n
    <2>. QED
      BY <1>1, <2>1
  <1>. HIDE DEF n, target
  <1>4. low \in Int /\ w \in 0..999 /\ target = 1000 * low + w
    BY <1>3
  <1>5. up = IF w = 0 THEN low ELSE low + 1
    BY <1>3, <1>4
  <1>. HIDE DEF low, up, w
  <1>6. low \in 0..(n - 1) /\ (IF w = 0 THEN low ELSE low + 1) \in 0..(n - 1)
    BY <1>1, <1>3, <1>4
  <1>7. up \in Int /\ n - 1 \in Int /\ up <= n - 1
    BY <1>1, <1>5, <1>6
  <1>8. high = up
    BY <1>7, MinOfTwo
  <1>. HIDE DEF high
  <1>9. Lies(v, p, low, high, w)
    <2>1. high \in 0..(n - 1) /\ high = IF w = 0 THEN low ELSE low + 1
      BY <1>5, <1>6, <1>8
    <2>. QED
      BY <1>2, <1>4, <1>6, <2>1 DEF Lies, n, target
  <1>. QED
    BY <1>9

\* A percentile lies between its neighbours.
LEMMA LiesBetween ==
  ASSUME NEW v \in Seq(Int), Len(v) # 0, Ascends(v), NEW p, NEW low, NEW high, NEW w,
         Lies(v, p, low, high, w)
  PROVE  /\ percentile(v, p) \in Int /\ v[low + 1] \in Int /\ v[high + 1] \in Int
         /\ v[low + 1] <= v[high + 1]
         /\ 1000 * v[low + 1] <= percentile(v, p) /\ percentile(v, p) <= 1000 * v[high + 1]
  <1>. DEFINE a == v[low + 1]
              b == v[high + 1]
  <1>1. /\ low \in Int /\ high \in Int /\ low <= high
        /\ low + 1 \in 1..Len(v) /\ high + 1 \in 1..Len(v)
    BY DEF Lies
  <1>2. a \in Int /\ b \in Int
    BY <1>1
  <1>3. a <= b
    <2>1. low + 1 <= high + 1
      BY <1>1
    <2>. QED
      BY <1>1, <2>1 DEF Ascends
  <1>4. percentile(v, p) = MeanOf(a, b, w) /\ w \in Thousandths
    BY DEF Lies, Thousandths
  <1>. HIDE DEF a, b
  <1>5. /\ percentile(v, p) \in Int
        /\ 1000 * a <= percentile(v, p) /\ percentile(v, p) <= 1000 * b
    BY <1>2, <1>3, <1>4, Mean
  <1>. QED
    BY <1>2, <1>3, <1>5 DEF a, b

\* A percentile is not above a higher one.
LEMMA PercentileRises ==
  ASSUME NEW v \in Seq(Int), Len(v) # 0, Ascends(v),
         NEW p \in PerMilles, NEW q \in PerMilles, p <= q
  PROVE  percentile(v, p) <= percentile(v, q)
  <1>. DEFINE n == Len(v)
  <1>1. n \in Nat /\ n # 0 /\ \A i \in 1..n : v[i] \in Int
    OBVIOUS
  <1>2. PICK low, high, w : Lies(v, p, low, high, w)
    BY PercentileLies
  <1>3. PICK lower, higher, x : Lies(v, q, lower, higher, x)
    BY PercentileLies
  <1>4. /\ low \in 0..(n - 1) /\ high \in 0..(n - 1) /\ w \in 0..999
        /\ high = IF w = 0 THEN low ELSE low + 1
        /\ lower \in 0..(n - 1) /\ higher \in 0..(n - 1) /\ x \in 0..999
        /\ higher = IF x = 0 THEN lower ELSE lower + 1
    BY <1>2, <1>3 DEF Lies
  <1>5. /\ percentile(v, p) \in Int /\ v[low + 1] \in Int /\ v[high + 1] \in Int
        /\ 1000 * v[low + 1] <= percentile(v, p) /\ percentile(v, p) <= 1000 * v[high + 1]
    BY <1>2, LiesBetween
  <1>6. /\ percentile(v, q) \in Int /\ v[lower + 1] \in Int /\ v[higher + 1] \in Int
        /\ v[lower + 1] <= v[higher + 1]
        /\ 1000 * v[lower + 1] <= percentile(v, q) /\ percentile(v, q) <= 1000 * v[higher + 1]
    BY <1>3, LiesBetween
  <1>. HIDE DEF n
  <1>7. 1000 * low + w <= 1000 * lower + x
    <2>1. p * (n - 1) <= q * (n - 1)
      <3>1. /\ p = 500 \/ p = 990 \/ p = 999
            /\ q = 500 \/ q = 990 \/ q = 999
        BY DEF PerMilles
      <3>. QED
        BY <1>1, <3>1
    <2>2. p * (n - 1) = 1000 * low + w /\ q * (n - 1) = 1000 * lower + x
      BY <1>2, <1>3 DEF Lies, n
    <2>. QED
      BY <2>1, <2>2
  <1>8. CASE low < lower
    <2>1. high + 1 \in 1..n /\ lower + 1 \in 1..n /\ high + 1 <= lower + 1
      BY <1>1, <1>4, <1>8
    <2>2. v[high + 1] <= v[lower + 1]
      BY <2>1 DEF Ascends, n
    <2>. QED
      BY <1>5, <1>6, <2>2
  <1>9. CASE low = lower
    <2>. DEFINE a == v[lower + 1]
                b == v[higher + 1]
    <2>1. w <= x /\ w \in Thousandths /\ x \in Thousandths
      BY <1>4, <1>7, <1>9 DEF Thousandths
    <2>2. percentile(v, p) = MeanOf(a, b, w)
      <3>1. CASE w = 0
        <4>1. percentile(v, p) = MeanOf(a, a, 0)
          BY <1>2, <1>4, <1>9, <3>1 DEF Lies
        <4>2. a \in Int /\ b \in Int
          BY <1>6
        <4>. HIDE DEF a, b
        <4>3. MeanOf(a, a, 0) = MeanOf(a, b, 0)
          BY <4>2 DEF MeanOf
        <4>. QED
          BY <3>1, <4>1, <4>3
      <3>2. CASE w # 0
        <4>1. high = higher
          <5>1. x # 0
            <6>1. w \in Int /\ x \in Int /\ 0 <= w
              BY <1>4
            <6>. QED
              BY <2>1, <3>2, <6>1
          <5>. QED
            BY <1>4, <1>9, <3>2, <5>1
        <4>. QED
          BY <1>2, <1>9, <4>1 DEF Lies
      <3>. QED
        BY <3>1, <3>2
    <2>3. percentile(v, q) = MeanOf(a, b, x)
      BY <1>3 DEF Lies
    <2>4. a \in Int /\ b \in Int /\ a <= b
      BY <1>6
    <2>. HIDE DEF a, b
    <2>. QED
      BY <2>1, <2>2, <2>3, <2>4, Mean
  <1>10. low < lower \/ low = lower
    <2>1. /\ low \in Int /\ lower \in Int /\ w \in Int /\ x \in Int
          /\ 0 <= w /\ x <= 999
      BY <1>4
    <2>. QED
      BY <1>7, <2>1
  <1>. QED
    BY <1>8, <1>9, <1>10

\* No percentile is above the last value.
LEMMA PercentileBelowLast ==
  ASSUME NEW v \in Seq(Int), Len(v) # 0, Ascends(v), NEW p \in PerMilles
  PROVE  percentile(v, p) \in Int /\ percentile(v, p) <= 1000 * v[Len(v)]
  <1>1. PICK low, high, w : Lies(v, p, low, high, w)
    BY PercentileLies
  <1>2. /\ percentile(v, p) \in Int /\ v[high + 1] \in Int
        /\ percentile(v, p) <= 1000 * v[high + 1]
    BY <1>1, LiesBetween
  <1>3. high + 1 \in 1..Len(v) /\ Len(v) \in 1..Len(v) /\ high + 1 <= Len(v)
    BY <1>1 DEF Lies
  <1>4. v[high + 1] <= v[Len(v)] /\ v[Len(v)] \in Int
    BY <1>3 DEF Ascends
  <1>. QED
    BY <1>2, <1>4

\* The indices of the values up to half of them, and of the rest.
Middle(v, low, high) ==
  /\ low \in 0..(Len(v) - 1) /\ high \in 0..(Len(v) - 1)
  /\ 2 * (low + 1) >= Len(v) /\ 2 * (Len(v) - high) >= Len(v)
  /\ \A i \in 1..(low + 1) : 1000 * v[i] <= percentile(v, 500)
  /\ \A i \in (high + 1)..Len(v) : 1000 * v[i] >= percentile(v, 500)

LEMMA MedianSplits ==
  ASSUME NEW v \in Seq(Int), Len(v) # 0, Ascends(v)
  PROVE  \E low, high : Middle(v, low, high)
  <1>. DEFINE n == Len(v)
              median == percentile(v, 500)
  <1>1. n \in Nat /\ n # 0 /\ \A i \in 1..n : v[i] \in Int
    OBVIOUS
  <1>2. PICK low, high, w : Lies(v, 500, low, high, w)
    BY PercentileLies DEF PerMilles
  <1>3. /\ low \in 0..(n - 1) /\ high \in 0..(n - 1) /\ w \in 0..999
        /\ 500 * (n - 1) = 1000 * low + w /\ high = IF w = 0 THEN low ELSE low + 1
    BY <1>2 DEF Lies
  <1>4. /\ median \in Int /\ v[low + 1] \in Int /\ v[high + 1] \in Int
        /\ 1000 * v[low + 1] <= median /\ median <= 1000 * v[high + 1]
    BY <1>2, LiesBetween
  <1>. HIDE DEF n, median
  <1>5. 2 * (low + 1) >= n /\ 2 * (n - high) >= n
    BY <1>1, <1>3
  <1>6. ASSUME NEW i \in 1..(low + 1) PROVE 1000 * v[i] <= median
    <2>1. i \in 1..n /\ low + 1 \in 1..n /\ i <= low + 1
      BY <1>1, <1>3
    <2>2. v[i] <= v[low + 1] /\ v[i] \in Int
      BY <1>1, <2>1 DEF Ascends, n
    <2>. QED
      BY <1>4, <2>2
  <1>7. ASSUME NEW i \in (high + 1)..n PROVE 1000 * v[i] >= median
    <2>1. i \in 1..n /\ high + 1 \in 1..n /\ high + 1 <= i
      BY <1>1, <1>3
    <2>2. v[high + 1] <= v[i] /\ v[i] \in Int
      BY <1>1, <2>1 DEF Ascends, n
    <2>. QED
      BY <1>4, <2>2
  <1>. QED
    <2>1. Middle(v, low, high)
      <3>1. low \in 0..(n - 1) /\ high \in 0..(n - 1)
        BY <1>3
      <3>. QED
        BY <1>5, <1>6, <1>7, <3>1 DEF n, median, Middle
    <2>. QED
      BY <2>1

\* A sum of ones and zeros counts the ones.
LEMMA CountOnes ==
  ASSUME NEW u, NEW n \in Nat, \A i \in 1..n : u[i] \in {0, 1}
  PROVE  SumTo(u, n) = Cardinality({i \in 1..n : u[i] = 1})
  <1>. DEFINE D(k) == {i \in 1..k : u[i] = 1}
              P == {k \in Nat : k <= n => SumTo(u, k) = Cardinality(D(k))}
  <1>1. /\ SumTo(u, 0) = 0 /\ \A k \in 1..n : SumTo(u, k) = SumTo(u, k - 1) + u[k]
    <2>1. \A i \in 1..n : u[i] \in Int
      OBVIOUS
    <2>. QED
      BY <2>1, SumIs
  <1>2. \A k \in Nat : IsFiniteSet(D(k)) /\ Cardinality(D(k)) \in Nat
    <2>1. ASSUME NEW k \in Nat PROVE IsFiniteSet(D(k))
      <3>1. 1 \in Int /\ k \in Int
        OBVIOUS
      <3>2. IsFiniteSet(1..k)
        BY <3>1, FS_Interval
      <3>3. D(k) \in SUBSET (1..k)
        OBVIOUS
      <3>. QED
        BY <3>2, <3>3, FS_Subset
    <2>. QED
      BY <2>1, FS_CardinalityType
  <1>3. 0 \in P
    <2>1. D(0) = {}
      OBVIOUS
    <2>. QED
      BY <1>1, <2>1, FS_EmptySet
  <1>4. ASSUME NEW k \in Nat, k \in P PROVE k + 1 \in P
    <2>1. SUFFICES ASSUME k + 1 <= n PROVE SumTo(u, k + 1) = Cardinality(D(k + 1))
      OBVIOUS
    <2>2. k + 1 \in 1..n /\ (k + 1) - 1 = k /\ SumTo(u, k) = Cardinality(D(k))
      BY <1>4, <2>1
    <2>3. SumTo(u, k + 1) = SumTo(u, k) + u[k + 1]
      BY <1>1, <2>2
    <2>4. k + 1 \notin D(k) /\ \A i : i \in 1..(k + 1) <=> (i \in 1..k \/ i = k + 1)
      OBVIOUS
    <2>5. CASE u[k + 1] = 1
      <3>1. D(k + 1) = D(k) \cup {k + 1}
        BY <2>4, <2>5
      <3>. HIDE DEF D
      <3>2. Cardinality(D(k) \cup {k + 1}) = Cardinality(D(k)) + 1
        BY <1>2, <2>4, FS_AddElement
      <3>. QED
        BY <1>2, <2>2, <2>3, <2>5, <3>1, <3>2
    <2>6. CASE u[k + 1] = 0
      <3>1. D(k + 1) = D(k)
        BY <2>4, <2>6
      <3>. HIDE DEF D
      <3>. QED
        BY <1>2, <2>2, <2>3, <2>6, <3>1
    <2>. QED
      BY <2>2, <2>5, <2>6
  <1>. HIDE DEF P
  <1>5. n \in P
    BY <1>3, <1>4, AllNat
  <1>. QED
    BY <1>5 DEF P

\* The values of a set weigh one each, the others nothing.
Those(A) == [x \in Int |-> IF x \in A THEN 1 ELSE 0]

\* So a sequence weighs as much as it has of them.
LEMMA CountIsWeight ==
  ASSUME NEW s \in Seq(Int), NEW A
  PROVE  Weight(s, Those(A)) = Cardinality({i \in DOMAIN s : s[i] \in A})
  <1>. DEFINE n == Len(s)
              W == Those(A)
              u == [i \in 1..n |-> W[s[i]]]
  <1>1. n \in Nat /\ DOMAIN s = 1..n /\ \A i \in 1..n : s[i] \in Int
    OBVIOUS
  <1>2. \A i \in 1..n : u[i] \in {0, 1} /\ (u[i] = 1 <=> s[i] \in A)
    BY <1>1 DEF Those
  <1>3. Weight(s, W) = SumTo(u, n)
    BY DEF Weight
  <1>. HIDE DEF n, u
  <1>4. SumTo(u, n) = Cardinality({i \in 1..n : u[i] = 1})
    BY <1>1, <1>2, CountOnes
  <1>5. {i \in 1..n : u[i] = 1} = {i \in DOMAIN s : s[i] \in A}
    BY <1>1, <1>2
  <1>. QED
    BY <1>3, <1>4, <1>5

\* Sorting leaves as many values of a set as there were.
LEMMA SortedCount ==
  ASSUME NEW s \in Seq(Int), NEW A
  PROVE  Cardinality({i \in DOMAIN s : s[i] \in A})
           = Cardinality({i \in DOMAIN Sorted(s) : Sorted(s)[i] \in A})
  <1>. DEFINE t == Sorted(s)
  <1>1. t \in Seq(Int) /\ \A W \in Weighings : Weight(t, W) = Weight(s, W)
    BY SortedIs DEF SortOf
  <1>2. Those(A) \in Weighings
    BY DEF Those, Weighings
  <1>. HIDE DEF t
  <1>3. Cardinality({i \in DOMAIN s : s[i] \in A}) = Cardinality({i \in DOMAIN t : t[i] \in A})
    BY <1>1, <1>2, CountIsWeight
  <1>. QED
    BY <1>3 DEF t

\* Half of the values lie on either side of their median.
LEMMA MedianHalves ==
  ASSUME NEW s \in Seq(Int), s # <<>>
  PROVE  HalfEachSide(s, percentile(Sorted(s), 500))
  <1>. DEFINE t == Sorted(s)
              n == Len(t)
              median == percentile(t, 500)
              Below == {x \in Int : 1000 * x <= median}
              Above == {x \in Int : 1000 * x >= median}
  <1>1. t \in Seq(Int) /\ Ascends(t) /\ n = Len(s) /\ n # 0 /\ n \in Nat
    <2>1. t \in Seq(Int) /\ Ascends(t) /\ n = Len(s)
      BY SortedIs DEF SortOf
    <2>2. Len(s) # 0 /\ Len(s) \in Nat
      BY EmptySeq
    <2>. QED
      BY <2>1, <2>2
  <1>. HIDE DEF t
  <1>2. PICK low, high : Middle(t, low, high)
    BY <1>1, MedianSplits
  <1>3. /\ low \in 0..(n - 1) /\ high \in 0..(n - 1)
        /\ 2 * (low + 1) >= n /\ 2 * (n - high) >= n
        /\ \A i \in 1..(low + 1) : 1000 * t[i] <= median
        /\ \A i \in (high + 1)..n : 1000 * t[i] >= median
    BY <1>2 DEF Middle
  <1>4. DOMAIN t = 1..n /\ \A i \in 1..n : t[i] \in Int
    BY <1>1
  <1>. HIDE DEF n, median
  <1>. DEFINE B == {i \in DOMAIN t : t[i] \in Below}
              C == {i \in DOMAIN t : t[i] \in Above}
  <1>5. 1..(low + 1) \subseteq B /\ (high + 1)..n \subseteq C
    <2>1. \A i \in 1..(low + 1) : i \in 1..n
      BY <1>1, <1>3
    <2>2. \A i \in (high + 1)..n : i \in 1..n
      BY <1>1, <1>3
    <2>. QED
      BY <1>3, <1>4, <2>1, <2>2
  <1>6. IsFiniteSet(B) /\ IsFiniteSet(C)
    <2>1. 1 \in Int /\ n \in Int
      BY <1>1
    <2>2. IsFiniteSet(DOMAIN t)
      BY <1>4, <2>1, FS_Interval
    <2>3. B \in SUBSET DOMAIN t /\ C \in SUBSET DOMAIN t
      OBVIOUS
    <2>. HIDE DEF B, C
    <2>. QED
      BY <2>2, <2>3, FS_Subset
  <1>7. Cardinality(1..(low + 1)) = low + 1
    <2>1. low + 1 \in Nat
      BY <1>3
    <2>. QED
      BY <2>1, CountFromOne
  <1>8. Cardinality((high + 1)..n) = n - high
    <2>1. high + 1 \in Int /\ n \in Int /\ high + 1 <= n /\ n - (high + 1) + 1 = n - high
      BY <1>1, <1>3
    <2>. QED
      BY <2>1, FS_Interval
  <1>. HIDE DEF B, C
  <1>9. Cardinality(B) \in Nat /\ Cardinality(C) \in Nat
    BY <1>6, FS_CardinalityType
  <1>10. low + 1 <= Cardinality(B) /\ n - high <= Cardinality(C)
    <2>. DEFINE I == 1..(low + 1)
                J == (high + 1)..n
    <2>1. I \in SUBSET B /\ J \in SUBSET C /\ Cardinality(I) = low + 1 /\ Cardinality(J) = n - high
      BY <1>5, <1>7, <1>8
    <2>. HIDE DEF I, J
    <2>2. Cardinality(I) <= Cardinality(B) /\ Cardinality(J) <= Cardinality(C)
      BY <1>6, <2>1, FS_Subset
    <2>. QED
      BY <2>1, <2>2
  <1>11. 2 * Cardinality(B) >= n /\ 2 * Cardinality(C) >= n
    BY <1>1, <1>3, <1>9, <1>10
  <1>12. /\ Cardinality(B) = Cardinality({i \in DOMAIN s : s[i] \in Below})
         /\ Cardinality(C) = Cardinality({i \in DOMAIN s : s[i] \in Above})
    <2>. HIDE DEF Below, Above
    <2>1. /\ Cardinality({i \in DOMAIN t : t[i] \in Below})
               = Cardinality({i \in DOMAIN s : s[i] \in Below})
          /\ Cardinality({i \in DOMAIN t : t[i] \in Above})
               = Cardinality({i \in DOMAIN s : s[i] \in Above})
      BY SortedCount DEF t
    <2>. QED
      BY <2>1 DEF B, C
  <1>13. /\ {i \in DOMAIN s : s[i] \in Below} = {i \in DOMAIN s : 1000 * s[i] <= median}
         /\ {i \in DOMAIN s : s[i] \in Above} = {i \in DOMAIN s : 1000 * s[i] >= median}
    <2>1. \A i \in DOMAIN s : s[i] \in Int
      OBVIOUS
    <2>. QED
      BY <2>1
  <1>. HIDE DEF Below, Above
  <1>. QED
    BY <1>1, <1>11, <1>12, <1>13 DEF HalfEachSide, median, t

\* s has the value x somewhere.
Has(s, x) == \E i \in 1..Len(s) : s[i] = x

\* Two sequences have what either has.
LEMMA ConcatHas ==
  ASSUME NEW V, NEW a \in Seq(V), NEW b \in Seq(V), NEW x, Has(a, x) \/ Has(b, x)
  PROVE  Has(a \o b, x)
  <1>. DEFINE c == a \o b
  <1>1. /\ c \in Seq(V) /\ Len(c) = Len(a) + Len(b)
        /\ \A i \in 1..(Len(a) + Len(b)) : c[i] = IF i <= Len(a) THEN a[i] ELSE b[i - Len(a)]
    BY ConcatProperties
  <1>2. Len(a) \in Nat /\ Len(b) \in Nat
    OBVIOUS
  <1>. HIDE DEF c
  <1>3. CASE Has(a, x)
    <2>1. PICK i \in 1..Len(a) : a[i] = x
      BY <1>3 DEF Has
    <2>2. i \in 1..Len(c) /\ i \in 1..(Len(a) + Len(b)) /\ i <= Len(a)
      BY <1>1, <1>2
    <2>3. c[i] = x
      BY <1>1, <2>1, <2>2
    <2>. QED
      BY <2>2, <2>3 DEF Has, c
  <1>4. CASE Has(b, x)
    <2>1. PICK i \in 1..Len(b) : b[i] = x
      BY <1>4 DEF Has
    <2>2. /\ Len(a) + i \in 1..Len(c) /\ Len(a) + i \in 1..(Len(a) + Len(b))
          /\ ~(Len(a) + i <= Len(a)) /\ (Len(a) + i) - Len(a) = i
      BY <1>1, <1>2
    <2>3. c[Len(a) + i] = x
      BY <1>1, <2>1, <2>2
    <2>. QED
      BY <2>2, <2>3 DEF Has, c
  <1>. QED
    BY <1>3, <1>4

\* What one of the sequences has, all of them have.
LEMMA FlattenHas ==
  ASSUME NEW V, NEW N \in Nat, NEW seqs \in [1..N -> Seq(V)],
         NEW w \in 1..N, NEW x, Has(seqs[w], x)
  PROVE  Has(FlattenSeq(seqs), x)
  <1>1. PICK g : Flattens(g, seqs, N, V) /\ FlattenSeq(seqs) = g[N]
    BY FlattenIs
  <1>. DEFINE P == {n \in Nat : n \in 1..N => (w <= n => Has(g[n], x))}
  <1>2. 0 \in P
    OBVIOUS
  <1>3. ASSUME NEW n \in Nat, n \in P PROVE n + 1 \in P
    <2>1. SUFFICES ASSUME n + 1 \in 1..N, w <= n + 1 PROVE Has(g[n + 1], x)
      OBVIOUS
    <2>2. seqs[n + 1] \in Seq(V) /\ g[n + 1] = IF n + 1 = 1 THEN seqs[n + 1]
                                               ELSE g[(n + 1) - 1] \o seqs[n + 1]
      BY <1>1, <2>1 DEF Flattens
    <2>3. CASE n = 0
      <3>1. w = n + 1
        BY <2>1, <2>3
      <3>. QED
        BY <2>2, <2>3, <3>1
    <2>4. CASE n # 0
      <3>1. n \in 1..N /\ (n + 1) - 1 = n /\ n + 1 # 1
        BY <2>1, <2>4
      <3>2. g[n] \in Seq(V) /\ g[n + 1] = g[n] \o seqs[n + 1]
        BY <1>1, <2>2, <3>1 DEF Flattens
      <3>3. w <= n \/ w = n + 1
        BY <2>1
      <3>4. Has(g[n], x) \/ Has(seqs[n + 1], x)
        BY <1>3, <3>1, <3>3
      <3>. DEFINE a == g[n]
                  b == seqs[n + 1]
      <3>5. a \in Seq(V) /\ b \in Seq(V) /\ (Has(a, x) \/ Has(b, x)) /\ g[n + 1] = a \o b
        BY <2>2, <3>2, <3>4
      <3>. HIDE DEF a, b
      <3>. QED
        BY <3>5, ConcatHas, Zenon
    <2>. QED
      BY <2>3, <2>4
  <1>. HIDE DEF P
  <1>4. N \in P
    BY <1>2, <1>3, AllNat
  <1>. QED
    BY <1>1, <1>4 DEF P

\* A window that is reported holds a value.
LEMMA FilledHolds ==
  ASSUME NEW start \in Int, NEW end \in Int, NEW m \in Metrics(start, end),
         NEW j \in DOMAIN Filled(m)
  PROVE  Filled(m)[j] \in 1..NBuckets(start, end) /\ m.buckets[Filled(m)[j]] # <<>>
  <1>. DEFINE n == NBuckets(start, end)
              Holds(f) == \A i \in DOMAIN f : f[i] \in 1..n /\ m.buckets[f[i]] # <<>>
  <1>1. n \in Nat
    BY NBucketsAtLeastOne
  <1>2. PICK p : Finds(p, m, n) /\ Filled(m) = p[n]
    BY FilledFinds
  <1>. HIDE DEF n
  <1>. DEFINE P == {k \in Nat : k <= n => Holds(p[k])}
  <1>3. 0 \in P
    BY <1>1, <1>2 DEF Finds
  <1>4. ASSUME NEW k \in Nat, k \in P PROVE k + 1 \in P
    <2>1. SUFFICES ASSUME k + 1 <= n PROVE Holds(p[k + 1])
      OBVIOUS
    <2>2. k + 1 \in 1..n /\ k \in 0..n /\ (k + 1) - 1 = k
      BY <1>1, <2>1
    <2>3. p[k] \in Seq(1..n) /\ p[k + 1] = IF m.buckets[k + 1] = <<>> THEN p[k]
                                         ELSE Append(p[k], k + 1)
      BY <1>2, <2>2 DEF Finds
    <2>4. Holds(p[k])
      BY <1>1, <1>4, <2>1
    <2>5. CASE m.buckets[k + 1] = <<>>
      BY <2>3, <2>4, <2>5
    <2>6. CASE m.buckets[k + 1] # <<>>
      <3>1. p[k + 1] = Append(p[k], k + 1)
        BY <2>3, <2>6
      <3>2. \A i \in DOMAIN p[k + 1] :
              p[k + 1][i] = k + 1 \/ (i \in DOMAIN p[k] /\ p[k + 1][i] = p[k][i])
        BY <2>2, <2>3, <3>1, AppendProperties
      <3>. QED
        BY <2>2, <2>4, <2>6, <3>2
    <2>. QED
      BY <2>5, <2>6
  <1>. HIDE DEF P
  <1>5. n \in P
    BY <1>1, <1>3, <1>4, AllNat
  <1>6. Holds(Filled(m))
    BY <1>1, <1>2, <1>5 DEF P
  <1>. QED
    BY <1>6 DEF n

\* What sorting keeps of a sequence that is not empty.
LEMMA SortedHas ==
  ASSUME NEW s \in Seq(Int), s # <<>>
  PROVE  /\ Sorted(s) \in Seq(Int) /\ Sorted(s) # <<>> /\ Len(Sorted(s)) # 0 /\ Ascends(Sorted(s))
         /\ \A x : Has(Sorted(s), x) <=> Has(s, x)
         /\ Last(Sorted(s)) \in Int
         /\ Has(Sorted(s), Last(Sorted(s)))
         /\ \A x : Has(Sorted(s), x) => x \in Int /\ x <= Last(Sorted(s))
  <1>. DEFINE t == Sorted(s)
  <1>1. SortOf(t, s)
    BY SortedIs
  <1>. HIDE DEF t
  <1>2. t \in Seq(Int) /\ Ascends(t) /\ Len(t) # 0 /\ Len(t) \in Nat /\ t # <<>>
    <2>1. Len(s) # 0 /\ Len(s) \in Nat
      BY EmptySeq
    <2>. QED
      BY <1>1, <2>1 DEF SortOf
  <1>3. ASSUME NEW x PROVE Has(t, x) <=> Has(s, x)
    BY <1>1 DEF SortOf, Has
  <1>4. Len(t) \in 1..Len(t) /\ Last(t) = t[Len(t)] /\ \A i \in 1..Len(t) : t[i] \in Int
    BY <1>2 DEF Last
  <1>5. ASSUME NEW x, Has(t, x) PROVE x \in Int /\ x <= Last(t)
    <2>1. PICK i \in 1..Len(t) : t[i] = x
      BY <1>5 DEF Has
    <2>2. i <= Len(t)
      BY <1>2
    <2>3. t[i] <= t[Len(t)]
      BY <1>2, <1>4, <2>1, <2>2 DEF Ascends
    <2>. QED
      BY <1>4, <2>1, <2>3
  <1>6. Has(t, Last(t)) /\ Last(t) \in Int
    BY <1>4 DEF Has
  <1>. QED
    BY <1>2, <1>3, <1>5, <1>6 DEF t

\* What is reported of the percentiles of a metric.
LEMMA GenerateDivides ==
  ASSUME NEW start \in Int, NEW end \in Int, NEW m \in Metrics(start, end), CanGenerate(m)
  PROVE  InOrder(Generate(m)) /\ HalfEachSide(FlattenSeq(m.buckets), Generate(m).overall_p50)
  <1>. DEFINE n == NBuckets(start, end)
              values == FlattenSeq(m.buckets)
              all == Sorted(values)
              again == Sorted(all)
  <1>1. n \in Nat /\ m.buckets \in [1..n -> Seq(Int)]
    BY NBucketsAtLeastOne DEF Metrics
  <1>2. values \in Seq(Int) /\ values # <<>>
    <2>. DEFINE V == Int
                bs == m.buckets
    <2>1. bs \in [1..n -> Seq(V)] /\ \E i \in 1..n : bs[i] # <<>>
      BY <1>1 DEF CanGenerate
    <2>. HIDE DEF V, n, bs
    <2>2. FlattenSeq(bs) \in Seq(V) /\ FlattenSeq(bs) # <<>>
      BY <1>1, <2>1, Flattened
    <2>. QED
      BY <2>2 DEF V, bs
  <1>3. HalfEachSide(values, percentile(all, 500))
    <2>. HIDE DEF values
    <2>. QED
      BY <1>2, MedianHalves
  <1>4. /\ Generate(m).overall_p50 = percentile(all, 500)
        /\ Generate(m).max = Last(again)
        /\ DOMAIN Generate(m).t = DOMAIN Filled(m)
        /\ \A k \in DOMAIN Filled(m) :
             /\ Generate(m).p50[k] = percentile(Sorted(m.buckets[Filled(m)[k]]), 500)
             /\ Generate(m).p99[k] = percentile(Sorted(m.buckets[Filled(m)[k]]), 990)
             /\ Generate(m).p999[k] = percentile(Sorted(m.buckets[Filled(m)[k]]), 999)
    BY DEF Generate, Greatest, PerBucket, Starts
  <1>5. /\ Last(again) \in Int
        /\ \A x : Has(values, x) => x \in Int /\ x <= Last(again)
    <2>. HIDE DEF values
    <2>1. all \in Seq(Int) /\ all # <<>> /\ \A x : Has(all, x) <=> Has(values, x)
      BY <1>2, SortedHas
    <2>. HIDE DEF all
    <2>. QED
      BY <2>1, SortedHas
  <1>. HIDE DEF values, all, again, n
  <1>6. ASSUME NEW k \in DOMAIN Filled(m)
        PROVE  /\ Generate(m).p50[k] <= Generate(m).p99[k]
               /\ Generate(m).p99[k] <= Generate(m).p999[k]
               /\ Generate(m).p999[k] <= 1000 * Generate(m).max
    <2>. DEFINE w == Filled(m)[k]
                b == m.buckets[w]
                v == Sorted(b)
    <2>1. w \in 1..n /\ b \in Seq(Int) /\ b # <<>>
      BY <1>1, FilledHolds DEF n
    <2>2. /\ Generate(m).p50[k] = percentile(v, 500) /\ Generate(m).p99[k] = percentile(v, 990)
          /\ Generate(m).p999[k] = percentile(v, 999)
      BY <1>4
    <2>. HIDE DEF w
    <2>3. \A x : Has(b, x) => Has(values, x)
      <3>. DEFINE V == Int
                  bs == m.buckets
      <3>1. bs \in [1..n -> Seq(V)]
        BY <1>1
      <3>. HIDE DEF V, bs
      <3>2. \A x : Has(bs[w], x) => Has(FlattenSeq(bs), x)
        BY <1>1, <2>1, <3>1, FlattenHas
      <3>. QED
        BY <3>2 DEF bs, values
    <2>. HIDE DEF b
    <2>4. /\ v \in Seq(Int) /\ Len(v) # 0 /\ Ascends(v) /\ Last(v) \in Int /\ Last(v) = v[Len(v)]
          /\ Has(b, Last(v))
      BY <2>1, SortedHas DEF Last
    <2>. HIDE DEF v
    <2>5. Last(v) <= Last(again)
      BY <1>5, <2>3, <2>4
    <2>6. 500 \in PerMilles /\ 990 \in PerMilles /\ 999 \in PerMilles /\ 500 <= 990 /\ 990 <= 999
      BY DEF PerMilles
    <2>7. percentile(v, 500) <= percentile(v, 990) /\ percentile(v, 990) <= percentile(v, 999)
      BY <2>4, <2>6, PercentileRises
    <2>8. percentile(v, 999) \in Int /\ percentile(v, 999) <= 1000 * v[Len(v)]
      BY <2>4, <2>6, PercentileBelowLast
    <2>9. percentile(v, 999) <= 1000 * Last(again)
      BY <1>5, <2>4, <2>5, <2>8
    <2>. QED
      BY <1>4, <2>2, <2>7, <2>9
  <1>. QED
    BY <1>3, <1>4, <1>6 DEF InOrder, values

\* The percentiles of the metric of a sequence of entries.
PercentilesOf(m) ==
  InOrder(Generate(m)) /\ HalfEachSide(FlattenSeq(m.buckets), Generate(m).overall_p50)

\* They divide the entries that events counted from 0 give.
LEMMA EntriesDivide ==
  ASSUME NEW c, NEW start \in Int, NEW end \in Int, run[c].span = <<start, end>>,
         NEW n \in Nat, NEW g, \A i \in 0..(n - 1) : g[i] \in Seq(Pairs),
         NEW entries, entries = FlattenSeq([i \in 1..n |-> g[i - 1]]),
         AllInRange(c, entries), CanGenerate(Metric(c, entries))
  PROVE  PercentilesOf(Metric(c, entries))
  <1>. DEFINE V == Pairs
              seqs == [i \in 1..n |-> g[i - 1]]
  <1>1. seqs \in [1..n -> Seq(V)]
    <2>1. \A i \in 1..n : i - 1 \in 0..(n - 1)
      OBVIOUS
    <2>. HIDE DEF V
    <2>2. \A i \in 1..n : seqs[i] \in Seq(V)
      BY <2>1 DEF V
    <2>. QED
      BY <2>2
  <1>. HIDE DEF seqs
  <1>2. entries \in Seq(Pairs)
    <2>. HIDE DEF V
    <2>1. FlattenSeq(seqs) \in Seq(V)
      BY <1>1, Flattened
    <2>. QED
      BY <2>1 DEF seqs, V
  <1>3. PICK p : Collects(p, entries, start, end) /\ Metric(c, entries) = p[Len(entries)]
    BY <1>2, MetricCollects
  <1>4. Metric(c, entries) \in Metrics(start, end)
    <2>1. Len(entries) \in 0..Len(entries)
      BY <1>2
    <2>. QED
      BY <1>3, <2>1 DEF Collects
  <1>. QED
    BY <1>4, GenerateDivides DEF PercentilesOf

\* The percentiles of the summary of a run whose events have their rows.
LEMMA AggregationDivides ==
  ASSUME run \in Inputs, NEW c \in Configs, run[c].span # None,
         NEW places, EventsFit(run[c], places, events[c]), Summarisable(c)
  PROVE  Divides(Aggregation(c), FlattenSeq(Metric(c, Entries(c, Latencies)).buckets))
  <1>. DEFINE evs == events[c]
  <1>1. PICK n \in Nat : evs \in [0..(n - 1) -> Halves \X Halves]
    BY DEF EventsFit
  <1>2. DOMAIN evs = 0..(n - 1) /\ Cardinality(DOMAIN evs) = n
    <2>1. DOMAIN evs = 0..(n - 1)
      BY <1>1
    <2>. QED
      BY <2>1, CountFromZero, Zenon
  <1>3. PICK start \in Int, end \in Int : run[c].span = <<start, end>>
    <2>1. run[c].span \in Nat \X Nat
      BY RowsOfRuns
    <2>. QED
      BY <2>1
  <1>. HIDE DEF evs
  <1>4. ASSUME NEW i \in 0..(n - 1), NEW s \in {1, 2}, evs[i][s] # None
        PROVE  evs[i][s].start \in Int /\ evs[i][s].end \in Int
    <2>1. evs[i] \in Halves \X Halves
      BY <1>1
    <2>2. evs[i][s] \in RowType
      BY <1>4, <2>1 DEF Halves
    <2>. QED
      BY <2>2 DEF RowType
  <1>5. evs = events[c]
    BY DEF evs
  <1>6. /\ AllInRange(c, Entries(c, Sends)) /\ CanGenerate(Metric(c, Entries(c, Sends)))
        /\ AllInRange(c, Entries(c, Recvs)) /\ CanGenerate(Metric(c, Entries(c, Recvs)))
        /\ AllInRange(c, Entries(c, Latencies)) /\ CanGenerate(Metric(c, Entries(c, Latencies)))
    BY DEF Summarisable
  <1>7. \A a, b \in Int : << <<a, b>> >> \in Seq(Pairs) /\ <<>> \in Seq(Pairs)
    BY DEF Pairs
  <1>8. PercentilesOf(Metric(c, Entries(c, Sends)))
    <2>. DEFINE g == [i \in 0..(n - 1) |-> Sends(evs[i])]
                entries == Entries(c, Sends)
    <2>1. ASSUME NEW i \in 0..(n - 1) PROVE g[i] \in Seq(Pairs)
      BY <1>4, <1>7 DEF Sends
    <2>2. entries = FlattenSeq([i \in 1..n |-> g[i - 1]])
      <3>1. [i \in 1..n |-> Sends(evs[i - 1])] = [i \in 1..n |-> g[i - 1]]
        OBVIOUS
      <3>. HIDE DEF g
      <3>. QED
        BY <1>2, <1>5, <3>1 DEF Entries
    <2>3. AllInRange(c, entries) /\ CanGenerate(Metric(c, entries))
      BY <1>6
    <2>. HIDE DEF g, entries
    <2>4. PercentilesOf(Metric(c, entries))
      BY <1>3, <2>1, <2>2, <2>3, EntriesDivide
    <2>. QED
      BY <2>4 DEF entries
  <1>9. PercentilesOf(Metric(c, Entries(c, Recvs)))
    <2>. DEFINE g == [i \in 0..(n - 1) |-> Recvs(evs[i])]
                entries == Entries(c, Recvs)
    <2>1. ASSUME NEW i \in 0..(n - 1) PROVE g[i] \in Seq(Pairs)
      BY <1>4, <1>7 DEF Recvs
    <2>2. entries = FlattenSeq([i \in 1..n |-> g[i - 1]])
      <3>1. [i \in 1..n |-> Recvs(evs[i - 1])] = [i \in 1..n |-> g[i - 1]]
        OBVIOUS
      <3>. HIDE DEF g
      <3>. QED
        BY <1>2, <1>5, <3>1 DEF Entries
    <2>3. AllInRange(c, entries) /\ CanGenerate(Metric(c, entries))
      BY <1>6
    <2>. HIDE DEF g, entries
    <2>4. PercentilesOf(Metric(c, entries))
      BY <1>3, <2>1, <2>2, <2>3, EntriesDivide
    <2>. QED
      BY <2>4 DEF entries
  <1>10. PercentilesOf(Metric(c, Entries(c, Latencies)))
    <2>. DEFINE g == [i \in 0..(n - 1) |-> Latencies(evs[i])]
                entries == Entries(c, Latencies)
    <2>1. ASSUME NEW i \in 0..(n - 1) PROVE g[i] \in Seq(Pairs)
      BY <1>4, <1>7 DEF Latencies
    <2>2. entries = FlattenSeq([i \in 1..n |-> g[i - 1]])
      <3>1. [i \in 1..n |-> Latencies(evs[i - 1])] = [i \in 1..n |-> g[i - 1]]
        OBVIOUS
      <3>. HIDE DEF g
      <3>. QED
        BY <1>2, <1>5, <3>1 DEF Entries
    <2>3. AllInRange(c, entries) /\ CanGenerate(Metric(c, entries))
      BY <1>6
    <2>. HIDE DEF g, entries
    <2>4. PercentilesOf(Metric(c, entries))
      BY <1>3, <2>1, <2>2, <2>3, EntriesDivide
    <2>. QED
      BY <2>4 DEF entries
  <1>11. /\ Aggregation(c).send = Generate(Metric(c, Entries(c, Sends)))
         /\ Aggregation(c).recv = Generate(Metric(c, Entries(c, Recvs)))
         /\ Aggregation(c).latency = Generate(Metric(c, Entries(c, Latencies)))
    BY DEF Aggregation
  <1>. QED
    BY <1>8, <1>9, <1>10, <1>11 DEF PercentilesOf, Divides

-----------------------------------------------------------------------------
(* What each job has collected.                                            *)

\* Every row has left its length in the window of its end.
RowsInWindows(r, places, m) ==
  \A p \in places : /\ InRange(m, At(r, p).end)
                    /\ At(r, p).len \in Range(m.buckets[BucketOf(m, At(r, p).end) + 1])

\* What a summary says of the rows: the backpressure of their windows, and the account
\* of all of them.
Reports(r, m, s) == s.backpressure = Reported(m) /\ Accounts(r, s)

\* Every row that was read has its window and is no half twice, and a summary reports
\* them all.
Collected(c) ==
  /\ pc[c] = "start" => unread[c] = DOMAIN run[c].files
  /\ pc[c] \notin {"start", "failed"} =>
       RowsInWindows(run[c], Seen(c), bp[c]) /\ Distinct(run[c], Seen(c))
  /\ Summarised(c) => Reports(run[c], bp[c], summary[c])

CollectedInv == DOMAIN summary = Configs /\ \A c \in Configs : Collected(c)

\* A row that is read adds its length to the window of its end.
LEMMA RowHasWindow ==
  ASSUME run \in Inputs, NEW c \in Configs, run[c].span # None,
         bp[c] \in Metrics(run[c].span[1], run[c].span[2]),
         Reading(c), MoreRows(c), InRange(bp[c], Row(c).end),
         RowsInWindows(run[c], Seen(c), bp[c])
  PROVE  RowsInWindows(run[c], Seen(c) \cup {<<file[c], next[c]>>},
                       Add(bp[c], Row(c).len, Row(c).end))
  <1>. DEFINE r == run[c]
              m == bp[c]
              q == <<file[c], next[c]>>
              new == Add(m, Row(c).len, Row(c).end)
              start == r.span[1]
              end == r.span[2]
  <1>1. start \in Int /\ end \in Int
    <2>1. r.span \in Nat \X Nat
      BY RowsOfRuns
    <2>. QED
      BY <2>1
  <1>2. /\ q \in AllPlaces(r) /\ Row(c) = At(r, q)
        /\ Row(c).len \in Int /\ Row(c).end \in Int
    BY RowIsNext DEF RowType
  <1>3. /\ Row(c).len \in Range(new.buckets[BucketOf(m, Row(c).end) + 1])
        /\ \A w \in 1..NBuckets(start, end) : Range(m.buckets[w]) \subseteq Range(new.buckets[w])
        /\ \A u : BucketOf(new, u) = BucketOf(m, u)
    <2>1. AddsTo(Add(m, Row(c).len, Row(c).end), m, Row(c).len, Row(c).end, NBuckets(start, end))
      BY <1>1, <1>2, AddToWindow
    <2>. QED
      BY <2>1 DEF AddsTo
  <1>4. Len(new.buckets) = Len(m.buckets)
    <2>1. new \in Metrics(start, end)
      BY <1>1, <1>2, AddIs
    <2>2. \A x \in Metrics(start, end) : Len(x.buckets) = NBuckets(start, end)
      <3>. DEFINE n == NBuckets(start, end)
      <3>1. \A x \in Metrics(start, end) : x.buckets \in [1..n -> Seq(Int)]
        BY DEF Metrics
      <3>2. n \in Nat
        BY <1>1, NBucketsAtLeastOne
      <3>. HIDE DEF n
      <3>3. \A x \in Metrics(start, end) : Len(x.buckets) = n
        BY <3>1, <3>2
      <3>. QED
        BY <3>3 DEF n
    <2>. QED
      BY <2>1, <2>2
  <1>. HIDE DEF new
  <1>5. \A u : InRange(new, u) <=> InRange(m, u)
    BY <1>3, <1>4 DEF InRange
  <1>6. ASSUME NEW p \in Seen(c)
        PROVE  /\ InRange(new, At(r, p).end)
               /\ At(r, p).len \in Range(new.buckets[BucketOf(new, At(r, p).end) + 1])
    <2>1. /\ InRange(m, At(r, p).end)
          /\ At(r, p).len \in Range(m.buckets[BucketOf(m, At(r, p).end) + 1])
      BY DEF RowsInWindows
    <2>2. At(r, p).end \in Int
      BY RowAtPlace DEF Seen
    <2>3. BucketOf(m, At(r, p).end) + 1 \in 1..NBuckets(start, end)
      BY <1>1, <2>1, <2>2, BucketOfTime
    <2>. QED
      BY <1>3, <1>5, <2>1, <2>3
  <1>7. /\ InRange(new, At(r, q).end)
        /\ At(r, q).len \in Range(new.buckets[BucketOf(new, At(r, q).end) + 1])
    BY <1>2, <1>3, <1>5
  <1>. HIDE DEF q
  <1>8. RowsInWindows(r, Seen(c) \cup {q}, new)
    BY <1>6, <1>7 DEF RowsInWindows
  <1>. QED
    BY <1>8 DEF q, new

\* A row that is read is not the half of an event that another was.
LEMMA RowIsNew ==
  ASSUME run \in Inputs, NEW c \in Configs, Reading(c), MoreRows(c), NewHalf(c),
         EventsFit(run[c], Seen(c), events[c]), Distinct(run[c], Seen(c))
  PROVE  Distinct(run[c], Seen(c) \cup {<<file[c], next[c]>>})
  <1>. DEFINE r == run[c]
              q == <<file[c], next[c]>>
  <1>1. q \in AllPlaces(r) /\ Row(c) = At(r, q) /\ Half(c) = SideAt(r, q) /\ Row(c) \in RowType
    BY RowIsNext
  <1>. HIDE DEF q
  <1>2. ASSUME NEW p \in Seen(c), SideAt(r, p) = SideAt(r, q), At(r, p).id = At(r, q).id
        PROVE  FALSE
    <2>1. Row(c).id \in DOMAIN events[c] /\ events[c][Row(c).id][Half(c)] = At(r, p)
      BY <1>1, <1>2 DEF EventsFit
    <2>2. At(r, p) # None
      BY RowAtPlace DEF Seen
    <2>3. Grown(c)[Row(c).id] = events[c][Row(c).id]
      <3>1. PICK n \in Nat : events[c] \in [0..(n - 1) -> Halves \X Halves]
        BY DEF EventsFit
      <3>. QED
        BY <1>1, <2>1, <3>1, Grows
    <2>. QED
      BY <2>1, <2>2, <2>3 DEF NewHalf
  <1>3. Distinct(r, Seen(c) \cup {q})
    BY <1>2 DEF Distinct
  <1>. QED
    BY <1>3 DEF q

\* The job of c is the only one whose windows and summary move.
OnlyOwn(c) ==
  /\ run' = run /\ DOMAIN summary' = Configs
  /\ \A d \in Configs \ {c} :
       /\ pc'[d] = pc[d] /\ unread'[d] = unread[d] /\ file'[d] = file[d]
       /\ next'[d] = next[d] /\ bp'[d] = bp[d] /\ summary'[d] = summary[d]

\* What a job does to its windows is its own.
LEMMA JobIsAlone ==
  ASSUME Inv, DOMAIN summary = Configs, NEW c \in Configs, Job(c)
  PROVE  OnlyOwn(c)
  <1>1. CASE OpenFile(c)
    BY <1>1 DEF OpenFile, OnlyOwn, Inv, Goto
  <1>2. CASE Open(c)
    BY <1>2 DEF Open, OnlyOwn, Inv, Goto
  <1>3. CASE ReadRow(c)
    BY <1>3 DEF ReadRow, OnlyOwn, Inv
  <1>4. CASE Aggregate(c)
    BY <1>4 DEF Aggregate, OnlyOwn, Inv, Goto
  <1>5. CASE FailOpen(c) \/ FailRow(c) \/ FailAggregate(c)
    BY <1>5 DEF FailOpen, FailRow, FailAggregate, OnlyOwn, Inv, Goto, jobVars
  <1>6. CASE CloseFile(c) \/ Save(c) \/ PushResult(c)
    BY <1>6 DEF CloseFile, Save, PushResult, OnlyOwn, Inv, Goto, jobVars
  <1>. QED
    BY <1>1, <1>2, <1>3, <1>4, <1>5, <1>6 DEF Job

\* A job whose windows and rows stay keeps them right.
LEMMA SameCollected ==
  ASSUME NEW c, Collected(c), run' = run, Seen(c)' = Seen(c), bp'[c] = bp[c],
         pc[c] \notin {"start", "failed"}, pc'[c] # "start",
         Summarised(c)' => Reports(run[c], bp[c], summary[c]')
  PROVE  Collected(c)'
  <1>1. RowsInWindows(run[c], Seen(c), bp[c]) /\ Distinct(run[c], Seen(c))
    BY DEF Collected
  <1>2. RowsInWindows(run[c], Seen(c), bp[c])' /\ Distinct(run[c], Seen(c))'
    BY <1>1 DEF RowsInWindows, Distinct
  <1>3. Summarised(c)' => Reports(run[c], bp[c], summary[c])'
    BY DEF Reports, Accounts
  <1>. QED
    BY <1>2, <1>3 DEF Collected

\* A step of a job keeps its own windows right.
LEMMA OwnCollected ==
  ASSUME Inv, DOMAIN summary = Configs, NEW c \in Configs, Collected(c), Job(c)
  PROVE  Collected(c)'
  <1>1. JobFits(c) /\ run \in Inputs /\ run' = run
    BY JobIsAlone DEF Inv, OnlyOwn
  <1>2. CASE pc'[c] = "failed"
    BY <1>2 DEF Collected, Summarised
  <1>3. CASE Open(c)
    <2>1. /\ pc[c] = "start" /\ pc'[c] = "files" /\ unread'[c] = unread[c]
          /\ unread[c] = DOMAIN run[c].files
      BY <1>3 DEF Open, Goto, Inv, Collected
    <2>2. Seen(c)' = {}
      <3>1. \A p \in AllPlaces(run[c]) : p[1] \in unread[c]
        BY <2>1, PlacesAre DEF AllPlaces
      <3>. QED
        BY <1>1, <2>1, <3>1 DEF Seen
    <2>. QED
      BY <2>1, <2>2 DEF Collected, RowsInWindows, Distinct, Summarised
  <1>4. CASE OpenFile(c)
    <2>1. pc[c] = "files" /\ pc'[c] \in {"files", "rows"} /\ bp'[c] = bp[c]
      BY <1>4 DEF OpenFile, Goto, Inv
    <2>2. Seen(c)' = Seen(c)
      BY <1>4, SeenOpening
    <2>. QED
      BY <1>1, <2>1, <2>2, SameCollected DEF Summarised
  <1>5. CASE CloseFile(c)
    <2>1. pc[c] = "rows" /\ pc'[c] = "files" /\ bp'[c] = bp[c]
      BY <1>5 DEF CloseFile, Goto, Inv, jobVars
    <2>2. Seen(c)' = Seen(c)
      BY <1>5, SeenClosing
    <2>. QED
      BY <1>1, <2>1, <2>2, SameCollected DEF Summarised
  <1>6. CASE ReadRow(c)
    <2>1. /\ pc[c] = "rows" /\ pc'[c] = "rows"
          /\ MoreRows(c) /\ InRange(bp[c], Row(c).end) /\ Reading(c)
          /\ bp'[c] = Add(bp[c], Row(c).len, Row(c).end)
          /\ run[c].span # None /\ bp[c] \in Metrics(run[c].span[1], run[c].span[2])
          /\ RowsInWindows(run[c], Seen(c), bp[c]) /\ Distinct(run[c], Seen(c)) /\ NewHalf(c)
          /\ EventsFit(run[c], Seen(c), events[c])
      BY <1>1, <1>6 DEF ReadRow, Inv, JobFits, Collected
    <2>2. RowsInWindows(run[c], Seen(c) \cup {<<file[c], next[c]>>},
                        Add(bp[c], Row(c).len, Row(c).end))
      BY <1>1, <2>1, RowHasWindow
    <2>3. Distinct(run[c], Seen(c) \cup {<<file[c], next[c]>>})
      BY <1>1, <2>1, RowIsNew
    <2>4. Seen(c)' = Seen(c) \cup {<<file[c], next[c]>>}
      BY <1>6, SeenReading
    <2>5. RowsInWindows(run[c], Seen(c), bp[c])'
      BY <1>1, <2>1, <2>2, <2>4 DEF RowsInWindows
    <2>6. Distinct(run[c], Seen(c))'
      BY <1>1, <2>3, <2>4 DEF Distinct
    <2>. QED
      BY <2>1, <2>5, <2>6 DEF Collected, Summarised
  <1>7. ASSUME bp'[c] = bp[c], unread'[c] = unread[c], pc[c] \notin {"start", "failed", "rows"},
               pc'[c] \notin {"start", "rows"}, Reports(run[c], bp[c], summary'[c])
        PROVE  Collected(c)'
    <2>1. Seen(c)' = Seen(c)
      BY <1>1, <1>7 DEF Seen
    <2>. QED
      BY <1>1, <1>7, <2>1, SameCollected
  <1>8. CASE Aggregate(c)
    <2>1. /\ pc[c] = "files" /\ pc'[c] = "save" /\ bp'[c] = bp[c] /\ unread'[c] = unread[c]
          /\ summary'[c] = Aggregation(c)
      BY <1>8 DEF Aggregate, Goto, Inv
    <2>2. /\ unread[c] = {} /\ Summarisable(c) /\ run[c].span # None
          /\ EventsFit(run[c], Seen(c), events[c]) /\ Distinct(run[c], Seen(c))
      BY <1>1, <1>8, <2>1 DEF Aggregate, JobFits, Collected
    <2>3. Seen(c) = AllPlaces(run[c])
      BY <2>1, <2>2 DEF Seen
    <2>4. Accounts(run[c], Aggregation(c))
      BY <1>1, <2>2, <2>3, AggregationAccounts
    <2>5. Aggregation(c).backpressure = Reported(bp[c])
      BY DEF Aggregation, Reported
    <2>. QED
      BY <1>7, <2>1, <2>4, <2>5 DEF Reports
  <1>9. CASE Save(c) \/ PushResult(c)
    <2>1. /\ pc[c] \in {"save", "push"} /\ pc'[c] \in {"push", "done"} /\ bp'[c] = bp[c]
          /\ unread'[c] = unread[c] /\ summary'[c] = summary[c]
      BY <1>9 DEF Save, PushResult, Goto, Inv, jobVars
    <2>2. Reports(run[c], bp[c], summary[c])
      BY <2>1 DEF Collected, Summarised
    <2>. QED
      BY <1>7, <2>1, <2>2
  <1>10. CASE FailOpen(c) \/ FailRow(c) \/ FailAggregate(c)
    BY <1>2, <1>10 DEF FailOpen, FailRow, FailAggregate, Goto, Inv
  <1>. QED
    BY <1>3, <1>4, <1>5, <1>6, <1>8, <1>9, <1>10 DEF Job

\* No step leaves a row without its window, or a summary without what was collected.
LEMMA CollectedStep ==
  ASSUME Inv, CollectedInv, [Next]_vars
  PROVE  CollectedInv'
  <1>1. ASSUME NEW c \in Configs, run' = run, pc'[c] = pc[c], unread'[c] = unread[c],
               file'[c] = file[c], next'[c] = next[c], bp'[c] = bp[c], summary'[c] = summary[c]
        PROVE  Collected(c)'
    <2>1. Seen(c)' = Seen(c) /\ (Summarised(c)' <=> Summarised(c)) /\ Collected(c)
      BY <1>1 DEF Seen, Summarised, CollectedInv
    <2>. QED
      BY <1>1, <2>1 DEF Collected, RowsInWindows, Distinct, Reports, Accounts
  <1>2. ASSUME NEW c \in Configs, Job(c) PROVE CollectedInv'
    <2>1. OnlyOwn(c) /\ Configs' = Configs
      BY <1>2, JobIsAlone DEF CollectedInv, OnlyOwn, Configs
    <2>2. ASSUME NEW d \in Configs PROVE Collected(d)'
      <3>1. CASE d = c
        BY <1>2, <3>1, OwnCollected DEF CollectedInv
      <3>2. CASE d # c
        BY <1>1, <2>1, <3>2 DEF OnlyOwn
      <3>. QED
        BY <3>1, <3>2
    <2>. QED
      BY <2>1, <2>2 DEF CollectedInv, OnlyOwn
  <1>3. CASE Main \/ SummaryJob \/ UNCHANGED vars
    <2>1. /\ run' = run /\ pc' = pc /\ unread' = unread /\ file' = file /\ next' = next
          /\ bp' = bp /\ summary' = summary
      BY <1>3 DEF Main, SummaryJob, EndScope, SpawnSummary, Return, CreateSummary,
                  WriteSummary, vars, jobVars
    <2>2. \A c \in Configs : Collected(c)'
      BY <1>1, <2>1
    <2>. QED
      BY <2>1, <2>2 DEF CollectedInv, Configs
  <1>. QED
    BY <1>2, <1>3 DEF Next

-----------------------------------------------------------------------------
(* What a summary says of its percentiles.                                 *)

\* The latencies of a run, in the order of their windows.
Sampled(c) == FlattenSeq(Metric(c, Entries(c, Latencies)).buckets)

\* They are a matter of the span and the events.
LatenciesOf(span, evs) ==
  FlattenSeq(FoldLeft(LAMBDA m, e : Add(m, e[1], e[2]), New(span[1], span[2]),
    FlattenSeq([i \in 1..Cardinality(DOMAIN evs) |-> Latencies(evs[i - 1])])).buckets)

LEMMA SampledAre ==
  ASSUME NEW c
  PROVE  /\ Sampled(c) = LatenciesOf(run[c].span, events[c])
         /\ Sampled(c)' = LatenciesOf(run'[c].span, events'[c])
  <1>1. Sampled(c) = LatenciesOf(run[c].span, events[c])
    BY DEF Sampled, LatenciesOf, Metric, Entries
  <1>2. (Sampled(c) = LatenciesOf(run[c].span, events[c]))'
    BY <1>1, PTL
  <1>. QED
    BY <1>1, <1>2

\* A summary stays what it was when its run and its events do.
LEMMA SameDivides ==
  ASSUME NEW c, run' = run, events'[c] = events[c], summary'[c] = summary[c],
         Divides(summary[c], Sampled(c))
  PROVE  Divides(summary[c], Sampled(c))'
  <1>1. Sampled(c)' = Sampled(c)
    BY SampledAre
  <1>. QED
    BY <1>1 DEF Divides, InOrder, HalfEachSide

\* A summary that there is divides what was sampled.
Divided(c) == Summarised(c) => Divides(summary[c], Sampled(c))
DividedInv == DOMAIN summary = Configs /\ \A c \in Configs : Divided(c)

\* No step leaves a summary whose percentiles do not divide what was sampled.
LEMMA DividedStep ==
  ASSUME Inv, DividedInv, [Next]_vars
  PROVE  DividedInv'
  <1>1. ASSUME NEW c \in Configs, run' = run, pc'[c] = pc[c], events'[c] = events[c],
               summary'[c] = summary[c]
        PROVE  Divided(c)'
    <2>1. Summarised(c)' <=> Summarised(c)
      BY <1>1 DEF Summarised
    <2>. QED
      BY <1>1, <2>1, SameDivides DEF DividedInv, Divided
  <1>2. ASSUME NEW c \in Configs, Job(c) PROVE DividedInv'
    <2>1. OnlyOwn(c) /\ Configs' = Configs /\ JobFits(c) /\ run \in Inputs
      BY <1>2, JobIsAlone DEF DividedInv, OnlyOwn, Configs, Inv
    <2>2. \A d \in Configs \ {c} : events'[d] = events[d]
      <3>1. CASE ReadRow(c)
        BY <3>1 DEF ReadRow, Inv
      <3>2. CASE ~ReadRow(c)
        BY <1>2, <3>2 DEF Job, Open, FailOpen, OpenFile, FailRow, CloseFile, Aggregate,
                          FailAggregate, Save, PushResult, jobVars
      <3>. QED
        BY <3>1, <3>2
    <2>3. Divided(c)'
      <3>1. CASE Aggregate(c)
        <4>1. /\ pc[c] = "files" /\ Summarisable(c) /\ summary'[c] = Aggregation(c)
              /\ run[c].span # None /\ EventsFit(run[c], Seen(c), events[c])
              /\ events' = events /\ run' = run
          BY <2>1, <3>1 DEF Aggregate, JobFits, DividedInv
        <4>2. Divides(Aggregation(c), Sampled(c))
          BY <2>1, <4>1, AggregationDivides DEF Sampled
        <4>3. Sampled(c)' = Sampled(c)
          BY <4>1, SampledAre
        <4>. HIDE DEF Sampled
        <4>4. Divides(summary[c], Sampled(c))'
          BY <4>1, <4>2, <4>3 DEF Divides, InOrder, HalfEachSide
        <4>. QED
          BY <4>4 DEF Divided
      <3>2. CASE Save(c) \/ PushResult(c)
        <4>1. /\ pc[c] \in {"save", "push"} /\ run' = run /\ events' = events /\ summary' = summary
          BY <3>2 DEF Save, PushResult, jobVars
        <4>2. Divides(summary[c], Sampled(c))
          BY <4>1 DEF DividedInv, Divided, Summarised
        <4>3. Divides(summary[c], Sampled(c))'
          BY <4>1, <4>2, SameDivides
        <4>. QED
          BY <4>3 DEF Divided
      <3>3. CASE Open(c) \/ OpenFile(c) \/ ReadRow(c) \/ CloseFile(c)
        <4>1. pc'[c] \in {"files", "rows"}
          BY <3>3 DEF Open, OpenFile, ReadRow, CloseFile, Goto, Inv
        <4>. QED
          BY <4>1 DEF Divided, Summarised
      <3>4. CASE FailOpen(c) \/ FailRow(c) \/ FailAggregate(c)
        <4>1. pc'[c] = "failed"
          BY <3>4 DEF FailOpen, FailRow, FailAggregate, Goto, Inv
        <4>. QED
          BY <4>1 DEF Divided, Summarised
      <3>. QED
        BY <1>2, <3>1, <3>2, <3>3, <3>4 DEF Job
    <2>4. ASSUME NEW d \in Configs \ {c} PROVE Divided(d)'
      BY <1>1, <2>1, <2>2 DEF OnlyOwn
    <2>. QED
      BY <2>1, <2>3, <2>4 DEF DividedInv, OnlyOwn
  <1>3. CASE Main \/ SummaryJob \/ UNCHANGED vars
    <2>1. run' = run /\ pc' = pc /\ events' = events /\ summary' = summary
      BY <1>3 DEF Main, SummaryJob, EndScope, SpawnSummary, Return, CreateSummary,
                  WriteSummary, vars, jobVars
    <2>2. \A c \in Configs : Divided(c)'
      BY <1>1, <2>1
    <2>. QED
      BY <2>1, <2>2 DEF DividedInv, Configs
  <1>. QED
    BY <1>2, <1>3 DEF Next

-----------------------------------------------------------------------------
(* Theorems.                                                               *)

\* Of each job: the halves of its events are the rows it has read, its metric has
\* the windows of its run, and main leaves the scope only when it has ended.
THEOREM AggregatorInvariant == Spec => []Inv
  <1>1. Inv /\ [Next]_vars => Inv'
    BY JobStep, MainStep DEF Next
  <1>. QED
    BY <1>1, InitialInv, PTL DEF Spec

\* A run that the benchmark completed is never refused, in whatever order its files
\* are read and whatever the other jobs do.
THEOREM CleanRunsAreAggregated == Spec => []CleanRunsAggregate
  <1>1. Inv => CleanRunsAggregate
    BY DEF Inv
  <1>. QED
    BY <1>1, AggregatorInvariant, PTL

\* Every event that is summarised has the row of its sender and that of its receiver,
\* and the half of a side that logged none is empty.
THEOREM EveryEventMatches == Spec => []EventsMatch
  <1>1. Inv => EventsMatch
    <2>. SUFFICES ASSUME Inv, NEW c \in Configs, Summarised(c)
                  PROVE  /\ Ids(run[c], "tx") \cup Ids(run[c], "rx") \subseteq DOMAIN events[c]
                         /\ \A i \in DOMAIN events[c] :
                              /\ RowsOf(run[c], "tx", i) = {events[c][i][1]} \ {None}
                              /\ RowsOf(run[c], "rx", i) = {events[c][i][2]} \ {None}
      BY DEF EventsMatch
    <2>1. /\ run \in Inputs /\ unread[c] = {} /\ pc[c] # "rows"
          /\ EventsFit(run[c], Seen(c), events[c])
      BY DEF Inv, JobFits, Summarised
    <2>2. Seen(c) = AllPlaces(run[c])
      BY <2>1 DEF Seen
    <2>3. EventsFit(run[c], AllPlaces(run[c]), events[c])
      BY <2>1, <2>2
    <2>. QED
      BY <2>1, <2>3, EventsAreRows
  <1>. QED
    BY <1>1, AggregatorInvariant, PTL

\* When main has ended, in whichever way, every clean run is on disk: another run that
\* is refused takes no result with it but the summary.
THEOREM GoodRunsAreSaved == Spec => []GoodRunsSaved
  <1>1. Inv => GoodRunsSaved
    <2>. SUFFICES ASSUME Inv, ~Alive, NEW c \in Configs, Clean(run[c]) PROVE c \in saved
      BY DEF GoodRunsSaved
    <2>1. main # "scope"
      BY DEF Alive
    <2>2. pc[c] \in {"done", "failed"} /\ pc[c] # "failed"
      BY <2>1 DEF Inv, JobFits, CleanRunsAggregate
    <2>. QED
      BY <2>2 DEF Inv, JobFits
  <1>. QED
    BY <1>1, AggregatorInvariant, PTL

\* Every row is in the window it ended in, and every summary reports those windows.
THEOREM CollectedInvariant == Spec => []CollectedInv
  <1>1. Init => CollectedInv
    BY DEF Init, CollectedInv, Collected, Summarised
  <1>2. Inv /\ CollectedInv /\ [Next]_vars => CollectedInv'
    BY CollectedStep
  <1>. QED
    BY <1>1, <1>2, AggregatorInvariant, PTL DEF Spec

\* The counts and the latencies of a summary are those of the rows on disk, whatever
\* the order in which they were read and whatever windows they fell in.
THEOREM EverythingIsAccounted == Spec => []AllAccounted
  <1>1. CollectedInv => AllAccounted
    BY DEF CollectedInv, Collected, Reports, AllAccounted
  <1>. QED
    BY <1>1, CollectedInvariant, PTL

\* The percentiles of a summary are in their order, none is above the greatest value,
\* and half of all latencies lie on either side of the median.
THEOREM PercentilesAreOrdered == Spec => []PercentilesDivide
  <1>1. Init => DividedInv
    BY DEF Init, DividedInv, Divided, Summarised
  <1>2. Inv /\ DividedInv /\ [Next]_vars => DividedInv'
    BY DividedStep
  <1>3. DividedInv => PercentilesDivide
    BY DEF DividedInv, Divided, Sampled, PercentilesDivide
  <1>. QED
    BY <1>1, <1>2, <1>3, AggregatorInvariant, PTL DEF Spec

\* The backpressure reported for a window is not above the length that any row which
\* ended in it has logged, and every row ended in some window that is reported.
THEOREM BackpressureIsByWindow == Spec => []BackpressureByWindow
  <1>1. Inv /\ CollectedInv => BackpressureByWindow
    <2>. SUFFICES ASSUME Inv, CollectedInv, NEW c \in Configs, Summarised(c),
                         NEW kind \in {"tx", "rx"}, NEW p \in Places(run[c], kind)
                  PROVE  \E k \in DOMAIN summary[c].backpressure.t :
                           /\ summary[c].backpressure.t[k]
                                <= Max({At(run[c], p).end, run[c].span[1]})
                           /\ \/ At(run[c], p).end < summary[c].backpressure.t[k] + Period
                              \/ At(run[c], p).end = run[c].span[2]
                           /\ summary[c].backpressure.values[k] <= At(run[c], p).len
      BY DEF BackpressureByWindow
    <2>1. /\ run \in Inputs /\ run[c].span \in Nat \X Nat /\ unread[c] = {} /\ pc[c] # "rows"
          /\ bp[c] \in Metrics(run[c].span[1], run[c].span[2])
      BY RowsOfRuns DEF Inv, JobFits, Summarised
    <2>2. p \in Seen(c)
      BY <2>1 DEF Seen, AllPlaces
    <2>3. /\ RowsInWindows(run[c], Seen(c), bp[c])
          /\ summary[c].backpressure = Reported(bp[c])
      BY DEF CollectedInv, Collected, Summarised, Reports
    <2>4. /\ InRange(bp[c], At(run[c], p).end)
          /\ At(run[c], p).len \in Range(bp[c].buckets[BucketOf(bp[c], At(run[c], p).end) + 1])
      BY <2>2, <2>3 DEF RowsInWindows
    <2>5. run[c].span[1] \in Int /\ run[c].span[2] \in Int /\ At(run[c], p).end \in Int
      BY <2>1, <2>2, RowAtPlace DEF Seen
    <2>. DEFINE m == bp[c]
                t == At(run[c], p).end
                v == At(run[c], p).len
                start == run[c].span[1]
                end == run[c].span[2]
    <2>6. \E k \in DOMAIN Reported(m).t :
            /\ Reported(m).t[k] <= Max({t, start})
            /\ t < Reported(m).t[k] + Period \/ t = end
            /\ Reported(m).values[k] <= v
      <3>1. /\ start \in Int /\ end \in Int /\ m \in Metrics(start, end) /\ t \in Int
            /\ InRange(m, t) /\ v \in Range(m.buckets[BucketOf(m, t) + 1])
        BY <2>1, <2>4, <2>5
      <3>. HIDE DEF m, t, v, start, end
      <3>. QED
        BY <3>1, ReportedOfWindow
    <2>. QED
      BY <2>3, <2>6
  <1>. QED
    BY <1>1, AggregatorInvariant, CollectedInvariant, PTL

=============================================================================
