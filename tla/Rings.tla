------------------------------- MODULE Rings --------------------------------
(***************************************************************************)
(* The two rings vllmtop keeps per series: snapshots of a histogram, from  *)
(* whose differences the percentiles of a recent window are estimated      *)
(* (metrics/histogram.rs), and the points of a chart (state/history.rs).   *)
(*                                                                         *)
(* A snapshot's buckets are a function from upper bounds to cumulative     *)
(* counts, which is what sorting and deduplicating the pairs makes of      *)
(* them; the bound of the last bucket is Inf.                              *)
(***************************************************************************)
EXTENDS Integers, SequencesExt, FiniteSetsExt

CONSTANTS
  Window,       \* percentile_window
  Margin,       \* RETENTION_MARGIN: 15 s
  MaxPoints,    \* MAX_POINTS: 1024
  MaxBuckets,   \* MAX_BUCKETS: 512
  HistoryWindow,\* history_window
  MaxHistory    \* MAX_POINTS_PER_SERIES: 4096

ASSUME RingsAssumption ==
  /\ {Window, Margin, HistoryWindow} \subseteq Nat
  /\ {MaxPoints, MaxBuckets, MaxHistory} \subseteq Nat \ {0}

Inf == 1000                      \* the bound +Inf
NoPoint == [at |-> 0]            \* Option::None
NoEstimate == [elapsed |-> 0]
NoFraction == <<>>

\* Drop the oldest until few enough are left, or as few as the test asks for.
Newest(ring) == ring[Len(ring)]
DropTo(ring, n) == SubSeq(ring, Len(ring) - n + 1, Len(ring))

-----------------------------------------------------------------------------
(* HistogramPoint and HistogramWindow.                                     *)

\* new: of two pairs with one bound the first stands; counts must rise.
\* Negative numbers stand for NaN.
ToBuckets(pairs) ==
  [le \in {p[1] : p \in ToSet(pairs)} |->
     pairs[Min({i \in DOMAIN pairs : pairs[i][1] = le})][2]]

Sane(buckets) ==
  \A a, b \in DOMAIN buckets : 0 <= buckets[a] /\ (a <= b => buckets[a] <= buckets[b])

to_point(raw, at) ==
  LET buckets == ToBuckets(raw.buckets) IN
  IF Len(raw.buckets) \in 1 .. MaxBuckets /\ Sane(buckets)
  THEN [at |-> at, buckets |-> buckets, sum |-> raw.sum, count |-> raw.count]
  ELSE NoPoint

\* evict: the oldest goes while the next one still covers the window, or it is
\* itself too old to be of use; two are kept.
Superfluous(ring, k) ==
  /\ Len(ring) - k > 2
  /\ \/ Newest(ring).at - ring[k + 2].at >= Window
     \/ Newest(ring).at - ring[k + 1].at > Window + Margin

Evicted_Fault(ring) ==                        \* too old only
  LET few == Min({k \in 0 .. Len(ring) :
                    Len(ring) - k <= 2 \/ Newest(ring).at - ring[k + 1].at <= Window + Margin})
  IN DropTo(ring, Min({Len(ring) - few, MaxPoints}))
Evicted(ring) ==
  LET few == Min({k \in 0 .. Len(ring) : ~ Superfluous(ring, k)}) IN
  DropTo(ring, Min({Len(ring) - few, MaxPoints}))

\* push: what came before a restart or a change of layout is not comparable.
Incomparable_Fault(last, p) ==                \* a fall of the count unnoticed
  DOMAIN p.buckets # DOMAIN last.buckets \/ p.at <= last.at
Incomparable(last, p) ==
  \/ DOMAIN p.buckets # DOMAIN last.buckets
  \/ p.count < last.count
  \/ p.at <= last.at

PushPoint(ring, p) ==
  Evicted(IF ring # <<>> /\ Incomparable(Newest(ring), p) THEN <<p>> ELSE Append(ring, p))

\* quantile_from_cumulative, for q percent: a fraction <<numerator,
\* denominator>>, interpolated in the first bucket that reaches the target.  That
\* one is never empty, as the target is positive, so that the code's return for
\* an empty bucket is not reached.
Finite(buckets) == DOMAIN buckets \ {Inf}
Below(buckets, le) == {b \in DOMAIN buckets : b < le}

Interpolate(buckets, le, q, total) ==
  LET below == Below(buckets, le)
      before == IF below = {} THEN 0 ELSE buckets[Max(below)]
      lower == IF below # {} THEN Max(below) ELSE IF le > 0 THEN 0 ELSE le
      inside == buckets[le] - before
  IN <<lower * 100 * inside + (le - lower) * (q * total - 100 * before), 100 * inside>>

Quantile(buckets, q) ==
  LET total == buckets[Max(DOMAIN buckets)]
      le == Min({b \in DOMAIN buckets : 100 * buckets[b] >= q * total})
  IN IF le = Inf THEN IF Finite(buckets) = {} THEN NoFraction ELSE <<Max(Finite(buckets)), 1>>
     ELSE Interpolate(buckets, le, q, total)

\* estimate: from the oldest snapshot kept to the newest.
Deltas(ring) == [le \in DOMAIN ring[1].buckets |-> Newest(ring).buckets[le] - ring[1].buckets[le]]

Estimate(ring) ==
  IF Len(ring) < 2 THEN NoEstimate
  ELSE LET d == Deltas(ring)
           total == d[Max(DOMAIN d)]
       IN IF \E le \in DOMAIN d : d[le] < 0 THEN NoEstimate
          ELSE [elapsed |-> Newest(ring).at - ring[1].at,
                observations |-> total,
                mean |-> IF total <= 0 \/ Newest(ring).count <= ring[1].count THEN NoFraction
                         ELSE <<Newest(ring).sum - ring[1].sum, Newest(ring).count - ring[1].count>>,
                quantile |-> IF total <= 0 THEN [q \in {} |-> 0]
                             ELSE [q \in {50, 95, 99} |-> Quantile(d, q)]]

-----------------------------------------------------------------------------
(* RingSeries: by age against the newest point, then by number.            *)

PushHistory(ring, at, value) ==
  IF ring # <<>> /\ at < Newest(ring).at THEN ring
  ELSE LET longer == Append(ring, [at |-> at, value |-> value])
           recent == Cardinality({i \in DOMAIN longer : at - longer[i].at <= HistoryWindow})
       IN DropTo(longer, Min({recent, MaxHistory}))
=============================================================================
