------------------------------ MODULE Registry ------------------------------
(***************************************************************************)
(* The metrics registry (pkg/metrics/metrics.go) as a value and the        *)
(* operators on it: fixed-bucket histograms with an interpolated           *)
(* percentile, the log of recent requests, and the window over that log.   *)
(*                                                                         *)
(* A sample is a fraction [num, den] of the clock's unit, so that the      *)
(* code's divisions stay exact.  The counters are Disagg's reg; a          *)
(* histogram's sum, min and max only feed accessors and are left out.      *)
(***************************************************************************)
EXTENDS Integers, Sequences, SequencesExt

CONSTANTS
  Shape,      \* NewRegistryOn: the bucket width and number of each histogram
  MaxRecent   \* RecordRequest: how many records are kept (10,000)

Metric == {"ttft", "tpot", "itl", "e2e"}

ASSUME ShapeAssumption  == Shape \in [Metric -> [width : Nat \ {0}, buckets : Nat \ {0}]]
ASSUME RecentAssumption == MaxRecent \in Nat \ {0}

Zero == [num |-> 0, den |-> 1]
Leq(x, y) == x.num * y.den <= y.num * x.den
Less(x, y) == ~Leq(y, x)

-----------------------------------------------------------------------------
(* Hist *)

NewHist(shape) ==
  [width |-> shape.width, buckets |-> [i \in 0 .. shape.buckets - 1 |-> 0]]

\* int(us / width); the last bucket takes all that lies beyond it.
BucketOf(h, x) ==
  Min({Max({x.num, 0}) \div (x.den * h.width), Cardinality(DOMAIN h.buckets) - 1})

Observe(h, x) == [h EXCEPT !.buckets[BucketOf(h, x)] = @ + 1]

\* How many samples fell into the buckets 0 .. i.
UpTo(h, i) == SumFunctionOnSet(h.buckets, 0 .. i)
Count(h) == UpTo(h, Cardinality(DOMAIN h.buckets) - 1)

\* The bucket in which the p-th percentile lands: target, in hundredths, is at
\* least one sample.
TargetWhole(h, p) == Max({100, 100 * ((p * Count(h)) \div 100)})   \* mutant: cut to whole samples
Target(h, p) == Max({100, p * Count(h)})
Landing(h, p) == Min({i \in DOMAIN h.buckets : 100 * UpTo(h, i) >= Target(h, p)})

\* percentileLocked: interpolated within the landing bucket.
Percentile(h, p) ==
  IF Count(h) = 0 THEN Zero
  ELSE LET i    == Landing(h, p)
           c    == h.buckets[i]
           need == Target(h, p) - 100 * UpTo(h, i - 1)
       IN  [num |-> h.width * (100 * c * i + Min({need, 100 * c})), den |-> 100 * c]

-----------------------------------------------------------------------------
(* Registry *)

NewRegistryOn == [hist |-> [m \in Metric |-> NewHist(Shape[m])], recent |-> <<>>]

\* The log, bounded.
TrimOldest(log) ==                      \* mutant: the first records are kept
  IF Len(log) > MaxRecent THEN SubSeq(log, 1, MaxRecent) ELSE log
Trim(log) ==
  IF Len(log) > MaxRecent THEN SubSeq(log, Len(log) - MaxRecent + 1, Len(log)) ELSE log

\* RecordRequest, at time now: tpot is observed only if there are tokens, itl always.
RecordRequest(r, ttft, tpot, e2e, tokens, now) ==
  LET h == r.hist IN
    [hist |-> [ttft |-> Observe(h["ttft"], ttft),
               tpot |-> IF tokens > 0 THEN Observe(h["tpot"], tpot) ELSE h["tpot"],
               itl  |-> Observe(h["itl"], tpot),
               e2e  |-> Observe(h["e2e"], e2e)],
     recent |-> Trim(Append(r.recent,
                       [at |-> now, ttft |-> ttft, tpot |-> tpot, tokens |-> tokens]))]

\* percentiles: the sorted sample at index int(p/100 * (n - 1)).
SampleAt(xs, p) ==
  IF xs = <<>> THEN Zero
  ELSE SortSeq(xs, Less)[(p * (Len(xs) - 1)) \div 100 + 1]

\* Window, of a registry started at time 0: the places in the log of the records of
\* the last w units, or of all there is.
InWindow(r, now, w) ==
  LET dur == Min({w, now}) IN {i \in DOMAIN r.recent : r.recent[i].at >= now - dur}

Window(r, now, w) ==
  LET places == InWindow(r, now, w)
      order  == SetToSeq(places)        \* any order: SampleAt sorts
      ttft   == [k \in DOMAIN order |-> r.recent[order[k]].ttft]
      tpot   == [k \in DOMAIN order |-> r.recent[order[k]].tpot]
  IN  [completed |-> Cardinality(places),
       tokens |-> SumFunctionOnSet([i \in places |-> r.recent[i].tokens], places),
       ttft50 |-> SampleAt(ttft, 50), ttft99 |-> SampleAt(ttft, 99),
       tpot50 |-> SampleAt(tpot, 50), tpot99 |-> SampleAt(tpot, 99)]

\* Snapshot: the percentiles of the whole run.
Snapshot(r, m) == [p50 |-> Percentile(r.hist[m], 50), p99 |-> Percentile(r.hist[m], 99)]
=============================================================================
