---------------------------- MODULE LatencyStats ----------------------------
(***************************************************************************)
(* The arithmetic of measurements: what one virtual user tallies, how a    *)
(* worker merges its users, and how the backend combines the shards of a   *)
(* run.  Pure operators; LoadRun uses them.                                *)
(*                                                                         *)
(* Latencies are whole milliseconds.  An average is kept as the exact      *)
(* fraction the code rounds to a float64: numerator and denominator.       *)
(***************************************************************************)
EXTENDS Integers, Sequences, FiniteSets, FiniteSetsExt

\* latencyBoundariesMs is written twice in the source: the worker's runner counts
\* by its own list, the backend's store reads the counts by another.
RunnerBoundariesMs == <<1, 2, 5, 10, 25, 50, 100, 250, 500, 1000, 2500, 5000>>

\* Variant: the backend's copy misses the first bound.
StoreBoundariesShort == <<2, 5, 10, 25, 50, 100, 250, 500, 1000, 2500, 5000>>

StoreBoundariesMs == <<1, 2, 5, 10, 25, 50, 100, 250, 500, 1000, 2500, 5000>>

NumLatencyBuckets == Len(RunnerBoundariesMs) + 1
Buckets == 1 .. NumLatencyBuckets
NoSamples == [b \in Buckets |-> 0]

\* The outcome of one request.  Without a response there is no latency.
Outcome == [responded : BOOLEAN, success : BOOLEAN, latency : Nat]

Stats == [total : Nat, success : Nat, failed : Nat, latencyCount : Nat,
          sum : Nat, min : Nat, max : Nat, buckets : [Buckets -> Nat]]
Tallies == {s \in Stats : /\ s.success + s.failed = s.total
                          /\ s.latencyCount <= s.total}
NoStats == [total |-> 0, success |-> 0, failed |-> 0, latencyCount |-> 0,
            sum |-> 0, min |-> 0, max |-> 0, buckets |-> NoSamples]

BucketIndex(latency) ==
    Min({b \in DOMAIN RunnerBoundariesMs : latency <= RunnerBoundariesMs[b]}
            \cup {NumLatencyBuckets})

\* Variant: only a response can be a failure.
CountResponses(s, o) ==
    [s EXCEPT !.total = @ + 1,
              !.success = IF o.success THEN @ + 1 ELSE @,
              !.failed = IF o.responded /\ ~o.success THEN @ + 1 ELSE @]

Count(s, o) ==
    [s EXCEPT !.total = @ + 1,
              !.success = IF o.success THEN @ + 1 ELSE @,
              !.failed = IF o.success THEN @ ELSE @ + 1]

\* A sample; the first one seeds the extremes, which start at zero.
Sample(s, latency, first) ==
    [s EXCEPT !.sum = @ + latency,
              !.buckets[BucketIndex(latency)] = @ + 1,
              !.min = IF first \/ latency < @ THEN latency ELSE @,
              !.max = IF first \/ latency > @ THEN latency ELSE @,
              !.latencyCount = @ + 1]

Record(s, o) ==
    IF o.responded THEN Sample(Count(s, o), o.latency, s.latencyCount = 0)
                   ELSE Count(s, o)

\* Histograms add bucket by bucket; one that has no such bucket adds nothing.
AddBuckets(histogram, S, buckets) ==
    [b \in buckets |->
        SumFunction([x \in {x \in S : b \in DOMAIN histogram[x]} |-> histogram[x][b]])]

\* The store's mergeBuckets.
StoreBuckets == 1 .. Len(StoreBoundariesMs) + 1
MergeBuckets(histogram, S) == AddBuckets(histogram, S, StoreBuckets)

Cumulative(buckets, b) == SumFunctionOnSet(buckets, 1 .. b)

\* The bound of the first bucket that reaches the threshold; a sample beyond the
\* last bound is reported as that bound.
BoundAt(buckets, threshold) ==
    LET last == Len(StoreBoundariesMs)
        first == Min({b \in StoreBuckets : Cumulative(buckets, b) >= threshold})
    IN IF Cumulative(buckets, last + 1) = 0 THEN 0
       ELSE StoreBoundariesMs[Min({first, last})]

\* The bound of the bucket of the ceil(p * total)-th sample, p in percent.
Percentile(buckets, p) ==
    BoundAt(buckets, (p * Cumulative(buckets, Len(StoreBoundariesMs) + 1) + 99) \div 100)

\* One column added up.
Total(records, S, field) == SumFunction([x \in S |-> records[x][field]])

\* What the slots of a worker's users amount to; the extremes are taken over
\* sampled.
Combine(stats, sampled) ==
    LET Sum(field) == Total(stats, DOMAIN stats, field)
    IN [total |-> Sum("total"),
        success |-> Sum("success"),
        failed |-> Sum("failed"),
        latencyCount |-> Sum("latencyCount"),
        avg |-> [num |-> Sum("sum"), den |-> Sum("latencyCount")],
        min |-> IF sampled = {} THEN 0 ELSE Min({stats[u].min : u \in sampled}),
        max |-> IF sampled = {} THEN 0 ELSE Max({stats[u].max : u \in sampled}),
        buckets |-> AddBuckets([u \in DOMAIN stats |-> stats[u].buckets], DOMAIN stats, Buckets)]

\* Variant: a user without a sample drags the minimum down to its zero.
MergeStatsAllUsers(stats) == Combine(stats, DOMAIN stats)

\* mergeStats: only users that have a sample count for the extremes.
MergeStats(stats) == Combine(stats, {u \in DOMAIN stats : stats[u].latencyCount > 0})

\* Variant: the average of the shards' averages.
WeightedAverageUnweighted(reports, S) ==
    LET sampled == {s \in S : reports[s].latencyCount > 0}
    IN [num |-> SumFunction([s \in sampled |-> reports[s].avg.num \div reports[s].avg.den]),
        den |-> Cardinality(sampled)]

\* SUM(avg_latency_ms * latency_count) over SUM(latency_count).
WeightedAverage(reports, S) ==
    LET sampled == {s \in S : reports[s].latencyCount > 0}
        Weight(r) == (r.avg.num * r.latencyCount) \div r.avg.den
    IN [num |-> SumFunction([s \in sampled |-> Weight(reports[s])]),
        den |-> Total(reports, S, "latencyCount")]

\* aggregateRun: sums, weighted average, extremes FILTER (latency_count > 0) and
\* the percentiles of the merged histograms.  S are the shards that have metrics;
\* the others' columns are NULL and no aggregate counts them.
Aggregate(reports, S) ==
    LET Sum(field) == Total(reports, S, field)
        sampled == {s \in S : reports[s].latencyCount > 0}
        merged == MergeBuckets([s \in S |-> reports[s].buckets], S)
    IN [total |-> Sum("total"),
        success |-> Sum("success"),
        failed |-> Sum("failed"),
        latencyCount |-> Sum("latencyCount"),
        avg |-> WeightedAverage(reports, S),
        min |-> IF sampled = {} THEN 0 ELSE Min({reports[s].min : s \in sampled}),
        max |-> IF sampled = {} THEN 0 ELSE Max({reports[s].max : s \in sampled}),
        p50 |-> Percentile(merged, 50),
        p95 |-> Percentile(merged, 95),
        p99 |-> Percentile(merged, 99)]
=============================================================================
