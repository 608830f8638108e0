------------------------------- MODULE LoadRun -------------------------------
(***************************************************************************)
(* The load of one run, from the requests of its virtual users to the      *)
(* numbers the run shows: every shard runs its users until its context     *)
(* ends (the duration or the user's cancel), merges their tallies when the *)
(* last of them is done, and reports; the backend combines what the shards *)
(* reported.  The users of a shard run at the same time; nothing orders    *)
(* their requests or the end of the context.                               *)
(*                                                                         *)
(* history keeps what really happened to each request of the execution     *)
(* that may report; the properties compare the reported numbers with it.   *)
(***************************************************************************)
EXTENDS LatencyStats

CONSTANTS
    Shards,
    Users,          \* the virtual users of all shards
    ShardOf,        \* the shard each of them belongs to
    Responses,      \* the responses a target may give: latency and success
    MaxRequests,    \* bound: requests per user
    NoReport,       \* a shard that has reported nothing yet
    NoMetrics       \* the row of a shard that was dead-lettered

ASSUME LoadConstants ==
    /\ ShardOf \in [Users -> Shards]
    /\ \A s \in Shards : \E u \in Users : ShardOf[u] = s
    /\ Responses \subseteq {o \in Outcome : o.responded}
    /\ MaxRequests \in Nat
    /\ IsFiniteSet(Shards) /\ IsFiniteSet(Users)

VARIABLES
    thinkTime,  \* is the run configured with a think time?
    user,       \* where each user is in its loop
    stats,      \* its slot of the shard's vuStats
    stopped,    \* the shards whose run context is done
    report,     \* what each shard reported
    result,     \* the run's aggregate
    history,    \* the outcomes each user saw, in order
    cutOff      \* the failures that only the end of the context caused

vars == <<thinkTime, user, stats, stopped, report, result, history, cutOff>>

UsersOf(s) == {u \in Users : ShardOf[u] = s}
SlotsOf(s) == [u \in UsersOf(s) |-> stats[u]]     \* the vuStats of its worker
NoResponse == [responded |-> FALSE, success |-> FALSE, latency |-> 0]
Done(s) == \A u \in UsersOf(s) : user[u] = "done"

Init ==
    /\ thinkTime \in BOOLEAN
    /\ user = [u \in Users |-> "loop"]
    /\ stats = [u \in Users |-> NoStats]
    /\ stopped = {}
    /\ report = [s \in Shards |-> NoReport]
    /\ result = NoReport
    /\ history = [u \in Users |-> <<>>]
    /\ cutOff = [u \in Users |-> 0]

\* A shard without a report still has its worker.
Alive(s) == report[s] = NoReport
Goto(u, next) == user' = [user EXCEPT ![u] = next]

-----------------------------------------------------------------------------
\* runVirtualUser: while the context is live, one request after the other.

\* Variant: the loop does not look at the context.
SendBlind(u) ==
    /\ user[u] = "loop" /\ Alive(ShardOf[u])
    /\ Len(history[u]) < MaxRequests
    /\ Goto(u, "waiting")
    /\ UNCHANGED <<thinkTime, stats, stopped, report, result, history, cutOff>>

Send(u) ==
    /\ user[u] = "loop" /\ Alive(ShardOf[u])
    /\ ShardOf[u] \notin stopped
    /\ Len(history[u]) < MaxRequests
    /\ Goto(u, "waiting")
    /\ UNCHANGED <<thinkTime, stats, stopped, report, result, history, cutOff>>

Finish(u) ==
    /\ user[u] \in {"loop", "thinking"} /\ Alive(ShardOf[u])
    /\ ShardOf[u] \in stopped
    /\ Goto(u, "done")
    /\ UNCHANGED <<thinkTime, stats, stopped, report, result, history, cutOff>>

\* Variant: what ends after the context did is not tallied.
EndRequestDropsLate(u, outcome) ==
    /\ user[u] = "waiting" /\ Alive(ShardOf[u])
    /\ stats' = IF ShardOf[u] \in stopped THEN stats
                                         ELSE [stats EXCEPT ![u] = Record(@, outcome)]
    /\ history' = [history EXCEPT ![u] = Append(@, outcome)]
    /\ Goto(u, IF thinkTime THEN "thinking" ELSE "loop")
    /\ UNCHANGED <<thinkTime, stopped, report, result>>

\* doRequest ends: the tally is the user's own, so no other user is involved.
EndRequest(u, outcome) ==
    /\ user[u] = "waiting" /\ Alive(ShardOf[u])
    /\ stats' = [stats EXCEPT ![u] = Record(@, outcome)]
    /\ history' = [history EXCEPT ![u] = Append(@, outcome)]
    /\ Goto(u, IF thinkTime THEN "thinking" ELSE "loop")
    /\ UNCHANGED <<thinkTime, stopped, report, result>>

\* An answer that arrived before the context ended still counts.
Respond(u) ==
    /\ \E o \in Responses : EndRequest(u, o)
    /\ UNCHANGED cutOff

\* A transport error, the request's own timeout, or the end of the context.
Fails(u) ==
    /\ EndRequest(u, NoResponse)
    /\ cutOff' = IF ShardOf[u] \in stopped THEN [cutOff EXCEPT ![u] = @ + 1] ELSE cutOff

ThinkEnds(u) ==
    /\ user[u] = "thinking" /\ Alive(ShardOf[u])
    /\ Goto(u, "loop")
    /\ UNCHANGED <<thinkTime, stats, stopped, report, result, history, cutOff>>

-----------------------------------------------------------------------------
\* Run and executeShard.

Stop(s) ==
    /\ s \notin stopped /\ Alive(s)
    /\ stopped' = stopped \cup {s}
    /\ UNCHANGED <<thinkTime, user, stats, report, result, history, cutOff>>

\* wg.Wait, mergeStats, and the report as completed.
Report(s) ==
    /\ Alive(s) /\ Done(s)
    /\ report' = [report EXCEPT ![s] = MergeStats(SlotsOf(s))]
    /\ UNCHANGED <<thinkTime, user, stats, stopped, result, history, cutOff>>

\* The shard's worker dies and another one runs the shard from the beginning: what
\* the first one measured is lost with it.
TakeOver(s) ==
    /\ Alive(s)
    /\ user' = [u \in Users |-> IF ShardOf[u] = s THEN "loop" ELSE user[u]]
    /\ stats' = [u \in Users |-> IF ShardOf[u] = s THEN NoStats ELSE stats[u]]
    /\ history' = [u \in Users |-> IF ShardOf[u] = s THEN <<>> ELSE history[u]]
    /\ cutOff' = [u \in Users |-> IF ShardOf[u] = s THEN 0 ELSE cutOff[u]]
    /\ stopped' = stopped \ {s}
    /\ UNCHANGED <<thinkTime, report, result>>

\* The shard's worker dies again and again and its message is dead-lettered.
DeadLetter(s) ==
    /\ Alive(s)
    /\ report' = [report EXCEPT ![s] = NoMetrics]
    /\ UNCHANGED <<thinkTime, user, stats, stopped, result, history, cutOff>>

\* The completion barrier, once.
WithMetrics == {s \in Shards : report[s] \notin {NoReport, NoMetrics}}

AggregateRun ==
    /\ result = NoReport
    /\ \A s \in Shards : report[s] # NoReport
    /\ result' = Aggregate(report, WithMetrics)
    /\ UNCHANGED <<thinkTime, user, stats, stopped, report, history, cutOff>>

-----------------------------------------------------------------------------
Next ==
    \/ \E u \in Users : \/ Send(u) \/ Finish(u) \/ Respond(u)
                        \/ Fails(u) \/ ThinkEnds(u)
    \/ \E s \in Shards : Stop(s) \/ Report(s) \/ TakeOver(s) \/ DeadLetter(s)
    \/ AggregateRun

Spec == Init /\ [][Next]_vars

TypeOK ==
    /\ thinkTime \in BOOLEAN
    /\ user \in [Users -> {"loop", "waiting", "thinking", "done"}]
    /\ stats \in [Users -> Tallies]
    /\ stopped \subseteq Shards
    /\ DOMAIN report = Shards
    /\ history \in [Users -> Seq(Outcome)]
    /\ \A u \in Users :
          Len(history[u]) + (IF user[u] = "waiting" THEN 1 ELSE 0) <= MaxRequests
    /\ cutOff \in [Users -> Nat]

-----------------------------------------------------------------------------
\* The truth, from the history alone: the requests of the shards whose report
\* counts, those that got a response, and their latencies.
Requests == {q \in Users \X (1 .. MaxRequests) :
                ShardOf[q[1]] \in WithMetrics /\ q[2] <= Len(history[q[1]])}
OutcomeOf(q) == history[q[1]][q[2]]
Sampled == {q \in Requests : OutcomeOf(q).responded}
Latencies == {OutcomeOf(q).latency : q \in Sampled}

NearestRank(p) ==
    Min({l \in Latencies :
            Cardinality({q \in Sampled : OutcomeOf(q).latency <= l}) * 100
                >= p * Cardinality(Sampled)})

\* The percentile the run shows is the nearest-rank percentile of all samples of
\* all shards, rounded up to a bound and capped at the last one.
ShownAs(shown, p) ==
    IF Sampled = {} THEN shown = 0
    ELSE LET l == NearestRank(p)
             bounds == {RunnerBoundariesMs[b] : b \in DOMAIN RunnerBoundariesMs}
         IN shown = IF l > Max(bounds) THEN Max(bounds)
                    ELSE Min({x \in bounds : x >= l})

\* Every request that was sent is counted exactly once in the run's totals, in
\* every interleaving of users, shards, cancels and dead letters, and what the
\* end of the context cut off counts as failed (record, mergeStats, aggregateRun).
TotalsAreExact ==
    result # NoReport =>
        /\ result.total = Cardinality(Requests)
        /\ result.success = Cardinality({q \in Requests : OutcomeOf(q).success})
        /\ result.failed = result.total - result.success
        /\ result.latencyCount = Cardinality(Sampled)

\* The extremes are those of the samples, never the zero of an empty slot or of a
\* shard without samples.
ExtremesAreExact ==
    result # NoReport =>
        IF Sampled = {} THEN result.min = 0 /\ result.max = 0
        ELSE result.min = Min(Latencies) /\ result.max = Max(Latencies)

\* The average is the one of all samples, whichever shards they fell into, not
\* the average of the shards' averages (executeShard's LatencyCount).
AverageIsWeighted ==
    result # NoReport =>
        /\ result.avg.den = Cardinality(Sampled)
        /\ result.avg.num = SumFunction([q \in Sampled |-> OutcomeOf(q).latency])

\* Merging the shards' histograms loses nothing but the bucket width, and the
\* backend reads the buckets as the workers counted them: the two lists of bounds,
\* in two modules that cannot import each other, agree.
PercentilesAreNearestRank ==
    result # NoReport =>
        ShownAs(result.p50, 50) /\ ShownAs(result.p95, 95) /\ ShownAs(result.p99, 99)

\* The figures a run shows fit together, although each is put together on a way of its
\* own from what the users tallied and the shards reported: the average lies between the
\* extremes, the percentiles are in order, and none lies below the minimum unless it is
\* capped at the last bound of the histogram (aggregateRun, runPercentiles).
FiguresAgree ==
    result # NoReport =>
        /\ result.success <= result.total /\ result.latencyCount <= result.total
        /\ result.min * result.avg.den <= result.avg.num
        /\ result.avg.num <= result.max * result.avg.den
        /\ result.p50 <= result.p95 /\ result.p95 <= result.p99
        /\ result.p50 < StoreBoundariesMs[Len(StoreBoundariesMs)] => result.min <= result.p50

\* At every moment a user's slot is what its requests came to: all of them, also
\* those the end of the context cut off or let through, are in it once, its extremes
\* are a sample's, never the zero it starts with, and its sum and its buckets are
\* those of its samples (record).
Succeeded(u) == {i \in DOMAIN history[u] : history[u][i].success}
Answered(u) == {i \in DOMAIN history[u] : history[u][i].responded}
LatencySum(outcomes, S) == SumFunction([i \in S |-> outcomes[i].latency])
FallsIn(latency, b) ==
    /\ b < NumLatencyBuckets => latency <= RunnerBoundariesMs[b]
    /\ b > 1 => latency > RunnerBoundariesMs[b - 1]
InBucket(outcomes, S, b) == {i \in S : FallsIn(outcomes[i].latency, b)}
SlotIsExact(s, u) ==
    /\ s.total = Len(history[u])
    /\ s.success = Cardinality(Succeeded(u))
    /\ s.latencyCount = Cardinality(Answered(u))
    /\ s.sum = LatencySum(history[u], Answered(u))
    /\ \A b \in Buckets : s.buckets[b] = Cardinality(InBucket(history[u], Answered(u), b))
    /\ Answered(u) # {} =>
          /\ \E i \in Answered(u) : history[u][i].latency = s.min
          /\ \E i \in Answered(u) : history[u][i].latency = s.max
          /\ \A i \in Answered(u) : history[u][i].latency \in s.min .. s.max
SlotsAreExact == \A u \in Users : SlotIsExact(stats[u], u)

\* The end of the run costs each virtual user at most one request that is counted
\* as failed although the target was fine: the loop looks at the context before
\* it sends again (runVirtualUser).
StopCostsOneRequest == \A u \in Users : cutOff[u] <= 1

\* A shard reports only what is final: no user of it records afterwards, so no
\* slot is read while it is written (wg.Wait before mergeStats).
ReportedIsFinal ==
    \A s \in WithMetrics : report[s] = MergeStats(SlotsOf(s)) /\ Done(s)

\* The rest is the inductive invariant of LoadRunProofs: a user whose request was
\* cut off is behind the check of the context that keeps it from sending again.
UsersTypeOK ==
    /\ user \in [Users -> {"loop", "waiting", "thinking", "done"}]
    /\ cutOff \in [Users -> Nat]
    /\ DOMAIN report = Shards /\ DOMAIN stats = Users

CutOffIsLast ==
    \A u \in Users : cutOff[u] # 0 => ShardOf[u] \in stopped /\ user[u] # "waiting"

LoadInv ==
    /\ UsersTypeOK
    /\ CutOffIsLast
    /\ StopCostsOneRequest
    /\ ReportedIsFinal

\* Nothing is reported after the aggregate, so it is the one of what the shards have
\* reported now (the completion barrier).
ResultIsFinal ==
    result # NoReport =>
        /\ \A s \in Shards : report[s] # NoReport
        /\ result = Aggregate(report, WithMetrics)

\* Everything that is proved of a run's load: the slots are what the requests came to,
\* the reports what the slots came to, and the result what the reports came to.
RunInv == TypeOK /\ SlotsAreExact /\ LoadInv /\ ResultIsFinal
=============================================================================
