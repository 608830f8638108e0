---------------------------- MODULE LoadRunProofs ----------------------------
(***************************************************************************)
(* For any number of shards, of users and of requests: the end of a run    *)
(* costs each virtual user at most one request, a shard reports only final *)
(* tallies, every tally is what the requests of its user came to, and the  *)
(* totals, the average, the extremes and the percentiles that the run      *)
(* shows are those of all requests of the shards that reported, and fit    *)
(* together.                                                               *)
(***************************************************************************)
EXTENDS LoadRun, SumTheorems

LEMMA InitLoadInv == Init => LoadInv
BY DEF Init, LoadInv, UsersTypeOK, CutOffIsLast, StopCostsOneRequest, ReportedIsFinal,
       WithMetrics

\* Whatever a user of a shard that has not reported does, and whatever is tallied for
\* it, the reports that are there stay true.
LEMMA UserStepKeepsReports ==
    ASSUME LoadInv, NEW u \in Users, Alive(ShardOf[u]), UNCHANGED report,
           DOMAIN stats' = Users,
           \A v \in Users : v # u => stats'[v] = stats[v] /\ user'[v] = user[v]
    PROVE  ReportedIsFinal'
<1> SUFFICES ASSUME NEW s \in Shards, report[s] \notin {NoReport, NoMetrics}
             PROVE  (report[s] = MergeStats(SlotsOf(s)) /\ Done(s))'
  BY DEF ReportedIsFinal, WithMetrics
<1>1. \A v \in UsersOf(s) : v # u /\ v \in Users
  BY DEF UsersOf, Alive
<1>2. SlotsOf(s)' = SlotsOf(s)
  BY <1>1 DEF SlotsOf, UsersOf
<1>3. report[s] = MergeStats(SlotsOf(s)) /\ Done(s)
  BY DEF LoadInv, ReportedIsFinal, WithMetrics
<1>4. Done(s)'
  BY <1>1, <1>3 DEF Done, UsersOf
<1> QED  BY <1>2, <1>3, <1>4

LEMMA SendInv == ASSUME LoadInv, NEW u \in Users, Send(u) PROVE LoadInv'
<1>1. /\ Alive(ShardOf[u]) /\ ShardOf[u] \notin stopped
      /\ user' = [user EXCEPT ![u] = "waiting"]
      /\ UNCHANGED <<stats, stopped, report, cutOff>>
  BY DEF Send, Goto
<1>2. UsersTypeOK' /\ CutOffIsLast' /\ StopCostsOneRequest'
  BY <1>1 DEF LoadInv, UsersTypeOK, CutOffIsLast, StopCostsOneRequest
<1>3. ReportedIsFinal'
  BY <1>1, UserStepKeepsReports DEF LoadInv, UsersTypeOK
<1> QED  BY <1>2, <1>3 DEF LoadInv

LEMMA PauseInv == ASSUME LoadInv, NEW u \in Users, Finish(u) \/ ThinkEnds(u) PROVE LoadInv'
<1>1. PICK next \in {"done", "loop"} :
         /\ Alive(ShardOf[u])
         /\ user' = [user EXCEPT ![u] = next]
         /\ UNCHANGED <<stats, stopped, report, cutOff>>
  BY DEF Finish, ThinkEnds, Goto
<1>2. UsersTypeOK' /\ CutOffIsLast' /\ StopCostsOneRequest'
  BY <1>1 DEF LoadInv, UsersTypeOK, CutOffIsLast, StopCostsOneRequest
<1>3. ReportedIsFinal'
  BY <1>1, UserStepKeepsReports DEF LoadInv, UsersTypeOK
<1> QED  BY <1>2, <1>3 DEF LoadInv

\* A request that was in flight when the context ended is the user's last one.
LEMMA RequestEndsInv == ASSUME LoadInv, NEW u \in Users, Respond(u) \/ Fails(u) PROVE LoadInv'
<1>1. PICK outcome : EndRequest(u, outcome)
  BY DEF Respond, Fails
<1>2. /\ user[u] = "waiting" /\ Alive(ShardOf[u])
      /\ stats' = [stats EXCEPT ![u] = Record(@, outcome)]
      /\ user' = [user EXCEPT ![u] = IF thinkTime THEN "thinking" ELSE "loop"]
      /\ UNCHANGED <<stopped, report>>
  BY <1>1 DEF EndRequest, Goto
<1>3. cutOff[u] = 0
  BY <1>2 DEF LoadInv, CutOffIsLast
<1>4. cutOff' = cutOff \/ (ShardOf[u] \in stopped /\ cutOff' = [cutOff EXCEPT ![u] = 1])
  BY <1>3 DEF Respond, Fails, LoadInv, UsersTypeOK
<1>5. UsersTypeOK' /\ CutOffIsLast' /\ StopCostsOneRequest'
  BY <1>2, <1>4 DEF LoadInv, UsersTypeOK, CutOffIsLast, StopCostsOneRequest
<1>6. ReportedIsFinal'
  BY <1>2, UserStepKeepsReports DEF LoadInv, UsersTypeOK
<1> QED  BY <1>5, <1>6 DEF LoadInv

LEMMA StopInv == ASSUME LoadInv, NEW s \in Shards, Stop(s) PROVE LoadInv'
<1>1. stopped' = stopped \cup {s} /\ UNCHANGED <<user, stats, report, cutOff>>
  BY DEF Stop
<1>2. UsersTypeOK' /\ CutOffIsLast' /\ StopCostsOneRequest'
  BY <1>1 DEF LoadInv, UsersTypeOK, CutOffIsLast, StopCostsOneRequest
<1>3. ReportedIsFinal'
  BY <1>1 DEF LoadInv, ReportedIsFinal, WithMetrics, SlotsOf, UsersOf, Done
<1> QED  BY <1>2, <1>3 DEF LoadInv

\* The report is made of final tallies because the merge waits for all users.
LEMMA ReportInv == ASSUME LoadInv, NEW s \in Shards, Report(s) \/ DeadLetter(s) PROVE LoadInv'
<1>1. /\ UNCHANGED <<user, stats, stopped, cutOff>>
      /\ DOMAIN report' = Shards
      /\ \A t \in Shards : t # s => report'[t] = report[t]
      /\ report'[s] = NoMetrics \/ (Done(s) /\ report'[s] = MergeStats(SlotsOf(s)))
  BY DEF Report, DeadLetter, LoadInv, UsersTypeOK
<1>2. UsersTypeOK' /\ CutOffIsLast' /\ StopCostsOneRequest'
  BY <1>1 DEF LoadInv, UsersTypeOK, CutOffIsLast, StopCostsOneRequest
<1>3. \A t \in Shards : SlotsOf(t)' = SlotsOf(t) /\ Done(t)' = Done(t)
  BY <1>1 DEF SlotsOf, UsersOf, Done
<1>4. ReportedIsFinal'
  BY <1>1, <1>3 DEF LoadInv, ReportedIsFinal, WithMetrics
<1> QED  BY <1>2, <1>4 DEF LoadInv

LEMMA TakeOverInv == ASSUME LoadInv, NEW s \in Shards, TakeOver(s) PROVE LoadInv'
<1>1. /\ Alive(s)
      /\ user' = [u \in Users |-> IF ShardOf[u] = s THEN "loop" ELSE user[u]]
      /\ stats' = [u \in Users |-> IF ShardOf[u] = s THEN NoStats ELSE stats[u]]
      /\ cutOff' = [u \in Users |-> IF ShardOf[u] = s THEN 0 ELSE cutOff[u]]
      /\ stopped' = stopped \ {s}
      /\ UNCHANGED report
  BY DEF TakeOver
<1>2. UsersTypeOK' /\ CutOffIsLast' /\ StopCostsOneRequest'
  BY <1>1 DEF LoadInv, UsersTypeOK, CutOffIsLast, StopCostsOneRequest
<1>3. ASSUME NEW t \in Shards, report[t] \notin {NoReport, NoMetrics}
      PROVE  (report[t] = MergeStats(SlotsOf(t)) /\ Done(t))'
  <2>1. t # s
    BY <1>1, <1>3 DEF Alive
  <2>2. SlotsOf(t)' = SlotsOf(t) /\ Done(t)' = Done(t)
    BY <1>1, <2>1 DEF SlotsOf, UsersOf, Done
  <2> QED  BY <1>1, <1>3, <2>2 DEF LoadInv, ReportedIsFinal, WithMetrics
<1>4. ReportedIsFinal'
  BY <1>1, <1>3 DEF ReportedIsFinal, WithMetrics
<1> QED  BY <1>2, <1>4 DEF LoadInv

LEMMA NextLoadInv == LoadInv /\ [Next]_vars => LoadInv'
<1> SUFFICES ASSUME LoadInv, [Next]_vars PROVE LoadInv'
  OBVIOUS
<1>1. ASSUME UNCHANGED <<user, stats, stopped, report, cutOff>> PROVE LoadInv'
  <2>1. UsersTypeOK' /\ CutOffIsLast' /\ StopCostsOneRequest'
    BY <1>1 DEF LoadInv, UsersTypeOK, CutOffIsLast, StopCostsOneRequest
  <2>2. ReportedIsFinal'
    BY <1>1 DEF LoadInv, ReportedIsFinal, WithMetrics, SlotsOf, UsersOf, Done
  <2> QED  BY <2>1, <2>2 DEF LoadInv
<1>2. ASSUME NEW u \in Users, Send(u) \/ Finish(u) \/ Respond(u) \/ Fails(u) \/ ThinkEnds(u)
      PROVE  LoadInv'
  BY <1>2, SendInv, PauseInv, RequestEndsInv
<1>3. ASSUME NEW s \in Shards, Stop(s) \/ Report(s) \/ TakeOver(s) \/ DeadLetter(s)
      PROVE  LoadInv'
  BY <1>3, StopInv, ReportInv, TakeOverInv
<1>4. CASE AggregateRun \/ UNCHANGED vars
  BY <1>1, <1>4 DEF AggregateRun, vars
<1> QED  BY <1>2, <1>3, <1>4 DEF Next

\* The invariant holds of any load.
THEOREM LoadInvariant == Spec => []LoadInv
BY InitLoadInv, NextLoadInv, PTL DEF Spec

\* However many users a shard has and whenever its context ends, each of them has
\* at most one request counted as failed for that reason (runVirtualUser).
THEOREM LoadStopsCheaply == Spec => []StopCostsOneRequest
<1>1. LoadInv => StopCostsOneRequest
  BY DEF LoadInv
<1> QED  BY <1>1, LoadInvariant, PTL

\* What a shard has reported stays the sum of its users' tallies: none of them
\* writes its slot after the merge has read it (wg.Wait, Run).
THEOREM LoadReportsFinal == Spec => []ReportedIsFinal
<1>1. LoadInv => ReportedIsFinal
  BY DEF LoadInv
<1> QED  BY <1>1, LoadInvariant, PTL

-----------------------------------------------------------------------------
\* What is in the slots.

\* A set of bucket numbers that has the last one has a least one.
LEMMA LeastBucket ==
    ASSUME NEW S \in SUBSET (1 .. 13), 13 \in S
    PROVE  \E x \in S : \A y \in S : x <= y
<1>1. CASE \E x \in S : x <= 4
  <2>1. CASE 1 \in S  BY <2>1
  <2>2. CASE 1 \notin S /\ 2 \in S  BY <2>2
  <2>3. CASE 1 \notin S /\ 2 \notin S /\ 3 \in S  BY <2>3
  <2>4. CASE 1 \notin S /\ 2 \notin S /\ 3 \notin S /\ 4 \in S  BY <2>4
  <2> QED  BY <1>1, <2>1, <2>2, <2>3, <2>4
<1>2. CASE (\A x \in S : x > 4) /\ \E x \in S : x <= 8
  <2>1. CASE 5 \in S  BY <1>2, <2>1
  <2>2. CASE 5 \notin S /\ 6 \in S  BY <1>2, <2>2
  <2>3. CASE 5 \notin S /\ 6 \notin S /\ 7 \in S  BY <1>2, <2>3
  <2>4. CASE 5 \notin S /\ 6 \notin S /\ 7 \notin S /\ 8 \in S  BY <1>2, <2>4
  <2> QED  BY <1>2, <2>1, <2>2, <2>3, <2>4
<1>3. CASE \A x \in S : x > 8
  <2>1. CASE 9 \in S  BY <1>3, <2>1
  <2>2. CASE 9 \notin S /\ 10 \in S  BY <1>3, <2>2
  <2>3. CASE 9 \notin S /\ 10 \notin S /\ 11 \in S  BY <1>3, <2>3
  <2>4. CASE 9 \notin S /\ 10 \notin S /\ 11 \notin S /\ 12 \in S  BY <1>3, <2>4
  <2>5. CASE 9 \notin S /\ 10 \notin S /\ 11 \notin S /\ 12 \notin S  BY <1>3, <2>5
  <2> QED  BY <1>3, <2>1, <2>2, <2>3, <2>4, <2>5
<1> QED  BY <1>1, <1>2, <1>3

\* Every latency has a bucket.
LEMMA BucketExists == ASSUME NEW latency \in Nat PROVE BucketIndex(latency) \in Buckets
<1> DEFINE S == {b \in DOMAIN RunnerBoundariesMs : latency <= RunnerBoundariesMs[b]}
                    \cup {NumLatencyBuckets}
<1>1. DOMAIN RunnerBoundariesMs = 1 .. 12 /\ NumLatencyBuckets = 13
  BY DEF RunnerBoundariesMs, NumLatencyBuckets
<1>2. S \in SUBSET (1 .. 13) /\ 13 \in S
  BY <1>1
<1>3. BucketIndex(latency) = CHOOSE x \in S : \A y \in S : x <= y
  BY DEF BucketIndex, Min
<1> HIDE DEF S
<1>4. \E x \in S : \A y \in S : x <= y
  BY <1>2, LeastBucket
<1> QED  BY <1>1, <1>2, <1>3, <1>4 DEF Buckets

\* The bucket of a latency is the one whose bounds it lies between.
LEMMA BucketBounds ==
    ASSUME NEW latency \in Nat, NEW b \in Buckets
    PROVE  /\ FallsIn(latency, b) <=> b = BucketIndex(latency)
           /\ b <= 12 => (BucketIndex(latency) <= b <=> latency <= RunnerBoundariesMs[b])
<1> DEFINE S == {c \in DOMAIN RunnerBoundariesMs : latency <= RunnerBoundariesMs[c]}
                    \cup {NumLatencyBuckets}
           i == BucketIndex(latency)
<1>1. DOMAIN RunnerBoundariesMs = 1 .. 12 /\ NumLatencyBuckets = 13 /\ Buckets = 1 .. 13
  BY DEF RunnerBoundariesMs, NumLatencyBuckets, Buckets
<1>2. S \in SUBSET Nat /\ S # {}
  BY <1>1
<1>3. i = Min(S)
  BY DEF BucketIndex
<1>4. \A c \in 1 .. 13 : c \in S <=> c = 13 \/ latency <= RunnerBoundariesMs[c]
  BY <1>1
<1>5. i \in S /\ (\A c \in S : i <= c) /\ i \in 1 .. 13
  <2> HIDE DEF S
  <2> QED  BY <1>1, <1>2, <1>3, MinExists, BucketExists
<1> HIDE DEF S, i
<1>6. \A c, d \in 1 .. 12 :
         /\ RunnerBoundariesMs[c] \in Nat
         /\ c < d => RunnerBoundariesMs[c] < RunnerBoundariesMs[d]
  BY DEF RunnerBoundariesMs
<1>7. ASSUME b <= 12 PROVE i <= b <=> latency <= RunnerBoundariesMs[b]
  <2>1. b \in 1 .. 12 /\ b \in 1 .. 13
    BY <1>1, <1>7
  <2>2. ASSUME latency <= RunnerBoundariesMs[b] PROVE i <= b
    BY <1>4, <1>5, <2>1, <2>2
  <2>3. ASSUME i <= b PROVE latency <= RunnerBoundariesMs[b]
    <3>1. i \in 1 .. 12 /\ latency <= RunnerBoundariesMs[i]
      BY <1>4, <1>5, <2>1, <2>3
    <3>2. i = b \/ RunnerBoundariesMs[i] < RunnerBoundariesMs[b]
      BY <1>6, <2>1, <2>3, <3>1
    <3>3. RunnerBoundariesMs[i] \in Nat /\ RunnerBoundariesMs[b] \in Nat
      BY <1>6, <2>1, <3>1
    <3> QED  BY <3>1, <3>2, <3>3
  <2> QED  BY <2>2, <2>3
<1>8. ASSUME b > 1 PROVE latency > RunnerBoundariesMs[b - 1] <=> i > b - 1
  <2>1. b - 1 \in 1 .. 12 /\ b - 1 \in 1 .. 13
    BY <1>1, <1>8
  <2>2. RunnerBoundariesMs[b - 1] \in Nat
    BY <1>6, <2>1
  <2>3. i <= b - 1 <=> latency <= RunnerBoundariesMs[b - 1]
    <3> DEFINE c == b - 1
    <3>1. c \in 1 .. 12 /\ c \in 1 .. 13
      BY <2>1
    <3> HIDE DEF c
    <3>2. ASSUME latency <= RunnerBoundariesMs[c] PROVE i <= c
      BY <1>4, <1>5, <3>1, <3>2
    <3>3. ASSUME i <= c PROVE latency <= RunnerBoundariesMs[c]
      <4>1. i \in 1 .. 12 /\ latency <= RunnerBoundariesMs[i]
        BY <1>4, <1>5, <3>1, <3>3
      <4>2. i = c \/ RunnerBoundariesMs[i] < RunnerBoundariesMs[c]
        BY <1>6, <3>1, <3>3, <4>1
      <4>3. RunnerBoundariesMs[i] \in Nat /\ RunnerBoundariesMs[c] \in Nat
        BY <1>6, <3>1, <4>1
      <4> QED  BY <4>1, <4>2, <4>3
    <3>4. i <= c <=> latency <= RunnerBoundariesMs[c]
      BY <3>2, <3>3
    <3> QED  BY <3>4 DEF c
  <2> QED  BY <1>5, <2>1, <2>2, <2>3
<1>9. FallsIn(latency, b) <=> /\ b <= 12 => i <= b
                              /\ b > 1 => i > b - 1
  BY <1>1, <1>7, <1>8 DEF FallsIn
<1>10. FallsIn(latency, b) <=> b = i
  BY <1>1, <1>5, <1>9
<1> QED  BY <1>7, <1>10 DEF i

\* Count, field by field.
LEMMA CountFields ==
    ASSUME NEW s \in Stats, NEW o
    PROVE  /\ Count(s, o) \in Stats
           /\ Count(s, o).total = s.total + 1
           /\ Count(s, o).success = IF o.success THEN s.success + 1 ELSE s.success
           /\ Count(s, o).failed = IF o.success THEN s.failed ELSE s.failed + 1
           /\ Count(s, o).latencyCount = s.latencyCount
           /\ Count(s, o).min = s.min /\ Count(s, o).max = s.max
           /\ Count(s, o).sum = s.sum /\ Count(s, o).buckets = s.buckets
<1> DEFINE c == Count(s, o)
           total == s.total + 1
           success == IF o.success THEN s.success + 1 ELSE s.success
           failed == IF o.success THEN s.failed ELSE s.failed + 1
<1>1. s.total \in Nat /\ s.success \in Nat /\ s.failed \in Nat
  BY DEF Stats
<1>2. total \in Nat /\ success \in Nat /\ failed \in Nat
  BY <1>1
<1>3. c = [s EXCEPT !.total = total, !.success = success, !.failed = failed]
  BY DEF Count
<1> HIDE DEF c, total, success, failed
<1>4. /\ c \in Stats
      /\ c.total = total /\ c.success = success /\ c.failed = failed
      /\ c.latencyCount = s.latencyCount /\ c.min = s.min /\ c.max = s.max
      /\ c.sum = s.sum /\ c.buckets = s.buckets
  <2>1. c \in Stats
    BY <1>2, <1>3 DEF Stats
  <2>2. c.total = total /\ c.success = success /\ c.failed = failed
    BY <1>3 DEF Stats
  <2>3. c.latencyCount = s.latencyCount /\ c.min = s.min /\ c.max = s.max
    BY <1>3 DEF Stats
  <2>4. c.sum = s.sum /\ c.buckets = s.buckets
    BY <1>3 DEF Stats
  <2> QED  BY <2>1, <2>2, <2>3, <2>4
<1> QED  BY <1>4 DEF c, total, success, failed

\* Sample, field by field.
LEMMA SampleFields ==
    ASSUME NEW s \in Stats, NEW latency \in Nat, NEW first \in BOOLEAN, NEW t,
           t = Sample(s, latency, first)
    PROVE  /\ t \in Stats
           /\ t.total = s.total /\ t.success = s.success /\ t.failed = s.failed
           /\ t.latencyCount = s.latencyCount + 1
           /\ t.min = IF first \/ latency < s.min THEN latency ELSE s.min
           /\ t.max = IF first \/ latency > s.max THEN latency ELSE s.max
           /\ t.sum = s.sum + latency
           /\ t.buckets = [s.buckets EXCEPT ![BucketIndex(latency)] = @ + 1]
<1> DEFINE sum == s.sum + latency
           buckets == [s.buckets EXCEPT ![BucketIndex(latency)] = @ + 1]
           low == IF first \/ latency < s.min THEN latency ELSE s.min
           high == IF first \/ latency > s.max THEN latency ELSE s.max
           count == s.latencyCount + 1
<1>1. /\ s.sum \in Nat /\ s.min \in Nat /\ s.max \in Nat /\ s.latencyCount \in Nat
      /\ s.buckets \in [Buckets -> Nat]
  BY DEF Stats
<1>2. sum \in Nat /\ low \in Nat /\ high \in Nat /\ count \in Nat
  BY <1>1
<1>3. buckets \in [Buckets -> Nat]
  BY <1>1, BucketExists
<1>4. t = [s EXCEPT !.sum = sum, !.buckets = buckets, !.min = low, !.max = high,
                    !.latencyCount = count]
  BY DEF Sample
<1> HIDE DEF sum, buckets, low, high, count
<1>5. /\ t \in Stats
      /\ t.min = low /\ t.max = high /\ t.latencyCount = count
      /\ t.total = s.total /\ t.success = s.success /\ t.failed = s.failed
      /\ t.sum = sum /\ t.buckets = buckets
  <2>1. t \in Stats
    BY <1>2, <1>3, <1>4 DEF Stats
  <2>2. t.min = low /\ t.max = high /\ t.latencyCount = count
    BY <1>4 DEF Stats
  <2>3. t.total = s.total /\ t.success = s.success /\ t.failed = s.failed
    BY <1>4 DEF Stats
  <2>4. t.sum = sum /\ t.buckets = buckets
    BY <1>4 DEF Stats
  <2> QED  BY <2>1, <2>2, <2>3, <2>4
<1> QED  BY <1>5 DEF low, high, count, sum, buckets

\* What record does, field by field.
LEMMA RecordFields ==
    ASSUME NEW s \in Tallies, NEW o \in Outcome, NEW t, t = Record(s, o)
    PROVE  /\ t \in Tallies
           /\ t.total = s.total + 1
           /\ t.success = IF o.success THEN s.success + 1 ELSE s.success
           /\ t.latencyCount = IF o.responded THEN s.latencyCount + 1 ELSE s.latencyCount
           /\ t.min = IF o.responded /\ (s.latencyCount = 0 \/ o.latency < s.min)
                        THEN o.latency ELSE s.min
           /\ t.max = IF o.responded /\ (s.latencyCount = 0 \/ o.latency > s.max)
                        THEN o.latency ELSE s.max
           /\ t.sum = IF o.responded THEN s.sum + o.latency ELSE s.sum
           /\ t.buckets = IF o.responded
                            THEN [s.buckets EXCEPT ![BucketIndex(o.latency)] = @ + 1]
                            ELSE s.buckets
<1> DEFINE c == Count(s, o)
<1>1. s \in Stats /\ s.success + s.failed = s.total /\ s.latencyCount <= s.total
  BY DEF Tallies
<1>2. /\ s.total \in Nat /\ s.success \in Nat /\ s.failed \in Nat /\ s.latencyCount \in Nat
      /\ o.latency \in Nat
  BY <1>1 DEF Stats, Outcome
<1>3. /\ c \in Stats
      /\ c.total = s.total + 1 /\ c.latencyCount = s.latencyCount
      /\ c.success = IF o.success THEN s.success + 1 ELSE s.success
      /\ c.failed = IF o.success THEN s.failed ELSE s.failed + 1
      /\ c.min = s.min /\ c.max = s.max /\ c.sum = s.sum /\ c.buckets = s.buckets
  BY <1>1, CountFields
<1> HIDE DEF c
<1>4. CASE ~o.responded
  <2>1. t = c
    BY <1>4 DEF Record, c
  <2>2. c.success + c.failed = c.total /\ c.latencyCount <= c.total
    BY <1>1, <1>2, <1>3
  <2>3. c \in Tallies
    BY <1>3, <2>2 DEF Tallies
  <2> QED  BY <1>3, <1>4, <2>1, <2>3
<1>5. CASE o.responded
  <2>1. t = Sample(c, o.latency, s.latencyCount = 0)
    BY <1>5 DEF Record, c
  <2>2. /\ t \in Stats
        /\ t.total = c.total /\ t.success = c.success /\ t.failed = c.failed
        /\ t.latencyCount = c.latencyCount + 1
        /\ t.min = IF s.latencyCount = 0 \/ o.latency < c.min THEN o.latency ELSE c.min
        /\ t.max = IF s.latencyCount = 0 \/ o.latency > c.max THEN o.latency ELSE c.max
        /\ t.sum = c.sum + o.latency
        /\ t.buckets = [c.buckets EXCEPT ![BucketIndex(o.latency)] = @ + 1]
    <3> DEFINE first == s.latencyCount = 0
               latency == o.latency
    <3>1. first \in BOOLEAN /\ latency \in Nat /\ t = Sample(c, latency, first)
      BY <1>2, <2>1
    <3>0. c \in Stats
      BY <1>3
    <3> HIDE DEF first, latency
    <3>2. /\ t \in Stats
          /\ t.total = c.total /\ t.success = c.success /\ t.failed = c.failed
          /\ t.latencyCount = c.latencyCount + 1
          /\ t.min = IF first \/ latency < c.min THEN latency ELSE c.min
          /\ t.max = IF first \/ latency > c.max THEN latency ELSE c.max
          /\ t.sum = c.sum + latency
          /\ t.buckets = [c.buckets EXCEPT ![BucketIndex(latency)] = @ + 1]
      BY <3>0, <3>1, SampleFields
    <3> QED  BY <3>2 DEF first, latency
  <2>3. t.success + t.failed = t.total /\ t.latencyCount <= t.total
    BY <1>1, <1>2, <1>3, <2>2
  <2>4. t \in Tallies
    BY <2>2, <2>3 DEF Tallies
  <2> QED  BY <1>3, <1>5, <2>2, <2>4
<1> QED  BY <1>4, <1>5

\* No sample, no sum.
LEMMA NoSum == ASSUME NEW f, DOMAIN f = {} PROVE SumFunction(f) = 0
  BY SumEmpty DEF SumFunction

\* The same samples, the same sum and the same buckets.
LEMMA SameSamples ==
    ASSUME NEW old, NEW new, NEW A, NEW b, \A i \in A : new[i] = old[i]
    PROVE  LatencySum(new, A) = LatencySum(old, A) /\ InBucket(new, A, b) = InBucket(old, A, b)
<1>1. [i \in A |-> new[i].latency] = [i \in A |-> old[i].latency]
  OBVIOUS
<1> QED  BY <1>1 DEF LatencySum, InBucket

\* One more sample, at x, in the sum and in its bucket.
LEMMA OneMoreSample ==
    ASSUME NEW old, NEW new, NEW A, IsFiniteSet(A), NEW x, x \notin A, NEW l \in Nat,
           \A i \in A : old[i].latency \in Nat /\ new[i] = old[i],
           new[x].latency = l
    PROVE  LatencySum(new, A \cup {x}) = LatencySum(old, A) + l
<1> DEFINE B == A \cup {x}
           f == [i \in B |-> new[i].latency]
           g == [i \in A |-> old[i].latency]
<1>1. /\ DOMAIN f = B /\ DOMAIN g = A
      /\ \A i \in A : f[i] = g[i] /\ f[i] \in Int
      /\ f[x] = l /\ f[x] \in Int
  OBVIOUS
<1>2. SumFunctionOnSet(f, B) = SumFunctionOnSet(g, A) + l
  <2> HIDE DEF f, g
  <2>1. SumFunctionOnSet(f, B) = f[x] + SumFunctionOnSet(f, A)
    BY <1>1, SumAdd
  <2>2. SumFunctionOnSet(f, A) = SumFunctionOnSet(g, A) /\ SumFunctionOnSet(f, A) \in Int
    BY <1>1, SumSame, SumInt
  <2> QED  BY <1>1, <2>1, <2>2
<1> HIDE DEF f, g
<1>4. SumFunction(f) = SumFunction(g) + l
  BY <1>1, <1>2 DEF SumFunction
<1> QED  BY <1>4 DEF f, g, LatencySum

LEMMA OneMoreInBucket ==
    ASSUME NEW old, NEW new, NEW A, IsFiniteSet(A), NEW x, x \notin A, NEW l \in Nat,
           \A i \in A : new[i] = old[i], new[x].latency = l, NEW b \in Buckets
    PROVE  Cardinality(InBucket(new, A \cup {x}, b))
             = IF b = BucketIndex(l) THEN Cardinality(InBucket(old, A, b)) + 1
                                     ELSE Cardinality(InBucket(old, A, b))
<1> DEFINE S == InBucket(old, A, b)
           T == InBucket(new, A \cup {x}, b)
<1>1. IsFiniteSet(S) /\ x \notin S
  BY FS_Subset DEF InBucket
<1>2. FallsIn(l, b) <=> b = BucketIndex(l)
  BY BucketBounds
<1>3. T = IF b = BucketIndex(l) THEN S \cup {x} ELSE S
  BY <1>2 DEF InBucket
<1> HIDE DEF S, T
<1>4. Cardinality(S \cup {x}) = Cardinality(S) + 1
  BY <1>1, FS_AddElement
<1> QED  BY <1>3, <1>4 DEF S, T

\* One more request of a user, and its slot.
LEMMA SlotGrows ==
    ASSUME TypeOK, NEW u \in Users, SlotIsExact(stats[u], u), NEW o \in Outcome,
           history' = [history EXCEPT ![u] = Append(@, o)],
           stats' = [stats EXCEPT ![u] = Record(@, o)]
    PROVE  (SlotIsExact(stats[u], u))'
<1> DEFINE n == Len(history[u])
<1>1. /\ n \in Nat /\ history[u] \in Seq(Outcome) /\ DOMAIN history[u] = 1 .. n
      /\ stats[u] \in Tallies
      /\ \A i \in 1 .. n : history[u][i] \in Outcome
  BY DEF TypeOK
<1>2. /\ history'[u] = Append(history[u], o) /\ Len(history'[u]) = n + 1
      /\ DOMAIN history'[u] = 1 .. n + 1
      /\ history'[u][n + 1] = o
      /\ \A i \in 1 .. n : history'[u][i] = history[u][i]
  BY <1>1 DEF TypeOK
<1>3. stats'[u] = Record(stats[u], o)
  BY DEF TypeOK
<1> DEFINE s == stats[u]
           t == stats'[u]
<1>4. /\ t \in Tallies
      /\ t.total = s.total + 1
      /\ t.success = IF o.success THEN s.success + 1 ELSE s.success
      /\ t.latencyCount = IF o.responded THEN s.latencyCount + 1 ELSE s.latencyCount
      /\ t.min = IF o.responded /\ (s.latencyCount = 0 \/ o.latency < s.min)
                   THEN o.latency ELSE s.min
      /\ t.max = IF o.responded /\ (s.latencyCount = 0 \/ o.latency > s.max)
                   THEN o.latency ELSE s.max
      /\ t.sum = IF o.responded THEN s.sum + o.latency ELSE s.sum
      /\ t.buckets = IF o.responded THEN [s.buckets EXCEPT ![BucketIndex(o.latency)] = @ + 1]
                                    ELSE s.buckets
  <2>1. s \in Tallies /\ t = Record(s, o)
    BY <1>1, <1>3
  <2> HIDE DEF s, t
  <2> QED  BY <2>1, RecordFields
<1>40. /\ s.min \in Nat /\ s.max \in Nat /\ s.latencyCount \in Nat /\ s.success \in Nat
       /\ o.latency \in Nat
  BY <1>1 DEF Tallies, Stats, Outcome
<1>5. /\ Succeeded(u)' = IF o.success THEN Succeeded(u) \cup {n + 1} ELSE Succeeded(u)
      /\ Answered(u)' = IF o.responded THEN Answered(u) \cup {n + 1} ELSE Answered(u)
  BY <1>1, <1>2 DEF Succeeded, Answered
<1>6. /\ IsFiniteSet(Succeeded(u)) /\ IsFiniteSet(Answered(u))
      /\ n + 1 \notin Succeeded(u) /\ n + 1 \notin Answered(u)
  <2>1. Succeeded(u) \subseteq 1 .. n /\ Answered(u) \subseteq 1 .. n
    BY <1>1 DEF Succeeded, Answered
  <2>2. IsFiniteSet(1 .. n)
    BY <1>1, FS_Interval
  <2>3. IsFiniteSet(Succeeded(u))
    BY <2>1, <2>2, FS_Subset
  <2>4. IsFiniteSet(Answered(u))
    BY <2>1, <2>2, FS_Subset
  <2> QED  BY <1>1, <2>1, <2>3, <2>4
<1>7. /\ Cardinality(Succeeded(u) \cup {n + 1}) = Cardinality(Succeeded(u)) + 1
      /\ Cardinality(Answered(u) \cup {n + 1}) = Cardinality(Answered(u)) + 1
  BY <1>6, FS_AddElement
<1>8. s.latencyCount = 0 <=> Answered(u) = {}
  <2>1. s.latencyCount = Cardinality(Answered(u))
    BY DEF SlotIsExact
  <2> QED  BY <1>6, <2>1, FS_EmptySet
<1>9. \A i \in Answered(u) : history'[u][i] = history[u][i] /\ history[u][i].latency \in Nat
  BY <1>1, <1>2 DEF Answered, Outcome
<1> HIDE DEF n, s, t
<1>10. /\ t.total = Len(history'[u])
       /\ t.success = Cardinality(Succeeded(u)')
       /\ t.latencyCount = Cardinality(Answered(u)')
  BY <1>2, <1>4, <1>5, <1>7 DEF SlotIsExact, s, n
<1>11. ASSUME Answered(u)' # {}
       PROVE  /\ \E i \in Answered(u)' : history'[u][i].latency = t.min
              /\ \E i \in Answered(u)' : history'[u][i].latency = t.max
              /\ \A i \in Answered(u)' : history'[u][i].latency \in t.min .. t.max
  <2>1. CASE Answered(u) = {}
    <3>1. o.responded /\ Answered(u)' = {n + 1}
      BY <1>5, <1>11, <2>1
    <3>2. t.min = o.latency /\ t.max = o.latency
      BY <1>4, <1>8, <2>1, <3>1
    <3> QED  BY <1>2, <1>40, <3>1, <3>2
  <2>2. CASE Answered(u) # {}
    <3>1. PICK i \in Answered(u), j \in Answered(u) :
             /\ history[u][i].latency = s.min /\ history[u][j].latency = s.max
             /\ \A k \in Answered(u) : history[u][k].latency \in s.min .. s.max
      BY <2>2 DEF SlotIsExact, s
    <3>2. CASE ~o.responded
      <4>1. t.min = s.min /\ t.max = s.max /\ Answered(u)' = Answered(u)
        BY <1>4, <1>5, <3>2
      <4> QED  BY <1>9, <3>1, <4>1
    <3>3. CASE o.responded
      <4>1. /\ t.min = IF o.latency < s.min THEN o.latency ELSE s.min
            /\ t.max = IF o.latency > s.max THEN o.latency ELSE s.max
            /\ Answered(u)' = Answered(u) \cup {n + 1}
        BY <1>4, <1>5, <1>8, <2>2, <3>3
      <4>2. /\ history'[u][n + 1].latency = o.latency
            /\ history'[u][i].latency = s.min /\ history'[u][j].latency = s.max
            /\ \A k \in Answered(u) : history'[u][k].latency \in s.min .. s.max
        BY <1>2, <1>9, <3>1
      <4>3. i \in Answered(u)' /\ j \in Answered(u)' /\ n + 1 \in Answered(u)'
        BY <3>1, <4>1
      <4>4. \E k \in Answered(u)' : history'[u][k].latency = t.min
        BY <4>1, <4>2, <4>3
      <4>5. \E k \in Answered(u)' : history'[u][k].latency = t.max
        BY <4>1, <4>2, <4>3
      <4>6. ASSUME NEW k \in Answered(u)'
            PROVE  history'[u][k].latency \in t.min .. t.max
        <5>0. /\ t.min <= s.min /\ t.min <= o.latency /\ t.min \in Nat
              /\ s.max <= t.max /\ o.latency <= t.max /\ t.max \in Nat
          BY <1>40, <4>1
        <5>1. CASE k = n + 1
          <6>1. history'[u][k].latency = o.latency
            BY <4>2, <5>1
          <6>2. o.latency \in t.min .. t.max
            BY <1>40, <5>0
          <6> QED  BY <6>1, <6>2
        <5>2. CASE k \in Answered(u)
          <6>1. history'[u][k].latency \in s.min .. s.max
            BY <4>2, <5>2
          <6>2. \A x \in s.min .. s.max : x \in t.min .. t.max
            BY <1>40, <5>0
          <6> QED  BY <6>1, <6>2
        <5>3. k \in Answered(u) \cup {n + 1}
          BY <4>1, <4>6
        <5> QED  BY <5>1, <5>2, <5>3
      <4> QED  BY <4>4, <4>5, <4>6
    <3> QED  BY <3>2, <3>3
  <2> QED  BY <2>1, <2>2
<1> DEFINE A == Answered(u)
           x == n + 1
           old == history[u]
           new == history'[u]
<1>12. /\ s.sum = LatencySum(old, A)
       /\ \A b \in Buckets : s.buckets[b] = Cardinality(InBucket(old, A, b))
  BY DEF SlotIsExact, s
<1>13. /\ t.sum = LatencySum(new, A')
       /\ \A b \in Buckets : t.buckets[b] = Cardinality(InBucket(new, A', b))
  <2>1. CASE ~o.responded
    <3>1. t.sum = s.sum /\ t.buckets = s.buckets /\ A' = A
      BY <1>4, <1>5, <2>1
    <3>2. \A i \in A : new[i] = old[i]
      BY <1>9
    <3> HIDE DEF A, old, new
    <3>3. /\ LatencySum(new, A) = LatencySum(old, A)
          /\ \A b \in Buckets : InBucket(new, A, b) = InBucket(old, A, b)
      BY <3>2, SameSamples
    <3> QED  BY <1>12, <3>1, <3>3
  <2>2. CASE o.responded
    <3>1. /\ t.sum = s.sum + o.latency
          /\ t.buckets = [s.buckets EXCEPT ![BucketIndex(o.latency)] = @ + 1]
          /\ A' = A \cup {x}
      BY <1>4, <1>5, <2>2
    <3>2. /\ IsFiniteSet(A) /\ x \notin A
          /\ \A i \in A : old[i].latency \in Nat /\ new[i] = old[i]
          /\ new[x].latency \in Nat /\ new[x].latency = o.latency
      BY <1>2, <1>40, <1>6, <1>9 DEF n
    <3>3. s.buckets \in [Buckets -> Nat]
      BY <1>1 DEF Tallies, Stats, s
    <3> HIDE DEF A, x, old, new
    <3>4. LatencySum(new, A \cup {x}) = LatencySum(old, A) + o.latency
      <4> DEFINE l == o.latency
      <4>1. l \in Nat /\ new[x].latency = l
        BY <3>2
      <4> HIDE DEF l
      <4>2. LatencySum(new, A \cup {x}) = LatencySum(old, A) + l
        BY <3>2, <4>1, OneMoreSample
      <4> QED  BY <4>2 DEF l
    <3>5. ASSUME NEW b \in Buckets
          PROVE  t.buckets[b] = Cardinality(InBucket(new, A \cup {x}, b))
      <4> DEFINE l == o.latency
      <4>1. l \in Nat /\ new[x].latency = l
        BY <3>2
      <4>2. t.buckets[b] = IF b = BucketIndex(l) THEN s.buckets[b] + 1 ELSE s.buckets[b]
        BY <3>1, <3>3
      <4> HIDE DEF l
      <4>3. Cardinality(InBucket(new, A \cup {x}, b))
              = IF b = BucketIndex(l) THEN Cardinality(InBucket(old, A, b)) + 1
                                      ELSE Cardinality(InBucket(old, A, b))
        BY <3>2, <4>1, OneMoreInBucket
      <4> QED  BY <1>12, <4>2, <4>3
    <3> QED  BY <1>12, <3>1, <3>4, <3>5
  <2> QED  BY <2>1, <2>2
<1> QED  BY <1>10, <1>11, <1>13 DEF SlotIsExact, t

\* A slot without a request is exact.
LEMMA EmptySlot ==
    ASSUME NEW u \in Users, stats[u] = NoStats, history[u] = <<>>
    PROVE  SlotIsExact(stats[u], u)
<1>1. Succeeded(u) = {} /\ Answered(u) = {} /\ Len(history[u]) = 0
  BY DEF Succeeded, Answered
<1>2. \A b \in Buckets : InBucket(history[u], {}, b) = {}
  BY <1>1 DEF InBucket
<1>3. LatencySum(history[u], {}) = 0
  BY NoSum DEF LatencySum
<1>4. /\ stats[u].total = 0 /\ stats[u].success = 0 /\ stats[u].latencyCount = 0
      /\ stats[u].sum = 0 /\ \A b \in Buckets : stats[u].buckets[b] = 0
  BY DEF NoStats, NoSamples
<1>5. Cardinality({}) = 0
  BY FS_EmptySet
<1> QED  BY <1>1, <1>2, <1>3, <1>4, <1>5 DEF SlotIsExact

LEMMA EmptySlotNext ==
    ASSUME NEW u \in Users, stats'[u] = NoStats, history'[u] = <<>>
    PROVE  (SlotIsExact(stats[u], u))'
<1>1. Succeeded(u)' = {} /\ Answered(u)' = {} /\ Len(history'[u]) = 0
  BY DEF Succeeded, Answered
<1>2. \A b \in Buckets : InBucket(history'[u], {}, b) = {}
  BY <1>1 DEF InBucket
<1>3. LatencySum(history'[u], {}) = 0
  BY NoSum DEF LatencySum
<1>4. /\ stats'[u].total = 0 /\ stats'[u].success = 0 /\ stats'[u].latencyCount = 0
      /\ stats'[u].sum = 0 /\ \A b \in Buckets : stats'[u].buckets[b] = 0
  BY DEF NoStats, NoSamples
<1>5. Cardinality({}) = 0
  BY FS_EmptySet
<1> QED  BY <1>1, <1>2, <1>3, <1>4, <1>5 DEF SlotIsExact

LEMMA SlotsInit == Init => TypeOK /\ SlotsAreExact
<1> SUFFICES ASSUME Init PROVE TypeOK /\ SlotsAreExact
  OBVIOUS
<1>1. NoStats \in Tallies
  BY DEF NoStats, NoSamples, Tallies, Stats
<1>2. TypeOK
  BY <1>1, LoadConstants DEF Init, TypeOK
<1>3. \A u \in Users : SlotIsExact(stats[u], u)
  BY EmptySlot DEF Init
<1> QED  BY <1>2, <1>3 DEF SlotsAreExact

\* The slots and the histories of the other users, or of all of them, stay.
LEMMA SlotStays ==
    ASSUME NEW u \in Users, SlotIsExact(stats[u], u),
           stats'[u] = stats[u], history'[u] = history[u]
    PROVE  (SlotIsExact(stats[u], u))'
<1>1. Succeeded(u)' = Succeeded(u) /\ Answered(u)' = Answered(u)
  BY DEF Succeeded, Answered
<1> QED  BY <1>1 DEF SlotIsExact

LEMMA SlotsNext == TypeOK /\ SlotsAreExact /\ [Next]_vars => (TypeOK /\ SlotsAreExact)'
<1> SUFFICES ASSUME TypeOK, SlotsAreExact, [Next]_vars PROVE TypeOK' /\ SlotsAreExact'
  OBVIOUS
<1>1. ASSUME UNCHANGED <<stats, history>> PROVE SlotsAreExact'
  BY <1>1, SlotStays DEF SlotsAreExact
<1>2. ASSUME NEW u \in Users, Send(u) \/ Finish(u) \/ ThinkEnds(u)
      PROVE  TypeOK' /\ SlotsAreExact'
  <2>1. /\ UNCHANGED <<thinkTime, stats, stopped, report, history, cutOff>>
        /\ \/ user' = [user EXCEPT ![u] = "waiting"] /\ Len(history[u]) < MaxRequests
           \/ user' = [user EXCEPT ![u] = "done"]
           \/ user' = [user EXCEPT ![u] = "loop"]
    BY <1>2 DEF Send, Finish, ThinkEnds, Goto
  <2>2. \A v \in Users : Len(history[v]) \in Nat
    BY DEF TypeOK
  <2>3. /\ user' \in [Users -> {"loop", "waiting", "thinking", "done"}]
        /\ \A v \in Users \ {u} : user'[v] = user[v]
        /\ user'[u] = "waiting" => Len(history[u]) < MaxRequests
    BY <2>1 DEF TypeOK
  <2>4. ASSUME NEW v \in Users
        PROVE  Len(history[v]) + (IF user'[v] = "waiting" THEN 1 ELSE 0) <= MaxRequests
    <3>1. Len(history[v]) + (IF user[v] = "waiting" THEN 1 ELSE 0) <= MaxRequests
      BY DEF TypeOK
    <3>2. CASE v = u /\ user'[v] = "waiting"
      <4>1. Len(history[v]) < MaxRequests /\ Len(history[v]) \in Nat
        BY <2>2, <2>3, <3>2
      <4> QED  BY <3>2, <4>1, LoadConstants
    <3>3. CASE v = u /\ user'[v] # "waiting"
      <4>1. Len(history[v]) \in Nat
        BY <2>2
      <4>2. Len(history[v]) <= MaxRequests
        <5>1. CASE user[v] = "waiting"
          <6>1. Len(history[v]) + 1 <= MaxRequests
            BY <3>1, <5>1
          <6> QED  BY <4>1, <6>1, LoadConstants
        <5>2. CASE user[v] # "waiting"
          <6>1. Len(history[v]) + 0 <= MaxRequests
            BY <3>1, <5>2
          <6> QED  BY <4>1, <6>1
        <5> QED  BY <5>1, <5>2
      <4> QED  BY <3>3, <4>1, <4>2
    <3>4. CASE v # u
      BY <2>3, <3>1, <3>4
    <3> QED  BY <3>2, <3>3, <3>4
  <2>5. TypeOK'
    BY <2>1, <2>3, <2>4 DEF TypeOK
  <2> QED  BY <1>1, <2>1, <2>5
<1>3. ASSUME NEW u \in Users, Respond(u) \/ Fails(u) PROVE TypeOK' /\ SlotsAreExact'
  <2>1. PICK o \in Outcome : EndRequest(u, o)
    <3>1. NoResponse \in Outcome /\ Responses \subseteq Outcome
      BY LoadConstants DEF NoResponse, Outcome
    <3> QED  BY <1>3, <3>1 DEF Respond, Fails
  <2>2. /\ user[u] = "waiting"
        /\ stats' = [stats EXCEPT ![u] = Record(@, o)]
        /\ history' = [history EXCEPT ![u] = Append(@, o)]
        /\ user' = [user EXCEPT ![u] = IF thinkTime THEN "thinking" ELSE "loop"]
        /\ UNCHANGED <<thinkTime, stopped, report>>
    BY <2>1 DEF EndRequest, Goto
  <2>3. Record(stats[u], o) \in Tallies
    BY RecordFields DEF TypeOK
  <2>4. cutOff' \in [Users -> Nat]
    BY <1>3 DEF Respond, Fails, TypeOK
  <2>5. /\ Append(history[u], o) \in Seq(Outcome)
        /\ Len(Append(history[u], o)) = Len(history[u]) + 1
        /\ Len(history[u]) + 1 <= MaxRequests /\ Len(history[u]) \in Nat
    BY <2>2 DEF TypeOK
  <2>6. TypeOK'
    <3>1. /\ stats' \in [Users -> Tallies] /\ history' \in [Users -> Seq(Outcome)]
          /\ user' \in [Users -> {"loop", "waiting", "thinking", "done"}]
      BY <2>2, <2>3, <2>5 DEF TypeOK
    <3>2. /\ Len(history'[u]) <= MaxRequests /\ user'[u] # "waiting" /\ Len(history'[u]) \in Nat
          /\ \A v \in Users \ {u} : history'[v] = history[v] /\ user'[v] = user[v]
      BY <2>2, <2>5 DEF TypeOK
    <3>3. ASSUME NEW v \in Users
          PROVE  Len(history'[v]) + (IF user'[v] = "waiting" THEN 1 ELSE 0) <= MaxRequests
      <4>1. Len(history[v]) + (IF user[v] = "waiting" THEN 1 ELSE 0) <= MaxRequests
        BY DEF TypeOK
      <4>2. CASE v = u
        BY <3>2, <4>2, LoadConstants
      <4>3. CASE v # u
        BY <3>2, <4>1, <4>3
      <4> QED  BY <4>2, <4>3
    <3> QED  BY <2>2, <2>4, <3>1, <3>3 DEF TypeOK
  <2>7. SlotsAreExact'
    <3>1. (SlotIsExact(stats[u], u))'
      BY <2>2, SlotGrows DEF SlotsAreExact
    <3>2. ASSUME NEW v \in Users \ {u} PROVE (SlotIsExact(stats[v], v))'
      <4>1. stats'[v] = stats[v] /\ history'[v] = history[v]
        BY <2>2 DEF TypeOK
      <4> QED  BY <4>1, SlotStays DEF SlotsAreExact
    <3> QED  BY <3>1, <3>2 DEF SlotsAreExact
  <2> QED  BY <2>6, <2>7
<1>4. ASSUME NEW s \in Shards, TakeOver(s) PROVE TypeOK' /\ SlotsAreExact'
  <2>1. /\ user' = [u \in Users |-> IF ShardOf[u] = s THEN "loop" ELSE user[u]]
        /\ stats' = [u \in Users |-> IF ShardOf[u] = s THEN NoStats ELSE stats[u]]
        /\ history' = [u \in Users |-> IF ShardOf[u] = s THEN <<>> ELSE history[u]]
        /\ cutOff' = [u \in Users |-> IF ShardOf[u] = s THEN 0 ELSE cutOff[u]]
        /\ stopped' = stopped \ {s}
        /\ UNCHANGED <<thinkTime, report>>
    BY <1>4 DEF TakeOver
  <2>2. NoStats \in Tallies /\ <<>> \in Seq(Outcome) /\ Len(<<>>) = 0
    BY DEF NoStats, NoSamples, Tallies, Stats
  <2>3. TypeOK'
    <3>1. /\ user' \in [Users -> {"loop", "waiting", "thinking", "done"}]
          /\ stats' \in [Users -> Tallies] /\ history' \in [Users -> Seq(Outcome)]
          /\ cutOff' \in [Users -> Nat] /\ stopped' \subseteq Shards
      BY <2>1, <2>2 DEF TypeOK
    <3>2. ASSUME NEW v \in Users
          PROVE  Len(history'[v]) + (IF user'[v] = "waiting" THEN 1 ELSE 0) <= MaxRequests
      <4>1. Len(history[v]) + (IF user[v] = "waiting" THEN 1 ELSE 0) <= MaxRequests
        BY DEF TypeOK
      <4>2. CASE ShardOf[v] = s
        BY <2>1, <2>2, <4>2, LoadConstants
      <4>3. CASE ShardOf[v] # s
        BY <2>1, <4>1, <4>3
      <4> QED  BY <4>2, <4>3
    <3> QED  BY <2>1, <3>1, <3>2 DEF TypeOK
  <2>4. ASSUME NEW u \in Users PROVE (SlotIsExact(stats[u], u))'
    <3>1. CASE ShardOf[u] = s
      <4>1. stats'[u] = NoStats /\ history'[u] = <<>>
        BY <2>1, <3>1
      <4> QED  BY <4>1, EmptySlotNext
    <3>2. CASE ShardOf[u] # s
      <4>1. stats'[u] = stats[u] /\ history'[u] = history[u]
        BY <2>1, <3>2
      <4> QED  BY <4>1, SlotStays DEF SlotsAreExact
    <3> QED  BY <3>1, <3>2
  <2> QED  BY <2>3, <2>4 DEF SlotsAreExact
<1>5. ASSUME NEW s \in Shards, Stop(s) \/ Report(s) \/ DeadLetter(s)
      PROVE  TypeOK' /\ SlotsAreExact'
  <2>1. /\ UNCHANGED <<thinkTime, user, stats, history, cutOff>>
        /\ stopped' \subseteq Shards /\ DOMAIN report' = Shards
    BY <1>5 DEF Stop, Report, DeadLetter, TypeOK
  <2>2. TypeOK'
    BY <2>1 DEF TypeOK
  <2> QED  BY <1>1, <2>1, <2>2
<1>6. CASE AggregateRun \/ UNCHANGED vars
  <2>1. UNCHANGED <<thinkTime, user, stats, stopped, report, history, cutOff>>
    BY <1>6 DEF AggregateRun, vars
  <2>2. TypeOK'
    BY <2>1 DEF TypeOK
  <2> QED  BY <1>1, <2>1, <2>2
<1> QED  BY <1>2, <1>3, <1>4, <1>5, <1>6 DEF Next

\* Every slot is well formed: its successes and failures add up, and it has no more
\* samples than requests (record).
THEOREM LoadTypeOK == Spec => []TypeOK
<1>1. Spec => [](TypeOK /\ SlotsAreExact)
  BY SlotsInit, SlotsNext, PTL DEF Spec
<1> QED  BY <1>1, PTL

\* However requests, the end of the context and takeovers fall, a user's slot is what
\* its requests came to, with the extremes of its samples (record).
THEOREM LoadSlotsAreExact == Spec => []SlotsAreExact
<1>1. Spec => [](TypeOK /\ SlotsAreExact)
  BY SlotsInit, SlotsNext, PTL DEF Spec
<1> QED  BY <1>1, PTL

LEMMA ResultInit == Init => ResultIsFinal
BY DEF Init, ResultIsFinal

\* When there is a result no shard is alive, so no report is left to change.
LEMMA ResultNext == ResultIsFinal /\ [Next]_vars => ResultIsFinal'
<1> SUFFICES ASSUME ResultIsFinal, [Next]_vars, result' # NoReport
             PROVE  /\ \A s \in Shards : report'[s] # NoReport
                    /\ result' = Aggregate(report', WithMetrics')
  BY DEF ResultIsFinal
<1>1. CASE AggregateRun
  BY <1>1 DEF AggregateRun, WithMetrics
<1>2. ASSUME UNCHANGED <<report, result>>
      PROVE  /\ \A s \in Shards : report'[s] # NoReport
             /\ result' = Aggregate(report', WithMetrics')
  BY <1>2 DEF ResultIsFinal, WithMetrics
<1>3. ASSUME NEW u \in Users, Send(u) \/ Finish(u) \/ Respond(u) \/ Fails(u) \/ ThinkEnds(u)
      PROVE  UNCHANGED <<report, result>>
  BY <1>3 DEF Send, Finish, Respond, Fails, EndRequest, ThinkEnds
<1>4. ASSUME NEW s \in Shards, Stop(s) \/ TakeOver(s) PROVE UNCHANGED <<report, result>>
  BY <1>4 DEF Stop, TakeOver
<1>5. ASSUME NEW s \in Shards, Report(s) \/ DeadLetter(s) PROVE FALSE
  <2>1. report[s] = NoReport /\ result' = result
    BY <1>5 DEF Report, DeadLetter, Alive
  <2> QED  BY <2>1 DEF ResultIsFinal
<1>6. CASE UNCHANGED vars
  BY <1>2, <1>6 DEF vars
<1> QED  BY <1>1, <1>2, <1>3, <1>4, <1>5, <1>6 DEF Next

\* The run's result is never older than what its shards reported (aggregateRun behind
\* the completion barrier).
THEOREM LoadResultIsFinal == Spec => []ResultIsFinal
  BY ResultInit, ResultNext, PTL DEF Spec

\* All of it together, for every number of shards, users and requests (runVirtualUser,
\* record, mergeStats, aggregateRun).
THEOREM LoadKeepsInv == Spec => []RunInv
<1>1. TypeOK /\ SlotsAreExact /\ LoadInv /\ ResultIsFinal => RunInv
  BY DEF RunInv
<1> QED  BY <1>1, LoadTypeOK, LoadSlotsAreExact, LoadInvariant, LoadResultIsFinal, PTL

-----------------------------------------------------------------------------
\* What the run shows.  The users whose tallies are in the result, and the sums over
\* shards as sums over users.
Reporting == {u \in Users : ShardOf[u] \in WithMetrics}

LEMMA Sets ==
    /\ IsFiniteSet(Reporting) /\ IsFiniteSet(WithMetrics)
    /\ WithMetrics \subseteq Shards /\ Reporting \subseteq Users
    /\ \A u \in Reporting : ShardOf[u] \in WithMetrics
    /\ \A s \in WithMetrics : UsersOf(s) \subseteq Reporting /\ IsFiniteSet(UsersOf(s))
<1>1. IsFiniteSet(Users) /\ IsFiniteSet(Shards)
  BY LoadConstants
<1>2. /\ WithMetrics \subseteq Shards /\ Reporting \subseteq Users
      /\ \A u \in Reporting : ShardOf[u] \in WithMetrics
      /\ \A s \in WithMetrics : UsersOf(s) \subseteq Reporting /\ UsersOf(s) \subseteq Users
  BY DEF WithMetrics, Reporting, UsersOf
<1> QED  BY <1>1, <1>2, FS_Subset

LEMMA SumOverShards ==
    ASSUME NEW v, \A u \in Users : v[u] \in Nat,
           NEW h, \A s \in WithMetrics : h[s] = SumFunctionOnSet(v, UsersOf(s))
    PROVE  SumFunctionOnSet(h, WithMetrics) = SumFunctionOnSet(v, Reporting)
<1>1. \A s \in WithMetrics : Group(Reporting, ShardOf, s) = UsersOf(s)
  BY DEF Group, Reporting, UsersOf
<1>2. \A u \in Reporting : v[u] \in Int
  BY Sets
<1>3. \A s \in WithMetrics : h[s] = SumFunctionOnSet(v, Group(Reporting, ShardOf, s))
  BY <1>1
<1> QED  BY <1>2, <1>3, Sets, SumByGroup

\* A column of the users' tallies.
Column(field) == [u \in Users |-> stats[u][field]]

LEMMA ColumnOfShard ==
    ASSUME NEW s \in WithMetrics, NEW field, \A u \in Users : stats[u][field] \in Nat
    PROVE  Total(SlotsOf(s), UsersOf(s), field) = SumFunctionOnSet(Column(field), UsersOf(s))
<1> DEFINE f == [u \in UsersOf(s) |-> SlotsOf(s)[u][field]]
<1>1. /\ DOMAIN f = UsersOf(s)
      /\ \A u \in UsersOf(s) : f[u] \in Int /\ f[u] = Column(field)[u]
  BY DEF SlotsOf, UsersOf, Column
<1>2. Total(SlotsOf(s), UsersOf(s), field) = SumFunctionOnSet(f, UsersOf(s))
  BY <1>1 DEF Total, SumFunction
<1> HIDE DEF f
<1> QED  BY <1>1, <1>2, Sets, SumSame

LEMMA ColumnOfRun ==
    ASSUME NEW field, \A u \in Users : stats[u][field] \in Nat,
           NEW h, \A s \in WithMetrics : h[s] = Total(SlotsOf(s), UsersOf(s), field)
    PROVE  SumFunctionOnSet(h, WithMetrics) = SumFunctionOnSet(Column(field), Reporting)
<1>1. \A u \in Users : Column(field)[u] \in Nat
  BY DEF Column
<1>2. \A s \in WithMetrics : h[s] = SumFunctionOnSet(Column(field), UsersOf(s))
  BY ColumnOfShard
<1> QED  BY <1>1, <1>2, SumOverShards

\* The requests of one kind: of each reporting user u those numbered C[u].
LEMMA CountRequests ==
    ASSUME NEW C \in [Reporting -> SUBSET (1 .. MaxRequests)],
           NEW Q, Q = {q \in Reporting \X (1 .. MaxRequests) : q[2] \in C[q[1]]},
           NEW v, \A u \in Reporting : v[u] = Cardinality(C[u])
    PROVE  SumFunctionOnSet(v, Reporting) = Cardinality(Q) /\ IsFiniteSet(Q)
<1>1. IsFiniteSet(1 .. MaxRequests)
  BY LoadConstants, FS_Interval
<1> DEFINE Y == 1 .. MaxRequests
<1> HIDE DEF Y
<1>2. IsFiniteSet(Y) /\ C \in [Reporting -> SUBSET Y]
      /\ Q = {q \in Reporting \X Y : q[2] \in C[q[1]]}
  BY <1>1 DEF Y
<1> QED  BY <1>2, Sets, CountByRow

\* What each user's history says of its own requests.
LEMMA Histories ==
    ASSUME TypeOK, NEW u \in Users
    PROVE  /\ Len(history[u]) \in 0 .. MaxRequests /\ DOMAIN history[u] = 1 .. Len(history[u])
           /\ Succeeded(u) \subseteq 1 .. Len(history[u])
           /\ Answered(u) \subseteq 1 .. Len(history[u])
           /\ 1 .. Len(history[u]) \subseteq 1 .. MaxRequests
           /\ \A i \in 1 .. Len(history[u]) : history[u][i] \in Outcome
           /\ \A i \in Answered(u) : history[u][i].latency \in Nat
<1>1. /\ history[u] \in Seq(Outcome)
      /\ Len(history[u]) + (IF user[u] = "waiting" THEN 1 ELSE 0) <= MaxRequests
  BY DEF TypeOK
<1>2. /\ Len(history[u]) \in Nat /\ DOMAIN history[u] = 1 .. Len(history[u])
      /\ \A i \in 1 .. Len(history[u]) : history[u][i] \in Outcome
  BY <1>1
<1>3. Len(history[u]) <= MaxRequests
  <2>1. CASE user[u] = "waiting"
    <3>1. Len(history[u]) + 1 <= MaxRequests
      BY <1>1, <2>1
    <3> QED  BY <1>2, <3>1, LoadConstants
  <2>2. CASE user[u] # "waiting"
    <3>1. Len(history[u]) + 0 <= MaxRequests
      BY <1>1, <2>2
    <3> QED  BY <1>2, <3>1
  <2> QED  BY <2>1, <2>2
<1> HIDE DEF TypeOK
<1>4. 1 .. Len(history[u]) \subseteq 1 .. MaxRequests
  BY <1>2, <1>3, LoadConstants
<1>5. Succeeded(u) \subseteq 1 .. Len(history[u]) /\ Answered(u) \subseteq 1 .. Len(history[u])
  BY <1>2 DEF Succeeded, Answered
<1>6. \A i \in Answered(u) : history[u][i].latency \in Nat
  BY <1>2, <1>5 DEF Outcome
<1> QED  BY <1>2, <1>3, <1>4, <1>5, <1>6, LoadConstants

LEMMA TalliesAreNat ==
    ASSUME TypeOK, NEW u \in Users
    PROVE  /\ stats[u].total \in Nat /\ stats[u].success \in Nat /\ stats[u].failed \in Nat
           /\ stats[u].latencyCount \in Nat /\ stats[u].sum \in Nat
           /\ stats[u].min \in Nat /\ stats[u].max \in Nat
           /\ stats[u].buckets \in [Buckets -> Nat]
           /\ stats[u].total = stats[u].success + stats[u].failed
BY DEF TypeOK, Tallies, Stats

\* The sums over the users' tallies are numbers of requests.
LEMMA CountedRequests ==
    ASSUME TypeOK, SlotsAreExact
    PROVE  /\ SumFunctionOnSet(Column("total"), Reporting) = Cardinality(Requests)
           /\ SumFunctionOnSet(Column("success"), Reporting)
                = Cardinality({q \in Requests : OutcomeOf(q).success})
           /\ SumFunctionOnSet(Column("latencyCount"), Reporting) = Cardinality(Sampled)
           /\ IsFiniteSet(Requests) /\ IsFiniteSet(Sampled)
<1>s. \A u \in Reporting : /\ Column("total")[u] = Len(history[u])
                           /\ Column("success")[u] = Cardinality(Succeeded(u))
                           /\ Column("latencyCount")[u] = Cardinality(Answered(u))
  BY Sets DEF SlotsAreExact, SlotIsExact, Column
<1>h. \A u \in Reporting :
         /\ DOMAIN history[u] = 1 .. Len(history[u]) /\ Len(history[u]) \in Nat
         /\ 1 .. Len(history[u]) \subseteq 1 .. MaxRequests
         /\ Succeeded(u) \subseteq 1 .. Len(history[u])
         /\ Answered(u) \subseteq 1 .. Len(history[u])
  BY Histories, Sets
<1> DEFINE C == [u \in Reporting |-> 1 .. Len(history[u])]
           D == [u \in Reporting |-> Succeeded(u)]
           E == [u \in Reporting |-> Answered(u)]
<1>c. /\ C \in [Reporting -> SUBSET (1 .. MaxRequests)]
      /\ D \in [Reporting -> SUBSET (1 .. MaxRequests)]
      /\ E \in [Reporting -> SUBSET (1 .. MaxRequests)]
  BY <1>h
<1>r. Requests = {q \in Reporting \X (1 .. MaxRequests) : q[2] <= Len(history[q[1]])}
  BY DEF Requests, Reporting
<1>1. Requests = {q \in Reporting \X (1 .. MaxRequests) : q[2] \in C[q[1]]}
  BY <1>r, <1>h, LoadConstants
<1>2. {q \in Requests : OutcomeOf(q).success}
         = {q \in Reporting \X (1 .. MaxRequests) : q[2] \in D[q[1]]}
  BY <1>h, <1>r DEF OutcomeOf, Succeeded
<1>3. Sampled = {q \in Reporting \X (1 .. MaxRequests) : q[2] \in E[q[1]]}
  BY <1>h, <1>r DEF Sampled, OutcomeOf, Answered
<1>4. \A u \in Reporting : Column("total")[u] = Cardinality(C[u])
  <2>1. ASSUME NEW u \in Reporting PROVE Cardinality(1 .. Len(history[u])) = Len(history[u])
    BY <1>h, FS_Interval
  <2> QED  BY <2>1, <1>s
<1>5. \A u \in Reporting : /\ Column("success")[u] = Cardinality(D[u])
                           /\ Column("latencyCount")[u] = Cardinality(E[u])
  BY <1>s
<1> HIDE DEF C, D, E
<1> DEFINE S == {q \in Requests : OutcomeOf(q).success}
<1> HIDE DEF S
<1>6. SumFunctionOnSet(Column("total"), Reporting) = Cardinality(Requests) /\ IsFiniteSet(Requests)
  BY <1>1, <1>4, <1>c, CountRequests
<1>7. SumFunctionOnSet(Column("success"), Reporting) = Cardinality(S)
  <2>1. S = {q \in Reporting \X (1 .. MaxRequests) : q[2] \in D[q[1]]}
    BY <1>2 DEF S
  <2> QED  BY <1>5, <1>c, <2>1, CountRequests
<1>8. SumFunctionOnSet(Column("latencyCount"), Reporting) = Cardinality(Sampled)
      /\ IsFiniteSet(Sampled)
  BY <1>3, <1>5, <1>c, CountRequests
<1> QED  BY <1>6, <1>7, <1>8 DEF S

\* The latencies of all samples, added up user by user.
LEMMA SummedLatencies ==
    ASSUME TypeOK, SlotsAreExact
    PROVE  SumFunctionOnSet(Column("sum"), Reporting)
             = SumFunction([q \in Sampled |-> OutcomeOf(q).latency])
<1> DEFINE w == [q \in Sampled |-> OutcomeOf(q).latency]
           C == [u \in Reporting |-> Answered(u)]
           Y == 1 .. MaxRequests
<1>h. \A u \in Reporting :
         /\ Len(history[u]) \in Nat /\ 1 .. Len(history[u]) \subseteq 1 .. MaxRequests
         /\ Answered(u) \subseteq 1 .. Len(history[u])
         /\ DOMAIN history[u] = 1 .. Len(history[u])
         /\ \A i \in Answered(u) : history[u][i].latency \in Nat
  BY Histories, Sets
<1>r. Requests = {q \in Reporting \X (1 .. MaxRequests) : q[2] <= Len(history[q[1]])}
  BY DEF Requests, Reporting
<1>1. Sampled = {q \in Reporting \X Y : q[2] \in C[q[1]]}
  BY <1>h, <1>r DEF Sampled, OutcomeOf, Answered
<1>2. C \in [Reporting -> SUBSET Y] /\ IsFiniteSet(Y)
  BY <1>h, LoadConstants, FS_Interval
<1>3. \A q \in Sampled : w[q] \in Int
  BY <1>h, <1>1 DEF OutcomeOf
<1>4. ASSUME NEW u \in Reporting
      PROVE  Column("sum")[u] = SumFunctionOnSet([i \in C[u] |-> w[<<u, i>>]], C[u])
  <2> DEFINE f == [i \in Answered(u) |-> history[u][i].latency]
             g == [i \in C[u] |-> w[<<u, i>>]]
  <2>1. C[u] = Answered(u)
    OBVIOUS
  <2>2. ASSUME NEW i \in Answered(u) PROVE <<u, i>> \in Sampled /\ w[<<u, i>>] = history[u][i].latency
    <3>1. <<u, i>> \in Reporting \X Y /\ i \in C[u]
      BY <1>h
    <3>2. <<u, i>> \in Sampled
      BY <1>1, <3>1
    <3> QED  BY <3>2 DEF OutcomeOf
  <2>3. f = g
    BY <2>1, <2>2
  <2>4. Column("sum")[u] = LatencySum(history[u], Answered(u))
    BY Sets DEF SlotsAreExact, SlotIsExact, Column
  <2>5. LatencySum(history[u], Answered(u)) = SumFunctionOnSet(f, Answered(u))
    BY DEF LatencySum, SumFunction
  <2> HIDE DEF f, g
  <2>6. Column("sum")[u] = SumFunctionOnSet(g, C[u])
    BY <2>1, <2>3, <2>4, <2>5
  <2> QED  BY <2>6 DEF g
<1>5. DOMAIN w = Sampled
  OBVIOUS
<1> HIDE DEF w, C, Y
<1>6. \A u \in Reporting :
         Column("sum")[u] = SumFunctionOnSet([i \in C[u] |-> w[<<u, i>>]], C[u])
  BY <1>4
<1>7. SumFunctionOnSet(Column("sum"), Reporting) = SumFunctionOnSet(w, Sampled)
  BY <1>1, <1>2, <1>3, <1>6, Sets, SumByRow
<1> QED  BY <1>5, <1>7 DEF w, SumFunction

-----------------------------------------------------------------------------
\* The fields of a report and of the aggregate.
LEMMA MergedFields ==
    ASSUME ReportedIsFinal, NEW s \in WithMetrics
    PROVE  /\ report[s]["total"] = Total(SlotsOf(s), UsersOf(s), "total")
           /\ report[s]["success"] = Total(SlotsOf(s), UsersOf(s), "success")
           /\ report[s]["failed"] = Total(SlotsOf(s), UsersOf(s), "failed")
           /\ report[s]["latencyCount"] = Total(SlotsOf(s), UsersOf(s), "latencyCount")
           /\ report[s].avg.num = Total(SlotsOf(s), UsersOf(s), "sum")
           /\ report[s].avg.den = Total(SlotsOf(s), UsersOf(s), "latencyCount")
<1>1. report[s] = MergeStats(SlotsOf(s)) /\ DOMAIN SlotsOf(s) = UsersOf(s)
  BY DEF ReportedIsFinal, SlotsOf
<1> QED  BY <1>1 DEF MergeStats, Combine

LEMMA AggregatedFields ==
    ASSUME result = Aggregate(report, WithMetrics), NEW h,
           NEW field \in {"total", "success", "failed", "latencyCount"},
           h = [s \in WithMetrics |-> report[s][field]]
    PROVE  result[field] = SumFunctionOnSet(h, WithMetrics)
<1>1. result[field] = Total(report, WithMetrics, field)
  BY DEF Aggregate
<1> QED  BY <1>1 DEF Total, SumFunction

\* Summed over the shards, then over the users: a column of the result.
LEMMA ColumnShown ==
    ASSUME TypeOK, ReportedIsFinal, result = Aggregate(report, WithMetrics),
           NEW field \in {"total", "success", "failed", "latencyCount"}
    PROVE  result[field] = SumFunctionOnSet(Column(field), Reporting)
<1> DEFINE h == [s \in WithMetrics |-> report[s][field]]
<1>1. \A s \in WithMetrics : h[s] = Total(SlotsOf(s), UsersOf(s), field)
  BY MergedFields
<1>2. result[field] = SumFunctionOnSet(h, WithMetrics)
  BY AggregatedFields
<1>3. \A u \in Users : stats[u][field] \in Nat
  BY TalliesAreNat
<1> HIDE DEF h
<1> QED  BY <1>1, <1>2, <1>3, ColumnOfRun

LEMMA TotalsExact ==
    ASSUME TypeOK, SlotsAreExact, ReportedIsFinal, ResultIsFinal
    PROVE  TotalsAreExact
<1> SUFFICES ASSUME result # NoReport
             PROVE  /\ result.total = Cardinality(Requests)
                    /\ result.success = Cardinality({q \in Requests : OutcomeOf(q).success})
                    /\ result.failed = result.total - result.success
                    /\ result.latencyCount = Cardinality(Sampled)
  BY DEF TotalsAreExact
<1>1. result = Aggregate(report, WithMetrics)
  BY DEF ResultIsFinal
<1>2. /\ result["total"] = SumFunctionOnSet(Column("total"), Reporting)
      /\ result["success"] = SumFunctionOnSet(Column("success"), Reporting)
      /\ result["failed"] = SumFunctionOnSet(Column("failed"), Reporting)
      /\ result["latencyCount"] = SumFunctionOnSet(Column("latencyCount"), Reporting)
  BY <1>1, ColumnShown
<1>3. SumFunctionOnSet(Column("total"), Reporting)
        = SumFunctionOnSet(Column("success"), Reporting)
            + SumFunctionOnSet(Column("failed"), Reporting)
  <2>1. \A u \in Reporting :
           /\ Column("success")[u] \in Int /\ Column("failed")[u] \in Int
           /\ Column("total")[u] = Column("success")[u] + Column("failed")[u]
    BY TalliesAreNat, Sets DEF Column
  <2> QED  BY <2>1, Sets, SumPlus
<1>4. /\ SumFunctionOnSet(Column("success"), Reporting) \in Int
      /\ SumFunctionOnSet(Column("failed"), Reporting) \in Int
  <2>1. \A u \in Reporting : Column("success")[u] \in Int /\ Column("failed")[u] \in Int
    BY TalliesAreNat, Sets DEF Column
  <2> QED  BY <2>1, Sets, SumInt
<1>5. result.failed = result.total - result.success
  BY <1>2, <1>3, <1>4
<1> QED  BY <1>2, <1>5, CountedRequests

\* What the run shows as sent, succeeded, failed and measured is what was sent,
\* succeeded, failed and was measured, each request once, for every number of shards,
\* users and requests (record, mergeStats, aggregateRun).
THEOREM LoadTotalsAreExact == Spec => []TotalsAreExact
<1>1. TypeOK /\ SlotsAreExact /\ LoadInv /\ ResultIsFinal => TotalsAreExact
  BY TotalsExact DEF LoadInv
<1> QED  BY <1>1, LoadTypeOK, LoadSlotsAreExact, LoadInvariant, LoadResultIsFinal, PTL

-----------------------------------------------------------------------------
\* The average.

\* A user has samples or its slot is as it was.
LEMMA SamplesOfUser ==
    ASSUME TypeOK, SlotsAreExact, NEW u \in Users
    PROVE  /\ stats[u].latencyCount = 0 <=> Answered(u) = {}
           /\ stats[u].latencyCount = 0 => stats[u].sum = 0
<1>1. IsFiniteSet(Answered(u))
  <2>1. Answered(u) \subseteq 1 .. Len(history[u]) /\ Len(history[u]) \in Nat
    BY Histories
  <2>2. IsFiniteSet(1 .. Len(history[u]))
    BY <2>1, FS_Interval
  <2> QED  BY <2>1, <2>2, FS_Subset
<1>2. /\ stats[u].latencyCount = Cardinality(Answered(u))
      /\ stats[u].sum = LatencySum(history[u], Answered(u))
  BY DEF SlotsAreExact, SlotIsExact
<1>3. Cardinality(Answered(u)) = 0 <=> Answered(u) = {}
  BY <1>1, FS_EmptySet
<1>4. ASSUME Answered(u) = {} PROVE LatencySum(history[u], Answered(u)) = 0
  <2> DEFINE f == [i \in Answered(u) |-> history[u][i].latency]
  <2>1. DOMAIN f = {}
    BY <1>4
  <2>2. LatencySum(history[u], Answered(u)) = SumFunction(f)
    BY DEF LatencySum
  <2> HIDE DEF f
  <2> QED  BY <2>1, <2>2, NoSum
<1> QED  BY <1>2, <1>3, <1>4

\* A shard reports samples exactly if one of its users has some; if not, its average
\* is 0 / 0.
LEMMA SamplesOfShard ==
    ASSUME TypeOK, SlotsAreExact, ReportedIsFinal, NEW s \in WithMetrics
    PROVE  /\ report[s].latencyCount \in Nat /\ report[s].avg.num \in Nat
           /\ report[s].avg.den = report[s].latencyCount
           /\ report[s].latencyCount > 0 <=> \E u \in UsersOf(s) : stats[u].latencyCount > 0
           /\ report[s].latencyCount = 0 => report[s].avg.num = 0
<1> DEFINE c == Column("latencyCount")
           d == Column("sum")
           U == UsersOf(s)
<1>1. /\ report[s].latencyCount = Total(SlotsOf(s), UsersOf(s), "latencyCount")
      /\ report[s].avg.num = Total(SlotsOf(s), UsersOf(s), "sum")
      /\ report[s].avg.den = Total(SlotsOf(s), UsersOf(s), "latencyCount")
  BY MergedFields
<1>2. /\ \A u \in Users : stats[u]["latencyCount"] \in Nat
      /\ \A u \in Users : stats[u]["sum"] \in Nat
  BY TalliesAreNat
<1>3. /\ Total(SlotsOf(s), UsersOf(s), "latencyCount") = SumFunctionOnSet(c, U)
      /\ Total(SlotsOf(s), UsersOf(s), "sum") = SumFunctionOnSet(d, U)
  BY <1>2, ColumnOfShard
<1>4. /\ IsFiniteSet(U) /\ U \subseteq Users
      /\ \A u \in U : /\ c[u] \in Nat /\ d[u] \in Nat
                      /\ c[u] = stats[u].latencyCount /\ d[u] = stats[u].sum
  BY <1>2, Sets DEF Column, UsersOf
<1>5. \A u \in U : c[u] = 0 => d[u] = 0
  BY <1>4, SamplesOfUser
<1>6. U = UsersOf(s)
  OBVIOUS
<1> HIDE DEF c, d, U
<1>7. SumFunctionOnSet(c, U) \in Nat /\ SumFunctionOnSet(d, U) \in Nat
  BY <1>4, SumNat
<1>8. ASSUME SumFunctionOnSet(c, U) = 0
      PROVE  (\A u \in U : c[u] = 0) /\ SumFunctionOnSet(d, U) = 0
  <2>1. \A u \in U : c[u] = 0
    BY <1>4, <1>8, SumIsZero
  <2>2. \A u \in U : d[u] = 0
    BY <1>5, <2>1
  <2>3. SumFunctionOnSet(d, U) = 0 * Cardinality(U)
    BY <1>4, <2>2, SumConstant
  <2> QED  BY <1>4, <2>1, <2>3, FS_CardinalityType
<1>9. ASSUME \A u \in U : c[u] = 0 PROVE SumFunctionOnSet(c, U) = 0
  <2>1. SumFunctionOnSet(c, U) = 0 * Cardinality(U)
    BY <1>4, <1>9, SumConstant
  <2> QED  BY <1>4, <2>1, FS_CardinalityType
<1> QED  BY <1>1, <1>3, <1>4, <1>6, <1>7, <1>8, <1>9

LEMMA AverageExact ==
    ASSUME TypeOK, SlotsAreExact, ReportedIsFinal, ResultIsFinal
    PROVE  AverageIsWeighted
<1> SUFFICES ASSUME result # NoReport
             PROVE  /\ result.avg.den = Cardinality(Sampled)
                    /\ result.avg.num = SumFunction([q \in Sampled |-> OutcomeOf(q).latency])
  BY DEF AverageIsWeighted
<1> DEFINE P == {s \in WithMetrics : report[s].latencyCount > 0}
           w == [s \in P |-> (report[s].avg.num * report[s].latencyCount) \div report[s].avg.den]
           h == [s \in WithMetrics |-> report[s].avg.num]
<1>1. result = Aggregate(report, WithMetrics)
  BY DEF ResultIsFinal
<1>2. result.avg = WeightedAverage(report, WithMetrics)
  BY <1>1 DEF Aggregate
<1>3. /\ result.avg.den = Total(report, WithMetrics, "latencyCount")
      /\ result.avg.num = SumFunction(w)
  BY <1>2 DEF WeightedAverage
<1>4. result.avg.den = Cardinality(Sampled)
  <2>1. result["latencyCount"] = Total(report, WithMetrics, "latencyCount")
    BY <1>1 DEF Aggregate
  <2>2. result["latencyCount"] = SumFunctionOnSet(Column("latencyCount"), Reporting)
    BY <1>1, ColumnShown
  <2> QED  BY <1>3, <2>1, <2>2, CountedRequests
<1>5. \A s \in WithMetrics : h[s] \in Nat /\ (s \notin P => h[s] = 0)
  BY SamplesOfShard
<1>6. ASSUME NEW s \in P PROVE w[s] = h[s]
  <2> DEFINE a == report[s].avg.num
             n == report[s].latencyCount
  <2>1. a \in Nat /\ n \in Nat /\ n > 0 /\ report[s].avg.den = n
    BY SamplesOfShard
  <2>2. w[s] = (a * n) \div n /\ h[s] = a
    BY <2>1
  <2> HIDE DEF a, n, w, h
  <2> QED  BY <2>1, <2>2
<1>7. P \subseteq WithMetrics /\ IsFiniteSet(P) /\ DOMAIN w = P
  <2>1. P \subseteq WithMetrics /\ DOMAIN w = P
    OBVIOUS
  <2> HIDE DEF P
  <2> QED  BY <2>1, Sets, FS_Subset
<1>8. \A s \in WithMetrics : h[s] = Total(SlotsOf(s), UsersOf(s), "sum")
  BY MergedFields
<1> HIDE DEF P, w, h
<1>9. SumFunction(w) = SumFunctionOnSet(h, P)
  <2>1. \A s \in P : w[s] \in Int /\ w[s] = h[s]
    BY <1>5, <1>6, <1>7
  <2>2. SumFunction(w) = SumFunctionOnSet(w, P)
    BY <1>7 DEF SumFunction
  <2> QED  BY <1>7, <2>1, <2>2, SumSame
<1>10. SumFunctionOnSet(h, P) = SumFunctionOnSet(h, WithMetrics)
  BY <1>5, <1>7, Sets, SumSupport
<1>11. SumFunctionOnSet(h, WithMetrics) = SumFunctionOnSet(Column("sum"), Reporting)
  <2>1. \A u \in Users : stats[u]["sum"] \in Nat
    BY TalliesAreNat
  <2> QED  BY <1>8, <2>1, ColumnOfRun
<1> QED  BY <1>3, <1>4, <1>9, <1>10, <1>11, SummedLatencies

\* The average of the run is that of all samples, whichever shards they fell into: the
\* shards' averages, weighted by what they were taken of, add up to it
\* (executeShard's LatencyCount, aggregateRun).
THEOREM LoadAverageIsWeighted == Spec => []AverageIsWeighted
<1>1. TypeOK /\ SlotsAreExact /\ LoadInv /\ ResultIsFinal => AverageIsWeighted
  BY AverageExact DEF LoadInv
<1> QED  BY <1>1, LoadTypeOK, LoadSlotsAreExact, LoadInvariant, LoadResultIsFinal, PTL

-----------------------------------------------------------------------------
\* The extremes.

\* A sample is a request of a reporting user that has one.
LEMMA SampleOf ==
    ASSUME TypeOK
    PROVE  /\ \A q \in Sampled : /\ q[1] \in Reporting /\ q[2] \in Answered(q[1])
                                 /\ OutcomeOf(q).latency = history[q[1]][q[2]].latency
                                 /\ OutcomeOf(q).latency \in Nat
           /\ \A u \in Reporting : \A i \in Answered(u) :
                 <<u, i>> \in Sampled /\ OutcomeOf(<<u, i>>).latency = history[u][i].latency
<1>h. \A u \in Reporting :
         /\ Len(history[u]) \in Nat /\ 1 .. Len(history[u]) \subseteq 1 .. MaxRequests
         /\ Answered(u) \subseteq 1 .. Len(history[u])
         /\ DOMAIN history[u] = 1 .. Len(history[u])
         /\ \A i \in Answered(u) : history[u][i].latency \in Nat
  BY Histories, Sets
<1>r. Requests = {q \in Reporting \X (1 .. MaxRequests) : q[2] <= Len(history[q[1]])}
  BY DEF Requests, Reporting
<1>1. Sampled = {q \in Reporting \X (1 .. MaxRequests) : q[2] \in Answered(q[1])}
  BY <1>h, <1>r DEF Sampled, OutcomeOf, Answered
<1>2. ASSUME NEW q \in Sampled
      PROVE  /\ q[1] \in Reporting /\ q[2] \in Answered(q[1])
             /\ OutcomeOf(q).latency = history[q[1]][q[2]].latency
             /\ OutcomeOf(q).latency \in Nat
  <2>1. q[1] \in Reporting /\ q[2] \in Answered(q[1])
    BY <1>1
  <2> QED  BY <1>h, <2>1 DEF OutcomeOf
<1>3. ASSUME NEW u \in Reporting, NEW i \in Answered(u)
      PROVE  <<u, i>> \in Sampled /\ OutcomeOf(<<u, i>>).latency = history[u][i].latency
  <2>1. <<u, i>> \in Reporting \X (1 .. MaxRequests)
    BY <1>h
  <2>2. <<u, i>> \in Sampled
    BY <1>1, <2>1
  <2> QED  BY <2>2 DEF OutcomeOf
<1> QED  BY <1>2, <1>3

\* A user with samples: its extremes are latencies of it, and enclose all of them.
LEMMA ExtremesOfUser ==
    ASSUME TypeOK, SlotsAreExact, NEW u \in Reporting
    PROVE  /\ stats[u].min \in Nat /\ stats[u].max \in Nat
           /\ stats[u].latencyCount > 0 <=> \E q \in Sampled : q[1] = u
           /\ stats[u].latencyCount > 0 =>
                 stats[u].min \in Latencies /\ stats[u].max \in Latencies
           /\ \A q \in Sampled : q[1] = u =>
                 stats[u].min <= OutcomeOf(q).latency /\ OutcomeOf(q).latency <= stats[u].max
<1>1. /\ stats[u].min \in Nat /\ stats[u].max \in Nat /\ stats[u].latencyCount \in Nat
      /\ stats[u].latencyCount = 0 <=> Answered(u) = {}
  BY TalliesAreNat, SamplesOfUser, Sets
<1>2. Answered(u) # {} =>
         /\ \E i \in Answered(u) : history[u][i].latency = stats[u].min
         /\ \E i \in Answered(u) : history[u][i].latency = stats[u].max
         /\ \A i \in Answered(u) : history[u][i].latency \in stats[u].min .. stats[u].max
  BY Sets DEF SlotsAreExact, SlotIsExact
<1>3. \A i \in Answered(u) :
         <<u, i>> \in Sampled /\ history[u][i].latency \in Latencies
  <2>1. ASSUME NEW i \in Answered(u) PROVE <<u, i>> \in Sampled /\ history[u][i].latency \in Latencies
    BY SampleOf DEF Latencies
  <2> QED  BY <2>1
<1>4. \A q \in Sampled : q[1] = u =>
         q[2] \in Answered(u) /\ OutcomeOf(q).latency = history[u][q[2]].latency
  BY SampleOf
<1>5. /\ stats[u].latencyCount > 0 <=> Answered(u) # {}
      /\ Answered(u) # {} <=> \E q \in Sampled : q[1] = u
  <2>1. Answered(u) # {} => \E q \in Sampled : q[1] = u
    <3>1. ASSUME NEW i \in Answered(u) PROVE \E q \in Sampled : q[1] = u
      <4>1. <<u, i>> \in Sampled /\ <<u, i>>[1] = u
        BY <1>3
      <4> QED  BY <4>1
    <3> QED  BY <3>1
  <2>2. (\E q \in Sampled : q[1] = u) => Answered(u) # {}
    BY <1>4
  <2>3. stats[u].latencyCount > 0 <=> Answered(u) # {}
    BY <1>1
  <2> QED  BY <2>1, <2>2, <2>3
<1>6. Answered(u) # {} => stats[u].min \in Latencies /\ stats[u].max \in Latencies
  BY <1>2, <1>3
<1>7. ASSUME NEW q \in Sampled, q[1] = u
      PROVE  stats[u].min <= OutcomeOf(q).latency /\ OutcomeOf(q).latency <= stats[u].max
  <2>1. q[2] \in Answered(u) /\ OutcomeOf(q).latency = history[u][q[2]].latency
    BY <1>4, <1>7
  <2>2. OutcomeOf(q).latency \in stats[u].min .. stats[u].max
    BY <1>2, <2>1
  <2> QED  BY <1>1, <2>2
<1> QED  BY <1>1, <1>5, <1>6, <1>7

\* The extremes of a shard with samples are those of its users that have some.
LEMMA ExtremesOfShard ==
    ASSUME TypeOK, SlotsAreExact, ReportedIsFinal,
           NEW s \in WithMetrics, report[s].latencyCount > 0
    PROVE  /\ report[s].min \in Latencies /\ report[s].max \in Latencies
           /\ \A q \in Sampled : ShardOf[q[1]] = s =>
                 report[s].min <= OutcomeOf(q).latency /\ OutcomeOf(q).latency <= report[s].max
<1> DEFINE S == {u \in UsersOf(s) : stats[u].latencyCount > 0}
           v == [u \in Users |-> stats[u].min]
           w == [u \in Users |-> stats[u].max]
<1>1. report[s] = MergeStats(SlotsOf(s)) /\ DOMAIN SlotsOf(s) = UsersOf(s)
      /\ \A u \in UsersOf(s) : SlotsOf(s)[u] = stats[u]
  BY DEF ReportedIsFinal, SlotsOf
<1>2. S = {u \in DOMAIN SlotsOf(s) : SlotsOf(s)[u].latencyCount > 0}
  BY <1>1
<1>3. S # {}
  BY SamplesOfShard
<1>4. /\ S \subseteq Reporting /\ S \subseteq UsersOf(s) /\ IsFiniteSet(S)
      /\ \A u \in S : v[u] = stats[u].min /\ w[u] = stats[u].max /\ stats[u].latencyCount > 0
  <2>1. S \subseteq Reporting /\ S \subseteq UsersOf(s) /\ S \subseteq Users
    BY Sets
  <2>2. IsFiniteSet(S)
    <3> HIDE DEF S
    <3> QED  BY <2>1, Sets, FS_Subset
  <2> QED  BY <2>1, <2>2
<1>5. /\ {SlotsOf(s)[u].min : u \in S} = {v[u] : u \in S}
      /\ {SlotsOf(s)[u].max : u \in S} = {w[u] : u \in S}
  <2>1. \A u \in S : SlotsOf(s)[u].min = v[u] /\ SlotsOf(s)[u].max = w[u]
    BY <1>1, <1>4
  <2> HIDE DEF S, v, w
  <2> QED  BY <2>1
<1>6. report[s].min = Min({v[u] : u \in S}) /\ report[s].max = Max({w[u] : u \in S})
  <2>1. report[s] = Combine(SlotsOf(s), S)
    BY <1>1, <1>2 DEF MergeStats
  <2> HIDE DEF S, v, w
  <2>2. /\ report[s].min = Min({SlotsOf(s)[u].min : u \in S})
        /\ report[s].max = Max({SlotsOf(s)[u].max : u \in S})
    BY <1>3, <2>1 DEF Combine
  <2> QED  BY <1>5, <2>2
<1>7. ASSUME NEW q \in Sampled, ShardOf[q[1]] = s
      PROVE  q[1] \in S /\ v[q[1]] <= OutcomeOf(q).latency /\ OutcomeOf(q).latency <= w[q[1]]
  <2>1. q[1] \in Reporting /\ q[1] \in Users
    BY SampleOf, Sets
  <2>2. /\ stats[q[1]].latencyCount > 0
        /\ stats[q[1]].min <= OutcomeOf(q).latency /\ OutcomeOf(q).latency <= stats[q[1]].max
    BY <2>1, ExtremesOfUser
  <2> QED  BY <1>7, <2>1, <2>2 DEF UsersOf
<1>8. \A u \in S : /\ v[u] \in Nat /\ w[u] \in Nat
                   /\ v[u] \in Latencies /\ w[u] \in Latencies
  BY <1>4, ExtremesOfUser
<1> HIDE DEF S, v, w
<1>9. /\ \E u \in S : report[s].min = v[u]
      /\ \A u \in S : report[s].min <= v[u]
  <2>1. \A u \in S : v[u] \in Nat
    BY <1>8
  <2>2. /\ \E u \in S : Min({v[x] : x \in S}) = v[u]
        /\ \A u \in S : Min({v[x] : x \in S}) <= v[u]
    BY <1>3, <2>1, MinOf
  <2> QED  BY <1>6, <2>2
<1>10. /\ \E u \in S : report[s].max = w[u]
       /\ \A u \in S : w[u] <= report[s].max
  <2>1. \A u \in S : w[u] \in Nat
    BY <1>8
  <2>2. /\ \E u \in S : Max({w[x] : x \in S}) = w[u]
        /\ \A u \in S : w[u] <= Max({w[x] : x \in S})
    BY <1>3, <1>4, <2>1, MaxOf
  <2> QED  BY <1>6, <2>2
<1>11. \A q \in Sampled : OutcomeOf(q).latency \in Nat
  BY SampleOf
<1> QED  BY <1>7, <1>8, <1>9, <1>10, <1>11

LEMMA ExtremesExact ==
    ASSUME TypeOK, SlotsAreExact, ReportedIsFinal, ResultIsFinal
    PROVE  ExtremesAreExact
<1> SUFFICES ASSUME result # NoReport
             PROVE  IF Sampled = {} THEN result.min = 0 /\ result.max = 0
                    ELSE result.min = Min(Latencies) /\ result.max = Max(Latencies)
  BY DEF ExtremesAreExact
<1> DEFINE P == {s \in WithMetrics : report[s].latencyCount > 0}
           v == [s \in P |-> report[s].min]
           w == [s \in P |-> report[s].max]
<1>1. result = Aggregate(report, WithMetrics)
  BY DEF ResultIsFinal
<1>2. /\ result.min = IF P = {} THEN 0 ELSE Min({v[s] : s \in P})
      /\ result.max = IF P = {} THEN 0 ELSE Max({w[s] : s \in P})
  <2>1. {v[s] : s \in P} = {report[s].min : s \in P} /\ {w[s] : s \in P} = {report[s].max : s \in P}
    OBVIOUS
  <2> HIDE DEF v, w
  <2> QED  BY <1>1, <2>1 DEF Aggregate
<1>3. Latencies \in SUBSET Nat /\ \A q \in Sampled : OutcomeOf(q).latency \in Latencies
  BY SampleOf DEF Latencies
<1>4. \A s \in P : /\ v[s] \in Latencies /\ w[s] \in Latencies
                   /\ \A q \in Sampled : ShardOf[q[1]] = s =>
                         v[s] <= OutcomeOf(q).latency /\ OutcomeOf(q).latency <= w[s]
  BY ExtremesOfShard
<1>5. \A q \in Sampled : ShardOf[q[1]] \in P
  <2>1. ASSUME NEW q \in Sampled PROVE ShardOf[q[1]] \in P
    <3>1. q[1] \in Reporting /\ q[1] \in Users /\ ShardOf[q[1]] \in WithMetrics
      BY SampleOf, Sets
    <3>2. stats[q[1]].latencyCount > 0 /\ q[1] \in UsersOf(ShardOf[q[1]])
      BY <3>1, ExtremesOfUser DEF UsersOf
    <3> QED  BY <3>1, <3>2, SamplesOfShard
  <2> QED  BY <2>1
<1>6. P \subseteq WithMetrics
  OBVIOUS
<1> HIDE DEF P, v, w
<1>7. IsFiniteSet(P)
  BY <1>6, Sets, FS_Subset
<1>8. CASE Sampled = {}
  <2>1. Latencies = {}
    BY <1>8 DEF Latencies
  <2>2. P = {}
    BY <1>4, <2>1
  <2> QED  BY <1>2, <1>8, <2>2
<1>9. CASE Sampled # {}
  <2>1. P # {}
    BY <1>5, <1>9
  <2>2. \A s \in P : v[s] \in Nat /\ w[s] \in Nat
    BY <1>3, <1>4
  <2>3. /\ \E s \in P : result.min = v[s]
        /\ \A s \in P : result.min <= v[s]
    BY <1>2, <2>1, <2>2, MinOf
  <2>4. /\ \E s \in P : result.max = w[s]
        /\ \A s \in P : w[s] <= result.max
    BY <1>2, <1>7, <2>1, <2>2, MaxOf
  <2>5. /\ result.min \in Latencies /\ result.max \in Latencies
        /\ result.min \in Nat /\ result.max \in Nat
    BY <1>3, <1>4, <2>3, <2>4
  <2>6. \A q \in Sampled : result.min <= OutcomeOf(q).latency /\ OutcomeOf(q).latency <= result.max
    <3>1. ASSUME NEW q \in Sampled
          PROVE  result.min <= OutcomeOf(q).latency /\ OutcomeOf(q).latency <= result.max
      <4>1. PICK s \in P : ShardOf[q[1]] = s
        BY <1>5
      <4>2. /\ v[s] <= OutcomeOf(q).latency /\ OutcomeOf(q).latency <= w[s]
            /\ result.min <= v[s] /\ w[s] <= result.max
            /\ v[s] \in Nat /\ w[s] \in Nat /\ OutcomeOf(q).latency \in Nat
        BY <1>3, <1>4, <2>2, <2>3, <2>4, <4>1
      <4> QED  BY <2>5, <4>2
    <3> QED  BY <3>1
  <2>7. \A l \in Latencies : result.min <= l /\ l <= result.max
    BY <2>6 DEF Latencies
  <2>8. Min(Latencies) = result.min
    BY <1>3, <2>5, <2>7, MinIs
  <2>9. Max(Latencies) = result.max
    BY <1>3, <2>5, <2>7, MaxIs
  <2> QED  BY <1>9, <2>8, <2>9
<1> QED  BY <1>8, <1>9

\* The fastest and the slowest response that the run shows are those of all samples,
\* never the zero of a user or a shard without any (record's first sample, the users
\* mergeStats skips, aggregateRun's FILTER).
THEOREM LoadExtremesAreExact == Spec => []ExtremesAreExact
<1>1. TypeOK /\ SlotsAreExact /\ LoadInv /\ ResultIsFinal => ExtremesAreExact
  BY ExtremesExact DEF LoadInv
<1> QED  BY <1>1, LoadTypeOK, LoadSlotsAreExact, LoadInvariant, LoadResultIsFinal, PTL

-----------------------------------------------------------------------------
\* The percentiles.

LEMMA Bounds ==
    /\ StoreBoundariesMs = RunnerBoundariesMs /\ StoreBuckets = Buckets
    /\ Buckets = 1 .. 13 /\ NumLatencyBuckets = 13 /\ Len(StoreBoundariesMs) = 12
    /\ DOMAIN RunnerBoundariesMs = 1 .. 12 /\ RunnerBoundariesMs[12] = 5000
    /\ \A c, d \in 1 .. 12 : /\ RunnerBoundariesMs[c] \in Nat
                             /\ c < d => RunnerBoundariesMs[c] < RunnerBoundariesMs[d]
BY DEF StoreBoundariesMs, RunnerBoundariesMs, StoreBuckets, Buckets, NumLatencyBuckets

LEMMA BucketGrows ==
    ASSUME NEW l \in Nat, NEW m \in Nat, l <= m
    PROVE  BucketIndex(l) <= BucketIndex(m)
<1>1. BucketIndex(l) \in 1 .. 13 /\ BucketIndex(m) \in 1 .. 13
  BY BucketExists, Bounds
<1>2. CASE BucketIndex(m) = 13
  BY <1>1, <1>2
<1>3. CASE BucketIndex(m) # 13
  <2> DEFINE b == BucketIndex(m)
  <2>1. b \in 1 .. 12 /\ b \in Buckets
    BY <1>1, <1>3, Bounds
  <2>2. b <= b /\ b <= 12
    BY <2>1
  <2> HIDE DEF b
  <2>3. /\ BucketIndex(m) <= b <=> m <= RunnerBoundariesMs[b]
        /\ BucketIndex(l) <= b <=> l <= RunnerBoundariesMs[b]
    BY <2>1, <2>2, BucketBounds
  <2>4. RunnerBoundariesMs[b] \in Nat
    BY <2>1, Bounds
  <2>5. BucketIndex(m) <= b
    BY <2>2 DEF b
  <2>6. BucketIndex(l) <= b
    BY <2>3, <2>4, <2>5
  <2> QED  BY <2>6 DEF b
<1> QED  BY <1>2, <1>3

\* The samples of one bucket, and of the buckets up to one.
BucketOf == [q \in Sampled |-> BucketIndex(OutcomeOf(q).latency)]
UpTo(b) == {q \in Sampled : BucketOf[q] <= b}
ColumnOfBucket(b) == [u \in Users |-> stats[u].buckets[b]]

LEMMA BucketOfSample ==
    ASSUME TypeOK
    PROVE  \A q \in Sampled : BucketOf[q] \in 1 .. 13
<1>1. \A q \in Sampled : OutcomeOf(q).latency \in Nat
  BY SampleOf
<1> QED  BY <1>1, BucketExists, Bounds DEF BucketOf

\* A bucket of the users' histograms, added up, is the number of samples in it.
LEMMA CountedBucket ==
    ASSUME TypeOK, SlotsAreExact, NEW b \in Buckets
    PROVE  SumFunctionOnSet(ColumnOfBucket(b), Reporting)
             = Cardinality(Group(Sampled, BucketOf, b))
<1> DEFINE C == [u \in Reporting |-> InBucket(history[u], Answered(u), b)]
           Q == Group(Sampled, BucketOf, b)
<1>h. \A u \in Reporting :
         /\ Len(history[u]) \in Nat /\ 1 .. Len(history[u]) \subseteq 1 .. MaxRequests
         /\ Answered(u) \subseteq 1 .. Len(history[u])
         /\ DOMAIN history[u] = 1 .. Len(history[u])
         /\ \A i \in Answered(u) : history[u][i].latency \in Nat
  BY Histories, Sets
<1>1. C \in [Reporting -> SUBSET (1 .. MaxRequests)]
  BY <1>h DEF InBucket
<1>2. Q = {q \in Reporting \X (1 .. MaxRequests) : q[2] \in C[q[1]]}
  <2>1. ASSUME NEW q \in Sampled PROVE BucketOf[q] = b <=> FallsIn(OutcomeOf(q).latency, b)
    <3>1. OutcomeOf(q).latency \in Nat
      BY SampleOf
    <3> QED  BY <3>1, BucketBounds DEF BucketOf
  <2>2. ASSUME NEW q \in Q PROVE q \in Reporting \X (1 .. MaxRequests) /\ q[2] \in C[q[1]]
    <3>1. q \in Sampled /\ BucketOf[q] = b
      BY DEF Group
    <3>2. /\ q[1] \in Reporting /\ q[2] \in Answered(q[1])
          /\ OutcomeOf(q).latency = history[q[1]][q[2]].latency
      BY <3>1, SampleOf
    <3>3. q \in Reporting \X (1 .. MaxRequests)
      BY <3>1, <3>2, <1>h DEF Sampled, Requests
    <3> QED  BY <2>1, <3>1, <3>2, <3>3 DEF InBucket
  <2>3. ASSUME NEW q \in Reporting \X (1 .. MaxRequests), q[2] \in C[q[1]] PROVE q \in Q
    <3>1. q[1] \in Reporting /\ q[2] \in Answered(q[1])
          /\ FallsIn(history[q[1]][q[2]].latency, b) /\ q = <<q[1], q[2]>>
      BY <2>3 DEF InBucket
    <3>2. q \in Sampled /\ OutcomeOf(q).latency = history[q[1]][q[2]].latency
      BY <3>1, SampleOf
    <3> QED  BY <2>1, <3>1, <3>2 DEF Group
  <2> HIDE DEF C
  <2>4. Q \subseteq Reporting \X (1 .. MaxRequests)
    BY <2>2
  <2> HIDE DEF Q
  <2> QED  BY <2>2, <2>3, <2>4
<1>3. \A u \in Reporting : ColumnOfBucket(b)[u] = Cardinality(C[u])
  BY Sets DEF SlotsAreExact, SlotIsExact, ColumnOfBucket
<1> HIDE DEF C, Q
<1>4. SumFunctionOnSet(ColumnOfBucket(b), Reporting) = Cardinality(Q)
  BY <1>1, <1>2, <1>3, CountRequests
<1> QED  BY <1>4 DEF Q

\* A bucket of a shard's histogram.
LEMMA BucketOfShard ==
    ASSUME TypeOK, ReportedIsFinal, NEW s \in WithMetrics, NEW b \in Buckets
    PROVE  /\ DOMAIN report[s].buckets = Buckets
           /\ report[s].buckets[b] = SumFunctionOnSet(ColumnOfBucket(b), UsersOf(s))
<1> DEFINE H == [u \in UsersOf(s) |-> SlotsOf(s)[u].buckets]
           f == [u \in UsersOf(s) |-> H[u][b]]
<1>1. report[s] = MergeStats(SlotsOf(s)) /\ DOMAIN SlotsOf(s) = UsersOf(s)
  BY DEF ReportedIsFinal, SlotsOf
<1>2. report[s].buckets = AddBuckets(H, UsersOf(s), Buckets)
  BY <1>1 DEF MergeStats, Combine
<1>3. \A u \in UsersOf(s) : /\ u \in Users /\ H[u] = stats[u].buckets
                            /\ stats[u].buckets \in [Buckets -> Nat]
  BY TalliesAreNat DEF SlotsOf, UsersOf
<1>4. {u \in UsersOf(s) : b \in DOMAIN H[u]} = UsersOf(s)
  BY <1>3
<1>5. \A u \in UsersOf(s) : f[u] \in Int /\ f[u] = ColumnOfBucket(b)[u]
  BY <1>3 DEF ColumnOfBucket
<1>6. DOMAIN f = UsersOf(s)
  OBVIOUS
<1>7. /\ DOMAIN report[s].buckets = Buckets
      /\ report[s].buckets[b] = SumFunction(f)
  <2> HIDE DEF H
  <2> QED  BY <1>2, <1>4 DEF AddBuckets
<1> HIDE DEF H, f
<1>8. SumFunction(f) = SumFunctionOnSet(ColumnOfBucket(b), UsersOf(s))
  <2>1. SumFunction(f) = SumFunctionOnSet(f, UsersOf(s))
    BY <1>6 DEF SumFunction
  <2> QED  BY <1>5, <2>1, Sets, SumSame
<1> QED  BY <1>7, <1>8

\* What the backend merges.
Merged == MergeBuckets([s \in WithMetrics |-> report[s].buckets], WithMetrics)

LEMMA MergedBucket ==
    ASSUME TypeOK, SlotsAreExact, ReportedIsFinal, NEW b \in Buckets
    PROVE  Merged[b] = Cardinality(Group(Sampled, BucketOf, b))
<1> DEFINE H == [s \in WithMetrics |-> report[s].buckets]
           h == [s \in WithMetrics |-> H[s][b]]
<1>1. \A s \in WithMetrics :
         /\ DOMAIN H[s] = Buckets
         /\ h[s] = SumFunctionOnSet(ColumnOfBucket(b), UsersOf(s))
  BY BucketOfShard
<1>2. {s \in WithMetrics : b \in DOMAIN H[s]} = WithMetrics
  BY <1>1
<1>3. DOMAIN h = WithMetrics /\ Merged = AddBuckets(H, WithMetrics, Buckets)
  BY Bounds DEF Merged, MergeBuckets
<1>4. Merged[b] = SumFunction(h)
  <2> HIDE DEF H
  <2> QED  BY <1>2, <1>3 DEF AddBuckets
<1>5. \A u \in Users : ColumnOfBucket(b)[u] \in Nat
  BY TalliesAreNat DEF ColumnOfBucket
<1> HIDE DEF H, h
<1>6. SumFunctionOnSet(h, WithMetrics) = SumFunctionOnSet(ColumnOfBucket(b), Reporting)
  BY <1>1, <1>5, SumOverShards
<1>7. SumFunction(h) = SumFunctionOnSet(h, WithMetrics)
  BY <1>3 DEF SumFunction
<1> QED  BY <1>4, <1>6, <1>7, CountedBucket

\* The merged histogram cumulates to the number of samples up to a bucket.
LEMMA MergedUpTo ==
    ASSUME TypeOK, SlotsAreExact, ReportedIsFinal, NEW b \in Buckets
    PROVE  Cumulative(Merged, b) = Cardinality(UpTo(b)) /\ IsFiniteSet(UpTo(b))
<1> DEFINE K == 1 .. b
<1>1. b \in 1 .. 13 /\ Buckets = 1 .. 13
  BY Bounds
<1>2. IsFiniteSet(K) /\ K \subseteq Buckets
  BY <1>1, FS_Interval
<1>3. UpTo(b) \subseteq Sampled /\ IsFiniteSet(UpTo(b))
  <2>1. UpTo(b) \subseteq Sampled
    BY DEF UpTo
  <2> QED  BY <2>1, CountedRequests, FS_Subset
<1>4. \A q \in UpTo(b) : BucketOf[q] \in K
  BY <1>1, BucketOfSample DEF UpTo
<1>5. \A k \in K : Group(UpTo(b), BucketOf, k) = Group(Sampled, BucketOf, k)
  BY <1>1 DEF Group, UpTo
<1> HIDE DEF K
<1>6. \A k \in K : Merged[k] = Cardinality(Group(UpTo(b), BucketOf, k))
  BY <1>2, <1>5, MergedBucket
<1>7. SumFunctionOnSet(Merged, K) = Cardinality(UpTo(b))
  BY <1>2, <1>3, <1>4, <1>6, CountByGroup
<1> QED  BY <1>3, <1>7 DEF Cumulative, K

\* The samples up to a latency.
Within(l) == {q \in Sampled : OutcomeOf(q).latency <= l}

LEMMA Fewer ==
    ASSUME TypeOK, SlotsAreExact, NEW S \in SUBSET Sampled, NEW T \in SUBSET S
    PROVE  /\ Cardinality(S) \in Nat /\ Cardinality(T) \in Nat
           /\ Cardinality(T) <= Cardinality(S)
           /\ IsFiniteSet(S)
<1>1. IsFiniteSet(S) /\ IsFiniteSet(T)
  BY CountedRequests, FS_Subset
<1> QED  BY <1>1, FS_CardinalityType, FS_Subset

\* The rank exists: the slowest sample has all others below it.
LEMMA RankExists ==
    ASSUME TypeOK, SlotsAreExact, NEW p \in 1 .. 100, Sampled # {}
    PROVE  /\ NearestRank(p) \in Latencies /\ NearestRank(p) \in Nat
           /\ Cardinality(Within(NearestRank(p))) * 100 >= p * Cardinality(Sampled)
           /\ \A l \in Latencies : Cardinality(Within(l)) * 100 >= p * Cardinality(Sampled)
                                      => NearestRank(p) <= l
<1> DEFINE R == {l \in Latencies : Cardinality(Within(l)) * 100 >= p * Cardinality(Sampled)}
           v == [q \in Sampled |-> OutcomeOf(q).latency]
<1>1. Latencies \subseteq Nat /\ \A q \in Sampled : v[q] \in Nat /\ v[q] \in Latencies
  BY SampleOf DEF Latencies
<1>2. NearestRank(p) = Min(R)
  BY DEF NearestRank, Within
<1>3. R # {}
  <2>1. PICK q \in Sampled : \A x \in Sampled : v[x] <= v[q]
    <3> HIDE DEF v
    <3>1. /\ \E x \in Sampled : Max({v[y] : y \in Sampled}) = v[x]
          /\ \A x \in Sampled : v[x] <= Max({v[y] : y \in Sampled})
      BY <1>1, CountedRequests, MaxOf
    <3> QED  BY <3>1
  <2>2. Within(v[q]) = Sampled
    BY <2>1 DEF Within
  <2>3. Cardinality(Sampled) \in Nat
    BY Fewer
  <2>4. Cardinality(Sampled) * 100 >= p * Cardinality(Sampled)
    <3> DEFINE n == Cardinality(Sampled)
    <3>1. n \in Nat
      BY <2>3
    <3> HIDE DEF n
    <3>2. n * 100 >= p * n
      BY <3>1
    <3> QED  BY <3>2 DEF n
  <2>5. v[q] \in R
    BY <1>1, <2>2, <2>4
  <2> QED  BY <2>5
<1>4. R \in SUBSET Nat
  BY <1>1
<1>5. Min(R) \in R /\ \A l \in R : Min(R) <= l
  <2> HIDE DEF R
  <2> QED  BY <1>3, <1>4, MinExists
<1> QED  BY <1>1, <1>2, <1>5

\* The bucket of the nearest rank is the first one that reaches the threshold.
LEMMA RankedBucket ==
    ASSUME TypeOK, SlotsAreExact, ReportedIsFinal, NEW p \in 1 .. 100, Sampled # {}
    PROVE  LET t == (p * Cardinality(Sampled) + 99) \div 100
           IN  Min({b \in StoreBuckets : Cumulative(Merged, b) >= t}) = BucketIndex(NearestRank(p))
<1> DEFINE n == Cardinality(Sampled)
           k == p * n
           t == (k + 99) \div 100
           l == NearestRank(p)
           i == BucketIndex(l)
           F == {b \in StoreBuckets : Cumulative(Merged, b) >= t}
<1>1. n \in Nat /\ n > 0
  <2>1. IsFiniteSet(Sampled)
    BY CountedRequests
  <2> QED  BY <2>1, FS_CardinalityType, FS_EmptySet
<1>2. k \in Nat /\ k > 0
  <2> HIDE DEF n
  <2> QED  BY <1>1
<1>3. /\ l \in Latencies /\ l \in Nat
      /\ Cardinality(Within(l)) * 100 >= k
      /\ \A m \in Latencies : Cardinality(Within(m)) * 100 >= k => l <= m
  BY RankExists
<1>4. i \in Buckets /\ i \in 1 .. 13
  BY <1>3, BucketExists, Bounds
<1>5. \A c \in Nat : c >= t <=> c * 100 >= k
  <2> HIDE DEF k
  <2> QED  BY <1>2
<1>6. \A b \in Buckets : /\ Cumulative(Merged, b) = Cardinality(UpTo(b))
                         /\ UpTo(b) \subseteq Sampled /\ Cardinality(UpTo(b)) \in Nat
  BY MergedUpTo, Fewer DEF UpTo
<1>7. \A q \in Sampled : /\ OutcomeOf(q).latency \in Nat /\ OutcomeOf(q).latency \in Latencies
                         /\ BucketOf[q] = BucketIndex(OutcomeOf(q).latency)
                         /\ BucketOf[q] \in 1 .. 13
  BY SampleOf, BucketOfSample DEF BucketOf, Latencies
<1> HIDE DEF t, k, n, l, i
<1>8. i \in F
  <2>1. Within(l) \subseteq UpTo(i) /\ UpTo(i) \subseteq Sampled
    <3>1. ASSUME NEW q \in Within(l) PROVE q \in UpTo(i)
      <4>1. q \in Sampled /\ OutcomeOf(q).latency <= l
        BY DEF Within
      <4>2. BucketOf[q] <= i
        BY <1>3, <1>7, <4>1, BucketGrows DEF i
      <4> QED  BY <4>1, <4>2 DEF UpTo
    <3> QED  BY <3>1 DEF UpTo
  <2>2. Cardinality(Within(l)) \in Nat /\ Cardinality(Within(l)) <= Cardinality(UpTo(i))
    BY <2>1, Fewer
  <2>3. Cardinality(UpTo(i)) * 100 >= k
    BY <1>2, <1>3, <1>4, <1>6, <2>2
  <2> QED  BY <1>4, <1>5, <1>6, <2>3, Bounds
<1>9. ASSUME NEW b \in F PROVE i <= b
  <2>1. b \in Buckets /\ b \in 1 .. 13 /\ Cardinality(UpTo(b)) * 100 >= k
    BY <1>5, <1>6, Bounds
  <2>2. UpTo(b) # {} /\ IsFiniteSet(UpTo(b))
    <3>1. Cardinality({}) = 0
      BY FS_EmptySet
    <3> QED  BY <1>2, <2>1, <3>1, MergedUpTo
  <2>3. PICK q \in UpTo(b) : \A x \in UpTo(b) : OutcomeOf(x).latency <= OutcomeOf(q).latency
    <3> DEFINE v == [x \in UpTo(b) |-> OutcomeOf(x).latency]
    <3>1. \A x \in UpTo(b) : v[x] \in Nat /\ v[x] = OutcomeOf(x).latency
      BY <1>7 DEF UpTo
    <3> HIDE DEF v
    <3>2. /\ \E x \in UpTo(b) : Max({v[y] : y \in UpTo(b)}) = v[x]
          /\ \A x \in UpTo(b) : v[x] <= Max({v[y] : y \in UpTo(b)})
      BY <2>2, <3>1, MaxOf
    <3> QED  BY <3>1, <3>2
  <2> DEFINE m == OutcomeOf(q).latency
  <2>4. q \in Sampled /\ m \in Latencies /\ m \in Nat /\ BucketIndex(m) <= b /\ BucketIndex(m) \in 1 .. 13
    BY <1>7 DEF UpTo
  <2>5. UpTo(b) \subseteq Within(m) /\ Within(m) \subseteq Sampled
    BY <2>3 DEF UpTo, Within
  <2> HIDE DEF m
  <2>6. Cardinality(UpTo(b)) <= Cardinality(Within(m)) /\ Cardinality(Within(m)) \in Nat
    BY <2>5, Fewer
  <2>7. Cardinality(Within(m)) * 100 >= k
    BY <1>2, <1>6, <2>1, <2>6
  <2>8. l <= m
    BY <1>3, <2>4, <2>7
  <2>9. i <= BucketIndex(m)
    BY <1>3, <2>4, <2>8, BucketGrows DEF i
  <2> QED  BY <1>4, <2>1, <2>4, <2>9
<1>10. F \in SUBSET Int
  BY Bounds
<1> HIDE DEF F
<1>11. Min(F) = i
  BY <1>8, <1>9, <1>10, MinIs
<1> QED  BY <1>11 DEF F, t, k, n, l, i

\* A percentile of the merged histogram, shown.
LEMMA PercentileShown ==
    ASSUME TypeOK, SlotsAreExact, ReportedIsFinal, NEW p \in 1 .. 100
    PROVE  ShownAs(Percentile(Merged, p), p)
<1> DEFINE t == (p * Cardinality(Sampled) + 99) \div 100
<1>1. UpTo(13) = Sampled
  BY BucketOfSample DEF UpTo
<1>2. Cumulative(Merged, 13) = Cardinality(Sampled)
  BY <1>1, MergedUpTo, Bounds
<1>3. Percentile(Merged, p) = BoundAt(Merged, t)
  BY <1>2, Bounds DEF Percentile
<1>4. CASE Sampled = {}
  <2>1. Cumulative(Merged, 12 + 1) = 0
    BY <1>2, <1>4, FS_EmptySet
  <2>2. BoundAt(Merged, t) = 0
    <3> HIDE DEF t
    <3> QED  BY <2>1, Bounds DEF BoundAt
  <2> QED  BY <1>3, <1>4, <2>2 DEF ShownAs
<1>5. CASE Sampled # {}
  <2> DEFINE l == NearestRank(p)
             i == BucketIndex(l)
             bounds == {RunnerBoundariesMs[b] : b \in DOMAIN RunnerBoundariesMs}
  <2>1. l \in Nat /\ i \in 1 .. 13 /\ i \in Buckets
    BY <1>5, RankExists, BucketExists, Bounds
  <2>2. Cumulative(Merged, 12 + 1) # 0
    <3>1. IsFiniteSet(Sampled)
      BY CountedRequests
    <3> QED  BY <1>2, <1>5, <3>1, FS_EmptySet
  <2>3. Min({b \in StoreBuckets : Cumulative(Merged, b) >= t}) = i
    BY <1>5, RankedBucket
  <2>4. BoundAt(Merged, t) = RunnerBoundariesMs[Min({i, 12})]
    <3> HIDE DEF t, i
    <3> QED  BY <2>2, <2>3, Bounds DEF BoundAt
  <2>5. /\ bounds \in SUBSET Int /\ 5000 \in bounds
        /\ \A x \in bounds : x <= 5000
        /\ \A x \in bounds : \E c \in 1 .. 12 : x = RunnerBoundariesMs[c]
        /\ \A c \in 1 .. 12 : RunnerBoundariesMs[c] \in bounds
    <3>1. \A c \in 1 .. 12 : RunnerBoundariesMs[c] <= 5000
      BY Bounds
    <3> QED  BY <3>1, Bounds
  <2>6. Max(bounds) = 5000
    <3> HIDE DEF bounds
    <3> QED  BY <2>5, MaxIs
  <2>7. 12 \in Buckets
    BY Bounds
  <2>8. i <= 12 <=> l <= 5000
    BY <2>1, <2>7, BucketBounds, Bounds
  <2>9. ShownAs(Percentile(Merged, p), p)
          <=> RunnerBoundariesMs[Min({i, 12})] = IF l > Max(bounds) THEN Max(bounds)
                                                ELSE Min({x \in bounds : x >= l})
    <3> HIDE DEF i, t
    <3> QED  BY <1>3, <1>5, <2>4 DEF ShownAs
  <2>10. \A c \in 1 .. 12 : i <= c <=> l <= RunnerBoundariesMs[c]
    <3>1. ASSUME NEW c \in 1 .. 12 PROVE i <= c <=> l <= RunnerBoundariesMs[c]
      <4>1. c \in Buckets /\ c <= 12
        BY Bounds
      <4> QED  BY <2>1, <4>1, BucketBounds
    <3> QED  BY <3>1
  <2> HIDE DEF i, l, bounds, t
  <2>11. CASE l > 5000
    <3>1. i = 13
      BY <2>1, <2>8, <2>11
    <3>2. {i, 12} \in SUBSET Int /\ 12 \in {i, 12} /\ \A x \in {i, 12} : 12 <= x
      BY <3>1
    <3>3. Min({i, 12}) = 12
      BY <3>2, MinIs
    <3> QED  BY <2>6, <2>9, <2>11, <3>3, Bounds
  <2>12. CASE ~(l > 5000)
    <3>1. i \in 1 .. 12
      BY <2>1, <2>8, <2>12
    <3>2. {i, 12} \in SUBSET Int /\ i \in {i, 12} /\ \A x \in {i, 12} : i <= x
      BY <3>1
    <3>3. Min({i, 12}) = i
      BY <3>2, MinIs
    <3> DEFINE above == {x \in bounds : x >= l}
    <3>4. above \in SUBSET Int
      <4>1. bounds \in SUBSET Int
        BY <2>5
      <4> QED  BY <4>1
    <3>5. RunnerBoundariesMs[i] \in above
      BY <2>1, <2>5, <2>10, <3>1, Bounds
    <3>6. ASSUME NEW x \in above PROVE RunnerBoundariesMs[i] <= x
      <4>1. PICK c \in 1 .. 12 : x = RunnerBoundariesMs[c]
        BY <2>5
      <4>2. l <= RunnerBoundariesMs[c]
        BY <2>1, <3>4, <4>1
      <4>3. i <= c
        BY <2>10, <4>2
      <4>4. i = c \/ RunnerBoundariesMs[i] < RunnerBoundariesMs[c]
        BY <3>1, <4>3, Bounds
      <4>5. RunnerBoundariesMs[i] \in Nat /\ RunnerBoundariesMs[c] \in Nat
        BY <3>1, Bounds
      <4> QED  BY <4>1, <4>4, <4>5
    <3> HIDE DEF above
    <3>7. Min(above) = RunnerBoundariesMs[i]
      BY <3>4, <3>5, <3>6, MinIs
    <3>8. Min({x \in bounds : x >= l}) = RunnerBoundariesMs[i]
      BY <3>7 DEF above
    <3> QED  BY <2>6, <2>9, <2>12, <3>3, <3>8
  <2> QED  BY <2>9, <2>11, <2>12
<1> QED  BY <1>4, <1>5

LEMMA PercentilesExact ==
    ASSUME TypeOK, SlotsAreExact, ReportedIsFinal, ResultIsFinal
    PROVE  PercentilesAreNearestRank
<1> SUFFICES ASSUME result # NoReport
             PROVE  /\ ShownAs(result.p50, 50)
                    /\ ShownAs(result.p95, 95)
                    /\ ShownAs(result.p99, 99)
  BY DEF PercentilesAreNearestRank
<1>1. result = Aggregate(report, WithMetrics)
  BY DEF ResultIsFinal
<1>2. /\ result.p50 = Percentile(Merged, 50)
      /\ result.p95 = Percentile(Merged, 95)
      /\ result.p99 = Percentile(Merged, 99)
  BY <1>1 DEF Aggregate, Merged
<1>3. 50 \in 1 .. 100 /\ 95 \in 1 .. 100 /\ 99 \in 1 .. 100
  OBVIOUS
<1> QED  BY <1>2, <1>3, PercentileShown

\* The percentiles of the run are the nearest-rank percentiles of all samples of all
\* shards, rounded up to a bound: adding the users' histograms and then the shards'
\* loses the width of a bucket and nothing else, and the worker's list of bounds is
\* the one the backend reads them with (record, mergeStats, mergeBuckets, percentile).
THEOREM LoadPercentilesAreNearestRank == Spec => []PercentilesAreNearestRank
<1>1. TypeOK /\ SlotsAreExact /\ LoadInv /\ ResultIsFinal => PercentilesAreNearestRank
  BY PercentilesExact DEF LoadInv
<1> QED  BY <1>1, LoadTypeOK, LoadSlotsAreExact, LoadInvariant, LoadResultIsFinal, PTL

-----------------------------------------------------------------------------
\* The figures together.

\* The extremes of a run with samples are two of them, around all others.
LEMMA ExtremesAround ==
    ASSUME TypeOK, SlotsAreExact, Sampled # {}
    PROVE  /\ Min(Latencies) \in Nat /\ Max(Latencies) \in Nat
           /\ \A q \in Sampled : /\ OutcomeOf(q).latency \in Nat
                                 /\ Min(Latencies) <= OutcomeOf(q).latency
                                 /\ OutcomeOf(q).latency <= Max(Latencies)
<1> DEFINE v == [q \in Sampled |-> OutcomeOf(q).latency]
<1>1. \A q \in Sampled : v[q] \in Nat /\ v[q] = OutcomeOf(q).latency
  BY SampleOf
<1>2. Latencies = {v[q] : q \in Sampled}
  BY DEF Latencies
<1> HIDE DEF v
<1>3. /\ \E q \in Sampled : Min({v[x] : x \in Sampled}) = v[q]
      /\ \A q \in Sampled : Min({v[x] : x \in Sampled}) <= v[q]
  BY <1>1, MinOf
<1>4. /\ \E q \in Sampled : Max({v[x] : x \in Sampled}) = v[q]
      /\ \A q \in Sampled : v[q] <= Max({v[x] : x \in Sampled})
  BY <1>1, CountedRequests, MaxOf
<1> QED  BY <1>1, <1>2, <1>3, <1>4

LEMMA AverageBetween ==
    ASSUME TypeOK, SlotsAreExact, ExtremesAreExact, AverageIsWeighted, result # NoReport
    PROVE  /\ result.min * result.avg.den <= result.avg.num
           /\ result.avg.num <= result.max * result.avg.den
<1> DEFINE f == [q \in Sampled |-> OutcomeOf(q).latency]
           n == Cardinality(Sampled)
<1>1. /\ result.avg.den = n /\ result.avg.num = SumFunction(f) /\ DOMAIN f = Sampled
  BY DEF AverageIsWeighted
<1>2. IsFiniteSet(Sampled) /\ n \in Nat
  BY CountedRequests, FS_CardinalityType
<1>3. CASE Sampled = {}
  <2>1. result.min = 0 /\ result.max = 0 /\ n = 0
    BY <1>3, FS_EmptySet DEF ExtremesAreExact
  <2>2. SumFunction(f) = 0
    <3> HIDE DEF f
    <3> QED  BY <1>1, <1>3, NoSum
  <2> HIDE DEF f, n
  <2> QED  BY <1>1, <2>1, <2>2
<1>4. CASE Sampled # {}
  <2> DEFINE least == [q \in Sampled |-> Min(Latencies)]
             most == [q \in Sampled |-> Max(Latencies)]
  <2>1. /\ result.min = Min(Latencies) /\ result.max = Max(Latencies)
        /\ Min(Latencies) \in Nat /\ Max(Latencies) \in Nat
    BY <1>4, ExtremesAround DEF ExtremesAreExact
  <2>2. \A q \in Sampled : /\ least[q] = Min(Latencies) /\ most[q] = Max(Latencies)
                           /\ f[q] \in Nat /\ least[q] <= f[q] /\ f[q] <= most[q]
    BY <1>4, ExtremesAround
  <2>3. SumFunction(f) = SumFunctionOnSet(f, Sampled)
    BY DEF SumFunction
  <2> HIDE DEF f, least, most
  <2>4. /\ SumFunctionOnSet(least, Sampled) = Min(Latencies) * Cardinality(Sampled)
        /\ SumFunctionOnSet(most, Sampled) = Max(Latencies) * Cardinality(Sampled)
    BY <1>2, <2>1, <2>2, SumConstant
  <2>5. /\ SumFunctionOnSet(least, Sampled) <= SumFunctionOnSet(f, Sampled)
        /\ SumFunctionOnSet(f, Sampled) <= SumFunctionOnSet(most, Sampled)
    <3>1. \A q \in Sampled : /\ least[q] \in Int /\ most[q] \in Int /\ f[q] \in Int
                             /\ least[q] <= f[q] /\ f[q] <= most[q]
      BY <2>1, <2>2
    <3> QED  BY <1>2, <3>1, SumLess
  <2> QED  BY <1>1, <2>1, <2>3, <2>4, <2>5
<1> QED  BY <1>3, <1>4

\* What a run shows as a percentile: the least bound the nearest rank does not exceed,
\* or the last one.
LEMMA ShownBound ==
    ASSUME TypeOK, SlotsAreExact, Sampled # {}, NEW p \in 1 .. 100, NEW shown, ShownAs(shown, p)
    PROVE  /\ \E c \in 1 .. 12 : shown = RunnerBoundariesMs[c]
           /\ NearestRank(p) > 5000 => shown = 5000
           /\ NearestRank(p) <= 5000 => NearestRank(p) <= shown
           /\ \A x \in {RunnerBoundariesMs[c] : c \in 1 .. 12} : NearestRank(p) <= x
                                                                 => shown <= x
<1> DEFINE l == NearestRank(p)
           bounds == {RunnerBoundariesMs[b] : b \in DOMAIN RunnerBoundariesMs}
           above == {x \in bounds : x >= l}
<1>1. l \in Nat
  BY RankExists
<1>2. /\ bounds \in SUBSET Nat /\ 5000 \in bounds /\ \A x \in bounds : x <= 5000
      /\ \A c \in 1 .. 12 : RunnerBoundariesMs[c] \in bounds
      /\ \A x \in bounds : \E c \in 1 .. 12 : x = RunnerBoundariesMs[c]
      /\ \A c \in 1 .. 12 : RunnerBoundariesMs[c] <= 5000
  <2>1. \A c \in 1 .. 12 : RunnerBoundariesMs[c] <= 5000
    BY Bounds
  <2> QED  BY <2>1, Bounds
<1>3. shown = IF l > Max(bounds) THEN Max(bounds) ELSE Min(above)
  BY DEF ShownAs
<1> SUFFICES /\ \E c \in 1 .. 12 : shown = RunnerBoundariesMs[c]
             /\ l > 5000 => shown = 5000
             /\ l <= 5000 => l <= shown
             /\ \A x \in {RunnerBoundariesMs[c] : c \in 1 .. 12} : l <= x => shown <= x
  OBVIOUS
<1> HIDE DEF l, bounds
<1>4. Max(bounds) = 5000
  BY <1>2, MaxIs
<1>5. CASE l > 5000
  <2>1. shown = 5000
    BY <1>3, <1>4, <1>5
  <2>2. \A c \in 1 .. 12 : RunnerBoundariesMs[c] \in Nat
    BY Bounds
  <2> QED  BY <1>1, <1>2, <1>5, <2>1, <2>2
<1>6. CASE l <= 5000
  <2>1. 5000 \in above
    BY <1>1, <1>2, <1>6
  <2>2. above \in SUBSET Nat /\ above \subseteq bounds
    <3>1. above \subseteq bounds
      OBVIOUS
    <3>2. bounds \subseteq Nat
      BY <1>2
    <3> HIDE DEF above
    <3> QED  BY <3>1, <3>2
  <2>3. \A x \in above : x >= l
    OBVIOUS
  <2>4. \A c \in 1 .. 12 : l <= RunnerBoundariesMs[c] => RunnerBoundariesMs[c] \in above
    BY <1>1, <1>2, Bounds
  <2> HIDE DEF above
  <2>5. Min(above) \in above /\ \A x \in above : Min(above) <= x
    BY <2>1, <2>2, MinExists
  <2>6. shown = Min(above)
    BY <1>1, <1>3, <1>4, <1>6
  <2>7. \E c \in 1 .. 12 : shown = RunnerBoundariesMs[c]
    <3>1. shown \in bounds
      BY <2>2, <2>5, <2>6
    <3>2. \A x \in bounds : \E c \in 1 .. 12 : x = RunnerBoundariesMs[c]
      BY <1>2
    <3> QED  BY <3>1, <3>2
  <2>8. shown \in Nat /\ shown >= l
    BY <2>2, <2>3, <2>5, <2>6
  <2>9. \A c \in 1 .. 12 : l <= RunnerBoundariesMs[c] => shown <= RunnerBoundariesMs[c]
    BY <2>4, <2>5, <2>6
  <2> QED  BY <1>1, <1>6, <2>7, <2>8, <2>9
<1> QED  BY <1>1, <1>5, <1>6

LEMMA ShownNoHigher ==
    ASSUME TypeOK, SlotsAreExact, Sampled # {}, NEW p \in 1 .. 100, NEW shown, ShownAs(shown, p),
           NEW c \in 1 .. 12, NearestRank(p) <= RunnerBoundariesMs[c]
    PROVE  shown <= RunnerBoundariesMs[c]
BY ShownBound

\* A percentile above another one has no lower rank, and what is shown follows the rank.
LEMMA PercentilesOrdered ==
    ASSUME TypeOK, SlotsAreExact, NEW p \in 1 .. 100, NEW r \in 1 .. 100, p <= r,
           NEW low, ShownAs(low, p), NEW high, ShownAs(high, r)
    PROVE  low <= high
<1>1. CASE Sampled = {}
  BY <1>1 DEF ShownAs
<1>2. CASE Sampled # {}
  <2>1. NearestRank(p) \in Nat /\ NearestRank(r) \in Nat
    BY <1>2, RankExists
  <2>2. NearestRank(p) <= NearestRank(r)
    <3> DEFINE n == Cardinality(Sampled)
               k == Cardinality(Within(NearestRank(r)))
    <3>1. NearestRank(r) \in Latencies /\ k * 100 >= r * n
      BY <1>2, RankExists
    <3>2. n \in Nat /\ k \in Nat
      <4>1. Within(NearestRank(r)) \in SUBSET Sampled /\ Sampled \in SUBSET Sampled
        BY DEF Within
      <4> QED  BY <4>1, Fewer
    <3>3. r * n >= p * n
      <4> HIDE DEF n
      <4> QED  BY <3>2
    <3>4. k * 100 >= p * n
      <4>1. r * n \in Int /\ p * n \in Int /\ k * 100 \in Int
        <5> HIDE DEF n, k
        <5> QED  BY <3>2
      <4> HIDE DEF n, k
      <4> QED  BY <3>1, <3>3, <4>1
    <3> QED  BY <1>2, <3>1, <3>4, RankExists
  <2>3. PICK b \in 1 .. 12 : low = RunnerBoundariesMs[b]
    BY <1>2, ShownBound
  <2>4. PICK c \in 1 .. 12 : high = RunnerBoundariesMs[c]
    BY <1>2, ShownBound
  <2>5. CASE NearestRank(r) > 5000
    <3>1. high = 5000
      BY <1>2, <2>5, ShownBound
    <3>2. RunnerBoundariesMs[b] <= 5000
      BY Bounds
    <3> QED  BY <2>3, <3>1, <3>2
  <2>6. CASE NearestRank(r) <= 5000
    <3>1. NearestRank(r) <= RunnerBoundariesMs[c] /\ RunnerBoundariesMs[c] \in Nat
      BY <1>2, <2>4, <2>6, ShownBound, Bounds
    <3>2. NearestRank(p) <= RunnerBoundariesMs[c]
      BY <2>1, <2>2, <3>1
    <3>3. low <= RunnerBoundariesMs[c]
      BY <1>2, <3>2, ShownNoHigher
    <3> QED  BY <2>4, <3>3
  <2> QED  BY <2>1, <2>5, <2>6
<1> QED  BY <1>1, <1>2

\* Below the last bound, a percentile is not rounded down.
LEMMA MinimumBelow ==
    ASSUME TypeOK, SlotsAreExact, ExtremesAreExact, result # NoReport,
           NEW p \in 1 .. 100, NEW shown, ShownAs(shown, p), shown < 5000
    PROVE  result.min <= shown
<1>1. CASE Sampled = {}
  BY <1>1 DEF ShownAs, ExtremesAreExact
<1>2. CASE Sampled # {}
  <2>1. NearestRank(p) \in Latencies /\ NearestRank(p) \in Nat
    BY <1>2, RankExists
  <2>2. result.min = Min(Latencies) /\ Min(Latencies) \in Nat
    BY <1>2, ExtremesAround DEF ExtremesAreExact
  <2>3. Min(Latencies) <= NearestRank(p)
    <3>1. \A l \in Latencies : \E q \in Sampled : l = OutcomeOf(q).latency
      BY DEF Latencies
    <3>2. PICK q \in Sampled : NearestRank(p) = OutcomeOf(q).latency
      BY <2>1, <3>1
    <3> QED  BY <1>2, <3>2, ExtremesAround
  <2>4. shown \in Nat
    <3>1. PICK c \in 1 .. 12 : shown = RunnerBoundariesMs[c]
      BY <1>2, ShownBound
    <3> QED  BY <3>1, Bounds
  <2>5. NearestRank(p) <= shown
    BY <1>2, <2>1, <2>4, ShownBound
  <2> QED  BY <2>1, <2>2, <2>3, <2>4, <2>5
<1> QED  BY <1>1, <1>2

LEMMA FiguresFit ==
    ASSUME TypeOK, SlotsAreExact, TotalsAreExact, ExtremesAreExact, AverageIsWeighted,
           PercentilesAreNearestRank
    PROVE  FiguresAgree
<1> SUFFICES ASSUME result # NoReport
             PROVE  /\ result.success <= result.total /\ result.latencyCount <= result.total
                    /\ result.min * result.avg.den <= result.avg.num
                    /\ result.avg.num <= result.max * result.avg.den
                    /\ result.p50 <= result.p95 /\ result.p95 <= result.p99
                    /\ result.p50 < 5000 => result.min <= result.p50
  BY Bounds DEF FiguresAgree
<1>1. result.success <= result.total /\ result.latencyCount <= result.total
  <2>1. /\ Cardinality({q \in Requests : OutcomeOf(q).success}) <= Cardinality(Requests)
        /\ Cardinality(Sampled) <= Cardinality(Requests)
    <3>1. Sampled \subseteq Requests /\ {q \in Requests : OutcomeOf(q).success} \subseteq Requests
      BY DEF Sampled
    <3> QED  BY <3>1, CountedRequests, FS_Subset
  <2> QED  BY <2>1 DEF TotalsAreExact
<1>2. /\ result.min * result.avg.den <= result.avg.num
      /\ result.avg.num <= result.max * result.avg.den
  BY AverageBetween
<1>3. ShownAs(result.p50, 50) /\ ShownAs(result.p95, 95) /\ ShownAs(result.p99, 99)
  BY DEF PercentilesAreNearestRank
<1>4. 50 \in 1 .. 100 /\ 95 \in 1 .. 100 /\ 99 \in 1 .. 100 /\ 50 <= 95 /\ 95 <= 99
  OBVIOUS
<1>5. result.p50 <= result.p95
  BY <1>3, <1>4, PercentilesOrdered
<1>6. result.p95 <= result.p99
  BY <1>3, <1>4, PercentilesOrdered
<1>7. result.p50 < 5000 => result.min <= result.p50
  BY <1>3, <1>4, MinimumBelow
<1> QED  BY <1>1, <1>2, <1>5, <1>6, <1>7

\* The figures of a run fit together in every interleaving of users, shards, cancels and
\* dead letters, although the average, the extremes and the percentiles take different
\* ways from the users' slots to the row: the average lies between the extremes, the
\* percentiles are in order, and a percentile that is not capped is no lower than the
\* minimum (record, mergeStats, aggregateRun, runPercentiles).
THEOREM LoadFiguresAgree == Spec => []FiguresAgree
<1> QED  BY FiguresFit, LoadTypeOK, LoadSlotsAreExact, LoadTotalsAreExact,
            LoadExtremesAreExact, LoadAverageIsWeighted, LoadPercentilesAreNearestRank, PTL
=============================================================================
