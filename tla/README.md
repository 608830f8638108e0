# A TLA+ model of the distributed load-testing platform

The platform runs HTTP load tests. A user asks the **backend** for a *run*; the
backend stores the run and its *shards* in PostgreSQL and publishes one message
per shard to a Redis stream; **workers** take the messages, claim the shards over
HTTP, produce the load, and report results; the backend combines the shards'
results when the last one has ended. This directory specifies that behaviour in
TLA+, checks it with TLC on small instances, and proves parts of it with TLAPS for
every instance.

Run a check with `tlc -config <X>.cfg <Module>` and a proof with `tlapm <Module>.tla`.

## 1. Inventory

| Component | Source | State | Operations |
|---|---|---|---|
| Run and shard store | `backend/internal/store/test_run_store.go`, `models/test_run.go` | rows of `test_runs` and `test_run_shards`, row locks | CreateWithShards, CancelRun, StartShard, TakeOverShard, CompleteShard, FailShard, the completion barrier (finishShard, aggregateRun); reads |
| Fallback run queue | same file; `handlers/internal_api.go`; `worker/internal/client/client.go` | `test_runs` as a queue | ClaimNext, StartByID, TakeOver, Complete, Fail |
| Worker endpoints | `handlers/internal_api.go` | none | decode, validate, one store call, status code |
| User endpoints | `handlers/test_runs.go` | none of its own; `MAX_CONCURRENT_RUNS` | create (validate, count, split, insert, publish), cancel; list and get |
| Publisher and stream | `backend/internal/queue/publisher.go`; Redis (external) | the stream, the group's cursor, its pending entries list, the dead-letter stream | PublishShard; XREADGROUP, XPENDING, XCLAIM, XACK as the worker uses them |
| Worker | `worker/cmd/worker/main.go`, `worker/internal/client/client.go` | the message in hand; the rest of a scan | boot, reclaim scan, read, handleMessage, heartbeat, dead letter, shutdown |
| Cancel watcher | `main.go` (watchCancel) | none | polls the run, ends the load |
| Load runner | `worker/internal/runner/{runner,stats,histogram}.go` | a tally per virtual user | virtual users, record, merge |
| Result aggregation | store aggregateRun; `store/histogram.go` | columns of the run row | sums, weighted average, extremes, percentiles |
| Connection pool, server, health | `backend/internal/db/db.go`, `cmd/api/main.go`, `handlers/health.go` | connections in use, requests in flight | take and give back a connection; start, drain, stop; ping |
| Dashboard | `frontend/src/pages/{Home,RunDetail}.jsx`, `components/CreateForm.jsx`, `api.js` | the page, what it shows, its timers, requests in flight | load and poll, create, cancel, move between pages |
| Metrics, target, schema, deployment | see `PROJECT.json` | | |

**How they interact.** Browser → backend by HTTP; backend → Redis by XADD after the
database commit; Redis → worker by XREADGROUP and XCLAIM; worker → backend by HTTP,
whose store methods meet each other only in PostgreSQL's row locks. The worker's
goroutines meet in the run context (heartbeat, cancel watch and load share it) and in
`wg.Wait`. All requests of the backend share one pool of connections, and the health
probe, which decides whether the process lives, is one of them. The dashboard knows the
backend only by answers that may be late, cross each other or never come.

**What is hard.**

* Concurrency: shards of one run finish together, a user cancels at the same
  moment, a claim is still between its two UPDATEs. Isolation is READ COMMITTED, so
  what a statement reads can be stale when the next one runs.
* Failure: a worker dies holding a message; a call is applied and its answer lost; a
  publish fails after the commit; a client hangs up in the middle of a handler.
* Ordering and time: a lease (`RECLAIM_MIN_IDLE`) runs out while its holder lives; a
  scan acts on an old snapshot; a late report meets a shard that has ended.
* Numbers: users without a sample, shards without metrics, percentile ranks, splits
  with a remainder.

`PROJECT.json` lists each such hazard at the line where it bites, with the properties
that would catch it going wrong.

**What makes each component correct.** Store: the barrier fires exactly once, for every
run that was marked running; a cancellation is kept; terminal rows stay; the result is that of the
shards. Queue: a run is taken once, oldest first, without waiting. Delivery: a
published shard is not forgotten, retried only so often, run by one worker at a time,
and its run ends, two known holes apart. Admission: the cap is passed by a bounded number
of runs, shards carry the users asked for, and a run keeps its slot only for a known reason. Load and aggregation: the numbers shown are what happened.
Pool and server: requests that share connections and rows are all answered, and a drain ends.
Dashboard: what a page shows is about its own run, never goes back, and ends with the run.

## 2. Modules

```
RunTables ──┬── RunLifecycle  (contract: one request = one step)
            │        ▲ INSTANCE, refinement         ▲ INSTANCE, the backend's steps
            ├── ShardStore ─── ShardStoreProofs     │
            │        ▲ EXTENDS, refinement          │
            │   PooledStore ── PooledStoreProofs    │
            └── Delivery ───── DeliveryProofs
Admission ─────────────── AdmissionProofs ─┐
LatencyStats ── LoadRun ── LoadRunProofs ──┼── SumTheorems  (sums, least, greatest)
RunQueue ──────────────── RunQueueProofs ──┘
Dashboard ── DashboardProofs
```

Each checked module `M` has an `MCM` that gives the instances. An operator whose
comment begins with *Variant* is a plausible mistake in the code; it is not part of
any specification, and `PROJECT.json` ("mutants") says which property rejects it.

**RunTables** declares the rows both sides share, their types, the insert, the verdict
and the merge of results, and the properties stated of the rows alone. A result is
abstract here: which payload each shard contributed. What the numbers are is
LoadRun's business.

**RunLifecycle** is the abstract specification: every request is one atomic step. It is
the contract of `docs/ARCHITECTURE.md` as the code honours it, including two steps a
reader might not expect: a claimed run becomes `running` in a second step
(`RunStarts`), and a dead letter may end the shard of a run that is still `queued`, and
then nothing ends the run.

**ShardStore** is the implementation. One action is one SQL statement of one of several
concurrent requests:

| Code | Action |
|---|---|
| `CreateWithShards`, `CancelRun` | the actions of that name |
| a worker's request arrives | `StartShard`, `TakeOverShard`, `CompleteShard`, `FailShard` |
| `startShard`'s two autocommitted UPDATEs | `ClaimShard`, `MarkRunRunning` |
| `finishShard`: UPDATE of the shard; SELECT run FOR UPDATE; count; `aggregateRun`; COMMIT | `FinishShardRow`, `LockRun`, `CountRemaining`, `AggregateRun`, `Commit` |
| a miss (`shardMiss`) | the second disjunct of `ClaimShard` and `FinishShardRow` |
| error, client gone, server stopped | `Abort` |

A transaction's own writes are kept in `call` and `update` until `Commit`
(`SeenStatus`, `SeenResult` is what its statements see). A locked row makes the action
wait. An UPDATE that waits re-evaluates its WHERE clause on the row it finds when
the lock is released, which is the READ COMMITTED rule. `assigned` is a history
variable: the shards whose claim was answered with an assignment, the only ones a worker
ever reports.

**PooledStore** puts the process around ShardStore: `server` starts (`Boot`), drains
(`Signal`, `Drained`) and dies; a request takes a connection (`Connect`) for each
statement of startShard and one for finishShard's whole transaction (`Run` keeps or gives
it back); `Miss` is the UPDATE that matches no row, after which shardMiss asks with a
query of its own, in finishShard over a second connection while the first is held
(`NeedsSecond`). `GiveUp` is the worker's client that stops waiting. `Health` is what GET
/health says. Every step is a step of ShardStore or leaves its variables alone.

**Delivery** composes the backend (an INSTANCE of RunLifecycle, so a call is atomic), Redis
and the workers. `step[w]` is where a worker is: `scan`, `reclaim` (it walks its XPENDING
snapshot), `read`, then `claim`, `mark`, `run`, `report`, `ack` of handleMessage, or `copy`,
`fail`, `ack` of deadLetter. A remote call has three outcomes: answered; failed and applied;
failed and not applied. `quiet` are the pending messages whose idle time has passed
`RECLAIM_MIN_IDLE`: `ScanPending` takes the oldest `ScanLimit` of them with their counts,
`WatchCancel` polls the run beside the load and ends it, `GoQuiet` is for messages nobody
handles, `Stall` for a live worker that is too slow at one of the steps `StallAt`, and the
heartbeat that makes a message busy again.

**RunQueue** is the fallback path on whole runs. Its actions are the client's sends,
the handlers with their status codes, and for `ClaimNext` the walk through the
snapshot that FOR UPDATE SKIP LOCKED is: step over a row that is locked or changed,
lock the first other one, update it by its id, answer.

**Admission** is `CreateTestRun`, several at once: `Submit` (validateCreate),
`CountActiveRuns`, `CreateWithShards` with `SplitVUs`, one `PublishShard` after the
other, `RespondCreated`; `RequestEnds` cuts it off anywhere. After the
stream it has what decides whether a run still counts against the cap, one step per
transaction: the two UPDATEs of startShard (`StartShard`, `MarkRunRunning`, so that a second
one may be lost and a takeover repeat it), `CompleteShard` with either status, `FailShard` of a
queued or running shard, and `FinishShard` with `AggregateRun`, whose UPDATE matches no row
of a run that is still queued. `AckOpenShard` is a message acknowledged before its shard
has ended: `deadLetter` after a lost FailShard, or `handleMessage` after a refused claim.
When deliveries run out and leases expire is Delivery's; here it may happen at any time to a
run in `Troubled`.

**LatencyStats** has the arithmetic as pure operators; **LoadRun** the virtual users that
produce its inputs: `Send`, `Respond`, `Fails`, `ThinkEnds`, `Finish`, the end of the
context (`Stop`), wg.Wait and the merge (`Report`), a takeover that starts from nothing,
a dead letter, and the aggregate. `history` is what really happened, and the
properties compare it with what the run shows. Both copies of the bucket bounds are there,
the worker's (`RunnerBoundariesMs`) and the backend's (`StoreBoundariesMs`).

**Dashboard** is one browser. A request of a page is sent, read by the backend (`Serve`) and
answered (`Answer`) or lost (`Fail`), in any order. `live` is the page's `active` flag or its
being mounted. `Show` is the detail page with a new id, with the effect's `Cleanup`;
`PollDetail` and `PollHome` are setTimeout and setInterval; `SubmitRun` and `ClickCancel` the
user's requests. The backend moves the runs by itself (`RunMoves`). What is on the page is in
`shown` and `list`, an error that has replaced it in `failed` and `listFailed`.

## 3. Runs

| Run | Question | Instance |
|---|---|---|
| `store` | Do the invariants of the rows survive every interleaving of statements? Is `IInv` an invariant? Do the statements add up to RunLifecycle? | 1 run, 2 shards, 3 requests, 2 payloads |
| `store_pool` | Is every request answered although connections are few? Does a probe recover, a drain end? Is `PoolInv` an invariant? | 1 run, 2 shards, 2 requests, 2 connections |
| `delivery` | No shard lost, retries bounded, one worker per message? | 1 shard with a repeated message, 2 workers, 4 faults, MAX_DELIVERIES 1 |
| `delivery_live` | Does the run end, a cancelled one also if no load would? Does none wait for nothing? Do restarts skip nothing? Is `DeliveryInv` an invariant? | 1 run, 2 shards, 2 workers, 2 faults, scans of 1 entry |
| `queue` | Claims, starts, takeovers, cancels against each other | 3 runs, 2 workers |
| `load` | Are the numbers right? | 2 shards with 2 and 1 users, 2 requests each, 4 in all |
| `dashboard` | Does a page show what its own run came to? | 2 runs, 2 requests in flight when the next one is sent |
| `admission` | Do the cap and the split hold? Why does a run keep its slot? | 2 requests, cap 1, 3 runs, forms at every limit, every run in trouble |

Each run that checks a module with proofs also checks what those rest on, in one invariant that
includes the types: `IInv`, `PoolInv`, `DeliveryInv` (`DInv`, `RetryInv` and `ContractInv`),
`QueueInv` (`QInv` and `OrderInv`), `RunInv` (`TypeOK`, `SlotsAreExact`, `LoadInv` and
`ResultIsFinal`), `AdmissionInv` (`TypeOK`, `CapInv` and `WaitInv`) and `DashboardInv`
(`DetailInv` and `ListIsPast`). Theorems named `…KeepsInv` state those made of several.

**Why the bounds are enough.** A shard-store conflict is about one run row and the shards of
that run: two finishing shards plus one more request show every wait and every pair of orders.
Requests of different runs do not meet; the proofs, which have no bounds, include that. In
Delivery a takeover needs a holder and a taker (2 workers), a race of two scanners the same
two. What `delivery` asks is about one message or one shard, so it has one shard, with two
messages, and all the faults: four allow a lost answer, the stall or crash that lets the message
be reclaimed, another one during the retry, and one in the dead-letter path, which
MAX_DELIVERIES 1 reaches within two. What is about a run and its barrier is asked in
`delivery_live`, with two shards.
In RunQueue a claim that passes a locked run by needs one more to take and one to order them
by (3 runs). Of the load, two users in one shard and a user alone in another give a merge
within and across shards, a user or a shard without a sample, and unequal weights; two
requests are the smallest number at which "one request per user is cut off" can be exceeded. Of
the six requests the three users could send, at most four are sent (`FewRequests`, a state
constraint): any two users may send all of theirs, or all three at least one each.
Latencies 5 and 6000 are on a bound and beyond the last one. Two reports that miss exhaust a
pool of two, which is how ten exhaust the pool of ten; one connection would let nobody finish
a repeated report. On the dashboard two runs make the answers of two detail pages and the list
cross; `MaxRequests` is tested where a request is sent by a click, a navigation or the
interval, so that a timer's poll may be one more. Admission needs three active runs to pass its bound for a cap of
one and two requests; one of the three may have two shards (`OneWideRun`, a state constraint),
so that a barrier with an open sibling meets runs that hold a slot for every reason at once.

`CHECK_DEADLOCK FALSE` is set only for `load`, which ends when the run has its result.

**Fairness.** `PooledStore!PoolFairSpec`: strong fairness of a request's own steps.
PostgreSQL grants a row lock in the order of its waiters, and database/sql hands a connection
that is given back to a waiter, so a request whose connection or row becomes free again and
again gets it. Weak fairness of `GiveUp` (the worker's http.Client has a timeout of ten
seconds) and of `Drained` (Shutdown returns once nothing is in flight). Neither starts, signals
nor arriving requests are fair. `Delivery!FairSpec`: weak fairness of a worker's own
steps, including `Boot` (the Kubernetes Deployment restarts its pods) and `WatchCancel` (a
ticker), and of time (`GoQuiet`); cancels, publishes, crashes, stalls, and the heartbeat owe
nothing, and faults are finite (MaxFaults). That a load ends by itself (`LoadsEnd`) is a
hypothesis of `RunEnds` alone: `CancelEndsRun` does without. `Admission!FairSpec`: weak
fairness of the steps of an accepted request, which may still be cut off at any moment, and
of the workers' claims and reports; only `admission_lost` uses it, with `Troubled` empty, and
what fails there fails under less. `Dashboard!DFairSpec`: weak fairness of the timers, and of answers of each
kind (`Comes`), though not of each request: one may stay unanswered while later ones are
answered, and any may fail.

**What the passing runs show.** The barrier, the verdict, the kept cancel and terminal rows hold
at statement granularity (`BarrierCloses`, `RunReflectsShards`, `CancelIsKept`,
`FinishedIsFinal`), and the statements implement the contract (`ImplementsLifecycle`). With few
connections no cycle through the pool and the row locks is possible (`NeverStuck`), since who
waits for a connection holds no row and rows are locked in one order (its mutant reads the
percentiles over the pool while the run is locked); but repeated reports can hold every connection
while each waits for a second one, and only the clients' timeouts resolve that (`CallsReturn`,
`HealthComesBack`: their mutants are a lock that is kept and a client without a timeout). A
shardMiss answers by a later query, and its answer is still true then (`MissStaysTrue`). A
published shard always has a message that will be delivered again, unless the code gave it up on
purpose (`NoLostShard`, for workers that are not slow in the claim, see below), and so has every
published run that has not ended (`OpenRunHasWork`; its mutant is a barrier that misses a run
being cancelled); a message is delivered at most once per worker beyond MAX_DELIVERIES
(`DeliveriesBounded`), since each scanner may act on a count read before the limit was passed. No
message's load is run by two workers at a time unless one of them stalls (`RunsAlone`, with the
history variable `stalled`). A published run ends (`RunEnds`) when
workers do not stall in the claim and unless a dead letter leaves it open, the two holes
described below, and a cancelled one ends through its watchers, across crashes and lost
status calls, although no load would end (`CancelEndsRun`). Scans that see one entry at a time
still get to all. The whole-run queue takes each run once, in order, never waiting and never
reviving a cancelled run, although the outer UPDATE of ClaimNext has no status guard: the row lock
carries it. The result a run shows is exact: totals, extremes over sampled slots only, the average
weighted by samples, percentiles equal to nearest rank up to the bucket's bound, by both copies of
the bounds; each user's slot is exact at every moment (`SlotsAreExact`, a part of `RunInv`); the
end of the run costs at most one request per user. A run that counts against the cap has an
open shard, with its message in the stream, still to be sent, lost on the way or acknowledged too
early, or else all its shards were dead-lettered before it was marked running; and none gives its
slot up with a shard open or never published (`SlotsAreAccountedFor`; its mutant is the barrier
that misses a run being cancelled). The last three reasons are for good: they are the next section. A detail page has one chain of polls, for its
own run (`OnePollChain`); a failed poll is the last one, but then the error is on the page and not
a status that looks live (`PollingGoesOn`); crossing answers never show another run or an older
status (`ShownMovesOn`). Home's polls do overlap, so its list may go back for a moment, but both
pages end right (`PagesSettle`).

### What the code does not keep

Four runs are expected to find a violation. Each checks a sentence of the repository's
own comments or docs; the code at the line given does otherwise.

* `store_last_shard`, `LastShardEndsRun` (`test_run_store.go:503`). `FailShard` accepts a
  queued shard. If it is the last one and no shard of the run was ever started, the run
  is still `queued`, `aggregateRun`'s UPDATE matches no row, and the run stays
  queued for ever.
* `delivery_slow_claim`, `OrphanIsReclaimable` (`main.go:295`). Worker A reads a message and
  is slow to claim; B reclaims it and runs the shard; A's claim is answered 409 and A
  acknowledges the message, which is B's now. If B dies, nothing is left to reclaim.
  `delivery` and `delivery_live` therefore let workers stall at every
  step but the claim (`StallOnceClaimed`), and this run at every step.
* `delivery_dead_letter`, `DeadLetteredShardEnds` (`main.go:261`). The message is
  acknowledged although the call that fails the shard went wrong.
* `admission_lost`, `CancelledRunEnds` (`test_run_store.go:352`). A shard whose message was
  never published keeps its run open; cancelling does not help, because only the end of
  a shard runs the barrier. Such a run counts against the cap for ever.

## 4. Proofs

`ShardStoreProofs` proves, for any sets of runs, shards, requests and payloads that satisfy
the ASSUMEs of RunTables and ShardStore (a shard has a run, every run has a shard, the
marker values are no rows):

| Theorem | States |
|---|---|
| `StoreInvariant` | `Spec => []IInv` |
| `StoreTypeOK`, `StoreBarrier`, `StoreAggregate`, `StoreAssigned` | conjuncts of `IInv` that mean something by themselves |
| `StoreImplementsLifecycle` | `Spec => Lifecycle!Spec` |
| `StoreKeepsCancel`, `StoreKeepsFinished` | the two action properties |

*The argument.* `BarrierCloses` is not inductive: that no run stays open rests on what the
transactions in flight have read. `IInv` adds that every session's request is well formed
(`CallsWellFormed`), that a row is locked exactly by the transaction past its locking
statement (`LocksMatchSteps`), that rows exist together and a reported shard was assigned
(`RowsAgree`), and the heart of it, `ReadsStayTrue`: until a transaction ends, its shard is as
its WHERE clause found it; if it is about to aggregate, all other shards of its run are
terminal; if it is about to commit without an aggregate, another shard is still open or the
run was never started. The last one is where the FOR UPDATE lock is needed: the only step that
could falsify it is another transaction of the same run committing, and that one would have to
hold the same lock. There is one lemma per action (`CreateInv` … `AbortInv`), `CommitEffect`
for what a commit writes, and `ReadsFrame` for sessions a step does not touch. `StepRefines`
maps each action to its RunLifecycle step or a stutter, from the same invariant: `ClaimShard`,
`MarkRunRunning`, `CancelRun`, `CreateWithShards` and `Commit` change the rows, all others
stutter.

`AdmissionProofs` proves `AdmissionBounded`: `Spec => []CapOvershoot` for any cap and any
finite number of requests. A request past its count holds a slot before its run
does, so the invariant `CapInv` counts both: active runs plus requests about to insert
are at most the cap plus the other requests. It holds because a request enters `create`
only when it saw fewer active runs than the cap, and there are at most `|Clients|`
requests there at once. `AdmissionAccountsForSlots` (`Spec => []SlotsAreAccountedFor`) says what
holds a slot, with the ways the code can leave it there for good among the cases, and that no run
ends with a shard that is open or was never published. Its invariant `WaitInv` says of a run without an open
shard that it has ended or has only failed shards. The last shard to end closes a run that is
running or being cancelled (`WaitFinish`); a run that is still queued then was never marked, so no
report can have been among its ends, since a worker reports after the second UPDATE of a start:
all of them were dead letters. The rest of `WaitInv` is that only published shards leave
`queued` and that what is still to be sent has its request. `AdmissionTypeOK` needs that what validateCreate lets through can be
split, for any form. `AdmissionCoversUsers` (`Spec => []ShardsCoverUsers`) is about splitVUs:
the first `remainder` shards get one user more than the others, so the sum is taken over both
parts (`SplitSum`), and what a run was created with is never changed (`CoverNext`).

`RunQueueProofs` proves `QueueTakesOnce` and `QueueNeverRevives` for any number of runs and
workers. `TakenOnce` alone is not inductive, since `UpdateClaimed` counts a start without
looking at the status; `QInv` adds that a row is locked exactly while a claim is between its
SELECT and its UPDATE, that a locked row is queued, and that a queued row was never taken.
`QueueOldestFirst` rests on `OrderInv` (theorem `QueueOrder`): at every point of a claim's
walk an older queued run is still before it or was passed while locked. A run that is inserted
meanwhile is newer than all others, so it cannot break that. `QueueClaimHasNext` is what
`ClaimNeverWaits` says, written with the guards instead of ENABLED: a walk with rows left has an
oldest one, which it steps over or takes, and an UPDATE holds its row's lock.

`LoadRunProofs` proves, for any number of shards, users and requests and any latencies, every
property of the run `load`:

| Theorem | States |
|---|---|
| `LoadStopsCheaply`, `LoadReportsFinal` | `StopCostsOneRequest`, `ReportedIsFinal`, from `LoadInvariant` |
| `LoadTypeOK`, `LoadSlotsAreExact` | every slot is what its user's requests came to |
| `LoadResultIsFinal`, `LoadKeepsInv` | the result is the aggregate of the reports; `RunInv` |
| `LoadTotalsAreExact` | `TotalsAreExact` |
| `LoadAverageIsWeighted` | `AverageIsWeighted` |
| `LoadExtremesAreExact` | `ExtremesAreExact` |
| `LoadPercentilesAreNearestRank` | `PercentilesAreNearestRank` |
| `LoadFiguresAgree` | the figures fit together (`FiguresAgree`) |

*The argument.* None of the last five is inductive; they are consequences of `RunInv`. `LoadInv`
says that a user whose request was cut off is behind the check of the context, and that the report
of a shard is a function of slots that only its own users write. `SlotsAreExact` is inductive with
the types: one step of `record` (`RecordFields`) adds one element to the sets of counted requests
(`SlotGrows`), one latency to the sum, one sample to the one bucket whose bounds enclose it
(`BucketBounds`), and the first sample seeds both extremes because no sample is the same as a
sample count of zero. `ResultIsFinal` says that nothing is reported after the aggregate. From
there on it is arithmetic. A column of the result is a sum over shards of sums over users
(`ColumnShown`, by `SumByGroup` with `ShardOf` as the grouping), each user's number is the size of
a set of its requests, and together these sets are a set of pairs of a user and a number
(`CountRequests`, by `CountByRow`), which is how the properties count. The average needs that a
shard's average times its count is its sum, and that a shard the weighting leaves out has sum zero
(`SamplesOfShard`). The extremes go from samples to users to shards, leaving out at each level
who has no sample. For the percentiles, the merged histogram cumulates up to a bucket to the
number of samples up to its bound (`MergedUpTo`); the first bucket that reaches the rank is the
one the nearest-rank sample falls in (`RankedBucket`: it reaches the rank, and any bucket that
does has a greatest sample, which is not below the nearest rank); and the backend's list of bounds is the
worker's (`Bounds`), which is where a difference between the two would end the proof.
`FiguresAgree` follows from the four before it: a sum lies between as many times the least and
the greatest of what is summed (`AverageBetween`, by `SumLess`), a higher percentile has no lower
rank, and what is shown of a rank is the least bound it does not exceed (`ShownBound`,
`PercentilesOrdered`). A percentile that is capped at the last bound may lie below the minimum, so
the last part is about the others only.

`SumTheorems` has what these proofs need of sums, minima and maxima. The library's induction
theorems take an operator, which the provers cannot instantiate, so the induction is carried by a
set: a set of subsets of a finite set has a least member (`LeastSubset`), so a family of subsets
that has {} and is closed under adding an element has all of them (`SubsetInduction`). The fold
behind SumFunctionOnSet is a CHOOSE of a function; `SumsExist` shows that there is one and
`SumsAgree` that it does not depend on the set it was chosen for.

`DashboardProofs` proves `DashboardPollsOnce`, `DashboardPollsOn` and `DashboardMovesOn` for any
number of runs and of requests in flight. `OnePollChain` is inductive once the bag of requests is
seen through its live polls only (`SendPoll`, `TakePoll`, `TakeOther`, `ReadOne`, `TurnPage`): a
page that is left has none, a page that is entered sends one, and a timer is set only by the
answer of the live poll. `ShownMovesOn` needs that what is shown is behind what the answer on its
way carries, and that is behind the backend (`ShownIsPast`), where runs only move on (`MovesOn`);
and that a request is about a run that was there (`RequestsMakeSense`). `DetailInv` is all of
this with the types, with one lemma per action. `DashboardInvariant` adds Home: its polls overlap,
so its list is in no order, but every entry of it, and of every answer on its way, was true of
the run once (`ListIsPast`), and since a run never leaves its end (`Behind`),
`DashboardEndsAreTrue`: what either page shows as ended has ended so.

`PooledStoreProofs` proves, for a pool of any size, that every step of PooledStore is a step of
ShardStore or leaves it alone (`PoolImplementsStore`), so `IInv` holds there too and the deployed
backend keeps the contract (`PoolImplementsLifecycle`), and from `IInv` and `PoolInv`
(`PoolInvariant`) that the pool keeps its bound (`PoolIsBounded`), that the answer of shardMiss
stays true (`AnswersStayTrue`: a shard only moves on, `ShardMovesOn`), that no waiter holds a row
(`WaitersHoldNoRow`), and `StoreNeverStuck`: rows are locked in the order of `Height`, a shard
before its run, so a request waits only for one that is further on and does not wait for the pool
(`RowWaits`), and after two such steps there is one that waits for nothing. This is the safety
half of `CallsReturn`; that the request does go on is fairness.

`DeliveryProofs` proves `DeliveryLosesNothing`: `Spec => []NoLostShard` for any number of runs,
shards, messages, workers and faults, under one hypothesis, that no worker stalls in the claim
(`"claim" \notin StallAt`). The hypothesis is needed: run `delivery_slow_claim` shows the loss
without it, and `StallKeeps` is the only lemma that uses it. The invariant `DInv` follows a
message through its life: it is in the stream once and after its shard (`StreamOnce`); it is
pending exactly from its one XREADGROUP to its acknowledgement, and was acknowledged only for a
started shard (`DeliveredOnce`); workers know of delivered messages only, and one that was just
read is known to no other worker (`KnowsDelivered`), which is what a stall in the claim breaks;
whoever is about to acknowledge has the reason to (`AcksAreJustified`); and a running shard has a
message with the group that nobody is about to acknowledge as refused (`RunningHasMessage`). Most
steps of a worker change only what it has in hand: `Moves` and `OwnMove` treat them at once, and
the steps that read, claim, acknowledge or let time pass have lemmas of their own. `TypeOK` is the
first conjunct of `DInv` and is checked with it. `Forward` is all the proof uses of the backend: a
shard's status never goes back.

The second part of `DeliveryProofs` goes on from `DInv` without that hypothesis, wherever workers stall.
`RetriesAreBounded` is not inductive: a count past the limit says nothing about the snapshots
still in use. `RetryInv` counts them: the deliveries of a message past MAX_DELIVERIES and the
workers whose snapshot would still let them take it are together at most the number of workers
(`OneFewer` is the step that trades one for the other), a message that has not stalled is in one
worker's hands and not quiet (`HandledOnce`, from which `LoadsRunAlone`), and only poison is
dead-lettered (`OnlyPoisonIsDeadLettered`). `RestartsSkipNothing` follows from the steps that move
the group's cursor.

A part between the two joins the backend's half of the path to the workers'.
`LifecycleKeepsContract` is about RunLifecycle alone: whatever implements it has the barrier and
the verdict (`ContractInv`). The end of the last shard and the end of the run are one step there,
provided that the run was started; so what makes the barrier inductive is that a shard with a
report has a started run. Every step of a worker is a request of that contract or leaves the rows
alone (`StepIsRequest`, `DeliveryImplementsLifecycle`), so `DeliveryKeepsContract`. With it,
`DeliveryHasWork`: `Spec => []OpenRunHasWork`, again for workers that do not stall in the claim. A
published run that has not ended has an open shard, or the barrier would have ended it, or a dead
letter left it open (`LeftOpen`); the open shard has a message, for none is lost. This is what
`RunEnds` needs besides fairness.

*Model-checked only:* every liveness property (`CallsReturn`, `HealthComesBack`, `DrainEnds`,
`RunEnds`, `CancelEndsRun`, `PagesSettle`), since TLAPS does not reason about
fairness here, and `ClaimNeverWaits`, which uses ENABLED (`QueueClaimHasNext` proves what it comes
to). All other properties of the passing runs are stated by a theorem.

## 5. Abstractions and what is not modelled

* Ids, URLs, error texts and the fields of a run that nothing decides by are left out. Latencies are whole
  milliseconds; an average is the exact fraction that the code rounds to a float64. The
  ranks of the percentiles are exact integers; the float64 products 0.50·n, 0.95·n,
  0.99·n round to the same rank at the sizes checked.
* Each statement except ClaimNext's is atomic. Multi-row SELECTs read one snapshot, as they do.
* The run endpoints of the fallback path are not interleaved with shards: no caller is
  left for most of them, and they do not look at shards.
* Redis is external and does not fail: `k8s/03-redis.yaml` accepts that a restart loses what
  is in flight, so there is no promise to check. Malformed messages and `PublishJob` are left out.
* A message published before the group exists is skipped by it. The model has this
  (`Skipped`), and the properties of delivery are about the others.
* A startShard that is held up between its two UPDATEs until its shard has been dead-lettered,
  so that the run is marked running after its last shard has ended, is in ShardStore and not in
  Admission, where a run is marked while a shard of it is running. Such a run, too, is
  active with all its shards failed.
* The user's requests hold a connection for one statement; a cancel that waits for a row is
  not counted against the pool meanwhile.
* The dashboard's charts, tiles and form fields, React's double effects in development
  (StrictMode), and more than one tab.
* Metrics and the sample target: see `PROJECT.json`. Nothing reads their state back.

## 6. Plan

Done, in the order of importance: store and contract with proofs, delivery with proofs, admission,
queue, load and aggregation, then the pool and the server around the store, the cancel watcher
and scans of limited length in delivery, the dashboard, and the proofs: bounded retries, loads
run alone, claims in order, exact slots, the refinement by the pool, the numbers a run shows, the
split of users, the polls of the dashboard, the contract carried to the deployed backend and to the
workers, no run without work, the slots of the cap accounted for. Left:

1. **Composition**: Admission's requests over the pool of PooledStore, so that the cap is
   counted on connections that may be short.
2. **Proofs**: a measure for `RunEnds`: that every retry of a message uses up one of a bounded
   number of deliveries, joined to `DeliveryHasWork`, would leave nothing but fairness to TLC.
