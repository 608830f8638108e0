------------------------------ MODULE Delivery ------------------------------
(***************************************************************************)
(* The whole path of a shard: the backend publishes a message to a Redis   *)
(* stream, a consumer group hands it to one of the workers, the worker     *)
(* claims the shard over HTTP, runs its load, reports the result and       *)
(* acknowledges the message; messages of workers that died are reclaimed,  *)
(* and dead-lettered after too many deliveries (worker/cmd/worker/main.go).*)
(*                                                                         *)
(* The backend is RunLifecycle, which ShardStore implements.  Redis (the   *)
(* stream, the group's cursor and its pending entries list) is external    *)
(* and modelled from the commands the worker sends.  Everything that goes  *)
(* wrong, a crash, a request that is not applied or whose answer is lost,  *)
(* a worker that stalls, uses up one of MaxFaults.  Operators introduced as *)
(* variants are mistakes that a property must reject, not specification.   *)
(***************************************************************************)
EXTENDS RunTables, Naturals, Sequences, FiniteSets

CONSTANTS
    Workers,
    Messages,       \* the XADDs of the backend
    ShardOf,        \* the shard_id a message carries; a retried XADD can put
                    \* two messages for one shard into the stream
    MaxDeliveries,  \* MAX_DELIVERIES
    ScanLimit,      \* the Count of XPENDING
    MaxFaults,      \* bound: how many things go wrong in a behaviour
    StallAt,        \* the steps at which a live worker may be so slow that
                    \* RECLAIM_MIN_IDLE passes for the message it handles
    NoTask

ASSUME ShardOfAssumption == ShardOf \in [Messages -> Shards]
ASSUME BoundsAssumption == MaxDeliveries \in Nat /\ MaxFaults \in Nat /\ ScanLimit \in Nat
ASSUME WorkersAssumption == IsFiniteSet(Workers)

VARIABLES
    stream,         \* the messages in the order of their ids
    cursor,         \* the group's last-delivered position in the stream
    group,          \* does the consumer group exist?
    deliveries,     \* delivery count of each message, kept after the ack
    pending,        \* the group's pending entries list
    quiet,          \* messages whose idle time has passed RECLAIM_MIN_IDLE
    left,           \* how a message left the pending entries list
    deadStream,     \* messages with a copy in the dead-letter stream
    step,           \* what each worker does next
    task,           \* the message it handles, and how it got it
    todo,           \* the rest of its last XPENDING snapshot
    faults,
    stalled         \* messages whose worker has stalled (history)

redis == <<stream, cursor, group, deliveries, pending, quiet, left, deadStream>>
workers == <<step, task, todo>>
vars == <<tables, redis, workers, faults, stalled>>

Backend == INSTANCE RunLifecycle

Entries == [msg : Messages, count : Nat]
Tasks == [msg : Messages, how : {"read", "reclaim", "dead"}]
Handling == {"claim", "mark", "run", "report", "ack"}

ASSUME NoTaskAssumption == NoTask \notin Tasks

TypeOK ==
    /\ TablesTypeOK
    /\ stream \in Seq(Messages) /\ cursor \in 0 .. Len(stream)
    /\ group \in BOOLEAN
    /\ deliveries \in [Messages -> Nat]
    /\ pending \subseteq Messages /\ quiet \subseteq pending
    /\ left \in [Messages -> {"no", "acked", "dead"}]
    /\ deadStream \subseteq Messages
    /\ step \in [Workers -> {"down", "scan", "reclaim", "read", "copy", "fail"} \cup Handling]
    /\ task \in [Workers -> Tasks \cup {NoTask}]
    /\ \A w \in Workers : (task[w] # NoTask) <=> (step[w] \in Handling \cup {"copy", "fail"})
    /\ \A w \in Workers : todo[w] \subseteq Entries
    /\ DOMAIN todo = Workers
    /\ faults \in 0 .. MaxFaults
    /\ stalled \subseteq Messages

Init ==
    /\ TablesInit
    /\ stream = <<>> /\ cursor = 0 /\ group = FALSE
    /\ deliveries = [m \in Messages |-> 0]
    /\ pending = {} /\ quiet = {}
    /\ left = [m \in Messages |-> "no"]
    /\ deadStream = {}
    /\ step = [w \in Workers |-> "down"]
    /\ task = [w \in Workers |-> NoTask]
    /\ todo = [w \in Workers |-> {}]
    /\ faults = 0
    /\ stalled = {}

Published == {stream[i] : i \in 1 .. Len(stream)}
MessageOf(w) == task[w].msg
ShardAt(w) == ShardOf[task[w].msg]

At(w, here) == step[w] = here
Goto(w, next) == step' = [step EXCEPT ![w] = next]

\* handleMessage and deadLetter return: a message that was read ends the round
\* of the main loop, one from a scan is followed by the rest of the scan.
Return(w) ==
    /\ Goto(w, IF task[w].how = "read" THEN "scan" ELSE "reclaim")
    /\ task' = [task EXCEPT ![w] = NoTask]

Fault == faults < MaxFaults /\ faults' = faults + 1
NoFault == UNCHANGED faults

-----------------------------------------------------------------------------
\* The API: CreateTestRun inserts the run and then publishes its shards one by
\* one; a publish that fails is only logged, so it may also never happen.

CreateTestRun(r) ==
    /\ Backend!Create(r)
    /\ UNCHANGED <<redis, workers, faults>>

CancelTestRun(r) ==
    /\ Backend!Cancel(r)
    /\ UNCHANGED <<redis, workers, faults>>

PublishShard(m) ==
    /\ m \notin Published
    /\ shardStatus[ShardOf[m]] # "absent"
    /\ stream' = Append(stream, m)
    /\ UNCHANGED <<tables, cursor, group, deliveries, pending, quiet, left,
                   deadStream, workers, faults>>

-----------------------------------------------------------------------------
\* Variant: every start sets the group to the newest message.
BootAtNewest(w) ==
    /\ At(w, "down")
    /\ group' = TRUE
    /\ cursor' = Len(stream)
    /\ Goto(w, "scan")
    /\ UNCHANGED <<tables, stream, deliveries, pending, quiet, left, deadStream,
                   task, todo, faults>>

\* A worker starts, or restarts: the first one creates the group, which begins
\* after the newest message ("$").

Boot(w) ==
    /\ At(w, "down")
    /\ group' = TRUE
    /\ cursor' = IF group THEN cursor ELSE Len(stream)
    /\ Goto(w, "scan")
    /\ UNCHANGED <<tables, stream, deliveries, pending, quiet, left, deadStream,
                   task, todo, faults>>

\* A crash, or a shutdown: SIGTERM cancels the context of the report too.
Crash(w) ==
    /\ ~At(w, "down")
    /\ Fault
    /\ Goto(w, "down")
    /\ task' = [task EXCEPT ![w] = NoTask]
    /\ todo' = [todo EXCEPT ![w] = {}]
    /\ UNCHANGED <<tables, redis>>

-----------------------------------------------------------------------------
\* The main loop: reclaimStuck, then one message from the stream.

Position(m) == CHOOSE i \in 1 .. Len(stream) : stream[i] = m
Oldest(msgs) ==
    {m \in msgs : Cardinality({n \in msgs : Position(n) < Position(m)}) < ScanLimit}

\* XPENDING, which reports at most ScanLimit messages in the order of their ids, or
\* its failure, which skips the scan.
ScanPending(w) ==
    /\ At(w, "scan")
    /\ \/ /\ todo' = [todo EXCEPT ![w] =
                        {[msg |-> m, count |-> deliveries[m]] : m \in Oldest(quiet)}]
          /\ Goto(w, "reclaim") /\ NoFault
       \/ Goto(w, "read") /\ Fault /\ UNCHANGED todo
    /\ UNCHANGED <<tables, redis, task>>

ReclaimDone(w) ==
    /\ At(w, "reclaim") /\ todo[w] = {}
    /\ Goto(w, "read")
    /\ UNCHANGED <<tables, redis, task, todo, faults>>

\* The snapshot's count decides, not the current one.
TakeEntry(w, e) ==
    /\ At(w, "reclaim") /\ e \in todo[w]
    /\ \A f \in todo[w] : Position(e.msg) <= Position(f.msg)
    /\ todo' = [todo EXCEPT ![w] = @ \ {e}]

\* Variant: one delivery too early.
DeadLetterEarly(w, e) ==
    /\ TakeEntry(w, e)
    /\ e.count >= MaxDeliveries
    /\ task' = [task EXCEPT ![w] = [msg |-> e.msg, how |-> "dead"]]
    /\ Goto(w, "copy")
    /\ UNCHANGED <<tables, redis, faults>>

DeadLetter(w, e) ==
    /\ TakeEntry(w, e)
    /\ e.count > MaxDeliveries
    /\ task' = [task EXCEPT ![w] = [msg |-> e.msg, how |-> "dead"]]
    /\ Goto(w, "copy")
    /\ UNCHANGED <<tables, redis, faults>>

\* Variant: the delivery count is not looked at.
ReclaimUncounted(w, e) ==
    /\ TakeEntry(w, e)
    /\ e.msg \in quiet
    /\ deliveries' = [deliveries EXCEPT ![e.msg] = @ + 1]
    /\ quiet' = quiet \ {e.msg}
    /\ task' = [task EXCEPT ![w] = [msg |-> e.msg, how |-> "reclaim"]]
    /\ Goto(w, "claim") /\ NoFault
    /\ UNCHANGED <<tables, stream, cursor, group, pending, left, deadStream>>

\* Variant: XCLAIM without MinIdle takes the message from a live worker.
ReclaimAnyIdle(w, e) ==
    /\ TakeEntry(w, e)
    /\ e.count <= MaxDeliveries
    /\ e.msg \in pending
    /\ deliveries' = [deliveries EXCEPT ![e.msg] = @ + 1]
    /\ quiet' = quiet \ {e.msg}
    /\ task' = [task EXCEPT ![w] = [msg |-> e.msg, how |-> "reclaim"]]
    /\ Goto(w, "claim") /\ NoFault
    /\ UNCHANGED <<tables, stream, cursor, group, pending, left, deadStream>>

\* XCLAIM with MinIdle: only one of several scanners gets the message.  Its answer
\* may be lost, or the command itself.
Reclaim(w, e) ==
    /\ TakeEntry(w, e)
    /\ e.count <= MaxDeliveries
    /\ \/ /\ e.msg \in quiet
          /\ deliveries' = [deliveries EXCEPT ![e.msg] = @ + 1]
          /\ quiet' = quiet \ {e.msg}
          /\ \/ /\ task' = [task EXCEPT ![w] = [msg |-> e.msg, how |-> "reclaim"]]
                /\ Goto(w, "claim") /\ NoFault
             \/ Fault /\ UNCHANGED <<task, step>>
       \/ /\ (e.msg \notin quiet /\ NoFault) \/ Fault
          /\ UNCHANGED <<deliveries, quiet, task, step>>
    /\ UNCHANGED <<tables, stream, cursor, group, pending, left, deadStream>>

\* XREADGROUP ">": the oldest message not yet delivered to the group.  If the
\* answer is lost the message is pending, and no worker knows of it.
ReadMessage(w) ==
    /\ At(w, "read")
    /\ cursor < Len(stream)
    /\ LET m == stream[cursor + 1] IN
         /\ cursor' = cursor + 1
         /\ deliveries' = [deliveries EXCEPT ![m] = 1]
         /\ pending' = pending \cup {m}
         /\ \/ /\ task' = [task EXCEPT ![w] = [msg |-> m, how |-> "read"]]
               /\ Goto(w, "claim") /\ NoFault
            \/ Goto(w, "scan") /\ Fault /\ UNCHANGED task
    /\ UNCHANGED <<tables, stream, group, quiet, left, deadStream, todo>>

\* Nothing arrived before the block ran out, or the read failed.
ReadNothing(w) ==
    /\ At(w, "read")
    /\ \/ cursor = Len(stream) /\ NoFault
       \/ Fault
    /\ Goto(w, "scan")
    /\ UNCHANGED <<tables, redis, task, todo>>

-----------------------------------------------------------------------------
\* handleMessage.  An HTTP call is answered, or it fails: then the backend may
\* or may not have applied it, and the message stays pending.

\* Variant: a reclaimed message is started like a new one.
ClaimShardAsNew(w) ==
    LET s == ShardAt(w) IN
    /\ At(w, "claim")
    /\ \/ Backend!ClaimShard(s) /\ Goto(w, "mark") /\ UNCHANGED task /\ NoFault
       \/ /\ shardStatus[s] # "queued"
          /\ Goto(w, "ack") /\ UNCHANGED <<task, tables>> /\ NoFault
       \/ Return(w) /\ Fault /\ UNCHANGED tables
    /\ UNCHANGED <<redis, todo>>

\* The statuses for which StartShard, or TakeOverShard, is answered 409, which the
\* client reports as not claimable; everything else but 200 is an error.
NotClaimable(how) ==
    {"absent"} \cup ShardFinal \cup (IF how = "read" THEN {"running"} ELSE {})

\* StartShard or TakeOverShard, first statement.
ClaimShard(w) ==
    LET s == ShardAt(w) IN
    /\ At(w, "claim")
    /\ \/ /\ \/ Backend!ClaimShard(s)
             \/ /\ task[w].how = "reclaim" /\ shardStatus[s] = "running"
                /\ UNCHANGED tables
          /\ Goto(w, "mark") /\ UNCHANGED task /\ NoFault
       \/ /\ shardStatus[s] \in NotClaimable(task[w].how)
          /\ Goto(w, "ack") /\ UNCHANGED <<task, tables>> /\ NoFault
       \/ Return(w) /\ Fault /\ UNCHANGED tables
    /\ UNCHANGED <<redis, todo>>

\* Its second statement, and the answer.
MarkRunRunning(w) ==
    LET r == RunOf[ShardAt(w)]
        Mark == IF runStatus[r] = "queued" THEN Backend!RunStarts(r)
                                           ELSE UNCHANGED tables
    IN
    /\ At(w, "mark")
    /\ \/ Mark /\ Goto(w, "run") /\ UNCHANGED task /\ NoFault
       \/ (Mark \/ UNCHANGED tables) /\ Return(w) /\ Fault
    /\ UNCHANGED <<redis, todo>>

\* executeShard ends: the duration has elapsed, or the load could not start.
LoadEnds(w) ==
    /\ At(w, "run")
    /\ Goto(w, "report")
    /\ UNCHANGED <<tables, redis, task, todo, faults>>

\* GET /api/test-runs/{id}, as the watcher sees it.
RunStatus(w) == runStatus[RunOf[ShardAt(w)]]

\* Variant: only a run that has ended stops the load.
WatchCancelled(w) ==
    /\ At(w, "run")
    /\ RunStatus(w) = "cancelled"
    /\ Goto(w, "report")
    /\ UNCHANGED <<tables, redis, task, todo, faults>>

\* watchCancel polls the run while the load runs and stops the load of a run the
\* user cancelled.  A poll that fails is repeated at the next tick.
WatchCancel(w) ==
    /\ At(w, "run")
    /\ RunStatus(w) \in {"cancelling", "cancelled"}
    /\ Goto(w, "report")
    /\ UNCHANGED <<tables, redis, task, todo, faults>>

\* Variant: the message is acknowledged whatever became of the report.
ReportShardThenAck(w) ==
    /\ At(w, "report")
    /\ \/ Backend!ReportShard(ShardAt(w)) /\ NoFault
       \/ UNCHANGED tables /\ (shardStatus[ShardAt(w)] = "running" => Fault)
          /\ (shardStatus[ShardAt(w)] # "running" => NoFault)
    /\ Goto(w, "ack") /\ UNCHANGED task
    /\ UNCHANGED <<redis, todo>>

\* CompleteShard.  A 409 is an error to the worker: it leaves the message alone.
ReportShard(w) ==
    LET s == ShardAt(w) IN
    /\ At(w, "report")
    /\ \/ Backend!ReportShard(s) /\ Goto(w, "ack") /\ UNCHANGED task /\ NoFault
       \/ shardStatus[s] # "running" /\ Return(w) /\ UNCHANGED tables /\ NoFault
       \/ (Backend!ReportShard(s) \/ UNCHANGED tables) /\ Return(w) /\ Fault
    /\ UNCHANGED <<redis, todo>>

\* XACK, by whichever consumer; a failure is only logged.
Ack(w) ==
    LET m == MessageOf(w) IN
    /\ At(w, "ack")
    /\ \/ /\ pending' = pending \ {m} /\ quiet' = quiet \ {m}
          /\ left' = IF m \notin pending THEN left
                     ELSE [left EXCEPT ![m] = IF task[w].how = "dead" THEN "dead" ELSE "acked"]
          /\ NoFault
       \/ Fault /\ UNCHANGED <<pending, quiet, left>>
    /\ Return(w)
    /\ UNCHANGED <<tables, stream, cursor, group, deliveries, deadStream, todo>>

-----------------------------------------------------------------------------
\* deadLetter: copy, fail the shard, acknowledge, each whatever came of the last.

CopyToDeadStream(w) ==
    /\ At(w, "copy")
    /\ \/ deadStream' = deadStream \cup {MessageOf(w)} /\ NoFault
       \/ UNCHANGED deadStream /\ Fault
    /\ Goto(w, "fail")
    /\ UNCHANGED <<tables, stream, cursor, group, deliveries, pending, quiet, left,
                   task, todo>>

FailShard(w) ==
    LET s == ShardAt(w) IN
    /\ At(w, "fail")
    /\ \/ Backend!DeadLetterShard(s) /\ NoFault
       \/ shardStatus[s] \in ShardFinal /\ UNCHANGED tables /\ NoFault
       \/ UNCHANGED tables /\ Fault
    /\ Goto(w, "ack")
    /\ UNCHANGED <<redis, task, todo>>

-----------------------------------------------------------------------------
\* Time.  RECLAIM_MIN_IDLE passes for a message nobody handles; for one that a
\* live worker handles only if that worker stalls.

HandledAt(m, steps) ==
    \E w \in Workers : /\ task[w] # NoTask /\ task[w].msg = m /\ task[w].how # "dead"
                       /\ step[w] \in steps

GoQuiet(m) ==
    /\ m \in pending \ quiet
    /\ ~HandledAt(m, Handling)
    /\ quiet' = quiet \cup {m}
    /\ UNCHANGED <<tables, stream, cursor, group, deliveries, pending, left,
                   deadStream, workers, faults>>

Stall(m) ==
    /\ m \in pending \ quiet
    /\ HandledAt(m, StallAt)
    /\ Fault
    /\ quiet' = quiet \cup {m}
    /\ stalled' = stalled \cup {m}
    /\ UNCHANGED <<tables, stream, cursor, group, deliveries, pending, left,
                   deadStream, workers>>

\* XCLAIM JUSTID while the load runs: also takes the message back from a worker
\* that reclaimed it; a message that was acknowledged stays gone.
Heartbeat(w) ==
    /\ At(w, "run")
    /\ MessageOf(w) \in quiet
    /\ quiet' = quiet \ {MessageOf(w)}
    /\ UNCHANGED <<tables, stream, cursor, group, deliveries, pending, left,
                   deadStream, workers, faults>>

-----------------------------------------------------------------------------
Work(w) ==
    \/ Boot(w) \/ ScanPending(w) \/ ReclaimDone(w)
    \/ \E e \in todo[w] : DeadLetter(w, e) \/ Reclaim(w, e)
    \/ ReadMessage(w) \/ ReadNothing(w)
    \/ ClaimShard(w) \/ MarkRunRunning(w) \/ WatchCancel(w) \/ ReportShard(w)
    \/ CopyToDeadStream(w) \/ FailShard(w) \/ Ack(w)

Calm ==
    \/ \E r \in Runs : CreateTestRun(r) \/ CancelTestRun(r)
    \/ \E m \in Messages : PublishShard(m) \/ GoQuiet(m)
    \/ \E w \in Workers : Work(w) \/ LoadEnds(w) \/ Heartbeat(w) \/ Crash(w)

Next == (Calm /\ UNCHANGED stalled) \/ \E m \in Messages : Stall(m)

Spec == Init /\ [][Next]_vars

\* Workers run and come back (the Kubernetes Deployment restarts its pods), time
\* passes.  Users and the publisher owe nothing, and whether a load ends by itself
\* is left to the properties.
FairSpec ==
    /\ Spec
    /\ \A w \in Workers : WF_vars(Work(w) /\ UNCHANGED stalled)
    /\ \A m \in Messages : WF_vars(GoQuiet(m) /\ UNCHANGED stalled)

\* A load ends when its duration has elapsed.
LoadsEnd == \A w \in Workers : WF_vars(LoadEnds(w) /\ UNCHANGED stalled)

-----------------------------------------------------------------------------
Undelivered(m) == \E i \in cursor + 1 .. Len(stream) : stream[i] = m
Skipped(m) == m \in Published /\ ~Undelivered(m) /\ deliveries[m] = 0

\* No published shard is forgotten: as long as it has not ended, some message
\* for it is still to be delivered or pending, so that a live worker will come
\* across it, whichever workers crash and whichever answers are lost.  The
\* dead-letter path, which gives up on purpose, and messages older than the group
\* are set apart.
NoLostShard ==
    \A m \in Published :
        (~Skipped(m) /\ shardStatus[ShardOf[m]] \in ShardOpen) =>
            \E n \in Published : /\ ShardOf[n] = ShardOf[m]
                                 /\ Undelivered(n) \/ n \in pending \/ left[n] = "dead"

\* Retries are bounded although each scan decides by a snapshot: beyond
\* MAX_DELIVERIES a message is delivered at most once per worker, namely to those
\* that scanned before the limit was passed.
DeliveriesBounded ==
    \A m \in Messages : deliveries[m] <= MaxDeliveries + Cardinality(Workers)

\* One message, one worker: no two run its load at the same time, across crashes,
\* lost answers and the scans of several workers, unless a worker has stalled
\* with it (XCLAIM's MinIdle, heartbeat).
RunsAlone ==
    \A v, w \in Workers :
        (v # w /\ At(v, "run") /\ At(w, "run") /\ MessageOf(v) = MessageOf(w))
            => MessageOf(w) \in stalled

\* A run whose shards were all published to the group ends, whatever crashes and
\* retries come between, unless a dead letter leaves it open: the call that fails the
\* shard was lost, or no shard of the run was ever reported (finishShard).
FullyPublished(r) ==
    \A s \in ShardsOf(r) :
        \E m \in Published : ShardOf[m] = s /\ ~Skipped(m)
LeftOpen(r) ==
    \/ \E m \in Messages : /\ RunOf[ShardOf[m]] = r /\ left[m] = "dead"
                           /\ shardStatus[ShardOf[m]] \in ShardOpen
    \/ \A s \in ShardsOf(r) : shardResult[s] = DeadLettered

Ended(r) == runStatus[r] \in RunFinal \/ LeftOpen(r)

RunEnds == LoadsEnd => \A r \in Runs : (group /\ FullyPublished(r)) ~> Ended(r)

\* A cancelled run ends although no load would end by itself: the shards that run are
\* stopped by their watcher, those not yet claimed are claimed and stopped, also
\* when a worker crashes and another takes over (watchCancel, main.go:155-181).
CancelEndsRun ==
    \A r \in Runs :
        (group /\ FullyPublished(r) /\ runStatus[r] = "cancelling") ~> Ended(r)

\* As long as a published run has not ended, one of its shards is open and has a message
\* that is still to be delivered or can be reclaimed: no run waits for nothing, although
\* its barrier is in the database and its messages are in Redis (handleMessage,
\* finishShard).
OpenRunHasWork ==
    \A r \in Runs : (FullyPublished(r) /\ ~Ended(r)) =>
        \E m \in Published : /\ RunOf[ShardOf[m]] = r
                             /\ shardStatus[ShardOf[m]] \in ShardOpen
                             /\ Undelivered(m) \/ m \in pending

\* Only a message delivered more than MAX_DELIVERIES times is given up, although the
\* scan that decides it may be out of date (reclaimStuck, main.go:205-208).
OnlyPoisonIsDeadLettered ==
    \A m \in Messages : (left[m] = "dead" \/ m \in deadStream) => deliveries[m] > MaxDeliveries

\* What was published before the group existed is never delivered; afterwards no
\* restart of a worker passes over a message (XGroupCreateMkStream, main.go:77-80).
GroupSkipsNothing ==
    [][\A m \in Messages : (group /\ Skipped(m)') => Skipped(m)]_vars

\* The rest of this section is the inductive invariant of DeliveryProofs.

Started(s) == shardStatus[s] \in {"running"} \cup ShardFinal

\* A shard is stored with its run.
RowsTogether ==
    \A s \in Shards : shardStatus[s] = "absent" <=> runStatus[RunOf[s]] = "absent"

\* A message is published once, after its shard was stored; Redis knows of a message
\* only once it was delivered, and then keeps it pending until it is acknowledged.
StreamOnce ==
    /\ \A i, j \in 1 .. Len(stream) : stream[i] = stream[j] => i = j
    /\ \A i \in 1 .. Len(stream) : shardStatus[ShardOf[stream[i]]] # "absent"

Delivered(m) == deliveries[m] > 0
DeliveredOnce ==
    \A m \in Messages :
        /\ Delivered(m) => \E i \in 1 .. cursor : stream[i] = m
        /\ m \in pending <=> (Delivered(m) /\ left[m] = "no")
        /\ left[m] # "no" => Delivered(m)
        /\ left[m] = "acked" => Started(ShardOf[m])

\* A worker knows of delivered messages only; one that was just read is known to no
\* other worker before its claim is answered, provided that none stalls there.
ClaimsInTime == "claim" \notin StallAt
FreshlyRead(w) == At(w, "claim") /\ task[w].how = "read"
KnowsDelivered ==
    \A w \in Workers :
        /\ \A e \in todo[w] : Delivered(e.msg)
        /\ task[w] # NoTask => Delivered(MessageOf(w))
        /\ (FreshlyRead(w) /\ ClaimsInTime) =>
              /\ MessageOf(w) \notin quiet
              /\ \A v \in Workers :
                    /\ v # w /\ task[v] # NoTask => MessageOf(v) # MessageOf(w)
                    /\ \A e \in todo[v] : e.msg # MessageOf(w)

\* Who acknowledges a message has seen its shard started, and ended unless a
\* message that was just read was refused.
AckJustified(w) ==
    CASE task[w].how = "read" -> Started(ShardAt(w))
      [] task[w].how = "reclaim" -> shardStatus[ShardAt(w)] \in ShardFinal
      [] OTHER -> TRUE
AcksAreJustified ==
    \A w \in Workers : /\ At(w, "ack") => AckJustified(w)
                       /\ At(w, "copy") \/ At(w, "fail") => task[w].how = "dead"

\* A running shard has a message that no worker is about to acknowledge as refused,
\* under the same proviso.
Refusable(w) == task[w] # NoTask /\ task[w].how = "read" /\ step[w] \in {"claim", "ack"}
RunningHasMessage ==
    \A s \in Shards : (shardStatus[s] = "running" /\ ClaimsInTime) =>
        \E n \in Messages :
            /\ ShardOf[n] = s
            /\ n \in pending \/ left[n] = "dead"
            /\ \A w \in Workers : Refusable(w) => MessageOf(w) # n

DInv ==
    /\ TypeOK
    /\ RowsTogether
    /\ StreamOnce
    /\ DeliveredOnce
    /\ KnowsDelivered
    /\ AcksAreJustified
    /\ RunningHasMessage

\* A message that has not stalled is in the hands of one worker, whose handling keeps
\* it from going quiet; only quiet messages are taken over.
Handles(w, m) == task[w] # NoTask /\ task[w].msg = m /\ task[w].how # "dead"
HandledOnce ==
    \A m \in Messages \ stalled : \A w \in Workers :
        Handles(w, m) => /\ m \notin quiet
                         /\ \A v \in Workers : Handles(v, m) => v = w

\* What is given up is not run, and had been delivered too often.
DeadAreGivenUp ==
    \A w \in Workers : (task[w] # NoTask /\ task[w].how = "dead") =>
        step[w] \in {"copy", "fail", "ack"} /\ deliveries[task[w].msg] > MaxDeliveries

\* A scan has one entry for a message, with a count that may since have grown.  Past
\* the limit only the workers whose scan is older can still take the message.
MayTake(m) ==
    {w \in Workers : \E e \in todo[w] : e.msg = m /\ e.count <= MaxDeliveries}
ScansBehind ==
    /\ \A w \in Workers : \A e \in todo[w] :
          /\ e.count <= deliveries[e.msg]
          /\ \A f \in todo[w] : e.msg = f.msg => e = f
    /\ \A m \in Messages : deliveries[m] > MaxDeliveries =>
          deliveries[m] + Cardinality(MayTake(m)) <= MaxDeliveries + Cardinality(Workers)

RetryInv ==
    /\ HandledOnce
    /\ DeadAreGivenUp
    /\ ScansBehind
    /\ OnlyPoisonIsDeadLettered

\* The contract of the backend, kept when the workers drive it: a shard has a result when
\* it has ended, and one that was reported had its run started first.
ContractInv ==
    /\ \A s \in Shards :
          /\ shardStatus[s] \in ShardFinal <=> shardResult[s] # NoResult
          /\ shardResult[s] \in Reports => runStatus[RunOf[s]] \notin {"absent", "queued"}
    /\ BarrierCloses
    /\ RunReflectsShards

\* The backend, Redis and the workers agree on every message, across crashes, stalls and
\* scans that are out of date; NoLostShard, OpenRunHasWork, DeliveriesBounded and
\* RunsAlone follow.
DeliveryInv == DInv /\ RetryInv /\ ContractInv

\* "Mark the shard failed so it doesn't linger in a non-terminal state"
\* (deadLetter, worker/cmd/worker/main.go:253).
DeadLetteredShardEnds ==
    \A m \in Messages : left[m] = "dead" => shardStatus[ShardOf[m]] \in ShardFinal

\* "A worker that dies leaves its message unacked" and its peers take over "a
\* shard that may be mid-run" (docs/ARCHITECTURE.md:131-133): a shard that no
\* live worker works on can be reclaimed.
OrphanIsReclaimable ==
    \A m \in Published :
        (/\ shardStatus[ShardOf[m]] = "running"
         /\ \A w \in Workers : task[w] # NoTask => ShardAt(w) # ShardOf[m])
            => \E n \in Published : /\ ShardOf[n] = ShardOf[m]
                                    /\ Undelivered(n) \/ n \in pending \/ left[n] = "dead"
=============================================================================
