---------------------------- MODULE DeliveryProofs ----------------------------
(***************************************************************************)
(* For any number of runs, shards, messages, workers and faults: no        *)
(* published shard is lost and no open run is without work, provided that  *)
(* no worker stalls in the claim; and, wherever workers stall, the         *)
(* backend's contract and how often and by whom a message is handled.      *)
(***************************************************************************)
EXTENDS Delivery, FiniteSetTheorems, TLAPS

\* What the backend's requests do to a shard's status: it never goes back.
Forward ==
    \A s \in Shards :
        /\ shardStatus[s] # "absent" => shardStatus'[s] # "absent"
        /\ Started(s) => Started(s)'
        /\ shardStatus[s] \in ShardFinal => shardStatus'[s] \in ShardFinal
NothingStarts == \A s \in Shards : shardStatus'[s] = "running" => shardStatus[s] = "running"
TablesOK == TablesTypeOK /\ RowsTogether

LEMMA TablesUnchanged ==
    ASSUME TablesOK, UNCHANGED tables
    PROVE  TablesOK' /\ Forward /\ NothingStarts
BY DEF TablesOK, TablesTypeOK, RowsTogether, tables, Forward, NothingStarts, Started

LEMMA BackendCreate ==
    ASSUME TablesOK, NEW r \in Runs, Backend!Create(r)
    PROVE  TablesOK' /\ Forward /\ NothingStarts
<1>1. /\ runStatus[r] = "absent"
      /\ runStatus' = [runStatus EXCEPT ![r] = "queued"]
      /\ shardStatus' = [s \in Shards |-> IF RunOf[s] = r THEN "queued" ELSE shardStatus[s]]
      /\ UNCHANGED <<runResult, shardResult>>
  BY DEF Backend!Create, Backend!InsertRun
<1>2. \A s \in Shards : RunOf[s] \in Runs /\ (RunOf[s] = r => shardStatus[s] = "absent")
  BY <1>1, RunOfAssumption DEF TablesOK, RowsTogether
<1>3. TablesTypeOK'
  BY <1>1 DEF TablesOK, TablesTypeOK, RunOpen, ShardOpen
<1>4. RowsTogether'
  BY <1>1, <1>2 DEF TablesOK, TablesTypeOK, RowsTogether
<1>5. Forward /\ NothingStarts
  BY <1>1, <1>2 DEF Forward, NothingStarts, Started, ShardFinal
<1> QED  BY <1>3, <1>4, <1>5 DEF TablesOK

LEMMA BackendRunStep ==
    ASSUME TablesOK, NEW r \in Runs, Backend!Cancel(r) \/ Backend!RunStarts(r)
    PROVE  TablesOK' /\ Forward /\ NothingStarts
<1>1. /\ runStatus[r] \in {"queued", "running"}
      /\ \E new \in {"cancelling", "running"} : runStatus' = [runStatus EXCEPT ![r] = new]
      /\ UNCHANGED <<runResult, shardStatus, shardResult>>
  BY DEF Backend!Cancel, Backend!RunStarts
<1>2. TablesTypeOK'
  BY <1>1 DEF TablesOK, TablesTypeOK, RunOpen
<1>3. RowsTogether'
  BY <1>1, RunOfAssumption DEF TablesOK, TablesTypeOK, RowsTogether
<1> QED  BY <1>1, <1>2, <1>3 DEF TablesOK, Forward, NothingStarts, Started

LEMMA BackendClaim ==
    ASSUME TablesOK, NEW s \in Shards, Backend!ClaimShard(s)
    PROVE  /\ TablesOK' /\ Forward
           /\ shardStatus[s] = "queued" /\ shardStatus' = [shardStatus EXCEPT ![s] = "running"]
<1>1. /\ shardStatus[s] = "queued" /\ shardStatus' = [shardStatus EXCEPT ![s] = "running"]
      /\ UNCHANGED <<runStatus, runResult, shardResult>>
  BY DEF Backend!ClaimShard
<1>2. TablesTypeOK' /\ RowsTogether'
  BY <1>1 DEF TablesOK, TablesTypeOK, RowsTogether, ShardOpen
<1>3. Forward
  BY <1>1 DEF TablesOK, TablesTypeOK, Forward, Started, ShardFinal
<1> QED  BY <1>1, <1>2, <1>3 DEF TablesOK

LEMMA BackendFinish ==
    ASSUME TablesOK, NEW s \in Shards, NEW outcome \in ShardFinal, NEW payload \in Results,
           Backend!FinishShard(s, outcome, payload)
    PROVE  TablesOK' /\ Forward /\ NothingStarts /\ shardStatus'[s] \in ShardFinal
<1> DEFINE r == RunOf[s]
<1>1. /\ shardStatus[s] \in {"queued", "running"}
      /\ shardStatus' = [shardStatus EXCEPT ![s] = outcome]
      /\ shardResult' = [shardResult EXCEPT ![s] = payload]
  BY DEF Backend!FinishShard, Backend!EndsWithShards, Backend!ShardOpen
<1>2. \/ /\ runStatus[r] \in {"running", "cancelling"}
         /\ \E verdict \in {"completed", "failed", "cancelled"} :
               runStatus' = [runStatus EXCEPT ![r] = verdict]
         /\ runResult' = [runResult EXCEPT ![r] =
                            [t \in Shards |-> IF RunOf[t] = r THEN shardResult'[t] ELSE NoResult]]
      \/ UNCHANGED <<runStatus, runResult>>
  BY DEF Backend!FinishShard, Backend!EndsWithShards, Backend!Verdict, Backend!Merge
<1>3. r \in Runs
  BY RunOfAssumption
<1>4. TablesTypeOK'
  <2>1. shardStatus' \in [Shards -> {"absent"} \cup ShardOpen \cup ShardFinal]
        /\ shardResult' \in [Shards -> Results]
    BY <1>1 DEF TablesOK, TablesTypeOK
  <2>2. NoResult \in Results
    BY DEF Results
  <2>3. [t \in Shards |-> IF RunOf[t] = r THEN shardResult'[t] ELSE NoResult]
            \in [Shards -> Results]
    BY <2>1, <2>2
  <2>4. runStatus' \in [Runs -> {"absent"} \cup RunOpen \cup RunFinal]
        /\ runResult' \in [Runs -> [Shards -> Results]]
    BY <1>2, <1>3, <2>3 DEF TablesOK, TablesTypeOK, RunFinal
  <2> QED  BY <2>1, <2>4 DEF TablesTypeOK
<1>5. RowsTogether'
  BY <1>1, <1>2, <1>3, RunOfAssumption DEF TablesOK, TablesTypeOK, RowsTogether, ShardFinal
<1>6. Forward /\ NothingStarts /\ shardStatus'[s] \in ShardFinal
  BY <1>1 DEF TablesOK, TablesTypeOK, Forward, NothingStarts, Started, ShardFinal
<1> QED  BY <1>4, <1>5, <1>6 DEF TablesOK

LEMMA BackendEnds ==
    ASSUME TablesOK, NEW s \in Shards, Backend!ReportShard(s) \/ Backend!DeadLetterShard(s)
    PROVE  TablesOK' /\ Forward /\ NothingStarts /\ shardStatus'[s] \in ShardFinal
<1>1. PICK outcome \in ShardFinal, payload \in Results : Backend!FinishShard(s, outcome, payload)
  BY DEF Backend!ReportShard, Backend!DeadLetterShard, Backend!ShardFinal, ShardFinal, Results
<1> QED  BY <1>1, BackendFinish

-----------------------------------------------------------------------------
\* TypeOK apart from the tables, which the lemmas above look after.
LogTypeOK ==
    /\ stream \in Seq(Messages) /\ cursor \in 0 .. Len(stream)
    /\ group \in BOOLEAN
    /\ deliveries \in [Messages -> Nat]
    /\ pending \subseteq Messages /\ quiet \subseteq pending
    /\ left \in [Messages -> {"no", "acked", "dead"}]
    /\ deadStream \subseteq Messages
WorkersTypeOK ==
    /\ step \in [Workers -> {"down", "scan", "reclaim", "read", "copy", "fail"} \cup Handling]
    /\ task \in [Workers -> Tasks \cup {NoTask}]
    /\ \A w \in Workers : (task[w] # NoTask) <=> (step[w] \in Handling \cup {"copy", "fail"})
    /\ \A w \in Workers : todo[w] \subseteq Entries
    /\ DOMAIN todo = Workers
BoundsTypeOK == faults \in 0 .. MaxFaults /\ stalled \subseteq Messages

LEMMA TypeParts ==
    DInv <=> /\ TablesOK /\ LogTypeOK /\ WorkersTypeOK /\ BoundsTypeOK
             /\ StreamOnce /\ DeliveredOnce /\ KnowsDelivered
             /\ AcksAreJustified /\ RunningHasMessage
BY DEF DInv, TypeOK, TablesOK, LogTypeOK, WorkersTypeOK, BoundsTypeOK

LEMMA FaultBound ==
    ASSUME BoundsTypeOK, Fault \/ NoFault
    PROVE  faults' \in 0 .. MaxFaults
BY BoundsAssumption DEF BoundsTypeOK, Fault, NoFault

\* What one worker may do to its own state without endangering a shard: it forgets
\* its message or keeps it, or takes one of its scan; it does not come into the claim
\* of a message it has read; and if it is about to acknowledge, rightly so.
OwnStep(w) ==
    /\ \A v \in Workers : v # w => step'[v] = step[v] /\ task'[v] = task[v] /\ todo'[v] = todo[v]
    /\ \A e \in todo'[w] : e \in todo[w] \/ e.msg \in quiet
    /\ \/ task'[w] \in {NoTask, task[w]}
       \/ task'[w].how # "read" /\ \E e \in todo[w] : task'[w].msg = e.msg
    /\ FreshlyRead(w)' /\ task'[w] # NoTask => FreshlyRead(w) /\ task'[w] = task[w]
    /\ Refusable(w)' => Refusable(w) \/ shardStatus'[ShardAt(w)'] # "running"
    /\ At(w, "ack")' => AckJustified(w)'
    /\ step'[w] \in {"copy", "fail"} => task'[w].how = "dead"

\* What it may do to Redis meanwhile.
SameDeliveries ==
    /\ quiet' \subseteq quiet
    /\ \A m \in Messages : Delivered(m)' <=> Delivered(m)
SameMessages ==
    /\ UNCHANGED <<stream, pending, left>>
    /\ cursor <= cursor'
    /\ SameDeliveries

LEMMA TaskTypes ==
    ASSUME WorkersTypeOK, NEW w \in Workers, task[w] # NoTask
    PROVE  /\ task[w].msg \in Messages /\ ShardOf[task[w].msg] \in Shards
           /\ task[w].how \in {"read", "reclaim", "dead"}
           /\ MessageOf(w) = task[w].msg /\ ShardAt(w) = ShardOf[task[w].msg]
BY ShardOfAssumption DEF WorkersTypeOK, Tasks, MessageOf, ShardAt

LEMMA EntryTypes ==
    ASSUME WorkersTypeOK, NEW w \in Workers, NEW e \in todo[w]
    PROVE  e.msg \in Messages /\ e.count \in Nat
BY DEF WorkersTypeOK, Entries

LEMMA StreamOnceKept ==
    ASSUME LogTypeOK, StreamOnce, UNCHANGED stream, Forward
    PROVE  StreamOnce'
<1>1. \A i \in 1 .. Len(stream) : stream[i] \in Messages /\ ShardOf[stream[i]] \in Shards
  BY ShardOfAssumption DEF LogTypeOK
<1> QED  BY <1>1 DEF StreamOnce, Forward

LEMMA DeliveredOnceKept ==
    ASSUME LogTypeOK, DeliveredOnce, SameMessages, Forward, LogTypeOK'
    PROVE  DeliveredOnce'
<1>1. \A m \in Messages : ShardOf[m] \in Shards
  BY ShardOfAssumption
<1> SUFFICES ASSUME NEW m \in Messages
             PROVE  (/\ Delivered(m) => \E i \in 1 .. cursor : stream[i] = m
                     /\ m \in pending <=> (Delivered(m) /\ left[m] = "no")
                     /\ left[m] # "no" => Delivered(m)
                     /\ left[m] = "acked" => Started(ShardOf[m]))'
  BY DEF DeliveredOnce
<1>2. (Delivered(m) => \E i \in 1 .. cursor : stream[i] = m)'
  BY DEF DeliveredOnce, SameMessages, SameDeliveries, LogTypeOK
<1>3. (left[m] = "acked" => Started(ShardOf[m]))'
  BY <1>1 DEF DeliveredOnce, SameMessages, Forward
<1> QED  BY <1>2, <1>3 DEF DeliveredOnce, SameMessages, SameDeliveries

LEMMA OwnStepKnows ==
    ASSUME WorkersTypeOK, LogTypeOK, DeliveredOnce, KnowsDelivered,
           NEW w \in Workers, OwnStep(w), SameDeliveries, WorkersTypeOK'
    PROVE  KnowsDelivered'
<1>0. \A m \in quiet : Delivered(m) /\ m \in Messages
  BY DEF LogTypeOK, DeliveredOnce
<1>1. \A e \in todo'[w] : e \in todo[w] \/ e.msg \in quiet
  BY DEF OwnStep
<1>2. \A v \in Workers : \A e \in todo'[v] : e \in todo[v] \/ (v = w /\ e.msg \in quiet)
  BY <1>1 DEF OwnStep
<1>3. ASSUME NEW v \in Workers, task'[v] # NoTask
      PROVE  \/ task[v] # NoTask /\ task'[v] = task[v]
             \/ v = w /\ task'[w].how # "read" /\ \E e \in todo[w] : task'[w].msg = e.msg
  BY <1>3 DEF OwnStep
<1>4. ASSUME NEW v \in Workers, NEW e \in todo'[v] PROVE Delivered(e.msg)'
  BY <1>0, <1>2, <1>4, EntryTypes DEF KnowsDelivered, SameDeliveries
<1>5. ASSUME NEW v \in Workers, task'[v] # NoTask PROVE Delivered(MessageOf(v))'
  <2>1. task'[v].msg \in Messages
    BY <1>5 DEF WorkersTypeOK, Tasks
  <2>2. Delivered(task'[v].msg)
    BY <1>3, <1>5 DEF KnowsDelivered, MessageOf
  <2> QED  BY <2>1, <2>2 DEF SameDeliveries, MessageOf
<1>6. ASSUME NEW v \in Workers, FreshlyRead(v)' PROVE FreshlyRead(v) /\ task'[v] = task[v]
  <2>1. task'[v] # NoTask
    BY <1>6 DEF FreshlyRead, At, WorkersTypeOK, Handling
  <2> QED  BY <1>6, <2>1 DEF OwnStep, FreshlyRead, At
<1>7. ASSUME NEW v \in Workers, FreshlyRead(v)', ClaimsInTime
      PROVE  (/\ MessageOf(v) \notin quiet
              /\ \A x \in Workers :
                    /\ x # v /\ task[x] # NoTask => MessageOf(x) # MessageOf(v)
                    /\ \A e \in todo[x] : e.msg # MessageOf(v))'
  <2>1. /\ FreshlyRead(v) /\ task'[v] = task[v] /\ MessageOf(v)' = MessageOf(v)
        /\ MessageOf(v) \notin quiet
        /\ \A x \in Workers : /\ x # v /\ task[x] # NoTask => task[x].msg # MessageOf(v)
                              /\ \A e \in todo[x] : e.msg # MessageOf(v)
    BY <1>6, <1>7 DEF KnowsDelivered, MessageOf
  <2>2. ASSUME NEW x \in Workers, x # v, task'[x] # NoTask PROVE task'[x].msg # MessageOf(v)
    BY <1>3, <2>1, <2>2
  <2>3. ASSUME NEW x \in Workers, NEW e \in todo'[x] PROVE e.msg # MessageOf(v)
    BY <1>2, <2>1, <2>3
  <2> QED  BY <2>1, <2>2, <2>3 DEF SameDeliveries, MessageOf
<1> QED  BY <1>4, <1>5, <1>7 DEF KnowsDelivered, ClaimsInTime

LEMMA OwnStepAcks ==
    ASSUME WorkersTypeOK, AcksAreJustified, NEW w \in Workers, OwnStep(w), Forward
    PROVE  AcksAreJustified'
<1>0. ASSUME NEW v \in Workers, (At(v, "copy") \/ At(v, "fail"))'
      PROVE  task'[v].how = "dead"
  BY <1>0 DEF AcksAreJustified, OwnStep, At
<1> SUFFICES ASSUME NEW v \in Workers, At(v, "ack")'
             PROVE  AckJustified(v)'
  BY <1>0 DEF AcksAreJustified
<1>1. CASE v = w
  BY <1>1 DEF OwnStep
<1>2. CASE v # w
  <2>1. At(v, "ack") /\ task'[v] = task[v] /\ task[v] # NoTask
    BY <1>2 DEF OwnStep, At, WorkersTypeOK, Handling
  <2>2. ShardAt(v) \in Shards /\ ShardAt(v)' = ShardAt(v)
    BY <2>1, TaskTypes DEF ShardAt
  <2>3. AckJustified(v)
    BY <2>1 DEF AcksAreJustified
  <2>4. /\ Started(ShardAt(v)) => Started(ShardAt(v))'
        /\ shardStatus[ShardAt(v)] \in ShardFinal => (shardStatus[ShardAt(v)] \in ShardFinal)'
    BY <2>2 DEF Forward, Started
  <2> QED  BY <2>1, <2>3, <2>4 DEF AckJustified
<1> QED  BY <1>1, <1>2

LEMMA OwnStepRunning ==
    ASSUME WorkersTypeOK, RunningHasMessage, NEW w \in Workers, OwnStep(w), SameMessages,
           NothingStarts
    PROVE  RunningHasMessage'
<1> SUFFICES ASSUME NEW s \in Shards, shardStatus'[s] = "running", ClaimsInTime
             PROVE  \E n \in Messages :
                       (/\ ShardOf[n] = s
                        /\ n \in pending \/ left[n] = "dead"
                        /\ \A v \in Workers : Refusable(v) => MessageOf(v) # n)'
  BY DEF RunningHasMessage, ClaimsInTime
<1>1. PICK n \in Messages : /\ ShardOf[n] = s
                            /\ n \in pending \/ left[n] = "dead"
                            /\ \A v \in Workers : Refusable(v) => MessageOf(v) # n
  BY DEF RunningHasMessage, NothingStarts
<1>2. ASSUME NEW v \in Workers, Refusable(v)' PROVE MessageOf(v)' # n
  <2>1. CASE v # w
    BY <1>1, <1>2, <2>1 DEF OwnStep, Refusable, MessageOf
  <2>2. CASE v = w /\ task'[w] = task[w] /\ Refusable(w)
    BY <1>1, <2>2 DEF MessageOf
  <2>3. CASE v = w /\ shardStatus'[ShardAt(w)'] # "running"
    BY <1>1, <2>3 DEF MessageOf, ShardAt
  <2>4. v = w => \/ task'[w] = task[w] /\ Refusable(w)
                 \/ shardStatus'[ShardAt(w)'] # "running"
    BY <1>2 DEF OwnStep, Refusable
  <2> QED  BY <2>1, <2>2, <2>3, <2>4
<1> QED  BY <1>1, <1>2 DEF SameMessages

\* All of it together.
LEMMA OwnStepInv ==
    ASSUME DInv, NEW w \in Workers, OwnStep(w), SameMessages,
           TablesOK', Forward, NothingStarts, LogTypeOK', WorkersTypeOK', BoundsTypeOK'
    PROVE  DInv'
<1>1. /\ TablesOK /\ LogTypeOK /\ WorkersTypeOK /\ StreamOnce /\ DeliveredOnce
      /\ KnowsDelivered /\ AcksAreJustified /\ RunningHasMessage
  BY TypeParts
<1>2. StreamOnce' /\ DeliveredOnce'
  BY <1>1, StreamOnceKept, DeliveredOnceKept DEF SameMessages
<1>3. KnowsDelivered' /\ AcksAreJustified' /\ RunningHasMessage'
  BY <1>1, OwnStepKnows, OwnStepAcks, OwnStepRunning DEF SameMessages
<1> QED  BY <1>2, <1>3 DEF DInv, TypeOK, TablesOK, LogTypeOK, WorkersTypeOK, BoundsTypeOK

-----------------------------------------------------------------------------
\* The API's steps leave the workers and what was delivered alone.

LEMMA CreateKeeps ==
    ASSUME DInv, NEW r \in Runs, CreateTestRun(r) \/ CancelTestRun(r), UNCHANGED stalled
    PROVE  DInv'
<1>1. UNCHANGED <<redis, workers, faults, stalled>>
  BY DEF CreateTestRun, CancelTestRun
<1>2. /\ TablesOK /\ LogTypeOK /\ WorkersTypeOK /\ BoundsTypeOK /\ StreamOnce
      /\ DeliveredOnce /\ KnowsDelivered /\ AcksAreJustified /\ RunningHasMessage
  BY TypeParts
<1>3. TablesOK' /\ Forward /\ NothingStarts
  BY <1>2, BackendCreate, BackendRunStep DEF CreateTestRun, CancelTestRun
<1>4. LogTypeOK' /\ WorkersTypeOK' /\ BoundsTypeOK'
  BY <1>1, <1>2 DEF LogTypeOK, WorkersTypeOK, BoundsTypeOK, redis, workers
<1>5. KnowsDelivered'
  BY <1>1, <1>2 DEF KnowsDelivered, Delivered, FreshlyRead, At, MessageOf, redis, workers
<1>6. SameMessages
  BY <1>1, <1>2 DEF SameMessages, SameDeliveries, LogTypeOK, Delivered, redis
<1>7. StreamOnce' /\ DeliveredOnce'
  BY <1>2, <1>3, <1>4, <1>6, StreamOnceKept, DeliveredOnceKept DEF SameMessages
<1>8. AcksAreJustified'
  <2> SUFFICES ASSUME NEW w \in Workers, At(w, "ack")'
               PROVE  AckJustified(w)'
    BY <1>1, <1>2 DEF AcksAreJustified, At, workers
  <2>1. At(w, "ack") /\ task[w] # NoTask /\ task' = task /\ ShardAt(w)' = ShardAt(w)
    BY <1>1, <1>2 DEF At, workers, WorkersTypeOK, Handling, ShardAt
  <2>2. ShardAt(w) \in Shards /\ AckJustified(w)
    BY <1>2, <2>1, TaskTypes DEF AcksAreJustified
  <2> QED  BY <1>3, <2>1, <2>2 DEF AckJustified, Forward, Started
<1>9. RunningHasMessage'
  BY <1>1, <1>2, <1>3 DEF RunningHasMessage, NothingStarts, Refusable, MessageOf, redis, workers
<1> QED
  BY <1>3, <1>4, <1>5, <1>7, <1>8, <1>9
  DEF DInv, TypeOK, TablesOK, LogTypeOK, WorkersTypeOK, BoundsTypeOK

LEMMA PublishKeeps ==
    ASSUME DInv, NEW m \in Messages, PublishShard(m), UNCHANGED stalled
    PROVE  DInv'
<1>1. /\ \A i \in 1 .. Len(stream) : stream[i] # m
      /\ shardStatus[ShardOf[m]] # "absent"
      /\ stream' = Append(stream, m)
      /\ UNCHANGED <<tables, cursor, group, deliveries, pending, quiet, left,
                     deadStream, workers, faults, stalled>>
  BY DEF PublishShard, Published
<1>2. /\ TablesOK /\ LogTypeOK /\ WorkersTypeOK /\ BoundsTypeOK /\ StreamOnce
      /\ DeliveredOnce /\ KnowsDelivered /\ AcksAreJustified /\ RunningHasMessage
  BY TypeParts
<1>3. TablesOK' /\ Forward /\ NothingStarts
  BY <1>1, <1>2, TablesUnchanged
<1>4. /\ Len(stream) \in Nat /\ Len(stream') = Len(stream) + 1 /\ stream' \in Seq(Messages)
      /\ stream'[Len(stream) + 1] = m
      /\ \A i \in 1 .. Len(stream) : stream'[i] = stream[i]
  BY <1>1, <1>2 DEF LogTypeOK
<1>5. LogTypeOK'
  BY <1>1, <1>2, <1>4 DEF LogTypeOK
<1>6. WorkersTypeOK' /\ BoundsTypeOK'
  BY <1>1, <1>2 DEF WorkersTypeOK, BoundsTypeOK, workers
<1>7. StreamOnce'
  <2>1. \A i \in 1 .. Len(stream') : i \in 1 .. Len(stream) \/ i = Len(stream) + 1
    BY <1>4
  <2>2. shardStatus' = shardStatus
    BY <1>1 DEF tables
  <2>3. \A i, j \in 1 .. Len(stream') : stream'[i] = stream'[j] => i = j
    BY <1>1, <1>2, <1>4, <2>1 DEF StreamOnce
  <2>4. \A i \in 1 .. Len(stream') : shardStatus'[ShardOf[stream'[i]]] # "absent"
    BY <1>1, <1>2, <1>4, <2>1, <2>2 DEF StreamOnce
  <2> QED  BY <2>3, <2>4 DEF StreamOnce
<1>8. DeliveredOnce'
  <2>1. \A i \in 1 .. cursor : stream'[i] = stream[i]
    BY <1>2, <1>4 DEF LogTypeOK
  <2> QED  BY <1>1, <1>2, <2>1 DEF DeliveredOnce, Delivered, Started, tables
<1>9. KnowsDelivered' /\ AcksAreJustified' /\ RunningHasMessage'
  BY <1>1, <1>2 DEF KnowsDelivered, Delivered, FreshlyRead, At, MessageOf, ShardAt, Started,
                    AcksAreJustified, AckJustified, RunningHasMessage, Refusable, tables, workers
<1> QED
  BY <1>3, <1>5, <1>6, <1>7, <1>8, <1>9
  DEF DInv, TypeOK, TablesOK, LogTypeOK, WorkersTypeOK, BoundsTypeOK

-----------------------------------------------------------------------------
\* The workers' steps.  Worker w comes to step here, with the message now in hand
\* and the rest of its scan to do: what it may do to itself without endangering a
\* shard (OwnStep), in terms of these.
WorkerSteps == {"down", "scan", "reclaim", "read", "copy", "fail"} \cup Handling
Moves(w, here, now, rest) ==
    /\ here \in WorkerSteps /\ now \in Tasks \cup {NoTask} /\ rest \subseteq Entries
    /\ now # NoTask <=> here \in Handling \cup {"copy", "fail"}
    /\ step' = [step EXCEPT ![w] = here] \/ (step' = step /\ here = step[w])
    /\ task' = [task EXCEPT ![w] = now] \/ (task' = task /\ now = task[w])
    /\ todo' = [todo EXCEPT ![w] = rest] \/ (todo' = todo /\ rest = todo[w])
    /\ \A e \in rest : e \in todo[w] \/ e.msg \in quiet
    /\ \/ now \in {NoTask, task[w]}
       \/ now.how # "read" /\ \E e \in todo[w] : now.msg = e.msg
    /\ now # NoTask /\ now.how = "read" /\ here = "claim" => At(w, "claim") /\ now = task[w]
    /\ now # NoTask /\ now.how = "read" /\ here \in {"claim", "ack"} =>
          (Refusable(w) /\ now = task[w]) \/ shardStatus'[ShardOf[now.msg]] # "running"
    /\ here = "ack" => CASE now.how = "read" -> shardStatus'[ShardOf[now.msg]] \in {"running"} \cup ShardFinal
                         [] now.how = "reclaim" -> shardStatus'[ShardOf[now.msg]] \in ShardFinal
                         [] OTHER -> TRUE
    /\ here \in {"copy", "fail"} => now.how = "dead"

LEMMA MovesAreOwnSteps ==
    ASSUME WorkersTypeOK, NEW w \in Workers, NEW here, NEW now, NEW rest,
           Moves(w, here, now, rest)
    PROVE  WorkersTypeOK' /\ OwnStep(w)
<1>1. /\ step'[w] = here /\ task'[w] = now /\ todo'[w] = rest
      /\ \A v \in Workers : v # w =>
            step'[v] = step[v] /\ task'[v] = task[v] /\ todo'[v] = todo[v]
      /\ DOMAIN todo' = Workers
      /\ step' \in [Workers -> WorkerSteps] /\ task' \in [Workers -> Tasks \cup {NoTask}]
  BY DEF Moves, WorkersTypeOK, WorkerSteps
<1>2. WorkersTypeOK'
  BY <1>1 DEF Moves, WorkersTypeOK, WorkerSteps
<1>3. (FreshlyRead(w)' /\ task'[w] # NoTask => FreshlyRead(w) /\ task'[w] = task[w])
  BY <1>1 DEF Moves, FreshlyRead, At
<1>4. Refusable(w)' => \/ Refusable(w) /\ task'[w] = task[w]
                       \/ shardStatus'[ShardAt(w)'] # "running"
  BY <1>1 DEF Moves, Refusable, ShardAt
<1>5. At(w, "ack")' => AckJustified(w)'
  BY <1>1 DEF Moves, At, AckJustified, ShardAt, Started
<1> QED  BY <1>1, <1>2, <1>3, <1>4, <1>5 DEF Moves, OwnStep

LEMMA OwnMove ==
    ASSUME DInv, NEW w \in Workers, NEW here, NEW now, NEW rest, Moves(w, here, now, rest),
           TablesOK', Forward, NothingStarts, SameMessages, LogTypeOK',
           Fault \/ NoFault, UNCHANGED stalled
    PROVE  DInv'
<1>1. WorkersTypeOK /\ BoundsTypeOK
  BY TypeParts
<1>2. BoundsTypeOK'
  BY <1>1, FaultBound DEF BoundsTypeOK
<1> QED  BY <1>1, <1>2, MovesAreOwnSteps, OwnStepInv

\* Steps that leave the tables alone, or Redis.
LEMMA TablesAlone ==
    ASSUME DInv, UNCHANGED tables
    PROVE  TablesOK' /\ Forward /\ NothingStarts
BY TypeParts, TablesUnchanged

LEMMA RedisAlone ==
    ASSUME DInv, UNCHANGED redis
    PROVE  SameMessages /\ LogTypeOK'
<1>1. LogTypeOK
  BY TypeParts
<1> QED  BY <1>1 DEF LogTypeOK, SameMessages, SameDeliveries, Delivered, redis

\* What is in a worker's hands.
LEMMA InHand ==
    ASSUME DInv, NEW w \in Workers
    PROVE  /\ step[w] \in WorkerSteps /\ task[w] \in Tasks \cup {NoTask} /\ todo[w] \subseteq Entries
           /\ task[w] # NoTask <=> step[w] \in Handling \cup {"copy", "fail"}
           /\ task[w] # NoTask =>
                 /\ task[w].msg \in Messages /\ ShardOf[task[w].msg] \in Shards
                 /\ MessageOf(w) = task[w].msg /\ ShardAt(w) = ShardOf[task[w].msg]
                 /\ task[w].how \in {"read", "reclaim", "dead"}
                 /\ Delivered(task[w].msg) /\ shardStatus[ShardAt(w)] # "absent"
           /\ step[w] \in {"copy", "fail"} => task[w].how = "dead"
           /\ \A e \in todo[w] : e.msg \in Messages /\ e.count \in Nat /\ Delivered(e.msg)
<1>1. /\ LogTypeOK /\ WorkersTypeOK /\ StreamOnce /\ DeliveredOnce /\ KnowsDelivered
      /\ AcksAreJustified
  BY TypeParts
<1>2. /\ step[w] \in WorkerSteps /\ task[w] \in Tasks \cup {NoTask} /\ todo[w] \subseteq Entries
      /\ task[w] # NoTask <=> step[w] \in Handling \cup {"copy", "fail"}
      /\ step[w] \in {"copy", "fail"} => task[w].how = "dead"
  BY <1>1 DEF WorkersTypeOK, WorkerSteps, AcksAreJustified, At
<1>3. ASSUME task[w] # NoTask
      PROVE  /\ task[w].msg \in Messages /\ ShardOf[task[w].msg] \in Shards
             /\ MessageOf(w) = task[w].msg /\ ShardAt(w) = ShardOf[task[w].msg]
             /\ task[w].how \in {"read", "reclaim", "dead"}
             /\ Delivered(task[w].msg) /\ shardStatus[ShardAt(w)] # "absent"
  <2>1. /\ task[w].msg \in Messages /\ ShardOf[task[w].msg] \in Shards
        /\ MessageOf(w) = task[w].msg /\ ShardAt(w) = ShardOf[task[w].msg]
        /\ task[w].how \in {"read", "reclaim", "dead"}
    BY <1>1, <1>3, TaskTypes
  <2>2. Delivered(task[w].msg)
    BY <1>1, <1>3, <2>1 DEF KnowsDelivered
  <2>3. PICK i \in 1 .. cursor : stream[i] = task[w].msg
    BY <1>1, <2>1, <2>2 DEF DeliveredOnce
  <2>4. i \in 1 .. Len(stream)
    BY <1>1 DEF LogTypeOK
  <2>5. shardStatus[ShardOf[stream[i]]] # "absent"
    BY <1>1, <2>4 DEF StreamOnce
  <2> QED  BY <2>1, <2>2, <2>3, <2>5
<1>4. \A e \in todo[w] : e.msg \in Messages /\ e.count \in Nat /\ Delivered(e.msg)
  BY <1>1, EntryTypes DEF KnowsDelivered
<1> QED  BY <1>2, <1>3, <1>4

LEMMA ReturnMoves ==
    ASSUME DInv, NEW w \in Workers, Return(w), UNCHANGED todo
    PROVE  \E here \in {"scan", "reclaim"} : Moves(w, here, NoTask, todo[w])
<1> DEFINE here == IF task[w].how = "read" THEN "scan" ELSE "reclaim"
<1>1. here \in {"scan", "reclaim"} /\ here \in WorkerSteps
      /\ here \notin Handling \cup {"copy", "fail"}
  BY DEF WorkerSteps, Handling
<1>2. step' = [step EXCEPT ![w] = here] /\ task' = [task EXCEPT ![w] = NoTask]
  BY DEF Return, Goto
<1>3. Moves(w, here, NoTask, todo[w])
  BY <1>1, <1>2, InHand DEF Moves
<1> QED  BY <1>1, <1>3

\* A worker keeps its message, and its scan, and goes on to another step.
LEMMA GotoMoves ==
    ASSUME DInv, NEW w \in Workers, NEW here, Goto(w, here), UNCHANGED <<task, todo>>,
           \/ here \in {"scan", "reclaim", "read"} /\ task[w] = NoTask
           \/ here \in {"mark", "run", "report"} /\ task[w] # NoTask
           \/ here = "fail" /\ task[w] # NoTask /\ task[w].how = "dead"
    PROVE  Moves(w, here, task[w], todo[w])
<1>1. here \in WorkerSteps /\ (task[w] # NoTask <=> here \in Handling \cup {"copy", "fail"})
      /\ here \notin {"claim", "ack"}
  BY DEF WorkerSteps, Handling
<1> QED  BY <1>1, InHand DEF Moves, Goto

LEMMA BootKeeps ==
    ASSUME DInv, NEW w \in Workers, Boot(w), UNCHANGED stalled
    PROVE  DInv'
<1>1. LogTypeOK
  BY TypeParts
<1>2. LogTypeOK' /\ SameMessages
  BY <1>1 DEF LogTypeOK, SameMessages, SameDeliveries, Delivered, Boot
<1>3. task[w] = NoTask
  BY InHand DEF Boot, At, Handling
<1>4. Moves(w, "scan", task[w], todo[w])
  BY <1>3, GotoMoves DEF Boot
<1> QED  BY <1>2, <1>4, TablesAlone, OwnMove DEF Boot, NoFault

LEMMA CrashKeeps ==
    ASSUME DInv, NEW w \in Workers, Crash(w), UNCHANGED stalled
    PROVE  DInv'
<1>1. Moves(w, "down", NoTask, {})
  BY InHand DEF Moves, Crash, Goto, WorkerSteps, Handling
<1> QED  BY <1>1, TablesAlone, RedisAlone, OwnMove DEF Crash

LEMMA ScanPendingKeeps ==
    ASSUME DInv, NEW w \in Workers, ScanPending(w), UNCHANGED stalled
    PROVE  DInv'
<1>1. UNCHANGED <<tables, redis, task>> /\ task[w] = NoTask
  BY InHand DEF ScanPending, At, Handling
<1>2. CASE /\ todo' = [todo EXCEPT ![w] = {[msg |-> m, count |-> deliveries[m]] : m \in Oldest(quiet)}]
           /\ Goto(w, "reclaim") /\ NoFault
  <2> DEFINE found == {[msg |-> m, count |-> deliveries[m]] : m \in Oldest(quiet)}
  <2>1. found \subseteq Entries /\ \A e \in found : e.msg \in quiet
    <3>1. Oldest(quiet) \subseteq quiet /\ quiet \subseteq Messages
          /\ deliveries \in [Messages -> Nat]
      BY TypeParts DEF LogTypeOK, Oldest
    <3> QED  BY <3>1 DEF Entries
  <2>2. Moves(w, "reclaim", NoTask, found)
    <3> HIDE DEF found
    <3>1. todo' = [todo EXCEPT ![w] = found]
      BY <1>2 DEF found
    <3> QED  BY <1>1, <1>2, <2>1, <3>1 DEF Moves, Goto, WorkerSteps, Handling
  <2> QED  BY <1>1, <1>2, <2>2, TablesAlone, RedisAlone, OwnMove
<1>3. CASE Goto(w, "read") /\ Fault /\ UNCHANGED todo
  BY <1>1, <1>3, GotoMoves, TablesAlone, RedisAlone, OwnMove
<1> QED  BY <1>2, <1>3 DEF ScanPending

LEMMA IdleKeeps ==
    ASSUME DInv, NEW w \in Workers, ReclaimDone(w) \/ ReadNothing(w) \/ LoadEnds(w) \/ WatchCancel(w),
           UNCHANGED stalled
    PROVE  DInv'
<1>1. UNCHANGED <<tables, redis, task, todo>> /\ (Fault \/ NoFault)
  BY DEF ReclaimDone, ReadNothing, LoadEnds, WatchCancel, NoFault
<1>2. \E here : Moves(w, here, task[w], todo[w])
  <2>1. CASE ReclaimDone(w) \/ ReadNothing(w)
    BY <1>1, <2>1, InHand, GotoMoves DEF ReclaimDone, ReadNothing, At, Handling
  <2>2. CASE LoadEnds(w) \/ WatchCancel(w)
    BY <1>1, <2>2, InHand, GotoMoves DEF LoadEnds, WatchCancel, At, Handling
  <2> QED  BY <2>1, <2>2
<1> QED  BY <1>1, <1>2, TablesAlone, RedisAlone, OwnMove

LEMMA CopyKeeps ==
    ASSUME DInv, NEW w \in Workers, CopyToDeadStream(w), UNCHANGED stalled
    PROVE  DInv'
<1>1. task[w] # NoTask /\ MessageOf(w) \in Messages /\ task[w].how = "dead"
  BY InHand DEF CopyToDeadStream, At
<1>2. LogTypeOK' /\ SameMessages
  BY <1>1, TypeParts DEF LogTypeOK, SameMessages, SameDeliveries, Delivered, CopyToDeadStream
<1>3. Moves(w, "fail", task[w], todo[w])
  BY <1>1, GotoMoves DEF CopyToDeadStream
<1> QED  BY <1>2, <1>3, TablesAlone, OwnMove DEF CopyToDeadStream

LEMMA EntryMoves ==
    ASSUME DInv, NEW w \in Workers, NEW e \in todo[w], TakeEntry(w, e), NEW here, NEW how,
           \/ here = "claim" /\ how = "reclaim"
           \/ here = "copy" /\ how = "dead",
           task' = [task EXCEPT ![w] = [msg |-> e.msg, how |-> how]], Goto(w, here)
    PROVE  Moves(w, here, [msg |-> e.msg, how |-> how], todo[w] \ {e})
<1> DEFINE now == [msg |-> e.msg, how |-> how]
<1>1. now \in Tasks /\ now.how = how /\ now.msg = e.msg
  BY InHand DEF Tasks
<1>2. now # NoTask
  BY <1>1, NoTaskAssumption
<1> QED  BY <1>1, <1>2, InHand DEF Moves, Goto, TakeEntry, WorkerSteps, Handling

LEMMA DeadLetterKeeps ==
    ASSUME DInv, NEW w \in Workers, NEW e \in todo[w], DeadLetter(w, e), UNCHANGED stalled
    PROVE  DInv'
<1>1. Moves(w, "copy", [msg |-> e.msg, how |-> "dead"], todo[w] \ {e})
  BY EntryMoves DEF DeadLetter
<1> QED  BY <1>1, TablesAlone, RedisAlone, OwnMove DEF DeadLetter, NoFault

LEMMA ReclaimKeeps ==
    ASSUME DInv, NEW w \in Workers, NEW e \in todo[w], Reclaim(w, e), UNCHANGED stalled
    PROVE  DInv'
<1>1. LogTypeOK /\ e.msg \in Messages /\ Delivered(e.msg)
  BY TypeParts, InHand
<1>2. /\ UNCHANGED <<tables, stream, cursor, group, pending, left, deadStream>>
      /\ \/ deliveries' = [deliveries EXCEPT ![e.msg] = @ + 1] /\ quiet' = quiet \ {e.msg}
         \/ UNCHANGED <<deliveries, quiet>>
  BY DEF Reclaim
<1>3. LogTypeOK' /\ SameMessages
  <2>1. CASE deliveries' = [deliveries EXCEPT ![e.msg] = @ + 1] /\ quiet' = quiet \ {e.msg}
    <3>1. /\ deliveries' \in [Messages -> Nat]
          /\ deliveries'[e.msg] > 0
          /\ \A m \in Messages : m # e.msg => deliveries'[m] = deliveries[m]
      BY <1>1, <2>1 DEF LogTypeOK
    <3>2. \A m \in Messages : Delivered(m)' <=> Delivered(m)
      BY <1>1, <3>1 DEF Delivered
    <3> QED  BY <1>1, <1>2, <2>1, <3>1, <3>2 DEF LogTypeOK, SameMessages, SameDeliveries
  <2>2. CASE UNCHANGED <<deliveries, quiet>>
    BY <1>1, <1>2, <2>2 DEF LogTypeOK, SameMessages, SameDeliveries, Delivered
  <2> QED  BY <1>2, <2>1, <2>2
<1>4. Fault \/ NoFault
  BY DEF Reclaim
<1>5. \E here, now : Moves(w, here, now, todo[w] \ {e})
  <2>1. CASE task' = [task EXCEPT ![w] = [msg |-> e.msg, how |-> "reclaim"]] /\ Goto(w, "claim")
    BY <2>1, EntryMoves DEF Reclaim
  <2>2. CASE UNCHANGED <<task, step>>
    <3>1. task[w] = NoTask /\ step[w] = "reclaim"
      BY InHand DEF Reclaim, TakeEntry, At, Handling
    <3>2. Moves(w, "reclaim", NoTask, todo[w] \ {e})
      BY <2>2, <3>1, InHand DEF Moves, Reclaim, TakeEntry, WorkerSteps, Handling
    <3> QED  BY <3>2
  <2> QED  BY <2>1, <2>2 DEF Reclaim
<1> QED  BY <1>2, <1>3, <1>4, <1>5, TablesAlone, OwnMove

\* A heartbeat only takes a message out of reach of the scans.
LEMMA HeartbeatKeeps ==
    ASSUME DInv, NEW w \in Workers, Heartbeat(w), UNCHANGED stalled
    PROVE  DInv'
<1>0. LogTypeOK
  BY TypeParts
<1>1. /\ quiet' = quiet \ {MessageOf(w)}
      /\ UNCHANGED <<stream, cursor, group, deliveries, pending, left, deadStream>>
  BY DEF Heartbeat
<1>2. LogTypeOK' /\ SameMessages
  BY <1>0, <1>1 DEF LogTypeOK, SameMessages, SameDeliveries, Delivered
<1>3. Moves(w, "run", task[w], todo[w])
  BY InHand DEF Heartbeat, workers, Moves, At, WorkerSteps, Handling
<1> QED  BY <1>2, <1>3, TablesAlone, OwnMove DEF Heartbeat, NoFault

-----------------------------------------------------------------------------
\* The steps that call the backend.

LEMMA MarkKeeps ==
    ASSUME DInv, NEW w \in Workers, MarkRunRunning(w), UNCHANGED stalled
    PROVE  DInv'
<1>1. TablesOK /\ task[w] # NoTask /\ RunOf[ShardAt(w)] \in Runs
  BY TypeParts, InHand, RunOfAssumption DEF MarkRunRunning, At, Handling
<1>2. TablesOK' /\ Forward /\ NothingStarts
  BY <1>1, TablesAlone, BackendRunStep DEF MarkRunRunning
<1>3. \E here, now : Moves(w, here, now, todo[w])
  BY <1>1, GotoMoves, ReturnMoves DEF MarkRunRunning
<1>4. Fault \/ NoFault
  BY DEF MarkRunRunning
<1> QED  BY <1>2, <1>3, <1>4, RedisAlone, OwnMove DEF MarkRunRunning

\* A worker goes on to acknowledge a message.
LEMMA AckMoves ==
    ASSUME DInv, NEW w \in Workers, Goto(w, "ack"), UNCHANGED <<task, todo>>,
           task[w] # NoTask,
           \/ task[w].how = "dead"
           \/ shardStatus'[ShardAt(w)] \in ShardFinal
           \/ FreshlyRead(w) /\ shardStatus'[ShardAt(w)] = "running"
    PROVE  Moves(w, "ack", task[w], todo[w])
<1>1. task[w].how = "read" => \/ Refusable(w)
                              \/ shardStatus'[ShardOf[task[w].msg]] # "running"
  BY InHand DEF Refusable, FreshlyRead, At, ShardFinal
<1>2. (CASE task[w].how = "read" -> shardStatus'[ShardOf[task[w].msg]] \in {"running"} \cup ShardFinal
         [] task[w].how = "reclaim" -> shardStatus'[ShardOf[task[w].msg]] \in ShardFinal
         [] OTHER -> TRUE)
  BY InHand DEF FreshlyRead
<1>3. "ack" \in WorkerSteps /\ "ack" \in Handling \cup {"copy", "fail"}
  BY DEF WorkerSteps, Handling
<1> QED  BY <1>1, <1>2, <1>3, InHand DEF Moves, Goto

LEMMA ReportKeeps ==
    ASSUME DInv, NEW w \in Workers, ReportShard(w), UNCHANGED stalled
    PROVE  DInv'
<1> DEFINE s == ShardAt(w)
<1>1. TablesOK /\ task[w] # NoTask /\ s \in Shards
  BY TypeParts, InHand DEF ReportShard, At, Handling
<1>2. /\ TablesOK' /\ Forward /\ NothingStarts
      /\ Backend!ReportShard(s) => shardStatus'[s] \in ShardFinal
  BY <1>1, TablesAlone, BackendEnds DEF ReportShard
<1>3. \E here, now : Moves(w, here, now, todo[w])
  BY <1>1, <1>2, AckMoves, ReturnMoves DEF ReportShard
<1>4. Fault \/ NoFault
  BY DEF ReportShard
<1> QED  BY <1>2, <1>3, <1>4, RedisAlone, OwnMove DEF ReportShard

\* Only deadLetter comes to fail a shard, with a task of its kind.
LEMMA FailKeeps ==
    ASSUME DInv, NEW w \in Workers, FailShard(w), UNCHANGED stalled
    PROVE  DInv'
<1> DEFINE s == ShardAt(w)
<1>1. TablesOK /\ task[w] # NoTask /\ s \in Shards /\ task[w].how = "dead"
  BY TypeParts, InHand DEF FailShard, At
<1>2. TablesOK' /\ Forward /\ NothingStarts
  BY <1>1, TablesAlone, BackendEnds DEF FailShard
<1>3. Moves(w, "ack", task[w], todo[w])
  BY <1>1, AckMoves DEF FailShard
<1>4. Fault \/ NoFault
  BY DEF FailShard
<1> QED  BY <1>2, <1>3, <1>4, RedisAlone, OwnMove DEF FailShard

\* A claim that is granted starts the shard; its message is still with the group,
\* and no other worker holds it as one that was just read.
LEMMA ClaimGranted ==
    ASSUME DInv, NEW w \in Workers, At(w, "claim"), Backend!ClaimShard(ShardAt(w)),
           Goto(w, "mark"), UNCHANGED <<task, todo, redis, faults, stalled>>
    PROVE  DInv'
<1> DEFINE s == ShardAt(w)  m == task[w].msg
<1>1. /\ TablesOK /\ LogTypeOK /\ WorkersTypeOK /\ BoundsTypeOK /\ StreamOnce
      /\ DeliveredOnce /\ KnowsDelivered /\ AcksAreJustified /\ RunningHasMessage
  BY TypeParts
<1>2. /\ task[w] # NoTask /\ s \in Shards /\ m \in Messages /\ Delivered(m)
      /\ ShardOf[m] = s /\ MessageOf(w) = m
  BY InHand DEF At, Handling
<1>3. /\ TablesOK' /\ Forward
      /\ shardStatus[s] = "queued" /\ shardStatus' = [shardStatus EXCEPT ![s] = "running"]
  BY <1>1, <1>2, BackendClaim
<1>4. SameMessages /\ LogTypeOK'
  BY RedisAlone
<1>5. WorkersTypeOK' /\ OwnStep(w)
  BY <1>1, <1>2, GotoMoves, MovesAreOwnSteps
<1>6. StreamOnce' /\ DeliveredOnce' /\ KnowsDelivered' /\ AcksAreJustified'
  BY <1>1, <1>3, <1>4, <1>5, StreamOnceKept, DeliveredOnceKept, OwnStepKnows, OwnStepAcks
  DEF SameMessages
<1>7. \A v \in Workers : Refusable(v)' => v # w /\ Refusable(v)
  BY <1>1 DEF Refusable, Goto, WorkersTypeOK
<1>8. m \in pending \/ left[m] = "dead"
  BY <1>1, <1>2, <1>3 DEF DeliveredOnce, LogTypeOK, Started, ShardFinal
<1>9. ASSUME NEW v \in Workers, v # w, Refusable(v), ClaimsInTime PROVE MessageOf(v) # m
  <2>1. CASE FreshlyRead(v)
    BY <1>1, <1>2, <1>9, <2>1 DEF KnowsDelivered
  <2>2. CASE At(v, "ack")
    <3>1. Started(ShardAt(v))
      BY <1>1, <1>9, <2>2 DEF AcksAreJustified, AckJustified, Refusable
    <3> QED  BY <1>3, <1>2, <3>1 DEF Started, ShardFinal, ShardAt, MessageOf
  <2> QED  BY <1>9, <2>1, <2>2 DEF Refusable, FreshlyRead, At
<1>10. RunningHasMessage'
  <2> SUFFICES ASSUME NEW t \in Shards, shardStatus'[t] = "running", ClaimsInTime
               PROVE  \E n \in Messages :
                         (/\ ShardOf[n] = t
                          /\ n \in pending \/ left[n] = "dead"
                          /\ \A v \in Workers : Refusable(v) => MessageOf(v) # n)'
    BY DEF RunningHasMessage, ClaimsInTime
  <2>1. CASE t = s
    BY <1>2, <1>7, <1>8, <1>9, <2>1 DEF redis, MessageOf
  <2>2. CASE t # s
    <3>1. shardStatus[t] = "running"
      BY <1>1, <1>3, <2>2 DEF TablesOK, TablesTypeOK
    <3> QED  BY <1>1, <1>7, <3>1 DEF RunningHasMessage, redis, MessageOf
  <2> QED  BY <2>1, <2>2
<1>11. BoundsTypeOK'
  BY <1>1 DEF BoundsTypeOK
<1> QED
  BY <1>3, <1>4, <1>5, <1>6, <1>10, <1>11
  DEF DInv, TypeOK, TablesOK, LogTypeOK, WorkersTypeOK, BoundsTypeOK

LEMMA ClaimKeeps ==
    ASSUME DInv, NEW w \in Workers, ClaimShard(w), UNCHANGED stalled
    PROVE  DInv'
<1> DEFINE s == ShardAt(w)
<1>1. /\ At(w, "claim") /\ task[w] # NoTask /\ UNCHANGED <<redis, todo>>
      /\ shardStatus[s] # "absent" /\ task[w].how \in {"read", "reclaim", "dead"}
  BY InHand DEF ClaimShard, At, Handling
<1>2. CASE Backend!ClaimShard(s) /\ Goto(w, "mark") /\ UNCHANGED task /\ NoFault
  BY <1>1, <1>2, ClaimGranted DEF NoFault
<1>3. CASE UNCHANGED tables /\ Goto(w, "mark") /\ UNCHANGED task /\ NoFault
  BY <1>1, <1>3, GotoMoves, TablesAlone, RedisAlone, OwnMove
<1>4. CASE /\ shardStatus[s] \in NotClaimable(task[w].how)
           /\ Goto(w, "ack") /\ UNCHANGED <<task, tables>> /\ NoFault
  <2>1. \/ shardStatus'[s] \in ShardFinal
        \/ FreshlyRead(w) /\ shardStatus'[s] = "running"
    BY <1>1, <1>4 DEF NotClaimable, FreshlyRead, tables
  <2>2. Moves(w, "ack", task[w], todo[w])
    BY <1>1, <1>4, <2>1, AckMoves
  <2> QED  BY <1>1, <1>4, <2>2, TablesAlone, RedisAlone, OwnMove
<1>5. CASE Return(w) /\ Fault /\ UNCHANGED tables
  BY <1>1, <1>5, ReturnMoves, TablesAlone, RedisAlone, OwnMove
<1> QED  BY <1>2, <1>3, <1>4, <1>5 DEF ClaimShard

-----------------------------------------------------------------------------
\* The steps that change what the group keeps.

LEMMA AckKeeps ==
    ASSUME DInv, NEW w \in Workers, Ack(w), UNCHANGED stalled
    PROVE  DInv'
<1> DEFINE m == MessageOf(w)
<1>1. /\ TablesOK /\ LogTypeOK /\ WorkersTypeOK /\ BoundsTypeOK /\ StreamOnce
      /\ DeliveredOnce /\ KnowsDelivered /\ AcksAreJustified /\ RunningHasMessage
  BY TypeParts
<1>2. /\ At(w, "ack") /\ task[w] # NoTask /\ m = task[w].msg /\ m \in Messages
      /\ ShardAt(w) = ShardOf[m] /\ ShardOf[m] \in Shards
      /\ task[w].how \in {"read", "reclaim", "dead"}
      /\ UNCHANGED <<tables, stream, cursor, group, deliveries, deadStream, todo>>
      /\ Return(w) /\ (Fault \/ NoFault)
  BY InHand DEF Ack, At, Handling
<1>3. PICK here : Moves(w, here, NoTask, todo[w])
  BY <1>2, ReturnMoves
<1>4. TablesOK' /\ Forward /\ NothingStarts
  BY <1>2, TablesAlone
<1>5. CASE UNCHANGED <<pending, quiet, left>>
  BY <1>2, <1>3, <1>4, <1>5, RedisAlone, OwnMove DEF redis
<1>6. CASE /\ pending' = pending \ {m} /\ quiet' = quiet \ {m}
           /\ left' = IF m \notin pending THEN left
                      ELSE [left EXCEPT ![m] = IF task[w].how = "dead" THEN "dead" ELSE "acked"]
  <2>1. LogTypeOK'
    BY <1>1, <1>2, <1>6 DEF LogTypeOK
  <2>2. WorkersTypeOK' /\ OwnStep(w)
    BY <1>1, <1>3, MovesAreOwnSteps
  <2>3. SameDeliveries
    BY <1>2, <1>6 DEF SameDeliveries, Delivered
  <2>4. StreamOnce' /\ KnowsDelivered' /\ AcksAreJustified'
    BY <1>1, <1>2, <1>4, <2>2, <2>3, StreamOnceKept, OwnStepKnows, OwnStepAcks
  <2>5. Started(ShardOf[m]) \/ task[w].how = "dead"
    BY <1>1, <1>2 DEF AcksAreJustified, AckJustified, Started
  <2>6. DeliveredOnce'
    <3> SUFFICES ASSUME NEW n \in Messages
                 PROVE  (/\ Delivered(n) => \E i \in 1 .. cursor : stream[i] = n
                         /\ n \in pending <=> (Delivered(n) /\ left[n] = "no")
                         /\ left[n] # "no" => Delivered(n)
                         /\ left[n] = "acked" => Started(ShardOf[n]))'
      BY DEF DeliveredOnce
    <3>1. (Delivered(n) => \E i \in 1 .. cursor : stream[i] = n)' /\ Delivered(n)' = Delivered(n)
      BY <1>1, <1>2 DEF DeliveredOnce, Delivered
    <3>2. Started(ShardOf[n])' <=> Started(ShardOf[n])
      BY <1>2 DEF Started, tables
    <3>3. CASE n = m /\ m \in pending
      <4>1. left'[m] = IF task[w].how = "dead" THEN "dead" ELSE "acked"
        BY <1>1, <1>2, <1>6, <3>3 DEF LogTypeOK
      <4>2. Delivered(m)
        BY <1>1, <1>2, <3>3 DEF DeliveredOnce
      <4> QED  BY <1>6, <2>5, <3>1, <3>2, <3>3, <4>1, <4>2
    <3>4. CASE n # m \/ m \notin pending
      <4>1. left'[n] = left[n] /\ (n \in pending' <=> n \in pending)
        BY <1>1, <1>2, <1>6, <3>4 DEF LogTypeOK
      <4> QED  BY <1>1, <3>1, <3>2, <4>1 DEF DeliveredOnce
    <3> QED  BY <3>3, <3>4
  <2>7. RunningHasMessage'
    <3> SUFFICES ASSUME NEW s \in Shards, shardStatus'[s] = "running", ClaimsInTime
                 PROVE  \E n \in Messages :
                           (/\ ShardOf[n] = s
                            /\ n \in pending \/ left[n] = "dead"
                            /\ \A v \in Workers : Refusable(v) => MessageOf(v) # n)'
      BY DEF RunningHasMessage, ClaimsInTime
    <3>1. PICK n \in Messages : /\ ShardOf[n] = s
                                /\ n \in pending \/ left[n] = "dead"
                                /\ \A v \in Workers : Refusable(v) => MessageOf(v) # n
      BY <1>1, <1>4 DEF RunningHasMessage, NothingStarts
    <3>2. ASSUME NEW v \in Workers, Refusable(v)' PROVE MessageOf(v)' # n
      <4>1. v # w /\ task'[v] = task[v] /\ step'[v] = step[v]
        BY <1>1, <1>2, <3>2 DEF Return, Goto, Refusable, WorkersTypeOK
      <4> QED  BY <3>1, <3>2, <4>1 DEF Refusable, MessageOf
    <3>3. n \in pending' \/ left'[n] = "dead"
      <4>1. CASE n # m
        BY <1>1, <1>2, <1>6, <3>1, <4>1 DEF LogTypeOK
      <4>2. CASE n = m
        <5>1. task[w].how # "read"
          BY <1>2, <3>1, <4>2 DEF Refusable, At
        <5>2. task[w].how # "reclaim"
          BY <1>1, <1>2, <3>1, <4>2 DEF AcksAreJustified, AckJustified, ShardFinal, tables
        <5> QED  BY <1>1, <1>2, <1>6, <3>1, <4>2, <5>1, <5>2 DEF LogTypeOK
      <4> QED  BY <4>1, <4>2
    <3> QED  BY <3>1, <3>2, <3>3
  <2>8. BoundsTypeOK'
    BY <1>1, <1>2, FaultBound DEF BoundsTypeOK
  <2> QED
    BY <1>4, <2>1, <2>2, <2>4, <2>6, <2>7, <2>8
    DEF DInv, TypeOK, TablesOK, LogTypeOK, WorkersTypeOK, BoundsTypeOK
<1> QED  BY <1>5, <1>6 DEF Ack

\* RECLAIM_MIN_IDLE passes for a message that is not one just read.
LEMMA QuietKeeps ==
    ASSUME DInv, NEW m \in pending, quiet' = quiet \cup {m}, stalled' \subseteq Messages,
           UNCHANGED <<tables, stream, cursor, group, deliveries, pending, left,
                       deadStream, workers>>,
           Fault \/ NoFault,
           ClaimsInTime => \A w \in Workers : FreshlyRead(w) => MessageOf(w) # m
    PROVE  DInv'
<1>1. /\ TablesOK /\ LogTypeOK /\ WorkersTypeOK /\ BoundsTypeOK /\ StreamOnce
      /\ DeliveredOnce /\ KnowsDelivered /\ AcksAreJustified /\ RunningHasMessage
  BY TypeParts
<1>2. LogTypeOK'
  BY <1>1 DEF LogTypeOK
<1>3. BoundsTypeOK'
  BY <1>1, FaultBound DEF BoundsTypeOK
<1>4. TablesOK' /\ WorkersTypeOK'
  BY <1>1, TablesAlone DEF WorkersTypeOK, workers
<1>5. StreamOnce' /\ DeliveredOnce'
  BY <1>1 DEF StreamOnce, DeliveredOnce, Delivered, Started, tables
<1>6. KnowsDelivered'
  BY <1>1 DEF KnowsDelivered, Delivered, FreshlyRead, ClaimsInTime, At, MessageOf, workers
<1>7. AcksAreJustified' /\ RunningHasMessage'
  BY <1>1 DEF AcksAreJustified, AckJustified, At, ShardAt, Started, RunningHasMessage,
              Refusable, MessageOf, ClaimsInTime, tables, workers
<1> QED
  BY <1>2, <1>3, <1>4, <1>5, <1>6, <1>7
  DEF DInv, TypeOK, TablesOK, LogTypeOK, WorkersTypeOK, BoundsTypeOK

\* A message is read once, when nobody knows of it.
LEMMA ReadKeeps ==
    ASSUME DInv, NEW w \in Workers, ReadMessage(w), UNCHANGED stalled
    PROVE  DInv'
<1> DEFINE m == stream[cursor + 1]
<1>1. /\ TablesOK /\ LogTypeOK /\ WorkersTypeOK /\ BoundsTypeOK /\ StreamOnce
      /\ DeliveredOnce /\ KnowsDelivered /\ AcksAreJustified /\ RunningHasMessage
  BY TypeParts
<1>2. cursor + 1 \in 1 .. Len(stream) /\ cursor \in Nat /\ m \in Messages
  BY <1>1 DEF LogTypeOK, ReadMessage
<1>3. /\ cursor' = cursor + 1 /\ deliveries' = [deliveries EXCEPT ![m] = 1]
      /\ pending' = pending \cup {m}
      /\ \/ task' = [task EXCEPT ![w] = [msg |-> m, how |-> "read"]] /\ Goto(w, "claim") /\ NoFault
         \/ Goto(w, "scan") /\ Fault /\ UNCHANGED task
      /\ UNCHANGED <<tables, stream, group, quiet, left, deadStream, todo, stalled>>
      /\ At(w, "read")
  BY DEF ReadMessage
<1>4. ~Delivered(m) /\ m \notin pending /\ m \notin quiet /\ left[m] = "no"
  <2>1. \A i \in 1 .. cursor : i \in 1 .. Len(stream) /\ i # cursor + 1
    BY <1>2
  <2>2. ~Delivered(m)
    BY <1>1, <1>2, <2>1 DEF DeliveredOnce, StreamOnce
  <2> QED  BY <1>1, <1>2, <2>2 DEF DeliveredOnce, LogTypeOK
<1>5. \A n \in Messages : Delivered(n)' <=> (Delivered(n) \/ n = m)
  BY <1>1, <1>2, <1>3 DEF LogTypeOK, Delivered
<1>6. LogTypeOK'
  BY <1>1, <1>2, <1>3 DEF LogTypeOK
<1>7. /\ \A v \in Workers : v # w => task'[v] = task[v] /\ step'[v] = step[v]
      /\ task[w] = NoTask
      /\ \/ task'[w] = [msg |-> m, how |-> "read"] /\ step'[w] = "claim"
         \/ task'[w] = NoTask /\ step'[w] = "scan"
  BY <1>1, <1>3, InHand DEF WorkersTypeOK, Goto, At, Handling
<1>8. WorkersTypeOK'
  <2>1. [msg |-> m, how |-> "read"] \in Tasks \ {NoTask}
    BY <1>2, NoTaskAssumption DEF Tasks
  <2> QED  BY <1>1, <1>3, <1>7, <2>1 DEF WorkersTypeOK, Goto, Handling
<1>9. TablesOK' /\ StreamOnce'
  BY <1>1, <1>3, TablesAlone DEF StreamOnce, tables
<1>10. DeliveredOnce'
  <2> SUFFICES ASSUME NEW n \in Messages
               PROVE  (/\ Delivered(n) => \E i \in 1 .. cursor : stream[i] = n
                       /\ n \in pending <=> (Delivered(n) /\ left[n] = "no")
                       /\ left[n] # "no" => Delivered(n)
                       /\ left[n] = "acked" => Started(ShardOf[n]))'
    BY DEF DeliveredOnce
  <2>1. (Delivered(n) => \E i \in 1 .. cursor : stream[i] = n)'
    <3>1. CASE n = m
      BY <1>2, <1>3, <3>1
    <3>2. CASE n # m
      BY <1>1, <1>2, <1>3, <1>5, <3>2 DEF DeliveredOnce
    <3> QED  BY <3>1, <3>2
  <2>2. (n \in pending <=> (Delivered(n) /\ left[n] = "no"))'
    BY <1>1, <1>3, <1>4, <1>5 DEF DeliveredOnce
  <2>3. (left[n] # "no" => Delivered(n))' /\ (left[n] = "acked" => Started(ShardOf[n]))'
    BY <1>1, <1>3, <1>5 DEF DeliveredOnce, Started, tables
  <2> QED  BY <2>1, <2>2, <2>3
\* Nobody knows of m.
<1>11. \A v \in Workers : /\ task[v] # NoTask => task[v].msg # m /\ task[v].msg \in Messages
                          /\ \A e \in todo[v] : e.msg # m /\ e.msg \in Messages
  BY <1>4, InHand
<1>12. KnowsDelivered'
  <2>1. ASSUME NEW v \in Workers, NEW e \in todo'[v] PROVE Delivered(e.msg)'
    BY <1>1, <1>3, <1>5, <1>11 DEF KnowsDelivered
  <2>2. ASSUME NEW v \in Workers, task'[v] # NoTask PROVE Delivered(MessageOf(v))'
    <3>1. CASE v = w
      <4>1. task'[v].msg = m
        BY <1>7, <2>2, <3>1
      <4> QED  BY <1>2, <1>5, <4>1 DEF MessageOf
    <3>2. CASE v # w
      <4>1. task'[v] = task[v] /\ task[v] # NoTask /\ Delivered(task[v].msg)
        BY <1>1, <1>7, <2>2, <3>2 DEF KnowsDelivered, MessageOf
      <4> QED  BY <1>5, <1>11, <4>1 DEF MessageOf
    <3> QED  BY <3>1, <3>2
  <2>3. ASSUME NEW v \in Workers, FreshlyRead(v)', ClaimsInTime, NEW x \in Workers
        PROVE  /\ task'[v].msg \notin quiet
               /\ x # v /\ task'[x] # NoTask => task'[x].msg # task'[v].msg
               /\ \A e \in todo[x] : e.msg # task'[v].msg
    <3>1. CASE v = w
      <4>1. task'[v].msg = m
        BY <1>7, <2>3, <3>1 DEF FreshlyRead, At
      <4> QED  BY <1>4, <1>7, <1>11, <3>1, <4>1
    <3>2. CASE v # w
      <4>1. FreshlyRead(v) /\ task'[v] = task[v] /\ task[v] # NoTask
        BY <1>1, <1>7, <2>3, <3>2 DEF FreshlyRead, At, WorkersTypeOK, Handling
      <4>2. /\ task[v].msg \notin quiet
            /\ x # v /\ task[x] # NoTask => task[x].msg # task[v].msg
            /\ \A e \in todo[x] : e.msg # task[v].msg
        BY <1>1, <2>3, <4>1 DEF KnowsDelivered, MessageOf
      <4>3. task[v].msg # m
        BY <1>11, <4>1
      <4> QED  BY <1>7, <4>1, <4>2, <4>3
    <3> QED  BY <3>1, <3>2
  <2>4. ASSUME NEW v \in Workers, FreshlyRead(v)', ClaimsInTime
        PROVE  (/\ MessageOf(v) \notin quiet
                /\ \A x \in Workers :
                      /\ x # v /\ task[x] # NoTask => MessageOf(x) # MessageOf(v)
                      /\ \A e \in todo[x] : e.msg # MessageOf(v))'
    BY <1>3, <2>3, <2>4 DEF MessageOf
  <2> QED  BY <2>1, <2>2, <2>4 DEF KnowsDelivered, ClaimsInTime
<1>13. AcksAreJustified'
  <2> SUFFICES ASSUME NEW v \in Workers, (step[v] \in {"ack", "copy", "fail"})'
               PROVE  /\ step[v] = step'[v] /\ task'[v] = task[v]
    BY <1>1, <1>3 DEF AcksAreJustified, AckJustified, At, ShardAt, Started, tables
  <2> QED  BY <1>7
<1>14. RunningHasMessage'
  <2> SUFFICES ASSUME NEW s \in Shards, shardStatus'[s] = "running", ClaimsInTime
               PROVE  \E n \in Messages :
                         (/\ ShardOf[n] = s
                          /\ n \in pending \/ left[n] = "dead"
                          /\ \A v \in Workers : Refusable(v) => MessageOf(v) # n)'
    BY DEF RunningHasMessage, ClaimsInTime
  <2>1. PICK n \in Messages : /\ ShardOf[n] = s
                              /\ n \in pending \/ left[n] = "dead"
                              /\ \A v \in Workers : Refusable(v) => MessageOf(v) # n
    BY <1>1, <1>3 DEF RunningHasMessage, tables
  <2>2. n # m
    BY <1>4, <2>1
  <2>3. ASSUME NEW v \in Workers, Refusable(v)' PROVE MessageOf(v)' # n
    BY <1>7, <2>1, <2>2, <2>3 DEF Refusable, MessageOf
  <2> QED  BY <1>3, <2>1, <2>3
<1>15. BoundsTypeOK'
  BY <1>1, <1>3, FaultBound DEF BoundsTypeOK
<1> QED
  BY <1>6, <1>8, <1>9, <1>10, <1>12, <1>13, <1>14, <1>15
  DEF DInv, TypeOK, TablesOK, LogTypeOK, WorkersTypeOK, BoundsTypeOK

LEMMA GoQuietKeeps ==
    ASSUME DInv, NEW m \in Messages, GoQuiet(m), UNCHANGED stalled
    PROVE  DInv'
<1>1. ASSUME NEW w \in Workers, FreshlyRead(w) PROVE MessageOf(w) # m
  <2>1. task[w] # NoTask /\ step[w] \in Handling /\ task[w].how # "dead"
    BY <1>1, InHand DEF FreshlyRead, At, Handling
  <2> QED  BY <2>1 DEF GoQuiet, HandledAt, MessageOf
<1>2. stalled' \subseteq Messages
  BY TypeParts DEF BoundsTypeOK
<1> QED  BY <1>1, <1>2, QuietKeeps DEF GoQuiet, NoFault

\* A worker that stalls in the claim of a message it read can lose it to a peer, and
\* then acknowledge what the peer runs.
LEMMA StallKeeps ==
    ASSUME DInv, NEW m \in Messages, Stall(m)
    PROVE  DInv'
<1>1. KnowsDelivered
  BY TypeParts
<1>2. PICK v \in Workers : task[v] # NoTask /\ task[v].msg = m /\ step[v] \in StallAt
  BY DEF Stall, HandledAt
<1>3. ASSUME NEW w \in Workers, FreshlyRead(w), ClaimsInTime PROVE MessageOf(w) # m
  <2>1. v # w
    BY <1>2, <1>3 DEF FreshlyRead, ClaimsInTime, At
  <2> QED  BY <1>1, <1>2, <1>3, <2>1 DEF KnowsDelivered, MessageOf
<1>4. stalled' \subseteq Messages
  BY TypeParts DEF BoundsTypeOK, Stall
<1> QED  BY <1>3, <1>4, QuietKeeps DEF Stall

-----------------------------------------------------------------------------
LEMMA DInvInit == Init => DInv
<1> SUFFICES ASSUME Init PROVE DInv
  OBVIOUS
<1>1. TablesOK /\ \A s \in Shards : shardStatus[s] = "absent"
  BY RunOfAssumption DEF Init, TablesInit, TablesOK, TablesTypeOK, RowsTogether, Results
<1>2. LogTypeOK
  <2>1. stream \in Seq(Messages) /\ Len(stream) = 0 /\ cursor = 0
    BY DEF Init
  <2>2. deliveries \in [Messages -> Nat] /\ left \in [Messages -> {"no", "acked", "dead"}]
    BY DEF Init
  <2>3. cursor \in 0 .. Len(stream)
    BY <2>1
  <2>4. group \in BOOLEAN /\ pending = {} /\ quiet = {} /\ deadStream = {}
    BY DEF Init
  <2> QED  BY <2>1, <2>2, <2>3, <2>4 DEF LogTypeOK
<1>3. WorkersTypeOK
  BY DEF Init, WorkersTypeOK, Handling
<1>4. BoundsTypeOK
  BY BoundsAssumption DEF Init, BoundsTypeOK
<1>5. StreamOnce
  BY DEF Init, StreamOnce
<1>6. DeliveredOnce /\ KnowsDelivered
  BY DEF Init, DeliveredOnce, KnowsDelivered, Delivered, FreshlyRead, At
<1>7. AcksAreJustified /\ RunningHasMessage
  BY <1>1 DEF Init, AcksAreJustified, At, RunningHasMessage
<1> QED  BY <1>1, <1>2, <1>3, <1>4, <1>5, <1>6, <1>7, TypeParts

LEMMA DInvNext ==
    ASSUME DInv, [Next]_vars
    PROVE  DInv'
<1>1. CASE UNCHANGED vars
  <2>1. TablesOK' /\ LogTypeOK' /\ Forward /\ NothingStarts
    BY <1>1, TablesAlone, RedisAlone DEF vars
  <2> QED
    BY <1>1, <2>1
    DEF vars, redis, workers, tables, DInv, TypeOK, TablesOK, StreamOnce, DeliveredOnce,
        KnowsDelivered, Delivered, Started, FreshlyRead, At, MessageOf, ShardAt,
        AcksAreJustified, AckJustified, RunningHasMessage, Refusable
<1>2. ASSUME NEW r \in Runs, CreateTestRun(r) \/ CancelTestRun(r), UNCHANGED stalled
      PROVE  DInv'
  BY <1>2, CreateKeeps
<1>3. ASSUME NEW m \in Messages, PublishShard(m) \/ GoQuiet(m), UNCHANGED stalled
      PROVE  DInv'
  BY <1>3, PublishKeeps, GoQuietKeeps
<1>4. ASSUME NEW w \in Workers, Work(w), UNCHANGED stalled PROVE DInv'
  <2>1. ASSUME NEW e \in todo[w], DeadLetter(w, e) \/ Reclaim(w, e) PROVE DInv'
    BY <1>4, <2>1, DeadLetterKeeps, ReclaimKeeps
  <2>2. CASE Boot(w) \/ ScanPending(w) \/ ReclaimDone(w) \/ ReadMessage(w) \/ ReadNothing(w)
    BY <1>4, <2>2, BootKeeps, ScanPendingKeeps, IdleKeeps, ReadKeeps
  <2>3. CASE ClaimShard(w) \/ MarkRunRunning(w) \/ WatchCancel(w) \/ ReportShard(w)
    BY <1>4, <2>3, ClaimKeeps, MarkKeeps, IdleKeeps, ReportKeeps
  <2>4. CASE CopyToDeadStream(w) \/ FailShard(w) \/ Ack(w)
    BY <1>4, <2>4, CopyKeeps, FailKeeps, AckKeeps
  <2> QED  BY <1>4, <2>1, <2>2, <2>3, <2>4 DEF Work
<1>5. ASSUME NEW w \in Workers, LoadEnds(w) \/ Heartbeat(w) \/ Crash(w), UNCHANGED stalled
      PROVE  DInv'
  BY <1>5, IdleKeeps, HeartbeatKeeps, CrashKeeps
<1>6. ASSUME NEW m \in Messages, Stall(m) PROVE DInv'
  BY <1>6, StallKeeps
<1> QED  BY <1>1, <1>2, <1>3, <1>4, <1>5, <1>6 DEF Next, Calm

LEMMA DInvKeepsShards == DInv /\ ClaimsInTime => NoLostShard
<1> SUFFICES ASSUME DInv, ClaimsInTime, NEW m \in Published, ~Skipped(m), shardStatus[ShardOf[m]] \in ShardOpen
             PROVE  \E n \in Published : /\ ShardOf[n] = ShardOf[m]
                                         /\ Undelivered(n) \/ n \in pending \/ left[n] = "dead"
  BY DEF NoLostShard
<1>1. LogTypeOK /\ DeliveredOnce /\ RunningHasMessage /\ m \in Messages
      /\ ShardOf[m] \in Shards
  BY TypeParts, ShardOfAssumption DEF LogTypeOK, Published
<1>2. CASE Undelivered(m) \/ m \in pending \/ left[m] = "dead"
  BY <1>2
<1>3. CASE ~Undelivered(m) /\ m \notin pending /\ left[m] # "dead"
  <2>1. Delivered(m)
    BY <1>1, <1>3 DEF Skipped, Delivered, LogTypeOK
  <2>2. Started(ShardOf[m])
    BY <1>1, <1>3, <2>1 DEF DeliveredOnce, LogTypeOK
  <2>3. shardStatus[ShardOf[m]] = "running"
    BY <2>2 DEF Started, ShardOpen, ShardFinal
  <2>4. PICK n \in Messages : ShardOf[n] = ShardOf[m] /\ (n \in pending \/ left[n] = "dead")
    BY <1>1, <2>3 DEF RunningHasMessage
  <2>5. PICK i \in 1 .. cursor : stream[i] = n
    BY <1>1, <2>4 DEF DeliveredOnce
  <2>6. n \in Published
    BY <1>1, <2>5 DEF LogTypeOK, Published
  <2> QED  BY <2>4, <2>6
<1> QED  BY <1>2, <1>3

\* The inductive invariant holds whatever crashes, repeats, stalls and lost answers
\* there are ...
THEOREM DeliveryInvariant == Spec => []DInv
<1>1. Init => DInv
  BY DInvInit
<1>2. DInv /\ [Next]_vars => DInv'
  BY DInvNext
<1> QED  BY <1>1, <1>2, PTL DEF Spec

\* ... and with it, as long as no worker stalls in the claim, no published shard is
\* lost (handleMessage and reclaimStuck in worker/cmd/worker/main.go).
THEOREM DeliveryLosesNothing ==
    ASSUME ClaimsInTime
    PROVE  Spec => []NoLostShard
<1>1. DInv => NoLostShard
  BY DInvKeepsShards
<1> QED  BY <1>1, DeliveryInvariant, PTL

-----------------------------------------------------------------------------
(* What the contract of the backend promises of its rows, and that the       *)
(* workers, who drive it, only ever make its requests.                       *)

\* A run is not left open by its shards, whichever of them is the last.
LEMMA ContractFinish ==
    ASSUME TablesOK, ContractInv, NEW s \in Shards, NEW outcome \in ShardFinal,
           NEW payload \in Reports \cup {DeadLettered},
           Backend!FinishShard(s, outcome, payload)
    PROVE  ContractInv'
<1> DEFINE r == RunOf[s]
           over == \A t \in ShardsOf(r) : shardStatus'[t] \in ShardFinal
           ends == over /\ runStatus[r] \in {"running", "cancelling"}
<1>1. /\ shardStatus[s] \in {"queued", "running"}
      /\ payload \in Reports => runStatus[r] # "queued"
      /\ shardStatus' = [shardStatus EXCEPT ![s] = outcome]
      /\ shardResult' = [shardResult EXCEPT ![s] = payload]
  BY DEF Backend!FinishShard, Backend!ShardOpen
<1>2. IF ends THEN /\ runStatus' = [runStatus EXCEPT ![r] = Verdict(r, shardStatus')]
                   /\ runResult' = [runResult EXCEPT ![r] = Merge(r, shardResult')]
              ELSE UNCHANGED <<runStatus, runResult>>
  BY DEF Backend!FinishShard, Backend!EndsWithShards, Backend!ShardsOf, ShardsOf,
         Backend!ShardFinal, ShardFinal, Backend!Verdict, Verdict, Backend!Merge, Merge
<1>3. /\ r \in Runs /\ s \in ShardsOf(r) /\ payload \in Results /\ payload # NoResult
      /\ runStatus[r] # "absent"
  BY <1>1, RunOfAssumption, ResultAssumption DEF ShardsOf, Results, TablesOK, RowsTogether
<1>4. shardStatus[s] \notin ShardFinal /\ runStatus[r] \notin RunFinal
  BY <1>1, <1>3 DEF ShardFinal, ContractInv, RunReflectsShards, AllFinished
<1>5. Verdict(r, shardStatus') \in RunFinal
  BY DEF Verdict, RunFinal
<1>6. \A q \in Runs : q # r => /\ runStatus'[q] = runStatus[q] /\ runResult'[q] = runResult[q]
                               /\ \A t \in ShardsOf(q) : /\ shardStatus'[t] = shardStatus[t]
                                                         /\ shardResult'[t] = shardResult[t]
  BY <1>1, <1>2, <1>3 DEF TablesOK, TablesTypeOK, ShardsOf
<1>7. \A t \in Shards :
         /\ shardStatus'[t] \in ShardFinal <=> shardResult'[t] # NoResult
         /\ shardResult'[t] \in Reports => runStatus'[RunOf[t]] \notin {"absent", "queued"}
  <2> SUFFICES ASSUME NEW t \in Shards
               PROVE  /\ shardStatus'[t] \in ShardFinal <=> shardResult'[t] # NoResult
                      /\ shardResult'[t] \in Reports
                            => runStatus'[RunOf[t]] \notin {"absent", "queued"}
    OBVIOUS
  <2>1. shardStatus'[t] \in ShardFinal <=> shardResult'[t] # NoResult
    BY <1>1, <1>3 DEF ContractInv, TablesOK, TablesTypeOK
  <2>2. runStatus[RunOf[t]] \notin {"absent", "queued"}
           => runStatus'[RunOf[t]] \notin {"absent", "queued"}
    <3>1. RunOf[t] \in Runs
      BY RunOfAssumption
    <3>2. CASE RunOf[t] # r
      BY <1>6, <3>1, <3>2
    <3>3. CASE RunOf[t] = r /\ ends
      <4>1. runStatus'[r] = Verdict(r, shardStatus')
        BY <1>2, <1>3, <3>3 DEF TablesOK, TablesTypeOK
      <4> QED  BY <1>5, <3>3, <4>1 DEF RunFinal
    <3>4. CASE ~ends
      BY <1>2, <3>4
    <3> QED  BY <3>2, <3>3, <3>4
  <2>3. shardResult'[t] \in Reports => runStatus[RunOf[t]] \notin {"absent", "queued"}
    BY <1>1, <1>3 DEF ContractInv, TablesOK, TablesTypeOK
  <2> QED  BY <2>1, <2>2, <2>3
<1>8. BarrierCloses'
  <2> SUFFICES ASSUME NEW q \in Runs, AllFinished(q)', NEW t \in ShardsOf(q),
                      shardResult'[t] \in Reports
               PROVE  runStatus'[q] \in RunFinal
    BY DEF BarrierCloses, ShardsOf
  <2>1. CASE q # r
    BY <1>6, <2>1 DEF ContractInv, BarrierCloses, AllFinished
  <2>2. CASE q = r
    <3>1. runStatus[r] # "queued"
      BY <1>1, <1>3, <2>2 DEF ContractInv, ShardsOf, TablesOK, TablesTypeOK
    <3>2. ends
      BY <1>3, <1>4, <2>2, <3>1
      DEF AllFinished, TablesOK, TablesTypeOK, RunOpen, RunFinal
    <3> QED  BY <1>2, <1>3, <1>5, <2>2, <3>2 DEF TablesOK, TablesTypeOK
  <2> QED  BY <2>1, <2>2
<1>9. RunReflectsShards'
  <2> SUFFICES ASSUME NEW q \in Runs, runStatus'[q] \in RunFinal
               PROVE  /\ AllFinished(q)'
                      /\ \A t \in ShardsOf(q) : runResult'[q][t] = shardResult'[t]
                      /\ runStatus'[q] = "completed" =>
                             \A t \in ShardsOf(q) : shardStatus'[t] = "completed"
                      /\ runStatus'[q] = "failed" =>
                             \E t \in ShardsOf(q) : shardStatus'[t] = "failed"
    BY DEF RunReflectsShards, ShardsOf
  <2>1. CASE q # r
    BY <1>6, <2>1 DEF ContractInv, RunReflectsShards, AllFinished
  <2>2. CASE q = r
    <3>1. ends
      BY <1>2, <1>4, <2>2
    <3>2. /\ runStatus'[r] = Verdict(r, shardStatus')
          /\ runResult'[r] = Merge(r, shardResult')
      BY <1>2, <1>3, <3>1 DEF TablesOK, TablesTypeOK
    <3>3. \A t \in ShardsOf(r) : Merge(r, shardResult')[t] = shardResult'[t]
      BY DEF Merge, ShardsOf
    <3> QED  BY <2>2, <3>1, <3>2, <3>3 DEF AllFinished, Verdict, ShardFinal
  <2> QED  BY <2>1, <2>2
<1> QED  BY <1>7, <1>8, <1>9 DEF ContractInv, AllFinished, ShardsOf

LEMMA ContractNext ==
    ASSUME TablesOK, ContractInv, [Backend!Next]_tables
    PROVE  ContractInv'
<1> USE DEF TablesOK, TablesTypeOK
<1>1. CASE UNCHANGED tables
  BY <1>1 DEF tables, ContractInv, BarrierCloses, RunReflectsShards, AllFinished
<1>2. ASSUME NEW r \in Runs, Backend!Create(r) PROVE ContractInv'
  <2>1. /\ runStatus[r] = "absent"
        /\ runStatus' = [runStatus EXCEPT ![r] = "queued"]
        /\ shardStatus' = [s \in Shards |-> IF RunOf[s] = r THEN "queued" ELSE shardStatus[s]]
        /\ UNCHANGED <<runResult, shardResult>>
    BY <1>2 DEF Backend!Create, Backend!InsertRun
  <2>2. \A s \in Shards : RunOf[s] \in Runs /\ (RunOf[s] = r => shardStatus[s] = "absent")
    BY <2>1, RunOfAssumption DEF RowsTogether
  <2>3. PICK s \in Shards : RunOf[s] = r
    BY NoEmptyRunAssumption
  <2>4. \A q \in Runs : q # r =>
           /\ runStatus'[q] = runStatus[q]
           /\ \A t \in ShardsOf(q) : shardStatus'[t] = shardStatus[t]
    BY <2>1 DEF ShardsOf
  <2>5. ~AllFinished(r)' /\ runStatus'[r] \notin RunFinal
    BY <2>1, <2>3 DEF AllFinished, ShardsOf, ShardFinal, RunFinal
  <2>6. \A t \in Shards :
           /\ shardStatus'[t] \in ShardFinal <=> shardResult'[t] # NoResult
           /\ shardResult'[t] \in Reports => runStatus'[RunOf[t]] \notin {"absent", "queued"}
    BY <2>1, <2>2, ResultAssumption DEF ContractInv, ShardFinal
  <2>7. BarrierCloses' /\ RunReflectsShards'
    <3>1. \A q \in Runs : q # r => (AllFinished(q)' <=> AllFinished(q))
      BY <2>4 DEF AllFinished, ShardsOf
    <3>2. BarrierCloses'
      BY <2>1, <2>4, <2>5, <3>1 DEF ContractInv, BarrierCloses, ShardsOf
    <3>3. ASSUME NEW q \in Runs, q # r, runStatus'[q] \in RunFinal
          PROVE  /\ AllFinished(q)'
                 /\ \A t \in ShardsOf(q) : runResult'[q][t] = shardResult'[t]
                 /\ runStatus'[q] = "completed" =>
                        \A t \in ShardsOf(q) : shardStatus'[t] = "completed"
                 /\ runStatus'[q] = "failed" =>
                        \E t \in ShardsOf(q) : shardStatus'[t] = "failed"
      BY <2>1, <2>4, <3>1, <3>3 DEF ContractInv, RunReflectsShards, ShardsOf
    <3>4. RunReflectsShards'
      BY <2>5, <3>3 DEF RunReflectsShards, ShardsOf
    <3> QED  BY <3>2, <3>4
  <2> QED  BY <2>6, <2>7 DEF ContractInv
<1>3. ASSUME NEW r \in Runs, Backend!RunStarts(r) \/ Backend!Cancel(r) PROVE ContractInv'
  <2>1. PICK new \in {"running", "cancelling"} :
           /\ runStatus[r] \in {"queued", "running"}
           /\ runStatus' = [runStatus EXCEPT ![r] = new]
           /\ UNCHANGED <<runResult, shardStatus, shardResult>>
    BY <1>3 DEF Backend!RunStarts, Backend!Cancel
  <2>2. \A q \in Runs : runStatus'[q] = IF q = r THEN new ELSE runStatus[q]
    BY <2>1
  <2>3. \A s \in Shards : RunOf[s] \in Runs
    BY RunOfAssumption
  <2> QED  BY <2>1, <2>2, <2>3
           DEF ContractInv, BarrierCloses, RunReflectsShards, AllFinished, RunFinal
<1>4. ASSUME NEW s \in Shards, Backend!ClaimShard(s) PROVE ContractInv'
  <2>1. /\ shardStatus[s] = "queued" /\ shardStatus' = [shardStatus EXCEPT ![s] = "running"]
        /\ UNCHANGED <<runStatus, runResult, shardResult>>
    BY <1>4 DEF Backend!ClaimShard
  <2>2. \A t \in Shards : /\ shardStatus'[t] \in ShardFinal <=> shardStatus[t] \in ShardFinal
                          /\ t # s => shardStatus'[t] = shardStatus[t]
    BY <2>1 DEF ShardFinal
  <2>3. \A r \in Runs : /\ AllFinished(r)' <=> AllFinished(r)
                        /\ AllFinished(r) => \A t \in ShardsOf(r) : t # s
    BY <2>1, <2>2 DEF AllFinished, ShardsOf, ShardFinal
  <2>4. BarrierCloses'
    BY <2>1, <2>3 DEF ContractInv, BarrierCloses, ShardsOf
  <2>5. RunReflectsShards'
    <3>1. \A r \in Runs : runStatus[r] \in RunFinal =>
             /\ AllFinished(r)
             /\ \A t \in ShardsOf(r) : t \in Shards /\ shardStatus'[t] = shardStatus[t]
      BY <2>2, <2>3 DEF ContractInv, RunReflectsShards, ShardsOf
    <3> QED  BY <2>1, <2>3, <3>1 DEF ContractInv, RunReflectsShards, ShardsOf
  <2> QED  BY <2>1, <2>2, <2>4, <2>5 DEF ContractInv
<1>5. ASSUME NEW s \in Shards, Backend!ReportShard(s) \/ Backend!DeadLetterShard(s)
      PROVE  ContractInv'
  <2>1. PICK outcome \in ShardFinal, payload \in Reports \cup {DeadLettered} :
           Backend!FinishShard(s, outcome, payload)
    BY <1>5 DEF Backend!ReportShard, Backend!DeadLetterShard, Backend!ShardFinal, ShardFinal
  <2> QED  BY <2>1, ContractFinish
<1> QED  BY <1>1, <1>2, <1>3, <1>4, <1>5 DEF Backend!Next

LEMMA TablesNext ==
    ASSUME TablesOK, [Backend!Next]_tables
    PROVE  TablesOK'
BY TablesUnchanged, BackendCreate, BackendRunStep, BackendClaim, BackendEnds
   DEF Backend!Next

LEMMA ContractInit == TablesInit => TablesOK /\ ContractInv
<1> SUFFICES ASSUME TablesInit PROVE TablesOK /\ ContractInv
  OBVIOUS
<1>1. TablesOK
  BY RunOfAssumption DEF TablesInit, TablesOK, TablesTypeOK, RowsTogether, Results
<1>2. ContractInv
  BY ResultAssumption, RunOfAssumption
  DEF TablesInit, ContractInv, BarrierCloses, RunReflectsShards, RunFinal, ShardFinal, ShardsOf
<1> QED  BY <1>1, <1>2

\* What RunLifecycle states of single requests is enough for the barrier and the verdict:
\* whatever implements it has them (finishShard, aggregateRun).
THEOREM LifecycleKeepsContract == Backend!Spec => []ContractInv
<1>1. Backend!Init => TablesOK /\ ContractInv
  BY ContractInit DEF Backend!Init, Backend!TablesInit, TablesInit
<1>2. TablesOK /\ ContractInv /\ [Backend!Next]_(Backend!tables) => TablesOK' /\ ContractInv'
  BY TablesNext, ContractNext DEF Backend!tables, tables
<1>3. Backend!Spec => [](TablesOK /\ ContractInv)
  BY <1>1, <1>2, PTL DEF Backend!Spec
<1> QED  BY <1>3, PTL

\* Every step of the delivery is one request of the backend or leaves its rows alone.
LEMMA StepIsRequest ==
    ASSUME DInv, [Next]_vars
    PROVE  [Backend!Next]_tables
<1>1. CASE UNCHANGED vars
  BY <1>1 DEF vars, tables
<1>2. ASSUME NEW r \in Runs, CreateTestRun(r) \/ CancelTestRun(r) PROVE Backend!Next
  BY <1>2 DEF CreateTestRun, CancelTestRun, Backend!Next
<1>3. ASSUME NEW m \in Messages, PublishShard(m) \/ GoQuiet(m) \/ Stall(m)
      PROVE  UNCHANGED tables
  BY <1>3 DEF PublishShard, GoQuiet, Stall, tables
<1>4. ASSUME NEW w \in Workers,
             \/ Boot(w) \/ ScanPending(w) \/ ReclaimDone(w) \/ ReadMessage(w) \/ ReadNothing(w)
             \/ WatchCancel(w) \/ CopyToDeadStream(w) \/ Ack(w)
             \/ LoadEnds(w) \/ Heartbeat(w) \/ Crash(w)
      PROVE  UNCHANGED tables
  BY <1>4 DEF Boot, ScanPending, ReclaimDone, ReadMessage, ReadNothing, WatchCancel,
              CopyToDeadStream, Ack, LoadEnds, Heartbeat, Crash, tables
<1>5. ASSUME NEW w \in Workers, NEW e \in todo[w], DeadLetter(w, e) \/ Reclaim(w, e)
      PROVE  UNCHANGED tables
  BY <1>5 DEF DeadLetter, Reclaim, tables
<1>6. ASSUME NEW w \in Workers,
             ClaimShard(w) \/ MarkRunRunning(w) \/ ReportShard(w) \/ FailShard(w)
      PROVE  Backend!Next \/ UNCHANGED tables
  <2>1. step[w] \in Handling \cup {"fail"}
    BY <1>6 DEF ClaimShard, MarkRunRunning, ReportShard, FailShard, At, Handling
  <2>2. ShardAt(w) \in Shards /\ RunOf[ShardAt(w)] \in Runs
    BY <2>1, InHand, RunOfAssumption
  <2>3. \/ Backend!ClaimShard(ShardAt(w)) \/ Backend!RunStarts(RunOf[ShardAt(w)])
        \/ Backend!ReportShard(ShardAt(w)) \/ Backend!DeadLetterShard(ShardAt(w))
        \/ UNCHANGED tables
    BY <1>6 DEF ClaimShard, MarkRunRunning, ReportShard, FailShard
  <2> QED  BY <2>2, <2>3 DEF Backend!Next
<1> QED  BY <1>1, <1>2, <1>3, <1>4, <1>5, <1>6 DEF Next, Calm, Work

\* The workers, with their crashes, repeats and lost answers, use the backend as its
\* contract has it (worker/internal/client/client.go) ...
THEOREM DeliveryImplementsLifecycle == Spec => Backend!Spec
<1>1. Init => Backend!Init
  BY DEF Init, TablesInit, Backend!Init, Backend!TablesInit
<1>2. DInv /\ [Next]_vars => [Backend!Next]_(Backend!tables)
  BY StepIsRequest DEF Backend!tables, tables
<1> QED  BY <1>1, <1>2, DeliveryInvariant, PTL DEF Spec, Backend!Spec

\* ... so what the contract promises holds of the whole path.
THEOREM DeliveryKeepsContract == Spec => []ContractInv
BY DeliveryImplementsLifecycle, LifecycleKeepsContract, PTL

\* A run that has not ended has an open shard, for the barrier would have ended it, and
\* that one has a message, for none is lost (finishShard, handleMessage, reclaimStuck).
LEMMA OpenRunsWork == DInv /\ ContractInv /\ ClaimsInTime => OpenRunHasWork
<1> SUFFICES ASSUME DInv, ContractInv, ClaimsInTime,
                    NEW r \in Runs, FullyPublished(r), ~Ended(r)
             PROVE  \E m \in Published : /\ RunOf[ShardOf[m]] = r
                                         /\ shardStatus[ShardOf[m]] \in ShardOpen
                                         /\ Undelivered(m) \/ m \in pending
  BY DEF OpenRunHasWork
<1>1. NoLostShard /\ LogTypeOK /\ StreamOnce /\ TablesOK
  BY DInvKeepsShards, TypeParts
<1>2. Published \subseteq Messages
  BY <1>1 DEF LogTypeOK, Published
<1>3. PICK s \in ShardsOf(r) : shardStatus[s] \notin ShardFinal
  <2>1. PICK s \in ShardsOf(r) : shardResult[s] # DeadLettered
    BY DEF Ended, LeftOpen
  <2>2. CASE AllFinished(r)
    <3>1. s \in Shards /\ shardResult[s] # NoResult /\ shardResult[s] \in Results
      BY <1>1, <2>2 DEF AllFinished, ShardsOf, ContractInv, TablesOK, TablesTypeOK
    <3>2. shardResult[s] \in Reports
      BY <2>1, <3>1 DEF Results
    <3> QED  BY <2>2, <3>2 DEF ContractInv, BarrierCloses, Ended
  <2> QED  BY <2>2 DEF AllFinished
<1>4. PICK m \in Published : ShardOf[m] = s /\ ~Skipped(m)
  BY DEF FullyPublished
<1>5. s \in Shards /\ RunOf[s] = r
  BY DEF ShardsOf
<1>6. shardStatus[s] # "absent"
  BY <1>1, <1>4 DEF Published, StreamOnce
<1>7. shardStatus[s] \in ShardOpen
  BY <1>1, <1>3, <1>5, <1>6 DEF TablesOK, TablesTypeOK
<1>8. PICK n \in Published : /\ ShardOf[n] = s
                             /\ Undelivered(n) \/ n \in pending \/ left[n] = "dead"
  BY <1>1, <1>4, <1>7 DEF NoLostShard
<1>9. left[n] # "dead"
  BY <1>2, <1>5, <1>7, <1>8 DEF Ended, LeftOpen
<1> QED  BY <1>5, <1>7, <1>8, <1>9

\* No run waits for nothing: what RunEnds needs besides fairness, for any number of runs,
\* shards, messages, workers and faults.
THEOREM DeliveryHasWork ==
    ASSUME ClaimsInTime
    PROVE  Spec => []OpenRunHasWork
<1>1. DInv /\ ContractInv => OpenRunHasWork
  BY OpenRunsWork
<1> QED  BY <1>1, DeliveryInvariant, DeliveryKeepsContract, PTL

-----------------------------------------------------------------------------
(* How often and by whom a message is handled. *)

LEMMA Types ==
    ASSUME DInv
    PROVE  /\ LogTypeOK /\ WorkersTypeOK /\ deliveries \in [Messages -> Nat]
           /\ \A w \in Workers : /\ task[w] # NoTask => task[w].msg \in Messages
                                 /\ \A e \in todo[w] : e.msg \in Messages /\ e.count \in Nat
BY TypeParts, InHand DEF LogTypeOK

\* The workers that may still take a message past the limit are finitely many.
LEMMA FewMayTake ==
    ASSUME NEW S \in SUBSET Workers, NEW T \in SUBSET S
    PROVE  /\ Cardinality(S) \in Nat /\ Cardinality(T) \in Nat /\ Cardinality(Workers) \in Nat
           /\ Cardinality(T) <= Cardinality(S) /\ Cardinality(S) <= Cardinality(Workers)
<1>1. IsFiniteSet(S) /\ Cardinality(S) <= Cardinality(Workers)
  BY WorkersAssumption, FS_Subset
<1>2. IsFiniteSet(T) /\ Cardinality(T) <= Cardinality(S)
  BY <1>1, FS_Subset
<1> QED  BY <1>1, <1>2, WorkersAssumption, FS_CardinalityType

LEMMA OneFewer ==
    ASSUME NEW S \in SUBSET Workers, NEW w \in S
    PROVE  Cardinality(S \ {w}) = Cardinality(S) - 1
<1>1. IsFiniteSet(S)
  BY WorkersAssumption, FS_Subset
<1> QED  BY <1>1, FS_RemoveElement

\* No worker gets a message that it had not, and none goes quiet.
NoneTaken ==
    /\ \A v \in Workers : \A m \in Messages : Handles(v, m)' => Handles(v, m)
    /\ quiet' \subseteq quiet /\ stalled \subseteq stalled'
\* No message is given up that was not.
NoneGivenUp ==
    /\ \A v \in Workers : (task'[v] # NoTask /\ task'[v].how = "dead") =>
          task'[v] = task[v] /\ step'[v] \in {"copy", "fail", "ack"}
    /\ \A m \in Messages : deliveries'[m] \in Nat /\ deliveries'[m] >= deliveries[m]
\* No scan is made, and no message is delivered.
NoneScanned ==
    /\ \A v \in Workers : todo'[v] \subseteq todo[v]
    /\ UNCHANGED deliveries
\* Only poison comes to be dead.
OnlyPoisonDies ==
    \A m \in Messages : (left'[m] = "dead" \/ m \in deadStream') =>
        (left[m] = "dead" \/ m \in deadStream) \/ deliveries[m] > MaxDeliveries

LEMMA HandledKept ==
    ASSUME HandledOnce, NoneTaken
    PROVE  HandledOnce'
BY DEF HandledOnce, NoneTaken

LEMMA DeadKept ==
    ASSUME DInv, DeadAreGivenUp, NoneGivenUp
    PROVE  DeadAreGivenUp'
<1> SUFFICES ASSUME NEW v \in Workers, task'[v] # NoTask, task'[v].how = "dead"
             PROVE  /\ step'[v] \in {"copy", "fail", "ack"}
                    /\ deliveries'[task'[v].msg] > MaxDeliveries
  BY DEF DeadAreGivenUp
<1>1. /\ task[v] = task'[v] /\ step'[v] \in {"copy", "fail", "ack"}
      /\ task[v].msg \in Messages /\ deliveries[task[v].msg] > MaxDeliveries
  BY Types DEF NoneGivenUp, DeadAreGivenUp
<1> QED  BY <1>1, Types, BoundsAssumption DEF NoneGivenUp

LEMMA ScansKept ==
    ASSUME DInv, ScansBehind, NoneScanned
    PROVE  ScansBehind'
<1>1. ASSUME NEW v \in Workers, NEW e \in todo'[v]
      PROVE  e.count <= deliveries'[e.msg] /\ \A f \in todo'[v] : e.msg = f.msg => e = f
  BY <1>1 DEF ScansBehind, NoneScanned
<1>2. ASSUME NEW m \in Messages, deliveries'[m] > MaxDeliveries
      PROVE  deliveries'[m] + Cardinality(MayTake(m)')
                <= MaxDeliveries + Cardinality(Workers)
  <2>1. /\ deliveries'[m] = deliveries[m] /\ MayTake(m)' \in SUBSET MayTake(m)
        /\ MayTake(m) \in SUBSET Workers
    BY DEF NoneScanned, MayTake
  <2>2. deliveries[m] + Cardinality(MayTake(m)) <= MaxDeliveries + Cardinality(Workers)
    BY <1>2, <2>1 DEF ScansBehind
  <2>3. /\ Cardinality(MayTake(m)) \in Nat /\ Cardinality(MayTake(m)') \in Nat
        /\ Cardinality(Workers) \in Nat /\ Cardinality(MayTake(m)') <= Cardinality(MayTake(m))
    BY <2>1, FewMayTake
  <2>4. deliveries[m] \in Nat
    BY Types
  <2> HIDE DEF MayTake
  <2> QED  BY <2>1, <2>2, <2>3, <2>4, BoundsAssumption
<1> QED  BY <1>1, <1>2 DEF ScansBehind

LEMMA PoisonKept ==
    ASSUME DInv, OnlyPoisonIsDeadLettered, NoneGivenUp, OnlyPoisonDies
    PROVE  OnlyPoisonIsDeadLettered'
<1>1. deliveries \in [Messages -> Nat]
  BY Types
<1> QED
  BY <1>1, BoundsAssumption DEF OnlyPoisonIsDeadLettered, NoneGivenUp, OnlyPoisonDies

\* The steps that do none of that.
Quietly ==
    /\ NoneTaken
    /\ NoneGivenUp
    /\ NoneScanned
    /\ OnlyPoisonDies
LEMMA QuietlyKeeps ==
    ASSUME DInv, RetryInv, Quietly
    PROVE  RetryInv'
BY HandledKept, DeadKept, ScansKept, PoisonKept DEF RetryInv, Quietly

LEMMA NobodyMoves ==
    ASSUME DInv, RetryInv, UNCHANGED <<workers, stalled, deliveries, left, deadStream>>,
           quiet' \subseteq quiet
    PROVE  RetryInv'
<1>1. NoneTaken
  BY DEF NoneTaken, Handles, workers
<1>2. NoneGivenUp
  BY Types DEF NoneGivenUp, DeadAreGivenUp, RetryInv, workers
<1>3. NoneScanned /\ OnlyPoisonDies
  BY DEF NoneScanned, OnlyPoisonDies, workers
<1> QED  BY <1>1, <1>2, <1>3, QuietlyKeeps DEF Quietly

\* A worker's own steps: it keeps its message, or has done with it.
Carries(w) ==
    /\ \A v \in Workers : v # w => step'[v] = step[v] /\ task'[v] = task[v] /\ todo'[v] = todo[v]
    /\ task'[w] \in {NoTask, task[w]}
    /\ task'[w] = task[w] /\ task[w] # NoTask /\ task[w].how = "dead" =>
          step'[w] \in {"copy", "fail", "ack"}
    /\ todo'[w] \subseteq todo[w]

LEMMA CarriesKeeps ==
    ASSUME DInv, RetryInv, NEW w \in Workers, Carries(w), quiet' \subseteq quiet,
           UNCHANGED <<deliveries, stalled>>, OnlyPoisonDies
    PROVE  RetryInv'
<1>1. NoneTaken
  <2> SUFFICES ASSUME NEW v \in Workers, NEW m \in Messages, Handles(v, m)'
               PROVE  Handles(v, m)
    BY DEF NoneTaken
  <2>1. task'[v] = task[v]
    BY DEF Carries, Handles
  <2> QED  BY <2>1 DEF Handles
<1>2. NoneGivenUp
  <2>1. ASSUME NEW v \in Workers, task'[v] # NoTask, task'[v].how = "dead"
        PROVE  task'[v] = task[v] /\ step'[v] \in {"copy", "fail", "ack"}
    BY <2>1 DEF Carries, RetryInv, DeadAreGivenUp
  <2> QED  BY <2>1, Types DEF NoneGivenUp
<1>3. NoneScanned
  BY DEF NoneScanned, Carries
<1> QED  BY <1>1, <1>2, <1>3, QuietlyKeeps DEF Quietly

\* In terms of what the actions assign.
LEMMA HandsOn ==
    ASSUME DInv, NEW w \in Workers, NEW here, Goto(w, here), UNCHANGED <<task, todo>>,
           here \in {"copy", "fail", "ack"} \/ task[w] = NoTask \/ task[w].how # "dead"
    PROVE  Carries(w)
<1>1. WorkersTypeOK
  BY Types
<1>2. step'[w] = here /\ \A v \in Workers : v # w => step'[v] = step[v]
  BY <1>1 DEF Goto, WorkersTypeOK
<1> QED  BY <1>2 DEF Carries

LEMMA HandsBack ==
    ASSUME DInv, NEW w \in Workers, Return(w), UNCHANGED todo
    PROVE  Carries(w)
<1> DEFINE here == IF task[w].how = "read" THEN "scan" ELSE "reclaim"
<1>1. step' = [step EXCEPT ![w] = here] /\ task' = [task EXCEPT ![w] = NoTask]
  BY DEF Return, Goto
<1>2. WorkersTypeOK
  BY Types
<1> HIDE DEF here
<1> QED  BY <1>1, <1>2 DEF Carries, WorkersTypeOK

LEMMA Unchanged ==
    ASSUME UNCHANGED <<left, deadStream>>
    PROVE  OnlyPoisonDies
BY DEF OnlyPoisonDies

-----------------------------------------------------------------------------
\* The steps, but for those that hand a message out or let one go quiet.

LEMMA OwnStepsKeepRetry ==
    ASSUME DInv, RetryInv, NEW w \in Workers, UNCHANGED stalled,
           \/ Boot(w) \/ ReclaimDone(w) \/ ReadNothing(w)
           \/ LoadEnds(w) \/ WatchCancel(w) \/ Crash(w)
    PROVE  RetryInv'
<1>1. UNCHANGED <<quiet, deliveries, left, deadStream>>
  BY DEF Boot, ReclaimDone, ReadNothing, LoadEnds, WatchCancel, Crash, redis
<1>2. CASE Crash(w)
  <2>1. Carries(w)
    BY <1>2, Types DEF Carries, Crash, Goto, WorkersTypeOK
  <2> QED  BY <1>1, <2>1, CarriesKeeps, Unchanged
<1>3. CASE Boot(w) \/ ReclaimDone(w) \/ ReadNothing(w)
  <2>1. task[w] = NoTask
    BY <1>3, InHand DEF Boot, ReclaimDone, ReadNothing, At, Handling
  <2>2. Carries(w)
    BY <1>3, <2>1, HandsOn DEF Boot, ReclaimDone, ReadNothing
  <2> QED  BY <1>1, <2>2, CarriesKeeps, Unchanged
<1>4. CASE LoadEnds(w) \/ WatchCancel(w)
  <2>1. task[w] # NoTask => task[w].how # "dead"
    BY <1>4 DEF LoadEnds, WatchCancel, At, RetryInv, DeadAreGivenUp
  <2>2. Carries(w)
    BY <1>4, <2>1, HandsOn DEF LoadEnds, WatchCancel
  <2> QED  BY <1>1, <2>2, CarriesKeeps, Unchanged
<1> QED  BY <1>2, <1>3, <1>4

LEMMA CallsKeepRetry ==
    ASSUME DInv, RetryInv, NEW w \in Workers, UNCHANGED stalled,
           \/ ClaimShard(w) \/ MarkRunRunning(w) \/ ReportShard(w) \/ FailShard(w)
    PROVE  RetryInv'
<1>1. UNCHANGED <<redis, todo>>
  BY DEF ClaimShard, MarkRunRunning, ReportShard, FailShard
<1>2. \/ Return(w)
      \/ UNCHANGED task /\ \E here : Goto(w, here) /\ (here = "ack" \/ ~FailShard(w))
  BY DEF ClaimShard, MarkRunRunning, ReportShard, FailShard
<1>3. FailShard(w) \/ task[w] = NoTask \/ task[w].how # "dead"
  BY DEF ClaimShard, MarkRunRunning, ReportShard, At, RetryInv, DeadAreGivenUp
<1>4. Carries(w)
  BY <1>1, <1>2, <1>3, HandsOn, HandsBack
<1> QED  BY <1>1, <1>4, CarriesKeeps, Unchanged DEF redis

LEMMA AckKeepsRetry ==
    ASSUME DInv, RetryInv, NEW w \in Workers, Ack(w) \/ CopyToDeadStream(w), UNCHANGED stalled
    PROVE  RetryInv'
<1>1. /\ task[w] # NoTask /\ MessageOf(w) = task[w].msg /\ task[w].msg \in Messages
      /\ task[w].how = "dead" => deliveries[task[w].msg] > MaxDeliveries
  BY InHand DEF Ack, CopyToDeadStream, At, Handling, RetryInv, DeadAreGivenUp
<1>2. CASE Ack(w)
  <2>1. Carries(w)
    BY <1>2, HandsBack DEF Ack
  <2>2. OnlyPoisonDies
    <3>1. LogTypeOK
      BY Types
    <3> QED  BY <1>1, <1>2, <3>1 DEF Ack, OnlyPoisonDies, LogTypeOK
  <2>3. quiet' \subseteq quiet /\ UNCHANGED deliveries
    BY <1>2 DEF Ack
  <2> QED  BY <2>1, <2>2, <2>3, CarriesKeeps
<1>3. CASE CopyToDeadStream(w)
  <2>1. Carries(w)
    BY <1>3, HandsOn DEF CopyToDeadStream
  <2>2. OnlyPoisonDies
    BY <1>1, <1>3, InHand DEF CopyToDeadStream, At, OnlyPoisonDies
  <2> QED  BY <1>3, <2>1, <2>2, CarriesKeeps DEF CopyToDeadStream
<1> QED  BY <1>2, <1>3

\* A scan sees the counts of the moment: past the limit it adds nobody.
LEMMA ScanKeepsRetry ==
    ASSUME DInv, RetryInv, NEW w \in Workers, ScanPending(w), UNCHANGED stalled
    PROVE  RetryInv'
<1>1. UNCHANGED <<tables, redis, task>> /\ task[w] = NoTask /\ WorkersTypeOK
  BY InHand, Types DEF ScanPending, At, Handling
<1>2. CASE UNCHANGED todo
  <2>1. Carries(w)
    BY <1>1, <1>2, HandsOn DEF ScanPending
  <2> QED  BY <1>1, <2>1, CarriesKeeps, Unchanged DEF redis
<1>3. CASE /\ todo' = [todo EXCEPT ![w] = {[msg |-> m, count |-> deliveries[m]] : m \in Oldest(quiet)}]
           /\ Goto(w, "reclaim")
  <2> DEFINE found == {[msg |-> m, count |-> deliveries[m]] : m \in Oldest(quiet)}
  <2>1. \A e \in found : e.count = deliveries[e.msg]
    OBVIOUS
  <2>2. \A e, f \in found : e.msg = f.msg => e = f
    OBVIOUS
  <2>3. found \subseteq Entries
    <3>1. Oldest(quiet) \subseteq Messages /\ deliveries \in [Messages -> Nat]
      BY Types DEF LogTypeOK, Oldest
    <3> QED  BY <3>1 DEF Entries
  <2>4. /\ todo'[w] = found /\ \A v \in Workers : v # w => todo'[v] = todo[v]
        /\ \A v \in Workers : v # w => step'[v] = step[v]
    <3> HIDE DEF found
    <3>1. todo' = [todo EXCEPT ![w] = found]
      BY <1>3 DEF found
    <3> QED  BY <1>1, <1>3, <3>1 DEF Goto, WorkersTypeOK
  <2> HIDE DEF found
  <2>5. NoneTaken /\ OnlyPoisonDies
    BY <1>1 DEF NoneTaken, Handles, OnlyPoisonDies, redis
  <2>6. NoneGivenUp
    BY <1>1, <2>4, Types DEF NoneGivenUp, RetryInv, DeadAreGivenUp, redis
  <2>7. UNCHANGED deliveries /\ deliveries \in [Messages -> Nat]
    BY <1>1, Types DEF redis
  <2>8. ASSUME NEW v \in Workers, NEW e \in todo'[v]
        PROVE  e.count <= deliveries'[e.msg] /\ \A f \in todo'[v] : e.msg = f.msg => e = f
    <3>1. CASE v = w
      BY <2>1, <2>2, <2>3, <2>4, <2>7, <2>8, <3>1 DEF Entries
    <3>2. CASE v # w
      BY <2>4, <2>7, <2>8, <3>2 DEF RetryInv, ScansBehind
    <3> QED  BY <3>1, <3>2
  <2>9. ASSUME NEW m \in Messages, deliveries'[m] > MaxDeliveries
        PROVE  deliveries'[m] + Cardinality(MayTake(m)')
                  <= MaxDeliveries + Cardinality(Workers)
    <3>1. \A e \in found : e.msg = m => ~(e.count <= MaxDeliveries)
      BY <2>1, <2>7, <2>9, BoundsAssumption
    <3>2. MayTake(m)' \in SUBSET MayTake(m) /\ MayTake(m) \in SUBSET Workers
      BY <2>4, <3>1 DEF MayTake
    <3>3. /\ Cardinality(MayTake(m)) \in Nat /\ Cardinality(MayTake(m)') \in Nat
          /\ Cardinality(Workers) \in Nat /\ Cardinality(MayTake(m)') <= Cardinality(MayTake(m))
      BY <3>2, FewMayTake
    <3>4. deliveries[m] + Cardinality(MayTake(m)) <= MaxDeliveries + Cardinality(Workers)
          /\ deliveries[m] \in Nat
      BY <2>7, <2>9 DEF RetryInv, ScansBehind
    <3> HIDE DEF MayTake
    <3> QED  BY <2>7, <3>3, <3>4, BoundsAssumption
  <2>10. ScansBehind'
    BY <2>8, <2>9 DEF ScansBehind
  <2> QED
    BY <2>5, <2>6, <2>10, HandledKept, DeadKept, PoisonKept DEF RetryInv
<1> QED  BY <1>2, <1>3 DEF ScanPending

-----------------------------------------------------------------------------
\* The steps that hand a message out, or let one go quiet.

\* The scan's count decides, and the message had at least that many deliveries.
LEMMA DeadLetterKeepsRetry ==
    ASSUME DInv, RetryInv, NEW w \in Workers, NEW e \in todo[w], DeadLetter(w, e),
           UNCHANGED stalled
    PROVE  RetryInv'
<1>1. /\ UNCHANGED redis /\ WorkersTypeOK /\ e.msg \in Messages /\ e.count \in Nat
      /\ deliveries[e.msg] \in Nat
      /\ e.count <= deliveries[e.msg] /\ e.count > MaxDeliveries
  BY Types DEF DeadLetter, RetryInv, ScansBehind
<1>2. /\ task'[w] = [msg |-> e.msg, how |-> "dead"] /\ step'[w] = "copy"
      /\ \A v \in Workers : v # w => task'[v] = task[v] /\ step'[v] = step[v]
      /\ \A v \in Workers : todo'[v] \subseteq todo[v]
  BY <1>1 DEF DeadLetter, TakeEntry, Goto, WorkersTypeOK
<1>3. NoneTaken
  BY <1>1, <1>2 DEF NoneTaken, Handles, redis
<1>4. DeadAreGivenUp'
  BY <1>1, <1>2, BoundsAssumption DEF RetryInv, DeadAreGivenUp, redis
<1>5. NoneScanned /\ UNCHANGED <<left, deadStream, deliveries>>
  BY <1>1, <1>2 DEF NoneScanned, redis
<1>6. OnlyPoisonIsDeadLettered'
  BY <1>5 DEF RetryInv, OnlyPoisonIsDeadLettered
<1> QED  BY <1>3, <1>4, <1>5, <1>6, HandledKept, ScansKept DEF RetryInv

\* One more delivery, and one worker less that can take the message.
LEMMA ReclaimKeepsRetry ==
    ASSUME DInv, RetryInv, NEW w \in Workers, NEW e \in todo[w], Reclaim(w, e),
           UNCHANGED stalled
    PROVE  RetryInv'
<1> DEFINE m == e.msg
<1>1. /\ WorkersTypeOK /\ LogTypeOK /\ m \in Messages /\ task[w] = NoTask
      /\ deliveries \in [Messages -> Nat] /\ e.count <= MaxDeliveries
      /\ todo'[w] = todo[w] \ {e} /\ \A v \in Workers : v # w => todo'[v] = todo[v]
      /\ UNCHANGED <<left, deadStream>>
  BY Types, InHand DEF Reclaim, TakeEntry, At, Handling, WorkersTypeOK
<1>2. CASE UNCHANGED <<deliveries, quiet, task, step>>
  <2>1. Carries(w)
    BY <1>1, <1>2 DEF Carries
  <2> QED  BY <1>1, <1>2, <2>1, CarriesKeeps, Unchanged
<1>3. CASE /\ m \in quiet /\ quiet' = quiet \ {m}
           /\ deliveries' = [deliveries EXCEPT ![m] = @ + 1]
           /\ \/ /\ task' = [task EXCEPT ![w] = [msg |-> m, how |-> "reclaim"]]
                 /\ Goto(w, "claim")
              \/ UNCHANGED <<task, step>>
  <2>1. /\ task'[w] = [msg |-> m, how |-> "reclaim"] \/ task'[w] = NoTask
        /\ \A v \in Workers : v # w => task'[v] = task[v] /\ step'[v] = step[v]
    BY <1>1, <1>3 DEF Goto, WorkersTypeOK
  <2>2. /\ deliveries'[m] = deliveries[m] + 1
        /\ \A n \in Messages : /\ n # m => deliveries'[n] = deliveries[n]
                               /\ deliveries[n] \in Nat /\ deliveries'[n] \in Nat
                               /\ deliveries'[n] >= deliveries[n]
    BY <1>1, <1>3
  <2>3. HandledOnce'
    <3> SUFFICES ASSUME NEW n \in Messages \ stalled, NEW v \in Workers, Handles(v, n)'
                 PROVE  n \notin quiet' /\ \A x \in Workers : Handles(x, n)' => x = v
      BY DEF HandledOnce
    <3>1. \A x \in Workers : Handles(x, n)' => Handles(x, n) \/ (x = w /\ n = m)
      BY <2>1 DEF Handles
    <3>2. CASE n = m
      <4>1. \A x \in Workers : ~Handles(x, n)
        BY <1>3, <3>2 DEF RetryInv, HandledOnce
      <4> QED  BY <1>3, <3>1, <3>2, <4>1
    <3>3. CASE n # m
      BY <1>3, <3>1, <3>3 DEF RetryInv, HandledOnce
    <3> QED  BY <3>2, <3>3
  <2>4. NoneGivenUp
    <3>1. ASSUME NEW v \in Workers, task'[v] # NoTask, task'[v].how = "dead"
          PROVE  v # w
      BY <2>1, <3>1
    <3>2. ASSUME NEW v \in Workers, task'[v] # NoTask, task'[v].how = "dead"
          PROVE  task'[v] = task[v] /\ step'[v] \in {"copy", "fail", "ack"}
      BY <2>1, <3>1, <3>2 DEF RetryInv, DeadAreGivenUp
    <3> QED  BY <2>2, <3>2 DEF NoneGivenUp
  <2>5. ASSUME NEW v \in Workers, NEW f \in todo'[v]
        PROVE  f.count <= deliveries'[f.msg] /\ \A g \in todo'[v] : f.msg = g.msg => f = g
    <3>1. f \in todo[v] /\ todo'[v] \subseteq todo[v]
      BY <1>1, <2>5
    <3>2. f.count \in Nat /\ f.msg \in Messages /\ f.count <= deliveries[f.msg]
          /\ \A g \in todo[v] : f.msg = g.msg => f = g
      BY <3>1, Types DEF RetryInv, ScansBehind
    <3> QED  BY <2>2, <3>1, <3>2
  <2>6. ASSUME NEW n \in Messages, deliveries'[n] > MaxDeliveries
        PROVE  deliveries'[n] + Cardinality(MayTake(n)')
                  <= MaxDeliveries + Cardinality(Workers)
    <3>1. MayTake(n)' \in SUBSET MayTake(n) /\ MayTake(n) \in SUBSET Workers
      BY <1>1 DEF MayTake
    <3>2. /\ Cardinality(MayTake(n)) \in Nat /\ Cardinality(MayTake(n)') \in Nat
          /\ Cardinality(Workers) \in Nat
          /\ Cardinality(MayTake(n)') <= Cardinality(MayTake(n))
          /\ Cardinality(MayTake(n)) <= Cardinality(Workers)
      BY <3>1, FewMayTake
    <3>3. deliveries[n] > MaxDeliveries =>
              deliveries[n] + Cardinality(MayTake(n)) <= MaxDeliveries + Cardinality(Workers)
      BY DEF RetryInv, ScansBehind
    <3>4. CASE n # m
      <4> HIDE DEF MayTake
      <4> QED  BY <2>2, <2>6, <3>2, <3>3, <3>4, BoundsAssumption
    <3>5. CASE n = m
      <4>1. w \in MayTake(n)
        BY <1>1, <3>5 DEF MayTake
      <4>2. \A f \in todo'[w] : f.msg # m
        BY <1>1 DEF RetryInv, ScansBehind
      <4>3. MayTake(n)' \in SUBSET (MayTake(n) \ {w})
        BY <3>1, <3>5, <4>2 DEF MayTake
      <4>4. Cardinality(MayTake(n)') <= Cardinality(MayTake(n)) - 1
        <5>1. Cardinality(MayTake(n) \ {w}) = Cardinality(MayTake(n)) - 1
          BY <3>1, <4>1, OneFewer
        <5>2. MayTake(n) \ {w} \in SUBSET Workers
          BY <3>1
        <5> QED  BY <4>3, <5>1, <5>2, FewMayTake
      <4> HIDE DEF MayTake
      <4> QED  BY <2>2, <2>6, <3>2, <3>3, <3>5, <4>4, BoundsAssumption
    <3> QED  BY <3>4, <3>5
  <2>7. ScansBehind'
    BY <2>5, <2>6 DEF ScansBehind
  <2>8. OnlyPoisonDies
    BY <1>1, Unchanged
  <2> QED  BY <2>3, <2>4, <2>7, <2>8, DeadKept, PoisonKept DEF RetryInv
<1> QED  BY <1>2, <1>3 DEF Reclaim

\* Nobody knows of a message before it is read.
LEMMA ReadKeepsRetry ==
    ASSUME DInv, RetryInv, NEW w \in Workers, ReadMessage(w), UNCHANGED stalled
    PROVE  RetryInv'
<1> DEFINE m == stream[cursor + 1]
<1>1. /\ WorkersTypeOK /\ LogTypeOK /\ StreamOnce /\ DeliveredOnce /\ task[w] = NoTask
      /\ deliveries \in [Messages -> Nat]
  BY TypeParts, InHand, Types DEF ReadMessage, At, Handling
<1>2. /\ cursor + 1 \in 1 .. Len(stream) /\ cursor \in Nat /\ m \in Messages
      /\ deliveries' = [deliveries EXCEPT ![m] = 1]
      /\ UNCHANGED <<quiet, left, deadStream, todo>>
  BY <1>1 DEF LogTypeOK, ReadMessage
<1>3. ~Delivered(m) /\ m \notin quiet
  <2>1. \A i \in 1 .. cursor : i \in 1 .. Len(stream) /\ i # cursor + 1
    BY <1>2
  <2>2. ~Delivered(m)
    BY <1>1, <1>2, <2>1 DEF DeliveredOnce, StreamOnce
  <2> QED  BY <1>1, <1>2, <2>2 DEF DeliveredOnce, LogTypeOK
<1>4. deliveries[m] = 0
  BY <1>1, <1>2, <1>3 DEF Delivered
<1>5. /\ deliveries'[m] = 1
      /\ \A n \in Messages : /\ n # m => deliveries'[n] = deliveries[n]
                             /\ deliveries[n] \in Nat /\ deliveries'[n] \in Nat
                             /\ deliveries'[n] >= deliveries[n]
  BY <1>1, <1>2, <1>4
<1>6. \A v \in Workers : /\ ~Handles(v, m) /\ \A e \in todo[v] : e.msg # m
  BY <1>3, InHand DEF Handles
<1>7. /\ task'[w] = NoTask \/ task'[w] = [msg |-> m, how |-> "read"]
      /\ \A v \in Workers : v # w => task'[v] = task[v] /\ step'[v] = step[v]
  BY <1>1 DEF ReadMessage, Goto, WorkersTypeOK
<1>8. HandledOnce'
  <2> SUFFICES ASSUME NEW n \in Messages \ stalled, NEW v \in Workers, Handles(v, n)'
               PROVE  n \notin quiet' /\ \A x \in Workers : Handles(x, n)' => x = v
    BY DEF HandledOnce
  <2>1. \A x \in Workers : Handles(x, n)' => Handles(x, n) \/ (x = w /\ n = m)
    BY <1>7 DEF Handles
  <2>2. CASE n = m
    BY <1>2, <1>3, <1>6, <2>1, <2>2
  <2>3. CASE n # m
    BY <1>2, <2>1, <2>3 DEF RetryInv, HandledOnce
  <2> QED  BY <2>2, <2>3
<1>9. NoneGivenUp
  <2>1. ASSUME NEW v \in Workers, task'[v] # NoTask, task'[v].how = "dead"
        PROVE  v # w
    BY <1>7, <2>1
  <2>2. ASSUME NEW v \in Workers, task'[v] # NoTask, task'[v].how = "dead"
        PROVE  task'[v] = task[v] /\ step'[v] \in {"copy", "fail", "ack"}
    BY <1>7, <2>1, <2>2 DEF RetryInv, DeadAreGivenUp
  <2> QED  BY <1>5, <2>2 DEF NoneGivenUp
<1>10. ScansBehind'
  <2>1. ASSUME NEW v \in Workers, NEW e \in todo'[v]
        PROVE  e.count <= deliveries'[e.msg] /\ \A f \in todo'[v] : e.msg = f.msg => e = f
    <3>1. e \in todo[v] /\ e.msg \in Messages /\ e.msg # m
      BY <1>2, <1>6, <2>1, Types
    <3> QED  BY <1>2, <1>5, <3>1 DEF RetryInv, ScansBehind
  <2>2. ASSUME NEW n \in Messages, deliveries'[n] > MaxDeliveries
        PROVE  deliveries'[n] + Cardinality(MayTake(n)')
                  <= MaxDeliveries + Cardinality(Workers)
    <3>1. MayTake(n)' = MayTake(n) /\ MayTake(n) \in SUBSET Workers
      BY <1>2 DEF MayTake
    <3>2. CASE n # m
      BY <1>5, <2>2, <3>1, <3>2 DEF RetryInv, ScansBehind
    <3>3. CASE n = m
      <4>1. MayTake(n) = {} /\ {w} \in SUBSET Workers
        BY <1>6, <3>3 DEF MayTake
      <4>2. Cardinality(MayTake(n)') = 0 /\ Cardinality({w}) = 1
        BY <3>1, <4>1, FS_EmptySet, FS_Singleton
      <4>3. Cardinality(Workers) \in Nat /\ 1 <= Cardinality(Workers)
        BY <4>1, <4>2, FewMayTake
      <4> QED  BY <1>5, <3>3, <4>2, <4>3, BoundsAssumption
    <3> QED  BY <3>2, <3>3
  <2> QED  BY <2>1, <2>2 DEF ScansBehind
<1>11. OnlyPoisonDies
  BY <1>2, Unchanged
<1> QED  BY <1>8, <1>9, <1>10, <1>11, DeadKept, PoisonKept DEF RetryInv

\* A message goes quiet in no live worker's hands, or else its worker has stalled.
LEMMA QuietKeepsRetry ==
    ASSUME DInv, RetryInv, NEW m \in Messages,
           (GoQuiet(m) /\ UNCHANGED stalled) \/ Stall(m)
    PROVE  RetryInv'
<1>1. UNCHANGED <<deliveries, left, deadStream, workers>> /\ quiet' = quiet \cup {m}
  BY DEF GoQuiet, Stall
<1>2. NoneGivenUp /\ NoneScanned /\ OnlyPoisonDies
  BY <1>1, Types DEF NoneGivenUp, NoneScanned, OnlyPoisonDies, RetryInv, DeadAreGivenUp, workers
<1>3. stalled \subseteq stalled' /\ \A v \in Workers : m \notin stalled' => ~Handles(v, m)
  <2>1. CASE Stall(m)
    BY <2>1 DEF Stall
  <2>2. CASE GoQuiet(m) /\ UNCHANGED stalled
    <3>1. ASSUME NEW v \in Workers, Handles(v, m) PROVE step[v] \in Handling
      BY <3>1, InHand DEF Handles
    <3> QED  BY <2>2, <3>1 DEF GoQuiet, HandledAt, Handles
  <2> QED  BY <2>1, <2>2
<1>4. HandledOnce'
  <2>1. \A v \in Workers : \A n \in Messages : Handles(v, n)' <=> Handles(v, n)
    BY <1>1 DEF Handles, workers
  <2> QED  BY <1>1, <1>3, <2>1 DEF RetryInv, HandledOnce
<1> QED  BY <1>2, <1>4, DeadKept, ScansKept, PoisonKept DEF RetryInv

-----------------------------------------------------------------------------
LEMMA RetryInit == Init => RetryInv
<1> SUFFICES ASSUME Init PROVE RetryInv
  OBVIOUS
<1>1. \A w \in Workers : task[w] = NoTask /\ todo[w] = {}
  BY DEF Init
<1>2. HandledOnce /\ DeadAreGivenUp
  BY <1>1 DEF HandledOnce, Handles, DeadAreGivenUp
<1>3. ScansBehind
  BY <1>1, BoundsAssumption DEF Init, ScansBehind
<1>4. OnlyPoisonIsDeadLettered
  BY DEF Init, OnlyPoisonIsDeadLettered
<1> QED  BY <1>2, <1>3, <1>4 DEF RetryInv

LEMMA RetryNext ==
    ASSUME DInv, RetryInv, [Next]_vars
    PROVE  RetryInv'
<1>1. CASE UNCHANGED vars
  BY <1>1, NobodyMoves DEF vars, redis
<1>2. ASSUME NEW r \in Runs, CreateTestRun(r) \/ CancelTestRun(r), UNCHANGED stalled
      PROVE  RetryInv'
  BY <1>2, NobodyMoves DEF CreateTestRun, CancelTestRun, redis
<1>3. ASSUME NEW m \in Messages, PublishShard(m), UNCHANGED stalled PROVE RetryInv'
  BY <1>3, NobodyMoves DEF PublishShard
<1>4. ASSUME NEW m \in Messages, (GoQuiet(m) /\ UNCHANGED stalled) \/ Stall(m) PROVE RetryInv'
  BY <1>4, QuietKeepsRetry
<1>5. ASSUME NEW w \in Workers, Heartbeat(w), UNCHANGED stalled PROVE RetryInv'
  BY <1>5, NobodyMoves DEF Heartbeat
<1>6. ASSUME NEW w \in Workers, Work(w) \/ LoadEnds(w) \/ Crash(w), UNCHANGED stalled
      PROVE  RetryInv'
  <2>1. ASSUME NEW e \in todo[w], DeadLetter(w, e) \/ Reclaim(w, e) PROVE RetryInv'
    BY <1>6, <2>1, DeadLetterKeepsRetry, ReclaimKeepsRetry
  <2>2. CASE \/ Boot(w) \/ ReclaimDone(w) \/ ReadNothing(w)
             \/ LoadEnds(w) \/ WatchCancel(w) \/ Crash(w)
    BY <1>6, <2>2, OwnStepsKeepRetry
  <2>3. CASE ClaimShard(w) \/ MarkRunRunning(w) \/ ReportShard(w) \/ FailShard(w)
    BY <1>6, <2>3, CallsKeepRetry
  <2>4. CASE CopyToDeadStream(w) \/ Ack(w)
    BY <1>6, <2>4, AckKeepsRetry
  <2>5. CASE ScanPending(w) \/ ReadMessage(w)
    BY <1>6, <2>5, ScanKeepsRetry, ReadKeepsRetry
  <2> QED  BY <1>6, <2>1, <2>2, <2>3, <2>4, <2>5 DEF Work
<1> QED  BY <1>1, <1>2, <1>3, <1>4, <1>5, <1>6 DEF Next, Calm

\* What workers know of each other's deliveries through Redis (reclaimStuck, deadLetter
\* and heartbeat in worker/cmd/worker/main.go).
THEOREM RetryInvariant == Spec => []RetryInv
<1>1. Init => DInv /\ RetryInv
  BY DInvInit, RetryInit
<1>2. DInv /\ RetryInv /\ [Next]_vars => DInv' /\ RetryInv'
  BY DInvNext, RetryNext
<1> QED  BY <1>1, <1>2, PTL DEF Spec

\* Retries are bounded although every scan decides by a snapshot (reclaimStuck,
\* main.go:190-231).
THEOREM RetriesAreBounded == Spec => []DeliveriesBounded
<1>1. ASSUME DInv, RetryInv PROVE DeliveriesBounded
  <2> SUFFICES ASSUME NEW m \in Messages
               PROVE  deliveries[m] <= MaxDeliveries + Cardinality(Workers)
    BY DEF DeliveriesBounded
  <2>1. MayTake(m) \in SUBSET Workers
    BY DEF MayTake
  <2>2. Cardinality(MayTake(m)) \in Nat /\ Cardinality(Workers) \in Nat
    BY <2>1, FewMayTake
  <2>3. deliveries[m] \in Nat
    BY <1>1, Types
  <2>4. deliveries[m] > MaxDeliveries =>
            deliveries[m] + Cardinality(MayTake(m)) <= MaxDeliveries + Cardinality(Workers)
    BY <1>1 DEF RetryInv, ScansBehind
  <2> HIDE DEF MayTake
  <2> QED  BY <2>2, <2>3, <2>4, BoundsAssumption
<1> QED  BY <1>1, DeliveryInvariant, RetryInvariant, PTL

\* No two workers run the load of one message at a time unless one of them stalled
\* (XCLAIM with MinIdle and the heartbeat, main.go:126-153 and 210-220).
THEOREM LoadsRunAlone == Spec => []RunsAlone
<1>1. ASSUME DInv, RetryInv PROVE RunsAlone
  <2> SUFFICES ASSUME NEW v \in Workers, NEW w \in Workers, v # w, At(v, "run"), At(w, "run"),
                      MessageOf(v) = MessageOf(w), MessageOf(w) \notin stalled
               PROVE  FALSE
    BY DEF RunsAlone
  <2>1. \A x \in {v, w} : /\ task[x] # NoTask /\ task[x].msg \in Messages
                           /\ task[x].msg = MessageOf(w)
    BY <1>1, InHand DEF At, Handling
  <2>2. \A x \in {v, w} : task[x].how # "dead"
    BY <1>1, <2>1 DEF RetryInv, DeadAreGivenUp, At
  <2>3. Handles(v, MessageOf(w)) /\ Handles(w, MessageOf(w)) /\ MessageOf(w) \in Messages
    BY <2>1, <2>2 DEF Handles
  <2> QED  BY <1>1, <2>3 DEF RetryInv, HandledOnce
<1> QED  BY <1>1, DeliveryInvariant, RetryInvariant, PTL

\* What moves the group along the stream.
LEMMA LogSteps ==
    ASSUME DInv, group, Next
    PROVE  \/ /\ UNCHANGED <<stream, cursor>>
              /\ \A m \in Messages : deliveries'[m] = 0 => deliveries[m] = 0
           \/ \E m \in Messages : PublishShard(m)
           \/ \E w \in Workers : ReadMessage(w)
<1>1. ASSUME NEW r \in Runs, CreateTestRun(r) \/ CancelTestRun(r)
      PROVE  UNCHANGED <<stream, cursor, deliveries>>
  BY <1>1 DEF CreateTestRun, CancelTestRun, redis
<1>2. ASSUME NEW m \in Messages, GoQuiet(m) \/ Stall(m)
      PROVE  UNCHANGED <<stream, cursor, deliveries>>
  BY <1>2 DEF GoQuiet, Stall
<1>3. ASSUME NEW w \in Workers, LoadEnds(w) \/ Heartbeat(w) \/ Crash(w)
      PROVE  UNCHANGED <<stream, cursor, deliveries>>
  BY <1>3 DEF LoadEnds, Heartbeat, Crash, redis
<1>4. ASSUME NEW w \in Workers, NEW e \in todo[w], DeadLetter(w, e) \/ Reclaim(w, e)
      PROVE  /\ UNCHANGED <<stream, cursor>>
             /\ \A m \in Messages : deliveries'[m] = 0 => deliveries[m] = 0
  <2>1. deliveries \in [Messages -> Nat] /\ e.msg \in Messages
    BY Types
  <2>2. CASE DeadLetter(w, e)
    BY <2>2 DEF DeadLetter, redis
  <2>3. CASE Reclaim(w, e)
    <3>1. UNCHANGED deliveries \/ deliveries' = [deliveries EXCEPT ![e.msg] = @ + 1]
      BY <2>3 DEF Reclaim
    <3> QED  BY <2>1, <2>3, <3>1 DEF Reclaim
  <2> QED  BY <1>4, <2>2, <2>3
<1>5. ASSUME NEW w \in Workers,
             \/ Boot(w) \/ ScanPending(w) \/ ReclaimDone(w) \/ ReadNothing(w)
             \/ ClaimShard(w) \/ MarkRunRunning(w) \/ WatchCancel(w) \/ ReportShard(w)
             \/ CopyToDeadStream(w) \/ FailShard(w) \/ Ack(w)
      PROVE  UNCHANGED <<stream, cursor, deliveries>>
  BY <1>5 DEF Boot, ScanPending, ReclaimDone, ReadNothing, ClaimShard, MarkRunRunning,
              WatchCancel, ReportShard, CopyToDeadStream, FailShard, Ack, redis
<1> QED  BY <1>1, <1>2, <1>3, <1>4, <1>5 DEF Next, Calm, Work

\* A worker that starts later, or again, leaves the group where it is
\* (XGroupCreateMkStream, main.go:74-80).
THEOREM RestartsSkipNothing == Spec => GroupSkipsNothing
<1> DEFINE SkipsNone == \A m \in Messages : (group /\ Skipped(m)') => Skipped(m)
<1>1. ASSUME DInv, [Next]_vars PROVE [SkipsNone]_vars
  <2> SUFFICES ASSUME NEW m \in Messages, group, Skipped(m)', ~Skipped(m), Next
               PROVE  FALSE
    BY <1>1
  <2>1. LogTypeOK /\ StreamOnce /\ deliveries \in [Messages -> Nat] /\ Len(stream) \in Nat
    BY <1>1, Types, TypeParts DEF LogTypeOK
  <2>2. deliveries'[m] = 0
    BY DEF Skipped
  <2>3. CASE /\ UNCHANGED <<stream, cursor>>
             /\ \A n \in Messages : deliveries'[n] = 0 => deliveries[n] = 0
    BY <2>2, <2>3 DEF Skipped, Published, Undelivered
  <2>4. ASSUME NEW n \in Messages, PublishShard(n) PROVE FALSE
    <3>1. /\ stream' = Append(stream, n) /\ UNCHANGED <<cursor, deliveries>>
          /\ Len(stream') = Len(stream) + 1 /\ stream'[Len(stream) + 1] = n
          /\ \A i \in 1 .. Len(stream) : stream'[i] = stream[i]
      BY <2>1, <2>4 DEF PublishShard, LogTypeOK
    <3>2. PICK i \in 1 .. Len(stream') : stream'[i] = m
      BY DEF Skipped, Published
    <3>3. ~(i \in cursor' + 1 .. Len(stream'))
      BY <3>2 DEF Skipped, Undelivered
    <3>4. i \in 1 .. cursor /\ cursor \in 0 .. Len(stream)
      BY <2>1, <3>1, <3>2, <3>3 DEF LogTypeOK
    <3>5. m \in Published
      BY <2>1, <3>1, <3>2, <3>4 DEF Published
    <3>6. PICK j \in cursor + 1 .. Len(stream) : stream[j] = m
      BY <2>2, <3>1, <3>5 DEF Skipped, Undelivered
    <3>7. j \in cursor' + 1 .. Len(stream') /\ stream'[j] = m
      BY <2>1, <3>1, <3>4, <3>6
    <3> QED  BY <3>7 DEF Skipped, Undelivered
  <2>5. ASSUME NEW w \in Workers, ReadMessage(w) PROVE FALSE
    <3> DEFINE n == stream[cursor + 1]
    <3>1. /\ cursor' = cursor + 1 /\ UNCHANGED stream /\ cursor \in Nat
          /\ n \in Messages /\ deliveries' = [deliveries EXCEPT ![n] = 1]
          /\ cursor + 1 \in 1 .. Len(stream)
      BY <2>1, <2>5 DEF ReadMessage, LogTypeOK
    <3>2. m # n /\ deliveries[m] = 0
      BY <2>1, <2>2, <3>1
    <3>3. m \in Published
      BY <3>1 DEF Skipped, Published
    <3>4. PICK j \in cursor + 1 .. Len(stream) : stream[j] = m
      BY <3>2, <3>3 DEF Skipped, Undelivered
    <3>5. j \in cursor' + 1 .. Len(stream')
      BY <3>1, <3>2, <3>4
    <3> QED  BY <3>1, <3>4, <3>5 DEF Skipped, Undelivered
  <2> QED  BY <1>1, <2>3, <2>4, <2>5, LogSteps
<1>2. DInv /\ [Next]_vars => [SkipsNone]_vars
  BY <1>1
<1>3. Spec => [][SkipsNone]_vars
  <2> HIDE DEF SkipsNone
  <2> QED  BY <1>2, DeliveryInvariant, PTL DEF Spec
<1> QED  BY <1>3 DEF GroupSkipsNothing

\* All that the proofs of the delivery path rest on holds in every state, for any
\* number of messages, workers and faults (main.go, handleMessage and reclaimStuck).
THEOREM DeliveryKeepsInv == Spec => []DeliveryInv
<1>1. DInv /\ RetryInv /\ ContractInv => DeliveryInv
  BY DEF DeliveryInv
<1> QED  BY <1>1, DeliveryInvariant, RetryInvariant, DeliveryKeepsContract, PTL
=============================================================================
