----------------------------- MODULE ShardStore -----------------------------
(***************************************************************************)
(* The shard half of internal/store/test_run_store.go: several HTTP        *)
(* requests at once, each running the SQL statements of its store method   *)
(* over its own connection under READ COMMITTED.                           *)
(*                                                                         *)
(* One action is one SQL statement.  A statement sees the committed rows   *)
(* and its own transaction's writes.  An UPDATE whose WHERE clause fails   *)
(* on the committed row misses at once; one whose row is locked by another *)
(* transaction waits, which here is an action that is not enabled.  A      *)
(* transaction that ends early for any reason (the client gives up and     *)
(* cancels the request's context, an error, a crash of the server) is      *)
(* Abort.                                                                  *)
(*                                                                         *)
(* An operator introduced as a variant is not part of the specification:   *)
(* it is the code with a plausible mistake, which a property must reject.  *)
(***************************************************************************)
EXTENDS RunTables

CONSTANTS
    Sessions,   \* requests in flight, each with its own connection
    NoSession,  \* the holder of a free row lock
    NoCall,     \* the request of an idle session
    NoUpdate    \* a transaction that has written no run row

ASSUME NoSessionAssumption == NoSession \notin Sessions

VARIABLES
    pc,         \* the statement each session runs next
    call,       \* the request each session serves
    update,     \* the run row its transaction has written, uncommitted
    shardLock,  \* the transaction that has updated a shard row, uncommitted
    runLock,    \* the transaction that holds a run row FOR UPDATE
    assigned    \* shards whose claim was answered with an assignment: only
                \* for these does a worker report a result

sessions == <<pc, call, update, shardLock, runLock, assigned>>
vars == <<tables, sessions>>

Ops == {"start", "takeover", "complete", "fail"}
Calls == [op : Ops, shard : Shards, status : ShardFinal \cup {"running"},
          result : Results]
Updates == [status : RunFinal, result : [Shards -> Results]]
Steps == {"claim", "mark", "finish", "lock", "count", "aggregate", "commit"}

ASSUME NoUpdateAssumption == NoUpdate \notin Updates

TypeOK ==
    /\ TablesTypeOK
    /\ pc \in [Sessions -> {"idle"} \cup Steps]
    /\ \A c \in Sessions : pc[c] # "idle" => call[c] \in Calls
    /\ DOMAIN call = Sessions
    /\ update \in [Sessions -> Updates \cup {NoUpdate}]
    /\ shardLock \in [Shards -> Sessions \cup {NoSession}]
    /\ runLock \in [Runs -> Sessions \cup {NoSession}]
    /\ assigned \subseteq Shards

Init ==
    /\ TablesInit
    /\ pc = [c \in Sessions |-> "idle"]
    /\ call = [c \in Sessions |-> NoCall]
    /\ update = [c \in Sessions |-> NoUpdate]
    /\ shardLock = [s \in Shards |-> NoSession]
    /\ runLock = [r \in Runs |-> NoSession]
    /\ assigned = {}

ShardAt(c) == call[c].shard
RunAt(c) == RunOf[call[c].shard]

At(c, step) == pc[c] = step
Goto(c, step) == pc' = [pc EXCEPT ![c] = step]

\* The session answers its client and gives its connection back.
Return(c) ==
    /\ Goto(c, "idle")
    /\ call' = [call EXCEPT ![c] = NoCall]
    /\ update' = [update EXCEPT ![c] = NoUpdate]

\* Variant: a repeated completion or takeover of a finished shard is accepted.
AcceptsFinished(op) ==
    IF op = "start" THEN {"queued"} ELSE {"queued", "running", "completed", "failed"}

\* Variant: a takeover wants a running shard, as its name says.
AcceptsTaken(op) ==
    CASE op = "start"    -> {"queued"}
      [] op = "takeover" -> {"running"}
      [] op = "complete" -> {"running"}
      [] op = "fail"     -> {"queued", "running"}

\* The WHERE clauses on the shard's status.
Accepts(op) ==
    CASE op = "start"    -> {"queued"}
      [] op = "takeover" -> {"queued", "running"}
      [] op = "complete" -> {"running"}
      [] op = "fail"     -> {"queued", "running"}

\* The shard rows as session c's statements see them.
SeenStatus(c) ==
    [s \in Shards |-> IF shardLock[s] = c THEN call[c].status ELSE shardStatus[s]]
SeenResult(c) ==
    [s \in Shards |-> IF shardLock[s] = c THEN call[c].result ELSE shardResult[s]]

-----------------------------------------------------------------------------
\* The user's requests; each is one statement or one transaction whose rows
\* nobody else sees before it commits.

CreateWithShards(r) ==
    /\ InsertRun(r)
    /\ UNCHANGED sessions

\* Waits for a transaction that holds the run row; a run in any other status is
\* returned as it is.
CancelRun(r) ==
    /\ runStatus[r] \in {"queued", "running"}
    /\ runLock[r] = NoSession
    /\ runStatus' = [runStatus EXCEPT ![r] = "cancelling"]
    /\ UNCHANGED <<runResult, shardStatus, shardResult, sessions>>

-----------------------------------------------------------------------------
\* The workers' requests arrive.  Any shard may be claimed or dead-lettered at
\* any time: deliveries are repeated and late.

Receive(c, op, s, status, result, step) ==
    /\ At(c, "idle")
    /\ shardStatus[s] # "absent"
    /\ Goto(c, step)
    /\ call' = [call EXCEPT ![c] = [op |-> op, shard |-> s,
                                    status |-> status, result |-> result]]
    /\ UNCHANGED <<tables, update, shardLock, runLock, assigned>>

StartShard(c, s) == Receive(c, "start", s, "running", NoResult, "claim")
TakeOverShard(c, s) == Receive(c, "takeover", s, "running", NoResult, "claim")

CompleteShard(c, s) ==
    /\ s \in assigned
    /\ \E status \in ShardFinal, report \in Reports :
           Receive(c, "complete", s, status, report, "finish")

FailShard(c, s) == Receive(c, "fail", s, "failed", DeadLettered, "finish")

-----------------------------------------------------------------------------
\* startShard: two statements, each committed by itself.

ClaimShard(c) ==
    LET s == ShardAt(c) IN
    /\ At(c, "claim")
    /\ \/ /\ shardStatus[s] \in Accepts(call[c].op)
          /\ shardLock[s] = NoSession
          /\ shardStatus' = [shardStatus EXCEPT ![s] = "running"]
          /\ Goto(c, "mark")
          /\ UNCHANGED <<call, update>>
       \/ /\ shardStatus[s] \notin Accepts(call[c].op)      \* shardMiss
          /\ Return(c)
          /\ UNCHANGED shardStatus
    /\ UNCHANGED <<runStatus, runResult, shardResult, shardLock, runLock, assigned>>

\* Variant: the second statement has no guard on the run's status.
MarkRunUnguarded(c) ==
    LET r == RunAt(c) IN
    /\ At(c, "mark")
    /\ runLock[r] = NoSession
    /\ runStatus' = [runStatus EXCEPT ![r] = IF @ \in RunFinal THEN @ ELSE "running"]
    /\ assigned' = assigned \cup {ShardAt(c)}
    /\ Return(c)
    /\ UNCHANGED <<runResult, shardStatus, shardResult, shardLock, runLock>>

MarkRunRunning(c) ==
    LET r == RunAt(c) IN
    /\ At(c, "mark")
    /\ \/ /\ runStatus[r] = "queued"
          /\ runLock[r] = NoSession
          /\ runStatus' = [runStatus EXCEPT ![r] = "running"]
       \/ /\ runStatus[r] # "queued"
          /\ UNCHANGED runStatus
    /\ assigned' = assigned \cup {ShardAt(c)}
    /\ Return(c)
    /\ UNCHANGED <<runResult, shardStatus, shardResult, shardLock, runLock>>

-----------------------------------------------------------------------------
\* finishShard: one transaction.

FinishShardRow(c) ==
    LET s == ShardAt(c) IN
    /\ At(c, "finish")
    /\ \/ /\ shardStatus[s] \in Accepts(call[c].op)
          /\ shardLock[s] = NoSession
          /\ shardLock' = [shardLock EXCEPT ![s] = c]
          /\ Goto(c, "lock")
          /\ UNCHANGED <<call, update>>
       \/ /\ shardStatus[s] \notin Accepts(call[c].op)      \* shardMiss
          /\ Return(c)
          /\ UNCHANGED shardLock
    /\ UNCHANGED <<tables, runLock, assigned>>

\* Variant: the barrier is not serialized; the transaction counts at once.
LockRunUnserialized(c) ==
    /\ At(c, "lock")
    /\ Goto(c, "count")
    /\ UNCHANGED <<tables, call, update, shardLock, runLock, assigned>>

LockRun(c) ==
    /\ At(c, "lock")
    /\ runLock[RunAt(c)] = NoSession
    /\ runLock' = [runLock EXCEPT ![RunAt(c)] = c]
    /\ Goto(c, "count")
    /\ UNCHANGED <<tables, call, update, shardLock, assigned>>

\* Variant: only running shards are counted, queued ones forgotten.
CountRunning(c) ==
    /\ At(c, "count")
    /\ IF \E s \in ShardsOf(RunAt(c)) : SeenStatus(c)[s] = "running"
         THEN Goto(c, "commit")
         ELSE Goto(c, "aggregate")
    /\ UNCHANGED <<tables, call, update, shardLock, runLock, assigned>>

\* remaining == 0?
CountRemaining(c) ==
    /\ At(c, "count")
    /\ IF \E s \in ShardsOf(RunAt(c)) : SeenStatus(c)[s] \in ShardOpen
         THEN Goto(c, "commit")
         ELSE Goto(c, "aggregate")
    /\ UNCHANGED <<tables, call, update, shardLock, runLock, assigned>>

\* Variant: the UPDATE still has the guard of before cancellation existed.
AggregateRunningOnly(c) ==
    LET r == RunAt(c) IN
    /\ At(c, "aggregate")
    /\ IF runStatus[r] = "running"
         THEN update' = [update EXCEPT ![c] =
                           [status |-> Verdict(r, SeenStatus(c)),
                            result |-> Merge(r, SeenResult(c))]]
         ELSE UNCHANGED update
    /\ Goto(c, "commit")
    /\ UNCHANGED <<tables, call, shardLock, runLock, assigned>>

\* The sums, the percentiles, the run's status and the guarded UPDATE of
\* aggregateRun.  The run row is locked and every shard is terminal, so its
\* four statements read the same rows.  The UPDATE of a run that is still
\* queued matches no row, and nothing notices.
AggregateRun(c) ==
    LET r == RunAt(c) IN
    /\ At(c, "aggregate")
    /\ IF runStatus[r] \in {"running", "cancelling"}
         THEN update' = [update EXCEPT ![c] =
                           [status |-> Verdict(r, SeenStatus(c)),
                            result |-> Merge(r, SeenResult(c))]]
         ELSE UNCHANGED update
    /\ Goto(c, "commit")
    /\ UNCHANGED <<tables, call, shardLock, runLock, assigned>>

\* Variant: the run's lock outlives its transaction (a session-level lock).
UnlockShardOnly(c) ==
    /\ shardLock' = [s \in Shards |->
                       IF shardLock[s] = c THEN NoSession ELSE shardLock[s]]
    /\ UNCHANGED runLock

Unlock(c) ==
    /\ shardLock' = [s \in Shards |->
                       IF shardLock[s] = c THEN NoSession ELSE shardLock[s]]
    /\ runLock' = [r \in Runs |->
                     IF runLock[r] = c THEN NoSession ELSE runLock[r]]

Commit(c) ==
    LET s == ShardAt(c)  r == RunAt(c) IN
    /\ At(c, "commit")
    /\ shardStatus' = [shardStatus EXCEPT ![s] = call[c].status]
    /\ shardResult' = [shardResult EXCEPT ![s] = call[c].result]
    /\ IF update[c] = NoUpdate
         THEN UNCHANGED <<runStatus, runResult>>
         ELSE /\ runStatus' = [runStatus EXCEPT ![r] = update[c].status]
              /\ runResult' = [runResult EXCEPT ![r] = update[c].result]
    /\ Unlock(c)
    /\ Return(c)
    /\ UNCHANGED assigned

\* Any statement may fail: finishShard rolls back, startShard keeps what its
\* first statement committed.
Abort(c) ==
    /\ ~At(c, "idle")
    /\ Unlock(c)
    /\ Return(c)
    /\ UNCHANGED <<tables, assigned>>

-----------------------------------------------------------------------------
Statement(c) ==
    \/ ClaimShard(c) \/ MarkRunRunning(c)
    \/ FinishShardRow(c) \/ LockRun(c) \/ CountRemaining(c)
    \/ AggregateRun(c) \/ Commit(c)

Request(c) ==
    \E s \in Shards :
        \/ StartShard(c, s) \/ TakeOverShard(c, s)
        \/ CompleteShard(c, s) \/ FailShard(c, s)

Next ==
    \/ \E r \in Runs : CreateWithShards(r) \/ CancelRun(r)
    \/ \E c \in Sessions : Request(c) \/ Statement(c) \/ Abort(c)

Spec == Init /\ [][Next]_vars

-----------------------------------------------------------------------------
\* Every call comes back, whoever else is at work on the same run: no cycle of
\* row locks, none left behind by a transaction that ended.  Checked with the
\* connection pool and its fairness, in PooledStore.
CallsReturn == \A c \in Sessions : pc[c] # "idle" ~> pc[c] = "idle"

\* A worker that holds an assignment finds its run started, so its report is
\* never the aggregate that matches no row (startShard's second statement).
AssignedRunIsStarted ==
    \A s \in assigned : runStatus[RunOf[s]] \notin {"absent", "queued"}

\* The rest of this section is the inductive invariant of ShardStoreProofs.

InTransaction == {"lock", "count", "aggregate", "commit"}
HoldsRun == {"count", "aggregate", "commit"}

\* What a session asked for is what its statements write.
CallsWellFormed ==
    \A c \in Sessions : pc[c] # "idle" =>
        /\ shardStatus[ShardAt(c)] # "absent"
        /\ pc[c] \in {"claim", "mark"} => call[c].op \in {"start", "takeover"}
        /\ pc[c] \in {"finish"} \cup InTransaction =>
              \/ /\ call[c].op = "complete"
                 /\ call[c].status \in ShardFinal
                 /\ call[c].result \in Reports
                 /\ ShardAt(c) \in assigned
              \/ /\ call[c].op = "fail"
                 /\ call[c].status = "failed"
                 /\ call[c].result = DeadLettered
        /\ pc[c] = "mark" => shardStatus[ShardAt(c)] # "queued"

\* A row is locked exactly by the transaction that is past its statement.
LocksMatchSteps ==
    \A c \in Sessions :
        /\ \A s \in Shards : shardLock[s] = c
              <=> (pc[c] \in InTransaction /\ ShardAt(c) = s)
        /\ \A r \in Runs : runLock[r] = c
              <=> (pc[c] \in HoldsRun /\ RunAt(c) = r)

\* Until a transaction ends, its shard stays as its WHERE clause found it, and
\* what it read of the run and of the other shards stays true.
ReadsTrue(c) ==
    /\ pc[c] \in InTransaction =>
           shardStatus[ShardAt(c)] \in Accepts(call[c].op)
    /\ pc[c] = "aggregate" \/ update[c] # NoUpdate =>
           \A t \in ShardsOf(RunAt(c)) :
               t # ShardAt(c) => shardStatus[t] \in ShardFinal
    /\ pc[c] = "commit" /\ update[c] = NoUpdate =>
           \/ runStatus[RunAt(c)] = "queued"
           \/ \E t \in ShardsOf(RunAt(c)) :
                  t # ShardAt(c) /\ shardStatus[t] \in ShardOpen
    /\ update[c] # NoUpdate =>
           /\ pc[c] = "commit"
           /\ runStatus[RunAt(c)] \in {"running", "cancelling"}
           /\ update[c] = [status |-> Verdict(RunAt(c), SeenStatus(c)),
                           result |-> Merge(RunAt(c), SeenResult(c))]

ReadsStayTrue == \A c \in Sessions : ReadsTrue(c)

\* A shard exists with its run, and is reported only once it was assigned.
RowsAgree ==
    \A s \in Shards :
        /\ shardStatus[s] = "absent" <=> runStatus[RunOf[s]] = "absent"
        /\ shardResult[s] \in Reports => s \in assigned
        /\ s \in assigned => shardStatus[s] # "queued"

IInv ==
    /\ TypeOK
    /\ CallsWellFormed
    /\ LocksMatchSteps
    /\ ReadsStayTrue
    /\ RowsAgree
    /\ AssignedRunIsStarted
    /\ BarrierCloses
    /\ RunReflectsShards

-----------------------------------------------------------------------------
\* The statements of concurrent requests add up to the one-step operations of
\* RunLifecycle.
Lifecycle == INSTANCE RunLifecycle WITH
    runStatus <- runStatus, runResult <- runResult,
    shardStatus <- shardStatus, shardResult <- shardResult
ImplementsLifecycle == Lifecycle!Spec

\* "If it was the run's last shard, the run is aggregated and marked terminal"
\* (FailShard's comment, test_run_store.go:612-613), read of both callers of
\* finishShard.
LastShardEndsRun ==
    [][\A r \in Runs : (~AllFinished(r) /\ AllFinished(r)')
          => runStatus'[r] \in RunFinal]_vars
=============================================================================
