---------------------------- MODULE RunLifecycle ----------------------------
(***************************************************************************)
(* What the platform promises about a test run and its shards, with every  *)
(* request of the backend as one atomic step.  It is the contract of       *)
(* docs/ARCHITECTURE.md ("Run lifecycle", "The completion barrier",        *)
(* "Cancellation") as the code honours it: ShardStore, which runs the SQL  *)
(* statements of concurrent requests one by one, is shown to implement it. *)
(***************************************************************************)
EXTENDS RunTables

Init == TablesInit

Create(r) == InsertRun(r)

\* A worker's claim turns the shard row running; a queued run follows in a
\* step of its own, because startShard uses two autocommitted statements.
ClaimShard(s) ==
    /\ shardStatus[s] = "queued"
    /\ shardStatus' = [shardStatus EXCEPT ![s] = "running"]
    /\ UNCHANGED <<runStatus, runResult, shardResult>>

RunStarts(r) ==
    /\ runStatus[r] = "queued"
    /\ \E s \in ShardsOf(r) : shardStatus[s] # "queued"
    /\ runStatus' = [runStatus EXCEPT ![r] = "running"]
    /\ UNCHANGED <<runResult, shardStatus, shardResult>>

Cancel(r) ==
    /\ runStatus[r] \in {"queued", "running"}
    /\ runStatus' = [runStatus EXCEPT ![r] = "cancelling"]
    /\ UNCHANGED <<runResult, shardStatus, shardResult>>

\* Variant: the barrier misses a run that is being cancelled.
EndsIfRunning(r) == runStatus[r] = "running"

\* The WHERE clause of aggregateRun's UPDATE.
EndsWithShards(r) == runStatus[r] \in {"running", "cancelling"}

\* A shard ends once, with its payload; the step that ends the run's last open
\* shard also ends the run and combines the payloads.  Only a dead letter may
\* end a shard of a run that is still queued, and then nothing ends the run.
FinishShard(s, outcome, payload) ==
    LET r == RunOf[s] IN
    /\ shardStatus[s] \in ShardOpen
    /\ payload \in Reports => /\ shardStatus[s] = "running"
                              /\ runStatus[r] # "queued"
    /\ shardStatus' = [shardStatus EXCEPT ![s] = outcome]
    /\ shardResult' = [shardResult EXCEPT ![s] = payload]
    /\ IF (\A t \in ShardsOf(r) : shardStatus'[t] \in ShardFinal)
            /\ EndsWithShards(r)
         THEN /\ runStatus' = [runStatus EXCEPT ![r] = Verdict(r, shardStatus')]
              /\ runResult' = [runResult EXCEPT ![r] = Merge(r, shardResult')]
         ELSE UNCHANGED <<runStatus, runResult>>

ReportShard(s) ==
    \E outcome \in ShardFinal, report \in Reports :
        FinishShard(s, outcome, report)

DeadLetterShard(s) == FinishShard(s, "failed", DeadLettered)

Next ==
    \/ \E r \in Runs : Create(r) \/ RunStarts(r) \/ Cancel(r)
    \/ \E s \in Shards : ClaimShard(s) \/ ReportShard(s) \/ DeadLetterShard(s)

Spec == Init /\ [][Next]_tables
=============================================================================
