------------------------------ MODULE RunTables ------------------------------
(***************************************************************************)
(* The two tables of the backend's database, as far as the life of a run   *)
(* depends on them, and what must hold of their committed rows.  Extended  *)
(* by RunLifecycle, the contract, and by ShardStore, the implementation.   *)
(***************************************************************************)
CONSTANTS
    Runs,           \* rows of test_runs
    Shards,         \* rows of test_run_shards
    RunOf,          \* test_run_shards.run_id
    Reports,        \* the payloads a worker may report for a shard
    DeadLettered,   \* the payload FailShard leaves: no metrics, an error text
    NoResult        \* a row that has no result yet

ASSUME RunOfAssumption == RunOf \in [Shards -> Runs]

\* splitVUs never returns an empty list for a validated request, so a run
\* always has a shard (handlers/test_runs.go:96-106).
ASSUME NoEmptyRunAssumption == \A r \in Runs : \E s \in Shards : RunOf[s] = r

ASSUME ResultAssumption ==
    /\ DeadLettered \notin Reports
    /\ NoResult \notin Reports \cup {DeadLettered}

VARIABLES
    runStatus,      \* test_runs.status, "absent" before the row exists
    runResult,      \* the aggregate: which payload each shard contributed
    shardStatus,    \* test_run_shards.status, "absent" before the row exists
    shardResult     \* the shard's metrics or error text
tables == <<runStatus, runResult, shardStatus, shardResult>>

RunFinal == {"completed", "failed", "cancelled"}
RunOpen  == {"queued", "running", "cancelling"}
ShardFinal == {"completed", "failed"}
ShardOpen  == {"queued", "running"}
Results == Reports \cup {DeadLettered, NoResult}

ShardsOf(r) == {s \in Shards : RunOf[s] = r}
AllFinished(r) == \A s \in ShardsOf(r) : shardStatus[s] \in ShardFinal

TablesTypeOK ==
    /\ runStatus \in [Runs -> {"absent"} \cup RunOpen \cup RunFinal]
    /\ runResult \in [Runs -> [Shards -> Results]]
    /\ shardStatus \in [Shards -> {"absent"} \cup ShardOpen \cup ShardFinal]
    /\ shardResult \in [Shards -> Results]

TablesInit ==
    /\ runStatus = [r \in Runs |-> "absent"]
    /\ runResult = [r \in Runs |-> [s \in Shards |-> NoResult]]
    /\ shardStatus = [s \in Shards |-> "absent"]
    /\ shardResult = [s \in Shards |-> NoResult]

\* A run and its shards are inserted in one transaction, all queued: nobody
\* sees one without the other.
InsertRun(r) ==
    /\ runStatus[r] = "absent"
    /\ runStatus' = [runStatus EXCEPT ![r] = "queued"]
    /\ shardStatus' = [s \in Shards |->
                         IF RunOf[s] = r THEN "queued" ELSE shardStatus[s]]
    /\ UNCHANGED <<runResult, shardResult>>

\* The verdict of run r whose shards end with the statuses in final: cancelled
\* if the user asked for it, else failed if any shard failed.
Verdict(r, final) ==
    IF runStatus[r] = "cancelling" THEN "cancelled"
    ELSE IF \E s \in ShardsOf(r) : final[s] = "failed" THEN "failed"
    ELSE "completed"

\* The aggregate of run r: one contribution per shard of r, none of others.
Merge(r, results) ==
    [s \in Shards |-> IF RunOf[s] = r THEN results[s] ELSE NoResult]

-----------------------------------------------------------------------------
\* The completion barrier fires: when every shard of a run has ended and a
\* worker reported at least one of them, the run itself has ended.  A run that
\* satisfies the premise and stays open would sit in the list, and count
\* against the cap of active runs, for ever (store finishShard, aggregateRun).
BarrierCloses ==
    \A r \in Runs :
        (AllFinished(r) /\ \E s \in ShardsOf(r) : shardResult[s] \in Reports)
            => runStatus[r] \in RunFinal

\* What a finished run shows is what its shards ended with, each counted once,
\* and its verdict follows from them (store aggregateRun).
RunReflectsShards ==
    \A r \in Runs : runStatus[r] \in RunFinal =>
        /\ AllFinished(r)
        /\ \A s \in ShardsOf(r) : runResult[r][s] = shardResult[s]
        /\ runStatus[r] = "completed" =>
               \A s \in ShardsOf(r) : shardStatus[s] = "completed"
        /\ runStatus[r] = "failed" =>
               \E s \in ShardsOf(r) : shardStatus[s] = "failed"

\* A cancellation that was accepted is never lost: the run's next status is
\* cancelled, whatever its shards and their workers do (store CancelRun).
CancelIsKept ==
    [][\A r \in Runs : runStatus[r] = "cancelling" =>
          runStatus'[r] \in {"cancelling", "cancelled"}]_tables

\* Once a row is terminal a late or repeated call changes neither its status
\* nor its result (the WHERE guards of the store).
FinishedIsFinal ==
    [][/\ \A s \in Shards : shardStatus[s] \in ShardFinal =>
             shardStatus'[s] = shardStatus[s] /\ shardResult'[s] = shardResult[s]
       /\ \A r \in Runs : runStatus[r] \in RunFinal =>
             runStatus'[r] = runStatus[r] /\ runResult'[r] = runResult[r]]_tables
=============================================================================
