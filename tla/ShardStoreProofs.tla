-------------------------- MODULE ShardStoreProofs --------------------------
(***************************************************************************)
(* Proofs about ShardStore, for every number of runs, shards, sessions and *)
(* payloads: IInv is inductive, it implies the safety properties the model *)
(* checker tries on small instances, and ShardStore implements             *)
(* RunLifecycle.                                                           *)
(***************************************************************************)
EXTENDS ShardStore, TLAPS

-----------------------------------------------------------------------------
\* Facts about the operators.

\* Every WHERE clause of the store selects open shards only.
LEMMA AcceptsOpen == \A op \in Ops : Accepts(op) \subseteq ShardOpen
BY DEF Ops, Accepts, ShardOpen

\* The status sets are disjoint.
LEMMA StatusSets ==
    /\ ShardOpen \cap ShardFinal = {}
    /\ RunOpen \cap RunFinal = {}
    /\ "absent" \notin ShardOpen \cup ShardFinal \cup RunOpen \cup RunFinal
BY DEF ShardOpen, ShardFinal, RunOpen, RunFinal

\* The shard and the run of a busy session are rows of the tables.
LEMMA RowsOfCall ==
    ASSUME TypeOK, NEW c \in Sessions, pc[c] # "idle"
    PROVE  ShardAt(c) \in Shards /\ RunAt(c) \in Runs /\ call[c].op \in Ops
           /\ call[c].status \in ShardFinal \cup {"running"} /\ call[c].result \in Results
BY RunOfAssumption DEF TypeOK, Calls, ShardAt, RunAt

\* What a session has read stays true under a step of another session that
\* respects its locks.
LEMMA ReadsFrame ==
    ASSUME TypeOK, NEW d \in Sessions, pc[d] # "idle", ReadsTrue(d),
           shardStatus[ShardAt(d)] \in Accepts(call[d].op)
               => shardStatus'[ShardAt(d)] = shardStatus[ShardAt(d)]
                  \/ pc[d] \notin InTransaction,
           pc'[d] = pc[d], call'[d] = call[d], update'[d] = update[d],
           pc[d] \in HoldsRun => runStatus'[RunAt(d)] = runStatus[RunAt(d)],
           \A s \in Shards : shardLock'[s] = d <=> shardLock[s] = d,
           pc[d] \in HoldsRun =>
               \A t \in ShardsOf(RunAt(d)) : t # ShardAt(d) =>
                   /\ shardStatus[t] \in ShardOpen => shardStatus'[t] \in ShardOpen
                   /\ shardStatus[t] \in ShardFinal =>
                         shardStatus'[t] = shardStatus[t] /\ shardResult'[t] = shardResult[t],
           update[d] # NoUpdate => shardLock[ShardAt(d)] = d
    PROVE  ReadsTrue(d)'
<1>1. ShardAt(d)' = ShardAt(d) /\ RunAt(d)' = RunAt(d) /\ ShardAt(d) \in Shards
  BY RowsOfCall DEF ShardAt, RunAt
<1>2. (pc[d] \in InTransaction => shardStatus[ShardAt(d)] \in Accepts(call[d].op))'
  BY <1>1 DEF ReadsTrue
<1>3. (pc[d] = "aggregate" \/ update[d] # NoUpdate =>
         \A t \in ShardsOf(RunAt(d)) : t # ShardAt(d) => shardStatus[t] \in ShardFinal)'
  BY <1>1 DEF ReadsTrue, HoldsRun, ShardsOf
<1>4. (pc[d] = "commit" /\ update[d] = NoUpdate =>
         \/ runStatus[RunAt(d)] = "queued"
         \/ \E t \in ShardsOf(RunAt(d)) : t # ShardAt(d) /\ shardStatus[t] \in ShardOpen)'
  BY <1>1 DEF ReadsTrue, HoldsRun, ShardsOf
<1>5. ASSUME update[d] # NoUpdate
      PROVE  /\ \A s \in ShardsOf(RunAt(d)) : /\ SeenStatus(d)'[s] = SeenStatus(d)[s]
                                             /\ SeenResult(d)'[s] = SeenResult(d)[s]
             /\ pc[d] = "commit"
             /\ runStatus'[RunAt(d)] = runStatus[RunAt(d)]
  BY <1>1, <1>5 DEF ReadsTrue, HoldsRun, ShardsOf, SeenStatus, SeenResult
<1>6. ASSUME update[d] # NoUpdate
      PROVE  Verdict(RunAt(d), SeenStatus(d))' = Verdict(RunAt(d), SeenStatus(d))
  BY <1>1, <1>5, <1>6 DEF Verdict, ShardsOf
<1>7. ASSUME update[d] # NoUpdate
      PROVE  Merge(RunAt(d), SeenResult(d))' = Merge(RunAt(d), SeenResult(d))
  BY <1>1, <1>5, <1>7 DEF Merge, ShardsOf
<1>8. (update[d] # NoUpdate =>
           /\ pc[d] = "commit"
           /\ runStatus[RunAt(d)] \in {"running", "cancelling"}
           /\ update[d] = [status |-> Verdict(RunAt(d), SeenStatus(d)),
                           result |-> Merge(RunAt(d), SeenResult(d))])'
  BY <1>1, <1>5, <1>6, <1>7 DEF ReadsTrue
<1> QED BY <1>2, <1>3, <1>4, <1>8 DEF ReadsTrue
-----------------------------------------------------------------------------
\* Each action preserves the inductive invariant.

\* A session that has answered holds nothing it could have read wrongly.
LEMMA IdleReads ==
    ASSUME TypeOK, NEW c \in Sessions, Return(c)
    PROVE  ReadsTrue(c)' /\ pc'[c] = "idle"
BY DEF TypeOK, Return, Goto, ReadsTrue, InTransaction

\* A session that has written the run row still holds its shard row.
LEMMA UpdateLocked ==
    ASSUME TypeOK, LocksMatchSteps, ReadsStayTrue,
           NEW d \in Sessions, pc[d] # "idle", update[d] # NoUpdate
    PROVE  shardLock[ShardAt(d)] = d
<1>1. pc[d] = "commit" /\ ShardAt(d) \in Shards
  BY RowsOfCall DEF ReadsStayTrue, ReadsTrue
<1> QED BY <1>1 DEF LocksMatchSteps, InTransaction

\* CreateWithShards: the new rows belong to no session yet.
LEMMA CreateInv ==
    ASSUME IInv, NEW r \in Runs, CreateWithShards(r)
    PROVE  IInv'
<1>0. /\ TypeOK /\ CallsWellFormed /\ LocksMatchSteps /\ ReadsStayTrue
      /\ RowsAgree /\ AssignedRunIsStarted /\ BarrierCloses /\ RunReflectsShards
  BY DEF IInv
<1>1. /\ UNCHANGED <<pc, call, update, shardLock, runLock, assigned, runResult, shardResult>>
      /\ runStatus[r] = "absent"
      /\ runStatus' = [runStatus EXCEPT ![r] = "queued"]
      /\ shardStatus' = [s \in Shards |->
                           IF RunOf[s] = r THEN "queued" ELSE shardStatus[s]]
  BY DEF CreateWithShards, InsertRun, sessions
<1>2. \A s \in ShardsOf(r) : shardStatus[s] = "absent" /\ s \notin assigned
  BY <1>0, <1>1 DEF RowsAgree, AssignedRunIsStarted, ShardsOf
<1>3. TypeOK'
  BY <1>0, <1>1 DEF TypeOK, TablesTypeOK, RunOpen, ShardOpen
<1>4. \A d \in Sessions : pc[d] # "idle" => RunAt(d) # r
  BY <1>0, <1>2, RowsOfCall DEF CallsWellFormed, ShardsOf, RunAt, ShardAt
<1>5. CallsWellFormed'
  BY <1>0, <1>1, <1>4, RowsOfCall DEF CallsWellFormed, ShardAt, RunAt, InTransaction
<1>6. LocksMatchSteps'
  BY <1>0, <1>1 DEF LocksMatchSteps, ShardAt, RunAt
<1>7. ReadsStayTrue'
  <2> SUFFICES ASSUME NEW d \in Sessions PROVE ReadsTrue(d)'
    BY DEF ReadsStayTrue
  <2>1. CASE pc[d] = "idle"
    BY <2>1, <1>0, <1>1 DEF ReadsStayTrue, ReadsTrue, InTransaction
  <2>2. CASE pc[d] # "idle"
    <3>1. RunAt(d) # r /\ ShardAt(d) \in Shards /\ RunAt(d) \in Runs /\ RunAt(d) = RunOf[ShardAt(d)]
      BY <2>2, <1>0, <1>4, RowsOfCall DEF RunAt, ShardAt
    <3>2. \A t \in ShardsOf(RunAt(d)) : shardStatus'[t] = shardStatus[t]
      BY <1>1, <3>1 DEF ShardsOf
    <3>3. runStatus'[RunAt(d)] = runStatus[RunAt(d)]
      BY <1>0, <1>1, <3>1 DEF TypeOK, TablesTypeOK
    <3>4. update[d] # NoUpdate => shardLock[ShardAt(d)] = d
      BY <1>0, UpdateLocked, <2>2
    <3> QED
      BY <1>0, <1>1, <2>2, <3>1, <3>2, <3>3, <3>4, ReadsFrame DEF ReadsStayTrue, ShardsOf
  <2> QED BY <2>1, <2>2
<1>8. RowsAgree'
  BY <1>0, <1>1, <1>2, RunOfAssumption DEF RowsAgree, TypeOK, TablesTypeOK, ShardsOf
<1>9. AssignedRunIsStarted'
  BY <1>0, <1>1, RunOfAssumption DEF AssignedRunIsStarted, TypeOK, TablesTypeOK
<1>10. BarrierCloses'
  BY <1>0, <1>1, NoEmptyRunAssumption
  DEF BarrierCloses, AllFinished, ShardsOf, TypeOK, TablesTypeOK, ShardFinal
<1>11. RunReflectsShards'
  <2> SUFFICES ASSUME NEW q \in Runs, runStatus'[q] \in RunFinal
               PROVE  q # r
    BY <1>0, <1>1 DEF RunReflectsShards, AllFinished, ShardsOf, TypeOK, TablesTypeOK
  <2> QED BY <1>0, <1>1 DEF TypeOK, TablesTypeOK, RunFinal
<1> QED BY <1>3, <1>5, <1>6, <1>7, <1>8, <1>9, <1>10, <1>11 DEF IInv

\* CancelRun: the run row is not locked, so no transaction has read it.
LEMMA CancelInv ==
    ASSUME IInv, NEW r \in Runs, CancelRun(r)
    PROVE  IInv'
<1>0. /\ TypeOK /\ CallsWellFormed /\ LocksMatchSteps /\ ReadsStayTrue
      /\ RowsAgree /\ AssignedRunIsStarted /\ BarrierCloses /\ RunReflectsShards
  BY DEF IInv
<1>1. /\ UNCHANGED <<pc, call, update, shardLock, runLock, assigned, runResult,
                      shardStatus, shardResult>>
      /\ runStatus[r] \in {"queued", "running"}
      /\ runLock[r] = NoSession
      /\ runStatus' = [runStatus EXCEPT ![r] = "cancelling"]
  BY DEF CancelRun, sessions
<1>2. TypeOK'
  BY <1>0, <1>1 DEF TypeOK, TablesTypeOK, RunOpen
<1>3. CallsWellFormed' /\ LocksMatchSteps'
  BY <1>0, <1>1 DEF CallsWellFormed, LocksMatchSteps, ShardAt, RunAt
<1>4. ReadsStayTrue'
  <2> SUFFICES ASSUME NEW d \in Sessions PROVE ReadsTrue(d)'
    BY DEF ReadsStayTrue
  <2>1. CASE pc[d] = "idle"
    BY <2>1, <1>0, <1>1 DEF ReadsStayTrue, ReadsTrue, InTransaction
  <2>2. CASE pc[d] # "idle"
    <3>1. ShardAt(d) \in Shards /\ RunAt(d) \in Runs
      BY <2>2, <1>0, RowsOfCall
    <3>2. pc[d] \in HoldsRun => RunAt(d) # r
      BY <1>0, <1>1, <3>1, NoSessionAssumption DEF LocksMatchSteps
    <3>3. update[d] # NoUpdate => shardLock[ShardAt(d)] = d
      BY <1>0, <2>2, UpdateLocked
    <3> QED
      BY <1>0, <1>1, <2>2, <3>1, <3>2, <3>3, ReadsFrame
      DEF ReadsStayTrue, ShardsOf, TypeOK, TablesTypeOK
  <2> QED BY <2>1, <2>2
<1>5. RowsAgree' /\ AssignedRunIsStarted'
  BY <1>0, <1>1, RunOfAssumption DEF RowsAgree, AssignedRunIsStarted, TypeOK, TablesTypeOK
<1>6. BarrierCloses'
  BY <1>0, <1>1 DEF BarrierCloses, AllFinished, ShardsOf, TypeOK, TablesTypeOK, RunFinal
<1>7. RunReflectsShards'
  BY <1>0, <1>1 DEF RunReflectsShards, AllFinished, ShardsOf, TypeOK, TablesTypeOK, RunFinal
<1> QED BY <1>2, <1>3, <1>4, <1>5, <1>6, <1>7 DEF IInv

\* A request arrives: only its session moves.
LEMMA ReceiveInv ==
    ASSUME IInv, NEW c \in Sessions, Request(c)
    PROVE  IInv'
<1>0. /\ TypeOK /\ CallsWellFormed /\ LocksMatchSteps /\ ReadsStayTrue
      /\ RowsAgree /\ AssignedRunIsStarted /\ BarrierCloses /\ RunReflectsShards
  BY DEF IInv
<1>1. PICK op \in Ops, s \in Shards, status \in ShardFinal \cup {"running"},
           result \in Results, step \in {"claim", "finish"} :
        /\ Receive(c, op, s, status, result, step)
        /\ \/ step = "claim" /\ op \in {"start", "takeover"}
           \/ /\ step = "finish" /\ op = "complete"
              /\ status \in ShardFinal /\ result \in Reports /\ s \in assigned
           \/ /\ step = "finish" /\ op = "fail"
              /\ status = "failed" /\ result = DeadLettered
  <2>1. PICK s \in Shards : \/ StartShard(c, s) \/ TakeOverShard(c, s)
                            \/ CompleteShard(c, s) \/ FailShard(c, s)
    BY DEF Request
  <2>2. CASE StartShard(c, s)
    BY <2>2, ResultAssumption DEF StartShard, Ops, Results
  <2>3. CASE TakeOverShard(c, s)
    BY <2>3 DEF TakeOverShard, Ops, Results
  <2>4. CASE CompleteShard(c, s)
    <3>1. PICK status \in ShardFinal, report \in Reports :
             s \in assigned /\ Receive(c, "complete", s, status, report, "finish")
      BY <2>4 DEF CompleteShard
    <3>2. "complete" \in Ops /\ report \in Results
      BY DEF Ops, Results
    <3> QED BY <3>1, <3>2
  <2>5. CASE FailShard(c, s)
    BY <2>5 DEF FailShard, Ops, Results, ShardFinal
  <2> QED BY <2>1, <2>2, <2>3, <2>4, <2>5
<1>2. /\ UNCHANGED <<runStatus, runResult, shardStatus, shardResult, update,
                      shardLock, runLock, assigned>>
      /\ pc[c] = "idle" /\ shardStatus[s] # "absent"
      /\ pc' = [pc EXCEPT ![c] = step]
      /\ call' = [call EXCEPT ![c] = [op |-> op, shard |-> s,
                                       status |-> status, result |-> result]]
  BY <1>1 DEF Receive, At, Goto, tables
<1>3. /\ call'[c] = [op |-> op, shard |-> s, status |-> status, result |-> result]
      /\ pc'[c] = step
      /\ \A d \in Sessions : d # c => call'[d] = call[d] /\ pc'[d] = pc[d]
  BY <1>0, <1>2 DEF TypeOK
<1>4. TypeOK'
  BY <1>0, <1>1, <1>2, <1>3 DEF TypeOK, TablesTypeOK, Steps, Calls
<1>5. CallsWellFormed'
  BY <1>0, <1>1, <1>2, <1>3 DEF CallsWellFormed, ShardAt, InTransaction
<1>6. LocksMatchSteps'
  BY <1>0, <1>2, <1>3 DEF LocksMatchSteps, ShardAt, RunAt, InTransaction, HoldsRun
<1>7. ReadsStayTrue'
  <2> SUFFICES ASSUME NEW d \in Sessions PROVE ReadsTrue(d)'
    BY DEF ReadsStayTrue
  <2>1. update[c] = NoUpdate
    BY <1>0, <1>2 DEF ReadsStayTrue, ReadsTrue
  <2>2. CASE d = c
    BY <2>1, <2>2, <1>2, <1>3 DEF ReadsTrue, InTransaction
  <2>3. CASE d # c
    BY <2>3, <1>0, <1>2, <1>3
    DEF ReadsStayTrue, ReadsTrue, ShardAt, RunAt, ShardsOf, Verdict, Merge, SeenStatus, SeenResult
  <2> QED BY <2>2, <2>3
<1>8. RowsAgree' /\ AssignedRunIsStarted' /\ BarrierCloses' /\ RunReflectsShards'
  BY <1>0, <1>2
  DEF RowsAgree, AssignedRunIsStarted, BarrierCloses, RunReflectsShards, AllFinished, ShardsOf
<1> QED BY <1>4, <1>5, <1>6, <1>7, <1>8 DEF IInv

\* A miss, or any step that only ends a call: the session leaves what it holds.
LEMMA GiveUpInv ==
    ASSUME IInv, NEW c \in Sessions, pc[c] # "idle", Return(c), Unlock(c),
           UNCHANGED <<tables, assigned>>
    PROVE  IInv'
<1>0. /\ TypeOK /\ CallsWellFormed /\ LocksMatchSteps /\ ReadsStayTrue
      /\ RowsAgree /\ AssignedRunIsStarted /\ BarrierCloses /\ RunReflectsShards
  BY DEF IInv
<1>1. /\ UNCHANGED <<runStatus, runResult, shardStatus, shardResult, assigned>>
      /\ pc' = [pc EXCEPT ![c] = "idle"]
      /\ call' = [call EXCEPT ![c] = NoCall]
      /\ update' = [update EXCEPT ![c] = NoUpdate]
  BY DEF tables, Return, Goto
<1>2. /\ pc'[c] = "idle"
      /\ \A d \in Sessions : d # c =>
            call'[d] = call[d] /\ pc'[d] = pc[d] /\ update'[d] = update[d]
  BY <1>0, <1>1 DEF TypeOK
<1>3. \A d \in Sessions :
        /\ \A s \in Shards : shardLock'[s] = d <=> shardLock[s] = d /\ d # c
        /\ \A r \in Runs : runLock'[r] = d <=> runLock[r] = d /\ d # c
  BY <1>0, NoSessionAssumption DEF TypeOK, Unlock
<1>4. TypeOK'
  BY <1>0, <1>1, <1>2 DEF TypeOK, TablesTypeOK, Unlock
<1>5. CallsWellFormed'
  BY <1>0, <1>1, <1>2 DEF CallsWellFormed, ShardAt
<1>6. LocksMatchSteps'
  BY <1>0, <1>1, <1>2, <1>3 DEF LocksMatchSteps, ShardAt, RunAt, InTransaction, HoldsRun
<1>7. ReadsStayTrue'
  <2> SUFFICES ASSUME NEW d \in Sessions PROVE ReadsTrue(d)'
    BY DEF ReadsStayTrue
  <2>1. CASE d = c
    BY <2>1, <1>0, IdleReads
  <2>2. CASE d # c /\ pc[d] = "idle"
    BY <2>2, <1>0, <1>1, <1>2 DEF ReadsStayTrue, ReadsTrue, InTransaction
  <2>3. CASE d # c /\ pc[d] # "idle"
    <3>1. update[d] # NoUpdate => shardLock[ShardAt(d)] = d
      BY <1>0, <2>3, UpdateLocked
    <3> QED
      BY <1>0, <1>1, <1>2, <1>3, <2>3, <3>1, ReadsFrame, RowsOfCall, StatusSets DEF ReadsStayTrue, ShardsOf
  <2> QED BY <2>1, <2>2, <2>3
<1>8. RowsAgree' /\ AssignedRunIsStarted' /\ BarrierCloses' /\ RunReflectsShards'
  BY <1>0, <1>1
  DEF RowsAgree, AssignedRunIsStarted, BarrierCloses, RunReflectsShards, AllFinished, ShardsOf
<1> QED BY <1>4, <1>5, <1>6, <1>7, <1>8 DEF IInv

\* Outside a transaction there is nothing to release.
LEMMA NothingToUnlock ==
    ASSUME IInv, NEW c \in Sessions, pc[c] \in {"claim", "mark", "finish"}
    PROVE  /\ UNCHANGED <<shardLock, runLock>> => Unlock(c)
           /\ update[c] = NoUpdate
<1>1. \A s \in Shards : shardLock[s] # c
  BY DEF IInv, LocksMatchSteps, InTransaction
<1>2. \A r \in Runs : runLock[r] # c
  BY DEF IInv, LocksMatchSteps, HoldsRun
<1>3. update[c] = NoUpdate
  BY DEF IInv, ReadsStayTrue, ReadsTrue
<1> QED BY <1>1, <1>2, <1>3 DEF Unlock, IInv, TypeOK

\* startShard's first statement.  The row it updates is locked by nobody, so no
\* transaction has read it.
LEMMA ClaimShardInv ==
    ASSUME IInv, NEW c \in Sessions, ClaimShard(c)
    PROVE  IInv'
<1>0. /\ TypeOK /\ CallsWellFormed /\ LocksMatchSteps /\ ReadsStayTrue
      /\ RowsAgree /\ AssignedRunIsStarted /\ BarrierCloses /\ RunReflectsShards
  BY DEF IInv
<1>1. /\ pc[c] = "claim" /\ ShardAt(c) \in Shards /\ RunAt(c) \in Runs /\ call[c].op \in Ops
      /\ UNCHANGED <<runStatus, runResult, shardResult, shardLock, runLock, assigned>>
  BY <1>0, RowsOfCall DEF ClaimShard, At
<1>2. CASE /\ shardStatus[ShardAt(c)] \in Accepts(call[c].op)
           /\ shardLock[ShardAt(c)] = NoSession
           /\ shardStatus' = [shardStatus EXCEPT ![ShardAt(c)] = "running"]
           /\ Goto(c, "mark")
           /\ UNCHANGED <<call, update>>
  <2>0. /\ shardStatus[ShardAt(c)] \in ShardOpen
        /\ pc' = [pc EXCEPT ![c] = "mark"]
    BY <1>1, <1>2, AcceptsOpen DEF Goto
  <2>1. TypeOK'
    BY <1>0, <1>1, <1>2, <2>0 DEF TypeOK, TablesTypeOK, Steps, ShardOpen, ShardFinal
  <2>2. CallsWellFormed'
    BY <1>0, <1>1, <1>2, <2>0, RowsOfCall DEF CallsWellFormed, TypeOK, TablesTypeOK, ShardAt, InTransaction
  <2>3. LocksMatchSteps'
    BY <1>0, <1>1, <1>2, <2>0 DEF LocksMatchSteps, TypeOK, ShardAt, RunAt, InTransaction, HoldsRun
  <2>4. ReadsStayTrue'
    <3> SUFFICES ASSUME NEW d \in Sessions PROVE ReadsTrue(d)'
      BY DEF ReadsStayTrue
    <3>1. CASE d = c
      BY <3>1, <1>0, <1>2, <2>0, <1>1, NothingToUnlock DEF ReadsTrue, InTransaction, TypeOK
    <3>2. CASE d # c /\ pc[d] = "idle"
      BY <3>2, <1>0, <1>2, <2>0 DEF ReadsStayTrue, ReadsTrue, InTransaction, TypeOK
    <3>3. CASE d # c /\ pc[d] # "idle"
      <4>1. ShardAt(d) \in Shards /\ RunAt(d) \in Runs /\ pc'[d] = pc[d]
        BY <3>3, <1>0, <2>0, RowsOfCall DEF TypeOK
      <4>2. pc[d] \in InTransaction => ShardAt(d) # ShardAt(c)
        BY <1>0, <1>1, <1>2, <4>1, NoSessionAssumption DEF LocksMatchSteps
      <4>3. update[d] # NoUpdate => shardLock[ShardAt(d)] = d
        BY <1>0, <3>3, UpdateLocked
      <4>4. \A t \in Shards : \/ shardStatus'[t] = shardStatus[t]
                               \/ /\ t = ShardAt(c) /\ shardStatus[t] \in ShardOpen
                                  /\ shardStatus'[t] \in ShardOpen
        BY <1>0, <1>1, <1>2, <2>0 DEF TypeOK, TablesTypeOK, ShardOpen
      <4> QED
        BY <1>0, <1>1, <1>2, <3>3, <4>1, <4>2, <4>3, <4>4, ReadsFrame, StatusSets
        DEF ReadsStayTrue, ShardsOf
    <3> QED BY <3>1, <3>2, <3>3
  <2>5. RowsAgree'
    BY <1>0, <1>1, <1>2, <2>0 DEF RowsAgree, TypeOK, TablesTypeOK, ShardOpen
  <2>6. AssignedRunIsStarted'
    BY <1>0, <1>1 DEF AssignedRunIsStarted
  <2>7. BarrierCloses'
    BY <1>0, <1>1, <1>2, <2>0 DEF BarrierCloses, AllFinished, ShardsOf, TypeOK, TablesTypeOK, ShardFinal, RunAt, ShardAt
  <2>8. RunReflectsShards'
    BY <1>0, <1>1, <1>2, <2>0, StatusSets DEF RunReflectsShards, AllFinished, ShardsOf, TypeOK, TablesTypeOK, RunAt, ShardAt
  <2> QED BY <2>1, <2>2, <2>3, <2>4, <2>5, <2>6, <2>7, <2>8 DEF IInv
<1>3. CASE Return(c) /\ UNCHANGED shardStatus
  BY <1>1, <1>3, GiveUpInv, NothingToUnlock DEF tables
<1> QED BY <1>1, <1>2, <1>3 DEF ClaimShard

\* startShard's second statement.  It moves only a queued run, whose row nobody
\* has locked.
LEMMA MarkRunRunningInv ==
    ASSUME IInv, NEW c \in Sessions, MarkRunRunning(c)
    PROVE  IInv'
<1>0. /\ TypeOK /\ CallsWellFormed /\ LocksMatchSteps /\ ReadsStayTrue
      /\ RowsAgree /\ AssignedRunIsStarted /\ BarrierCloses /\ RunReflectsShards
  BY DEF IInv
<1>1. /\ pc[c] = "mark" /\ ShardAt(c) \in Shards /\ RunAt(c) \in Runs
      /\ RunAt(c) = RunOf[ShardAt(c)]
      /\ UNCHANGED <<runResult, shardStatus, shardResult, shardLock, runLock>>
      /\ assigned' = assigned \cup {ShardAt(c)}
      /\ shardStatus[ShardAt(c)] \notin {"absent", "queued"}
      /\ \/ /\ runStatus[RunAt(c)] = "queued" /\ runLock[RunAt(c)] = NoSession
            /\ runStatus' = [runStatus EXCEPT ![RunAt(c)] = "running"]
         \/ runStatus[RunAt(c)] # "queued" /\ UNCHANGED runStatus
      /\ pc' = [pc EXCEPT ![c] = "idle"]
      /\ call' = [call EXCEPT ![c] = NoCall]
      /\ update' = [update EXCEPT ![c] = NoUpdate]
  BY <1>0, RowsOfCall DEF MarkRunRunning, At, CallsWellFormed, Return, Goto, RunAt, ShardAt
<1>2. /\ pc'[c] = "idle"
      /\ \A d \in Sessions : d # c =>
            call'[d] = call[d] /\ pc'[d] = pc[d] /\ update'[d] = update[d]
  BY <1>0, <1>1 DEF TypeOK
<1>3. \A q \in Runs : \/ runStatus'[q] = runStatus[q]
                       \/ /\ q = RunAt(c) /\ runStatus[q] = "queued"
                          /\ runStatus'[q] = "running" /\ runLock[q] = NoSession
  BY <1>0, <1>1 DEF TypeOK, TablesTypeOK
<1>4. TypeOK'
  BY <1>0, <1>1, <1>2 DEF TypeOK, TablesTypeOK, RunOpen
<1>5. CallsWellFormed'
  BY <1>0, <1>1, <1>2 DEF CallsWellFormed, ShardAt
<1>6. LocksMatchSteps'
  BY <1>0, <1>1, <1>2 DEF LocksMatchSteps, ShardAt, RunAt, InTransaction, HoldsRun
<1>7. ReadsStayTrue'
  <2> SUFFICES ASSUME NEW d \in Sessions PROVE ReadsTrue(d)'
    BY DEF ReadsStayTrue
  <2>1. CASE d = c
    BY <2>1, <1>0, IdleReads DEF MarkRunRunning
  <2>2. CASE d # c /\ pc[d] = "idle"
    BY <2>2, <1>0, <1>1, <1>2 DEF ReadsStayTrue, ReadsTrue, InTransaction
  <2>3. CASE d # c /\ pc[d] # "idle"
    <3>1. ShardAt(d) \in Shards /\ RunAt(d) \in Runs
      BY <2>3, <1>0, RowsOfCall
    <3>2. pc[d] \in HoldsRun => runLock[RunAt(d)] = d
      BY <1>0, <3>1 DEF LocksMatchSteps
    <3>3. update[d] # NoUpdate => shardLock[ShardAt(d)] = d
      BY <1>0, <2>3, UpdateLocked
    <3> QED
      BY <1>0, <1>1, <1>2, <1>3, <2>3, <3>1, <3>2, <3>3, NoSessionAssumption, ReadsFrame
      DEF ReadsStayTrue, ShardsOf
  <2> QED BY <2>1, <2>2, <2>3
<1>8. AssignedRunIsStarted'
  <2>1. \A s \in Shards : runStatus[RunOf[s]] # "absent" => runStatus'[RunOf[s]] # "absent"
    BY <1>3, RunOfAssumption
  <2>2. runStatus'[RunAt(c)] \notin {"absent", "queued"}
    BY <1>0, <1>1 DEF RowsAgree, TypeOK, TablesTypeOK
  <2> QED BY <1>0, <1>1, <1>3, <2>1, <2>2, RunOfAssumption DEF AssignedRunIsStarted, TypeOK
<1>9. RowsAgree'
  BY <1>0, <1>1, <1>3, RunOfAssumption DEF RowsAgree
<1>10. BarrierCloses'
  BY <1>0, <1>1, <1>3 DEF BarrierCloses, AllFinished, ShardsOf, RunFinal
<1>11. RunReflectsShards'
  BY <1>0, <1>1, <1>3 DEF RunReflectsShards, AllFinished, ShardsOf, RunFinal
<1> QED BY <1>4, <1>5, <1>6, <1>7, <1>8, <1>9, <1>10, <1>11 DEF IInv

\* finishShard's UPDATE: from here the transaction holds the shard row.
LEMMA FinishShardRowInv ==
    ASSUME IInv, NEW c \in Sessions, FinishShardRow(c)
    PROVE  IInv'
<1>0. /\ TypeOK /\ CallsWellFormed /\ LocksMatchSteps /\ ReadsStayTrue
      /\ RowsAgree /\ AssignedRunIsStarted /\ BarrierCloses /\ RunReflectsShards
  BY DEF IInv
<1>1. /\ pc[c] = "finish" /\ ShardAt(c) \in Shards /\ RunAt(c) \in Runs
      /\ UNCHANGED <<runStatus, runResult, shardStatus, shardResult, runLock, assigned>>
  BY <1>0, RowsOfCall DEF FinishShardRow, At, tables
<1>2. CASE /\ shardStatus[ShardAt(c)] \in Accepts(call[c].op)
           /\ shardLock[ShardAt(c)] = NoSession
           /\ shardLock' = [shardLock EXCEPT ![ShardAt(c)] = c]
           /\ Goto(c, "lock")
           /\ UNCHANGED <<call, update>>
  <2>0. pc' = [pc EXCEPT ![c] = "lock"]
    BY <1>2 DEF Goto
  <2>1. TypeOK'
    BY <1>0, <1>1, <1>2, <2>0 DEF TypeOK, TablesTypeOK, Steps
  <2>2. CallsWellFormed'
    BY <1>0, <1>1, <1>2, <2>0 DEF CallsWellFormed, TypeOK, ShardAt, InTransaction
  <2>3. LocksMatchSteps'
    <3> SUFFICES ASSUME NEW d \in Sessions
                 PROVE  /\ \A s \in Shards : shardLock'[s] = d
                              <=> (pc'[d] \in InTransaction /\ ShardAt(d) = s)
                        /\ \A r \in Runs : runLock[r] = d
                              <=> (pc'[d] \in HoldsRun /\ RunAt(d) = r)
      BY <1>1, <1>2 DEF LocksMatchSteps, ShardAt, RunAt
    <3>1. CASE d = c
      BY <3>1, <1>0, <1>1, <1>2, <2>0 DEF LocksMatchSteps, TypeOK, InTransaction, HoldsRun
    <3>2. CASE d # c
      BY <3>2, <1>0, <1>1, <1>2, <2>0, NoSessionAssumption DEF LocksMatchSteps, TypeOK
    <3> QED BY <3>1, <3>2
  <2>4. ReadsStayTrue'
    <3> SUFFICES ASSUME NEW d \in Sessions PROVE ReadsTrue(d)'
      BY DEF ReadsStayTrue
    <3>1. CASE d = c
      BY <3>1, <1>0, <1>1, <1>2, <2>0, NothingToUnlock DEF ReadsTrue, TypeOK, ShardAt
    <3>2. CASE d # c /\ pc[d] = "idle"
      BY <3>2, <1>0, <1>1, <1>2, <2>0 DEF ReadsStayTrue, ReadsTrue, InTransaction, TypeOK
    <3>3. CASE d # c /\ pc[d] # "idle"
      <4>1. update[d] # NoUpdate => shardLock[ShardAt(d)] = d
        BY <1>0, <3>3, UpdateLocked
      <4>2. \A s \in Shards : shardLock'[s] = d <=> shardLock[s] = d
        BY <1>0, <1>1, <1>2, <3>3, NoSessionAssumption DEF TypeOK
      <4> QED
        BY <1>0, <1>1, <1>2, <2>0, <3>3, <4>1, <4>2, ReadsFrame, RowsOfCall, StatusSets
        DEF ReadsStayTrue, ShardsOf, TypeOK
    <3> QED BY <3>1, <3>2, <3>3
  <2>5. RowsAgree' /\ AssignedRunIsStarted' /\ BarrierCloses' /\ RunReflectsShards'
    BY <1>0, <1>1
    DEF RowsAgree, AssignedRunIsStarted, BarrierCloses, RunReflectsShards, AllFinished, ShardsOf
  <2> QED BY <2>1, <2>2, <2>3, <2>4, <2>5 DEF IInv
<1>3. CASE Return(c) /\ UNCHANGED shardLock
  BY <1>1, <1>3, GiveUpInv, NothingToUnlock DEF tables
<1> QED BY <1>1, <1>2, <1>3 DEF FinishShardRow

\* SELECT ... FOR UPDATE: the run row was free.
LEMMA LockRunInv ==
    ASSUME IInv, NEW c \in Sessions, LockRun(c)
    PROVE  IInv'
<1>0. /\ TypeOK /\ CallsWellFormed /\ LocksMatchSteps /\ ReadsStayTrue
      /\ RowsAgree /\ AssignedRunIsStarted /\ BarrierCloses /\ RunReflectsShards
  BY DEF IInv
<1>1. /\ pc[c] = "lock" /\ ShardAt(c) \in Shards /\ RunAt(c) \in Runs
      /\ UNCHANGED <<runStatus, runResult, shardStatus, shardResult, call, update,
                      shardLock, assigned>>
      /\ runLock[RunAt(c)] = NoSession
      /\ runLock' = [runLock EXCEPT ![RunAt(c)] = c]
      /\ pc' = [pc EXCEPT ![c] = "count"]
  BY <1>0, RowsOfCall DEF LockRun, At, Goto, tables
<1>2. pc'[c] = "count" /\ \A d \in Sessions : d # c => pc'[d] = pc[d]
  BY <1>0, <1>1 DEF TypeOK
<1>3. TypeOK'
  BY <1>0, <1>1 DEF TypeOK, TablesTypeOK, Steps
<1>4. CallsWellFormed'
  BY <1>0, <1>1, <1>2 DEF CallsWellFormed, ShardAt, InTransaction
<1>5. LocksMatchSteps'
  <2> SUFFICES ASSUME NEW d \in Sessions
               PROVE  /\ \A s \in Shards : shardLock[s] = d
                            <=> (pc'[d] \in InTransaction /\ ShardAt(d) = s)
                      /\ \A r \in Runs : runLock'[r] = d
                            <=> (pc'[d] \in HoldsRun /\ RunAt(d) = r)
    BY <1>1 DEF LocksMatchSteps, ShardAt, RunAt
  <2>1. CASE d = c
    BY <2>1, <1>0, <1>1, <1>2 DEF LocksMatchSteps, TypeOK, InTransaction, HoldsRun
  <2>2. CASE d # c
    BY <2>2, <1>0, <1>1, <1>2, NoSessionAssumption DEF LocksMatchSteps, TypeOK
  <2> QED BY <2>1, <2>2
<1>6. ReadsStayTrue'
  <2> SUFFICES ASSUME NEW d \in Sessions PROVE ReadsTrue(d)'
    BY DEF ReadsStayTrue
  <2>1. CASE d = c
    BY <2>1, <1>0, <1>1, <1>2 DEF ReadsStayTrue, ReadsTrue, InTransaction, ShardAt
  <2>2. CASE d # c /\ pc[d] = "idle"
    BY <2>2, <1>0, <1>1, <1>2 DEF ReadsStayTrue, ReadsTrue, InTransaction
  <2>3. CASE d # c /\ pc[d] # "idle"
    <3>1. update[d] # NoUpdate => shardLock[ShardAt(d)] = d
      BY <1>0, <2>3, UpdateLocked
    <3> QED
      BY <1>0, <1>1, <1>2, <2>3, <3>1, ReadsFrame, RowsOfCall, StatusSets,
         NoSessionAssumption
      DEF ReadsStayTrue, ShardsOf, TypeOK
  <2> QED BY <2>1, <2>2, <2>3
<1>7. RowsAgree' /\ AssignedRunIsStarted' /\ BarrierCloses' /\ RunReflectsShards'
  BY <1>0, <1>1
  DEF RowsAgree, AssignedRunIsStarted, BarrierCloses, RunReflectsShards, AllFinished, ShardsOf
<1> QED BY <1>3, <1>4, <1>5, <1>6, <1>7 DEF IInv

\* The count decides the next statement.  None remaining means that the other
\* shards are final; some remaining, that another one is open.
LEMMA CountRemainingInv ==
    ASSUME IInv, NEW c \in Sessions, CountRemaining(c)
    PROVE  IInv'
<1>0. /\ TypeOK /\ CallsWellFormed /\ LocksMatchSteps /\ ReadsStayTrue
      /\ RowsAgree /\ AssignedRunIsStarted /\ BarrierCloses /\ RunReflectsShards
  BY DEF IInv
<1>1. /\ pc[c] = "count" /\ ShardAt(c) \in Shards /\ RunAt(c) \in Runs
      /\ UNCHANGED <<runStatus, runResult, shardStatus, shardResult, call, update,
                      shardLock, runLock, assigned>>
      /\ \/ /\ \E s \in ShardsOf(RunAt(c)) : SeenStatus(c)[s] \in ShardOpen
            /\ pc' = [pc EXCEPT ![c] = "commit"]
         \/ /\ ~ \E s \in ShardsOf(RunAt(c)) : SeenStatus(c)[s] \in ShardOpen
            /\ pc' = [pc EXCEPT ![c] = "aggregate"]
  BY <1>0, RowsOfCall DEF CountRemaining, At, Goto, tables
<1>2. /\ pc'[c] \in {"commit", "aggregate"}
      /\ \A d \in Sessions : d # c => pc'[d] = pc[d]
  BY <1>0, <1>1 DEF TypeOK
<1>3. TypeOK'
  BY <1>0, <1>1 DEF TypeOK, TablesTypeOK, Steps
<1>4. CallsWellFormed'
  BY <1>0, <1>1, <1>2 DEF CallsWellFormed, ShardAt, InTransaction
<1>5. LocksMatchSteps'
  BY <1>0, <1>1, <1>2 DEF LocksMatchSteps, ShardAt, RunAt, InTransaction, HoldsRun
<1>6. ReadsStayTrue'
  <2> SUFFICES ASSUME NEW d \in Sessions PROVE ReadsTrue(d)'
    BY DEF ReadsStayTrue
  <2>1. CASE d = c
    <3>1. update[c] = NoUpdate /\ pc[c] \in InTransaction
      BY <1>0, <1>1 DEF ReadsStayTrue, ReadsTrue, InTransaction
    <3>2. \A s \in ShardsOf(RunAt(c)) :
            IF s = ShardAt(c) THEN SeenStatus(c)[s] \in ShardFinal
                              ELSE SeenStatus(c)[s] = shardStatus[s]
      BY <1>0, <1>1, <3>1
      DEF LocksMatchSteps, SeenStatus, ShardsOf, CallsWellFormed, ShardFinal
    <3>3. \A s \in ShardsOf(RunAt(c)) : shardStatus[s] \in ShardOpen \cup ShardFinal
      BY <1>0, <1>1, RunOfAssumption
      DEF RowsAgree, CallsWellFormed, TypeOK, TablesTypeOK, ShardsOf, RunAt, ShardAt
    <3>4. CASE pc' = [pc EXCEPT ![c] = "commit"]
      BY <1>0, <1>1, <2>1, <3>1, <3>2, <3>3, <3>4, StatusSets
      DEF ReadsStayTrue, ReadsTrue, ShardAt, RunAt, ShardsOf, TypeOK, InTransaction
    <3>5. CASE /\ pc' = [pc EXCEPT ![c] = "aggregate"]
               /\ ~ \E s \in ShardsOf(RunAt(c)) : SeenStatus(c)[s] \in ShardOpen
      BY <1>0, <1>1, <2>1, <3>1, <3>2, <3>3, <3>5, StatusSets
      DEF ReadsStayTrue, ReadsTrue, ShardAt, RunAt, ShardsOf, TypeOK, InTransaction
    <3> QED
      <4>1. \/ pc' = [pc EXCEPT ![c] = "commit"] /\
                \E s \in ShardsOf(RunAt(c)) : SeenStatus(c)[s] \in ShardOpen
            \/ pc' = [pc EXCEPT ![c] = "aggregate"] /\
               ~ \E s \in ShardsOf(RunAt(c)) : SeenStatus(c)[s] \in ShardOpen
        BY <1>1
      <4> QED BY <4>1, <3>4, <3>5
  <2>2. CASE d # c /\ pc[d] = "idle"
    BY <2>2, <1>0, <1>1, <1>2 DEF ReadsStayTrue, ReadsTrue, InTransaction
  <2>3. CASE d # c /\ pc[d] # "idle"
    <3>1. update[d] # NoUpdate => shardLock[ShardAt(d)] = d
      BY <1>0, <2>3, UpdateLocked
    <3> QED
      BY <1>0, <1>1, <1>2, <2>3, <3>1, ReadsFrame, RowsOfCall, StatusSets,
         NoSessionAssumption
      DEF ReadsStayTrue, ShardsOf, TypeOK
  <2> QED BY <2>1, <2>2, <2>3
<1>7. RowsAgree' /\ AssignedRunIsStarted' /\ BarrierCloses' /\ RunReflectsShards'
  BY <1>0, <1>1
  DEF RowsAgree, AssignedRunIsStarted, BarrierCloses, RunReflectsShards, AllFinished, ShardsOf
<1> QED BY <1>3, <1>4, <1>5, <1>6, <1>7 DEF IInv

\* The aggregate is computed from rows that nobody can change before the commit.
LEMMA AggregateRunInv ==
    ASSUME IInv, NEW c \in Sessions, AggregateRun(c)
    PROVE  IInv'
<1>0. /\ TypeOK /\ CallsWellFormed /\ LocksMatchSteps /\ ReadsStayTrue
      /\ RowsAgree /\ AssignedRunIsStarted /\ BarrierCloses /\ RunReflectsShards
  BY DEF IInv
<1>1. /\ pc[c] = "aggregate" /\ ShardAt(c) \in Shards /\ RunAt(c) \in Runs
      /\ UNCHANGED <<runStatus, runResult, shardStatus, shardResult, call,
                      shardLock, runLock, assigned>>
      /\ \/ /\ runStatus[RunAt(c)] \in {"running", "cancelling"}
            /\ update' = [update EXCEPT ![c] =
                             [status |-> Verdict(RunAt(c), SeenStatus(c)),
                              result |-> Merge(RunAt(c), SeenResult(c))]]
         \/ runStatus[RunAt(c)] \notin {"running", "cancelling"} /\ UNCHANGED update
      /\ pc' = [pc EXCEPT ![c] = "commit"]
  BY <1>0, RowsOfCall DEF AggregateRun, At, Goto, tables
<1>2. /\ pc'[c] = "commit"
      /\ \A d \in Sessions : d # c => pc'[d] = pc[d] /\ update'[d] = update[d]
  BY <1>0, <1>1 DEF TypeOK
<1>3. update[c] = NoUpdate
  BY <1>0, <1>1 DEF ReadsStayTrue, ReadsTrue
<1>4. [status |-> Verdict(RunAt(c), SeenStatus(c)),
       result |-> Merge(RunAt(c), SeenResult(c))] \in Updates
  <2>1. Verdict(RunAt(c), SeenStatus(c)) \in RunFinal
    BY DEF Verdict, RunFinal
  <2>2. \A s \in Shards : SeenResult(c)[s] \in Results
    BY <1>0, <1>1, RowsOfCall DEF SeenResult, TypeOK, TablesTypeOK
  <2>3. Merge(RunAt(c), SeenResult(c)) \in [Shards -> Results]
    BY <2>2 DEF Merge, Results
  <2> QED BY <2>1, <2>3 DEF Updates
<1>5. TypeOK'
  BY <1>0, <1>1, <1>4 DEF TypeOK, TablesTypeOK, Steps
<1>6. CallsWellFormed'
  BY <1>0, <1>1, <1>2 DEF CallsWellFormed, ShardAt, InTransaction
<1>7. LocksMatchSteps'
  BY <1>0, <1>1, <1>2 DEF LocksMatchSteps, ShardAt, RunAt, InTransaction, HoldsRun
<1>8. ReadsStayTrue'
  <2> SUFFICES ASSUME NEW d \in Sessions PROVE ReadsTrue(d)'
    BY DEF ReadsStayTrue
  <2>1. CASE d = c
    <3>1. /\ shardStatus[ShardAt(c)] \in Accepts(call[c].op)
          /\ \A t \in ShardsOf(RunAt(c)) : t # ShardAt(c) => shardStatus[t] \in ShardFinal
      BY <1>0, <1>1 DEF ReadsStayTrue, ReadsTrue, InTransaction
    <3>2. /\ SeenStatus(c)' = SeenStatus(c) /\ SeenResult(c)' = SeenResult(c)
          /\ ShardAt(c)' = ShardAt(c) /\ RunAt(c)' = RunAt(c)
      BY <1>1 DEF SeenStatus, SeenResult, ShardAt, RunAt
    <3>3. CASE runStatus[RunAt(c)] \in {"running", "cancelling"}
      <4>1. update'[c] = [status |-> Verdict(RunAt(c), SeenStatus(c)),
                          result |-> Merge(RunAt(c), SeenResult(c))]
        BY <1>0, <1>1, <3>3 DEF TypeOK
      <4>2. /\ Verdict(RunAt(c), SeenStatus(c))' = Verdict(RunAt(c), SeenStatus(c))
            /\ Merge(RunAt(c), SeenResult(c))' = Merge(RunAt(c), SeenResult(c))
        BY <1>1, <3>2 DEF Verdict, Merge, ShardsOf
      <4>3. update'[c] # NoUpdate
        BY <4>1, <1>4, NoUpdateAssumption
      <4> QED
        BY <1>1, <1>2, <2>1, <3>1, <3>2, <3>3, <4>1, <4>2, <4>3
        DEF ReadsTrue, ShardsOf, InTransaction
    <3>4. CASE runStatus[RunAt(c)] \notin {"running", "cancelling"}
      <4>1. update'[c] = NoUpdate
        BY <1>1, <1>3, <3>4
      <4>2. shardStatus[ShardAt(c)] \in ShardOpen
        BY <1>0, <1>1, <3>1, RowsOfCall, AcceptsOpen
      <4>3. runStatus[RunAt(c)] \notin RunFinal \cup {"absent"}
        BY <1>0, <1>1, <4>2, StatusSets
        DEF RunReflectsShards, AllFinished, ShardsOf, RowsAgree, RunAt, ShardAt
      <4>4. runStatus[RunAt(c)] = "queued"
        BY <1>0, <1>1, <3>4, <4>3 DEF TypeOK, TablesTypeOK, RunOpen
      <4> QED
        BY <1>1, <1>2, <2>1, <3>1, <3>2, <4>1, <4>4 DEF ReadsTrue, InTransaction
    <3> QED BY <3>3, <3>4
  <2>2. CASE d # c /\ pc[d] = "idle"
    BY <2>2, <1>0, <1>1, <1>2 DEF ReadsStayTrue, ReadsTrue, InTransaction
  <2>3. CASE d # c /\ pc[d] # "idle"
    <3>1. update[d] # NoUpdate => shardLock[ShardAt(d)] = d
      BY <1>0, <2>3, UpdateLocked
    <3> QED
      BY <1>0, <1>1, <1>2, <2>3, <3>1, ReadsFrame, RowsOfCall, StatusSets,
         NoSessionAssumption
      DEF ReadsStayTrue, ShardsOf, TypeOK
  <2> QED BY <2>1, <2>2, <2>3
<1>9. RowsAgree' /\ AssignedRunIsStarted' /\ BarrierCloses' /\ RunReflectsShards'
  BY <1>0, <1>1
  DEF RowsAgree, AssignedRunIsStarted, BarrierCloses, RunReflectsShards, AllFinished, ShardsOf
<1> QED BY <1>5, <1>6, <1>7, <1>8, <1>9 DEF IInv

\* What Commit does to the rows, for a session whose reads are still true: the
\* shard ends, and the run ends with it exactly when that was its last open
\* shard and the run is not queued any more.
LEMMA CommitEffect ==
    ASSUME IInv, NEW c \in Sessions, Commit(c)
    PROVE  LET s == ShardAt(c)  r == RunAt(c) IN
           /\ pc[c] = "commit" /\ s \in Shards /\ r \in Runs /\ r = RunOf[s]
           /\ shardStatus[s] \in Accepts(call[c].op) /\ shardStatus[s] \in ShardOpen
           /\ runStatus[r] \in RunOpen
           /\ call[c].status \in ShardFinal /\ call[c].result \in Results
           /\ shardStatus' = [shardStatus EXCEPT ![s] = call[c].status]
           /\ shardResult' = [shardResult EXCEPT ![s] = call[c].result]
           /\ UNCHANGED assigned /\ Unlock(c) /\ Return(c)
           /\ \/ /\ update[c] = NoUpdate
                 /\ UNCHANGED <<runStatus, runResult>>
                 /\ \/ runStatus[r] = "queued"
                    \/ \E t \in ShardsOf(r) : t # s /\ shardStatus'[t] \in ShardOpen
              \/ /\ update[c] # NoUpdate
                 /\ runStatus[r] \in {"running", "cancelling"}
                 /\ \A t \in ShardsOf(r) : shardStatus'[t] \in ShardFinal
                 /\ runStatus' = [runStatus EXCEPT ![r] = Verdict(r, shardStatus')]
                 /\ runResult' = [runResult EXCEPT ![r] = Merge(r, shardResult')]
<1> DEFINE s == ShardAt(c)
           r == RunAt(c)
<1>0. /\ TypeOK /\ CallsWellFormed /\ LocksMatchSteps /\ ReadsStayTrue
      /\ RowsAgree /\ AssignedRunIsStarted /\ BarrierCloses /\ RunReflectsShards
  BY DEF IInv
<1>1. /\ pc[c] = "commit" /\ s \in Shards /\ r \in Runs /\ r = RunOf[s]
      /\ call[c].op \in Ops /\ call[c].result \in Results
  BY <1>0, RowsOfCall DEF Commit, At, ShardAt, RunAt
<1>2. /\ shardStatus' = [shardStatus EXCEPT ![s] = call[c].status]
      /\ shardResult' = [shardResult EXCEPT ![s] = call[c].result]
      /\ \/ update[c] = NoUpdate /\ UNCHANGED <<runStatus, runResult>>
         \/ /\ update[c] # NoUpdate
            /\ runStatus' = [runStatus EXCEPT ![r] = update[c].status]
            /\ runResult' = [runResult EXCEPT ![r] = update[c].result]
      /\ UNCHANGED assigned /\ Unlock(c) /\ Return(c)
  BY DEF Commit
<1>3. /\ shardStatus[s] \in Accepts(call[c].op)
      /\ shardStatus[s] \in ShardOpen
      /\ call[c].status \in ShardFinal
  BY <1>0, <1>1, AcceptsOpen
  DEF ReadsStayTrue, ReadsTrue, InTransaction, CallsWellFormed, ShardFinal
<1>4. runStatus[r] \in RunOpen
  BY <1>0, <1>1, <1>3, StatusSets
  DEF RunReflectsShards, AllFinished, ShardsOf, RowsAgree, TypeOK, TablesTypeOK
<1>5. \A t \in Shards : shardStatus'[t] = IF t = s THEN call[c].status ELSE shardStatus[t]
  BY <1>0, <1>2 DEF TypeOK, TablesTypeOK
<1>6. CASE update[c] = NoUpdate
  <2>1. \/ runStatus[r] = "queued"
        \/ \E t \in ShardsOf(r) : t # s /\ shardStatus[t] \in ShardOpen
    BY <1>0, <1>1, <1>6 DEF ReadsStayTrue, ReadsTrue
  <2>2. \/ runStatus[r] = "queued"
        \/ \E t \in ShardsOf(r) : t # s /\ shardStatus'[t] \in ShardOpen
    BY <2>1, <1>5 DEF ShardsOf
  <2> QED BY <1>1, <1>2, <1>3, <1>4, <1>6, <2>2
<1>7. CASE update[c] # NoUpdate
  <2>1. /\ runStatus[r] \in {"running", "cancelling"}
        /\ \A t \in ShardsOf(r) : t # s => shardStatus[t] \in ShardFinal
        /\ update[c] = [status |-> Verdict(r, SeenStatus(c)),
                        result |-> Merge(r, SeenResult(c))]
    BY <1>0, <1>7 DEF ReadsStayTrue, ReadsTrue
  <2>2. \A t \in Shards : shardLock[t] = c <=> t = s
    BY <1>0, <1>1 DEF LocksMatchSteps, InTransaction
  <2>3. shardStatus' = SeenStatus(c) /\ shardResult' = SeenResult(c)
    BY <1>0, <1>1, <1>2, <2>2 DEF SeenStatus, SeenResult, TypeOK, TablesTypeOK, ShardAt
  <2>4. Verdict(r, SeenStatus(c)) = Verdict(r, shardStatus')
    BY <2>3
  <2>5. Merge(r, SeenResult(c)) = Merge(r, shardResult')
    BY <2>3
  <2>6. \A t \in ShardsOf(r) : shardStatus'[t] \in ShardFinal
    BY <1>3, <1>5, <2>1 DEF ShardsOf
  <2> QED BY <1>1, <1>2, <1>3, <1>4, <1>7, <2>1, <2>4, <2>5, <2>6
<1> QED BY <1>6, <1>7

\* Commit ends a shard and, with the last one, the run.
LEMMA CommitInv ==
    ASSUME IInv, NEW c \in Sessions, Commit(c)
    PROVE  IInv'
<1> DEFINE s == ShardAt(c)
           r == RunAt(c)
<1>0. /\ TypeOK /\ CallsWellFormed /\ LocksMatchSteps /\ ReadsStayTrue
      /\ RowsAgree /\ AssignedRunIsStarted /\ BarrierCloses /\ RunReflectsShards
  BY DEF IInv
<1>1. /\ pc[c] = "commit" /\ s \in Shards /\ r \in Runs /\ r = RunOf[s]
      /\ shardStatus[s] \in ShardOpen /\ runStatus[r] \in RunOpen
      /\ call[c].status \in ShardFinal /\ call[c].result \in Results
      /\ shardStatus' = [shardStatus EXCEPT ![s] = call[c].status]
      /\ shardResult' = [shardResult EXCEPT ![s] = call[c].result]
      /\ UNCHANGED assigned /\ Unlock(c) /\ Return(c)
      /\ pc' = [pc EXCEPT ![c] = "idle"]
      /\ call' = [call EXCEPT ![c] = NoCall]
      /\ update' = [update EXCEPT ![c] = NoUpdate]
  BY CommitEffect DEF Return, Goto
<1>2. \/ /\ update[c] = NoUpdate
         /\ UNCHANGED <<runStatus, runResult>>
         /\ \/ runStatus[r] = "queued"
            \/ \E t \in ShardsOf(r) : t # s /\ shardStatus'[t] \in ShardOpen
      \/ /\ update[c] # NoUpdate
         /\ runStatus[r] \in {"running", "cancelling"}
         /\ \A t \in ShardsOf(r) : shardStatus'[t] \in ShardFinal
         /\ runStatus' = [runStatus EXCEPT ![r] = Verdict(r, shardStatus')]
         /\ runResult' = [runResult EXCEPT ![r] = Merge(r, shardResult')]
  BY CommitEffect
<1>3. /\ pc'[c] = "idle"
      /\ \A d \in Sessions : d # c =>
            call'[d] = call[d] /\ pc'[d] = pc[d] /\ update'[d] = update[d]
  BY <1>0, <1>1 DEF TypeOK
<1>4. \A d \in Sessions :
        /\ \A t \in Shards : shardLock'[t] = d <=> shardLock[t] = d /\ d # c
        /\ \A q \in Runs : runLock'[q] = d <=> runLock[q] = d /\ d # c
  BY <1>0, <1>1, NoSessionAssumption DEF TypeOK, Unlock
<1>5. \A t \in Shards :
        /\ t # s => shardStatus'[t] = shardStatus[t] /\ shardResult'[t] = shardResult[t]
        /\ t = s => shardStatus'[t] = call[c].status /\ shardResult'[t] = call[c].result
  BY <1>0, <1>1 DEF TypeOK, TablesTypeOK
<1>6. /\ Verdict(r, shardStatus') \in RunFinal
      /\ Verdict(r, shardStatus') = "completed" =>
            \A t \in ShardsOf(r) : shardStatus'[t] # "failed"
      /\ Verdict(r, shardStatus') = "failed" =>
            \E t \in ShardsOf(r) : shardStatus'[t] = "failed"
  BY DEF Verdict, RunFinal
<1>7. Merge(r, shardResult') \in [Shards -> Results]
      /\ \A t \in ShardsOf(r) : Merge(r, shardResult')[t] = shardResult'[t]
  BY <1>0, <1>1, <1>5 DEF Merge, ShardsOf, Results, TypeOK, TablesTypeOK
<1>8. \A q \in Runs :
        /\ q # r => runStatus'[q] = runStatus[q] /\ runResult'[q] = runResult[q]
        /\ q = r => \/ /\ runStatus'[q] = runStatus[q] /\ runResult'[q] = runResult[q]
                        /\ \/ runStatus[r] = "queued"
                           \/ \E t \in ShardsOf(r) : t # s /\ shardStatus'[t] \in ShardOpen
                    \/ /\ runStatus'[q] = Verdict(r, shardStatus')
                       /\ runResult'[q] = Merge(r, shardResult')
                       /\ \A t \in ShardsOf(r) : shardStatus'[t] \in ShardFinal
  BY <1>0, <1>1, <1>2 DEF TypeOK, TablesTypeOK
<1>9. TypeOK'
  <2>1. runStatus' \in [Runs -> {"absent"} \cup RunOpen \cup RunFinal]
    BY <1>0, <1>1, <1>2, <1>6 DEF TypeOK, TablesTypeOK
  <2>2. runResult' \in [Runs -> [Shards -> Results]]
    <3> DEFINE Aggregates == [Shards -> Results]
    <3>1. runResult \in [Runs -> Aggregates] /\ Merge(r, shardResult') \in Aggregates
      BY <1>0, <1>7 DEF TypeOK, TablesTypeOK
    <3> HIDE DEF Aggregates
    <3>2. runResult' \in [Runs -> Aggregates]
      BY <1>1, <1>2, <3>1
    <3> QED BY <3>2 DEF Aggregates
  <2>3. TablesTypeOK'
    BY <1>0, <1>1, <2>1, <2>2 DEF TypeOK, TablesTypeOK
  <2> QED BY <1>0, <1>1, <1>3, <2>3 DEF TypeOK, Unlock
<1>10. CallsWellFormed'
  <2> SUFFICES ASSUME NEW d \in Sessions, pc'[d] # "idle"
               PROVE  /\ d # c /\ ShardAt(d)' = ShardAt(d)
                      /\ shardStatus[ShardAt(d)] # "absent" =>
                            shardStatus'[ShardAt(d)] # "absent"
                      /\ shardStatus[ShardAt(d)] # "queued" =>
                            shardStatus'[ShardAt(d)] # "queued"
    BY <1>0, <1>1, <1>3 DEF CallsWellFormed
  <2> QED BY <1>0, <1>1, <1>3, <1>5, RowsOfCall, StatusSets DEF ShardAt, ShardFinal
<1>11. LocksMatchSteps'
  BY <1>0, <1>1, <1>3, <1>4 DEF LocksMatchSteps, ShardAt, RunAt, InTransaction, HoldsRun
<1>12. ReadsStayTrue'
  <2> SUFFICES ASSUME NEW d \in Sessions PROVE ReadsTrue(d)'
    BY DEF ReadsStayTrue
  <2>1. CASE d = c
    BY <2>1, <1>0, <1>1, IdleReads
  <2>2. CASE d # c /\ pc[d] = "idle"
    BY <2>2, <1>0, <1>3 DEF ReadsStayTrue, ReadsTrue, InTransaction
  <2>3. CASE d # c /\ pc[d] # "idle"
    <3>1. update[d] # NoUpdate => shardLock[ShardAt(d)] = d
      BY <1>0, <2>3, UpdateLocked
    <3>2. ShardAt(d) \in Shards /\ RunAt(d) \in Runs
      BY <1>0, <2>3, RowsOfCall
    <3>3. pc[d] \in InTransaction => ShardAt(d) # s
      BY <1>0, <1>1, <2>3, <3>2 DEF LocksMatchSteps, InTransaction
    <3>4. pc[d] \in HoldsRun => RunAt(d) # r
      BY <1>0, <1>1, <2>3, <3>2 DEF LocksMatchSteps, HoldsRun
    <3>5. pc[d] \in HoldsRun =>
            /\ runStatus'[RunAt(d)] = runStatus[RunAt(d)]
            /\ \A t \in ShardsOf(RunAt(d)) :
                  shardStatus'[t] = shardStatus[t] /\ shardResult'[t] = shardResult[t]
      BY <1>1, <1>5, <1>8, <3>2, <3>4 DEF ShardsOf
    <3>6. \A t \in Shards : shardLock'[t] = d <=> shardLock[t] = d
      BY <1>4, <2>3
    <3> QED
      BY <1>0, <1>3, <1>5, <2>3, <3>1, <3>2, <3>3, <3>5, <3>6, ReadsFrame
      DEF ReadsStayTrue
  <2> QED BY <2>1, <2>2, <2>3
<1>13. RowsAgree'
  <2>1. \A q \in Runs : runStatus'[q] = "absent" <=> runStatus[q] = "absent"
    BY <1>1, <1>6, <1>8, StatusSets
  <2>2. call[c].result \in Reports => s \in assigned
    BY <1>0, <1>1, ResultAssumption DEF CallsWellFormed, InTransaction
  <2> QED
    BY <1>0, <1>1, <1>5, <2>1, <2>2, RunOfAssumption, StatusSets
    DEF RowsAgree, ShardFinal, ShardOpen
<1>14. AssignedRunIsStarted'
  BY <1>0, <1>1, <1>6, <1>8, RunOfAssumption
  DEF AssignedRunIsStarted, RunFinal, TypeOK
<1>15. BarrierCloses'
  <2> SUFFICES ASSUME NEW q \in Runs, AllFinished(q)',
                      NEW t \in ShardsOf(q), shardResult'[t] \in Reports
               PROVE  runStatus'[q] \in RunFinal
    BY DEF BarrierCloses, ShardsOf
  <2>1. CASE q # r
    BY <1>0, <1>1, <1>5, <1>8, <2>1 DEF BarrierCloses, AllFinished, ShardsOf
  <2>2. CASE q = r
    <3>1. t \in assigned /\ t \in Shards /\ RunOf[t] = r
      BY <1>13, <1>1, <2>2 DEF RowsAgree, ShardsOf
    <3>2. runStatus[r] # "queued"
      BY <1>0, <3>1 DEF AssignedRunIsStarted
    <3>3. ~ \E u \in ShardsOf(r) : u # s /\ shardStatus'[u] \in ShardOpen
      BY <2>2, StatusSets DEF AllFinished, ShardsOf
    <3> QED BY <1>6, <1>8, <2>2, <3>2, <3>3
  <2> QED BY <2>1, <2>2
<1>16. RunReflectsShards'
  <2> SUFFICES ASSUME NEW q \in Runs, runStatus'[q] \in RunFinal
               PROVE  /\ \A t \in ShardsOf(q) : shardStatus'[t] \in ShardFinal
                      /\ \A t \in ShardsOf(q) : runResult'[q][t] = shardResult'[t]
                      /\ runStatus'[q] = "completed" =>
                           \A t \in ShardsOf(q) : shardStatus'[t] = "completed"
                      /\ runStatus'[q] = "failed" =>
                           \E t \in ShardsOf(q) : shardStatus'[t] = "failed"
    BY DEF RunReflectsShards, AllFinished, ShardsOf
  <2>1. CASE q # r
    BY <1>0, <1>1, <1>5, <1>8, <2>1 DEF RunReflectsShards, AllFinished, ShardsOf
  <2>2. CASE q = r
    <3>1. /\ runStatus'[r] = Verdict(r, shardStatus')
          /\ runResult'[r] = Merge(r, shardResult')
          /\ \A t \in ShardsOf(r) : shardStatus'[t] \in ShardFinal
      BY <1>1, <1>8, <2>2, StatusSets
    <3> QED BY <1>6, <1>7, <2>2, <3>1 DEF ShardFinal
  <2> QED BY <2>1, <2>2
<1> QED
  BY <1>9, <1>10, <1>11, <1>12, <1>13, <1>14, <1>15, <1>16 DEF IInv

\* Abort: a rolled back transaction leaves no trace.
LEMMA AbortInv ==
    ASSUME IInv, NEW c \in Sessions, Abort(c)
    PROVE  IInv'
BY GiveUpInv DEF Abort, At

\* A step that changes no variable preserves the invariant.
LEMMA StutterInv == ASSUME IInv, UNCHANGED vars PROVE IInv'
<1>1. /\ UNCHANGED <<runStatus, runResult, shardStatus, shardResult>>
      /\ UNCHANGED <<pc, call, update, shardLock, runLock, assigned>>
  BY DEF vars, tables, sessions
<1>2. /\ TypeOK' /\ CallsWellFormed' /\ LocksMatchSteps'
  BY <1>1 DEF IInv, TypeOK, TablesTypeOK, CallsWellFormed, LocksMatchSteps, ShardAt, RunAt
<1>3. ReadsStayTrue'
  BY <1>1 DEF IInv, ReadsStayTrue, ReadsTrue, ShardAt, RunAt, ShardsOf, Verdict, Merge,
              SeenStatus, SeenResult
<1>4. RowsAgree' /\ AssignedRunIsStarted' /\ BarrierCloses' /\ RunReflectsShards'
  BY <1>1 DEF IInv, RowsAgree, AssignedRunIsStarted, BarrierCloses, RunReflectsShards,
              AllFinished, ShardsOf
<1> QED BY <1>2, <1>3, <1>4 DEF IInv

\* Initially there are no rows and no sessions at work.
LEMMA InitInv == Init => IInv
<1> SUFFICES ASSUME Init PROVE IInv
  OBVIOUS
<1>1. TypeOK
  BY DEF Init, TablesInit, TypeOK, TablesTypeOK, Results
<1>2. CallsWellFormed /\ LocksMatchSteps
  BY NoSessionAssumption
  DEF Init, CallsWellFormed, LocksMatchSteps, InTransaction, HoldsRun
<1>3. ReadsStayTrue
  BY DEF Init, ReadsStayTrue, ReadsTrue, InTransaction
<1>4. RowsAgree /\ AssignedRunIsStarted
  BY RunOfAssumption, ResultAssumption DEF Init, TablesInit, RowsAgree, AssignedRunIsStarted
<1>5. BarrierCloses
  BY ResultAssumption DEF Init, TablesInit, BarrierCloses, ShardsOf
<1>6. RunReflectsShards
  BY DEF Init, TablesInit, RunReflectsShards, RunFinal
<1> QED BY <1>1, <1>2, <1>3, <1>4, <1>5, <1>6 DEF IInv

\* Every step preserves it.
LEMMA NextInv == IInv /\ [Next]_vars => IInv'
<1> SUFFICES ASSUME IInv, [Next]_vars PROVE IInv'
  OBVIOUS
<1>1. ASSUME NEW r \in Runs, CreateWithShards(r) PROVE IInv'
  BY <1>1, CreateInv
<1>2. ASSUME NEW r \in Runs, CancelRun(r) PROVE IInv'
  BY <1>2, CancelInv
<1>3. ASSUME NEW c \in Sessions, Request(c) PROVE IInv'
  BY <1>3, ReceiveInv
<1>4. ASSUME NEW c \in Sessions, Statement(c) PROVE IInv'
  BY <1>4, ClaimShardInv, MarkRunRunningInv, FinishShardRowInv, LockRunInv,
     CountRemainingInv, AggregateRunInv, CommitInv
  DEF Statement
<1>5. ASSUME NEW c \in Sessions, Abort(c) PROVE IInv'
  BY <1>5, AbortInv
<1>6. ASSUME UNCHANGED vars PROVE IInv'
  BY <1>6, StutterInv
<1> QED BY <1>1, <1>2, <1>3, <1>4, <1>5, <1>6 DEF Next

-----------------------------------------------------------------------------
\* The invariants of the store, for every instance.

\* The inductive invariant holds of every reachable state of the store.
THEOREM StoreInvariant == Spec => []IInv
BY InitInv, NextInv, PTL DEF Spec

\* Every variable of the store's model keeps its type: statuses are among the
\* schema's, locks are held by sessions, aggregates have one entry per shard.
THEOREM StoreTypeOK == Spec => []TypeOK
<1>1. IInv => TypeOK
  BY DEF IInv
<1> QED BY <1>1, StoreInvariant, PTL

\* finishShard's barrier is never missed: however its transactions interleave, a
\* run whose shards have all ended, one of them with a worker's report, has ended.
THEOREM StoreBarrier == Spec => []BarrierCloses
<1>1. IInv => BarrierCloses
  BY DEF IInv
<1> QED BY <1>1, StoreInvariant, PTL

\* aggregateRun counts every shard once: a finished run holds exactly its
\* shards' final results, and a verdict that follows from them.
THEOREM StoreAggregate == Spec => []RunReflectsShards
<1>1. IInv => RunReflectsShards
  BY DEF IInv
<1> QED BY <1>1, StoreInvariant, PTL

\* startShard answers with an assignment only once the run has left queued.
THEOREM StoreAssigned == Spec => []AssignedRunIsStarted
<1>1. IInv => AssignedRunIsStarted
  BY DEF IInv
<1> QED BY <1>1, StoreInvariant, PTL

-----------------------------------------------------------------------------
\* The store implements the lifecycle.

\* A step of the store is a step of the lifecycle or leaves the tables alone.
LEMMA StepRefines == IInv /\ [Next]_vars => [Lifecycle!Next]_tables
<1> SUFFICES ASSUME IInv, [Next]_vars PROVE Lifecycle!Next \/ UNCHANGED tables
  BY DEF Lifecycle!tables, tables
<1>1. ASSUME NEW r \in Runs, CreateWithShards(r) PROVE Lifecycle!Create(r)
  BY <1>1 DEF CreateWithShards, InsertRun, Lifecycle!Create, Lifecycle!InsertRun
<1>2. ASSUME NEW r \in Runs, CancelRun(r) PROVE Lifecycle!Cancel(r)
  BY <1>2 DEF CancelRun, Lifecycle!Cancel
<1>3. ASSUME NEW c \in Sessions, Request(c) PROVE UNCHANGED tables
  BY <1>3 DEF Request, StartShard, TakeOverShard, CompleteShard, FailShard, Receive
<1>4. ASSUME NEW c \in Sessions, ClaimShard(c)
      PROVE  Lifecycle!ClaimShard(ShardAt(c)) \/ UNCHANGED tables
  <2>1. /\ UNCHANGED <<runStatus, runResult, shardResult>>
        /\ ShardAt(c) \in Shards /\ call[c].op \in Ops
        /\ pc[c] = "claim"
    BY <1>4, RowsOfCall DEF ClaimShard, At, IInv
  <2>2. CASE UNCHANGED shardStatus
    BY <2>1, <2>2 DEF tables
  <2>3. CASE /\ shardStatus[ShardAt(c)] \in Accepts(call[c].op)
             /\ shardStatus' = [shardStatus EXCEPT ![ShardAt(c)] = "running"]
    <3>1. shardStatus[ShardAt(c)] \in {"queued", "running"}
      BY <2>1, <2>3, AcceptsOpen DEF ShardOpen
    <3>2. CASE shardStatus[ShardAt(c)] = "queued"
      BY <2>1, <2>3, <3>2 DEF Lifecycle!ClaimShard
    <3>3. CASE shardStatus[ShardAt(c)] = "running"
      BY <2>1, <2>3, <3>3 DEF tables, IInv, TypeOK, TablesTypeOK
    <3> QED BY <3>1, <3>2, <3>3
  <2> QED BY <1>4, <2>2, <2>3 DEF ClaimShard
<1>5. ASSUME NEW c \in Sessions, MarkRunRunning(c)
      PROVE  RunAt(c) \in Runs /\ (Lifecycle!RunStarts(RunAt(c)) \/ UNCHANGED tables)
  <2>1. /\ UNCHANGED <<runResult, shardStatus, shardResult>>
        /\ ShardAt(c) \in ShardsOf(RunAt(c)) /\ RunAt(c) \in Runs
        /\ shardStatus[ShardAt(c)] # "queued"
    BY <1>5, RowsOfCall
    DEF MarkRunRunning, At, IInv, CallsWellFormed, ShardsOf, RunAt, ShardAt
  <2> QED
    BY <1>5, <2>1 DEF MarkRunRunning, Lifecycle!RunStarts, Lifecycle!ShardsOf, ShardsOf, tables
<1>6. ASSUME NEW c \in Sessions,
             FinishShardRow(c) \/ LockRun(c) \/ CountRemaining(c) \/ AggregateRun(c) \/ Abort(c)
      PROVE  UNCHANGED tables
  BY <1>6 DEF FinishShardRow, LockRun, CountRemaining, AggregateRun, Abort
<1>7. ASSUME NEW c \in Sessions, Commit(c)
      PROVE  /\ ShardAt(c) \in Shards
             /\ \/ Lifecycle!ReportShard(ShardAt(c))
                \/ Lifecycle!DeadLetterShard(ShardAt(c))
  <2> DEFINE s == ShardAt(c)
             r == RunAt(c)
  <2>1. /\ pc[c] = "commit" /\ s \in Shards /\ r \in Runs /\ r = RunOf[s]
        /\ shardStatus[s] \in Accepts(call[c].op) /\ shardStatus[s] \in ShardOpen
        /\ call[c].status \in ShardFinal
        /\ shardStatus' = [shardStatus EXCEPT ![s] = call[c].status]
        /\ shardResult' = [shardResult EXCEPT ![s] = call[c].result]
        /\ \/ /\ UNCHANGED <<runStatus, runResult>>
              /\ \/ runStatus[r] = "queued"
                 \/ \E t \in ShardsOf(r) : t # s /\ shardStatus'[t] \in ShardOpen
           \/ /\ runStatus[r] \in {"running", "cancelling"}
              /\ \A t \in ShardsOf(r) : shardStatus'[t] \in ShardFinal
              /\ runStatus' = [runStatus EXCEPT ![r] = Verdict(r, shardStatus')]
              /\ runResult' = [runResult EXCEPT ![r] = Merge(r, shardResult')]
    BY <1>7, CommitEffect
  <2>2. /\ Lifecycle!Verdict(r, shardStatus') = Verdict(r, shardStatus')
        /\ Lifecycle!Merge(r, shardResult') = Merge(r, shardResult')
        /\ Lifecycle!ShardsOf(r) = ShardsOf(r)
        /\ Lifecycle!ShardOpen = ShardOpen /\ Lifecycle!ShardFinal = ShardFinal
    BY DEF Lifecycle!Verdict, Verdict, Lifecycle!Merge, Merge, Lifecycle!ShardsOf, ShardsOf,
           Lifecycle!ShardOpen, ShardOpen, Lifecycle!ShardFinal, ShardFinal
  <2>3. \/ /\ call[c].op = "complete" /\ call[c].result \in Reports
           /\ ShardAt(c) \in assigned
        \/ /\ call[c].op = "fail" /\ call[c].status = "failed"
           /\ call[c].result = DeadLettered
    BY <2>1 DEF IInv, CallsWellFormed, InTransaction
  <2>4. call[c].result \in Reports => /\ shardStatus[s] = "running"
                                      /\ runStatus[r] # "queued"
    BY <2>1, <2>3, ResultAssumption DEF IInv, AssignedRunIsStarted, Accepts
  <2>5. IF (\A t \in ShardsOf(r) : shardStatus'[t] \in ShardFinal)
             /\ runStatus[r] \in {"running", "cancelling"}
          THEN /\ runStatus' = [runStatus EXCEPT ![r] = Verdict(r, shardStatus')]
               /\ runResult' = [runResult EXCEPT ![r] = Merge(r, shardResult')]
          ELSE UNCHANGED <<runStatus, runResult>>
    BY <2>1, StatusSets
  <2>6. Lifecycle!FinishShard(s, call[c].status, call[c].result)
    BY <2>1, <2>2, <2>4, <2>5 DEF Lifecycle!FinishShard, Lifecycle!EndsWithShards
  <2> QED
    BY <2>1, <2>2, <2>3, <2>6 DEF Lifecycle!ReportShard, Lifecycle!DeadLetterShard
<1>8. ASSUME UNCHANGED vars PROVE UNCHANGED tables
  BY <1>8 DEF vars
<1>9. ASSUME NEW c \in Sessions, Statement(c)
      PROVE  Lifecycle!Next \/ UNCHANGED tables
  <2>1. CASE ClaimShard(c)
    <3>1. ShardAt(c) \in Shards
      BY <2>1, RowsOfCall DEF ClaimShard, At, IInv
    <3> QED BY <2>1, <3>1, <1>4 DEF Lifecycle!Next
  <2>2. CASE MarkRunRunning(c)
    BY <2>2, <1>5 DEF Lifecycle!Next
  <2>3. CASE Commit(c)
    BY <2>3, <1>7 DEF Lifecycle!Next
  <2> QED BY <1>9, <1>6, <2>1, <2>2, <2>3 DEF Statement
<1> QED
  BY <1>1, <1>2, <1>3, <1>6, <1>8, <1>9 DEF Next, Lifecycle!Next

\* Seen from outside, through the committed rows, the interleaved statements of
\* startShard and finishShard are the atomic operations of RunLifecycle.
THEOREM StoreImplementsLifecycle == Spec => ImplementsLifecycle
<1>1. Init => Lifecycle!Init
  BY DEF Init, TablesInit, Lifecycle!Init, Lifecycle!TablesInit
<1>2. IInv /\ [Next]_vars => [Lifecycle!Next]_(Lifecycle!tables)
  BY StepRefines DEF Lifecycle!tables, tables
<1> QED BY <1>1, <1>2, StoreInvariant, PTL DEF Spec, ImplementsLifecycle, Lifecycle!Spec

-----------------------------------------------------------------------------
\* Action properties.

\* CancelRun is never undone: not by a worker that starts a shard of the run
\* late, and not by the barrier, which turns cancelling into cancelled only.
THEOREM StoreKeepsCancel == Spec => CancelIsKept
<1> DEFINE Kept == \A r \in Runs : runStatus[r] = "cancelling" =>
                      runStatus'[r] \in {"cancelling", "cancelled"}
<1>1. ASSUME IInv, [Next]_vars PROVE [Kept]_tables
  <2>1. CASE UNCHANGED tables
    BY <2>1
  <2>2. CASE Lifecycle!Next
    <3> USE DEF IInv, TypeOK, TablesTypeOK
    <3>1. ASSUME NEW r \in Runs, Lifecycle!Create(r) PROVE Kept
      BY <1>1, <3>1 DEF Lifecycle!Create, Lifecycle!InsertRun
    <3>2. ASSUME NEW r \in Runs, Lifecycle!RunStarts(r) PROVE Kept
      BY <1>1, <3>2 DEF Lifecycle!RunStarts
    <3>3. ASSUME NEW r \in Runs, Lifecycle!Cancel(r) PROVE Kept
      BY <1>1, <3>3 DEF Lifecycle!Cancel
    <3>4. ASSUME NEW s \in Shards, Lifecycle!ClaimShard(s) PROVE Kept
      BY <1>1, <3>4 DEF Lifecycle!ClaimShard
    <3>5. ASSUME NEW s \in Shards, NEW o, NEW p, Lifecycle!FinishShard(s, o, p) PROVE Kept
      <4>1. \/ UNCHANGED runStatus
            \/ runStatus' = [runStatus EXCEPT
                  ![RunOf[s]] = Lifecycle!Verdict(RunOf[s], shardStatus')]
        BY <3>5 DEF Lifecycle!FinishShard, Lifecycle!EndsWithShards
      <4>2. runStatus[RunOf[s]] = "cancelling" =>
              Lifecycle!Verdict(RunOf[s], shardStatus') = "cancelled"
        BY DEF Lifecycle!Verdict
      <4> QED BY <1>1, <4>1, <4>2
    <3> QED
      BY <2>2, <3>1, <3>2, <3>3, <3>4, <3>5
      DEF Lifecycle!Next, Lifecycle!ReportShard, Lifecycle!DeadLetterShard
  <2> QED BY <1>1, <2>1, <2>2, StepRefines
<1> QED BY <1>1, StoreInvariant, PTL DEF Spec, CancelIsKept

\* A late, repeated or stale call leaves a finished row as it is.
THEOREM StoreKeepsFinished == Spec => FinishedIsFinal
<1> DEFINE Kept == /\ \A s \in Shards : shardStatus[s] \in ShardFinal =>
                        shardStatus'[s] = shardStatus[s] /\ shardResult'[s] = shardResult[s]
                   /\ \A r \in Runs : runStatus[r] \in RunFinal =>
                        runStatus'[r] = runStatus[r] /\ runResult'[r] = runResult[r]
<1>1. ASSUME IInv, [Next]_vars PROVE [Kept]_tables
  <2>1. CASE UNCHANGED tables
    BY <2>1
  <2>2. CASE Lifecycle!Next
    <3> USE DEF IInv, TypeOK, TablesTypeOK, RunFinal
    <3>1. ASSUME NEW r \in Runs, Lifecycle!Create(r) PROVE Kept
      BY <1>1, <3>1, StatusSets DEF Lifecycle!Create, Lifecycle!InsertRun, RowsAgree
    <3>2. ASSUME NEW r \in Runs, Lifecycle!RunStarts(r) PROVE Kept
      BY <1>1, <3>2 DEF Lifecycle!RunStarts
    <3>3. ASSUME NEW r \in Runs, Lifecycle!Cancel(r) PROVE Kept
      BY <1>1, <3>3 DEF Lifecycle!Cancel
    <3>4. ASSUME NEW s \in Shards, Lifecycle!ClaimShard(s) PROVE Kept
      BY <1>1, <3>4 DEF Lifecycle!ClaimShard, ShardFinal
    <3>5. ASSUME NEW s \in Shards, NEW o, NEW p, Lifecycle!FinishShard(s, o, p) PROVE Kept
      <4>1. /\ shardStatus[s] \in {"queued", "running"}
            /\ shardStatus' = [shardStatus EXCEPT ![s] = o]
            /\ shardResult' = [shardResult EXCEPT ![s] = p]
            /\ \/ UNCHANGED <<runStatus, runResult>>
               \/ \E v, m : /\ runStatus[RunOf[s]] \in {"running", "cancelling"}
                            /\ runStatus' = [runStatus EXCEPT ![RunOf[s]] = v]
                            /\ runResult' = [runResult EXCEPT ![RunOf[s]] = m]
        BY <3>5 DEF Lifecycle!FinishShard, Lifecycle!EndsWithShards, Lifecycle!ShardOpen
      <4>2. \A t \in Shards : shardStatus[t] \in ShardFinal =>
              shardStatus'[t] = shardStatus[t] /\ shardResult'[t] = shardResult[t]
        BY <1>1, <4>1 DEF ShardFinal
      <4>3. \A r \in Runs : runStatus[r] \in RunFinal =>
              runStatus'[r] = runStatus[r] /\ runResult'[r] = runResult[r]
        BY <1>1, <4>1
      <4> QED BY <4>2, <4>3
    <3> QED
      BY <2>2, <3>1, <3>2, <3>3, <3>4, <3>5
      DEF Lifecycle!Next, Lifecycle!ReportShard, Lifecycle!DeadLetterShard
  <2> QED BY <1>1, <2>1, <2>2, StepRefines
<1> QED BY <1>1, StoreInvariant, PTL DEF Spec, FinishedIsFinal
=============================================================================
