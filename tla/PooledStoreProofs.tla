-------------------------- MODULE PooledStoreProofs --------------------------
(***************************************************************************)
(* Proofs about PooledStore, for every size of the pool and every number   *)
(* of requests: the pool changes when a request runs and never what it     *)
(* does, so all that ShardStoreProofs shows carries over; nobody holds a   *)
(* row while it waits for the pool; an answer of shardMiss is still true   *)
(* when it is given.                                                       *)
(***************************************************************************)
EXTENDS PooledStore, ShardStoreProofs, FiniteSetTheorems

-----------------------------------------------------------------------------
\* Every step of the pool is a step of ShardStore or leaves it alone.
LEMMA PoolStepIsStoreStep == [PoolNext]_pvars => [Next]_vars
<1> SUFFICES ASSUME [PoolNext]_pvars PROVE [Next]_vars
  OBVIOUS
<1>1. CASE UNCHANGED pvars
  BY <1>1 DEF pvars
<1>2. CASE Boot \/ Signal \/ Drained
  BY <1>2 DEF Boot, Signal, Drained
<1>3. CASE UserRequest
  BY <1>3 DEF UserRequest, Next
<1>4. ASSUME NEW c \in Sessions, Arrive(c) \/ GiveUp(c) \/ End(c) PROVE [Next]_vars
  BY <1>4 DEF Arrive, GiveUp, End, Next
<1>5. ASSUME NEW c \in Sessions, Progress(c) PROVE [Next]_vars
  BY <1>5 DEF Progress, Connect, Miss, Run, Next
<1> QED BY <1>1, <1>2, <1>3, <1>4, <1>5 DEF PoolNext

\* Requests on a pool of any size are requests of ShardStore, so its
\* invariants and its contract hold of the deployed backend too.
THEOREM PoolImplementsStore == PoolSpec => ImplementsStore
<1>1. PoolInit => Init
  BY DEF PoolInit
<1> QED BY <1>1, PoolStepIsStoreStep, PTL DEF PoolSpec, Spec, ImplementsStore

\* The deployed backend keeps the contract: however many requests share however few
\* connections, give up and are cut off by a shutdown, its rows only change as RunLifecycle
\* says (finishShard, startShard, CancelRun behind SetMaxOpenConns).
THEOREM PoolImplementsLifecycle == PoolSpec => ImplementsLifecycle
BY PoolImplementsStore, StoreImplementsLifecycle, PTL DEF ImplementsStore

-----------------------------------------------------------------------------
\* A session's own steps leave the others' requests alone.
LEMMA OthersKeepTheirCalls ==
    ASSUME TypeOK, NEW c \in Sessions, NEW d \in Sessions, c # d,
           Request(d) \/ Statement(d) \/ Abort(d)
    PROVE  pc'[c] = pc[c] /\ call'[c] = call[c]
<1> USE DEF TypeOK, Goto, Return
<1>1. CASE Request(d)
  BY <1>1 DEF Request, StartShard, TakeOverShard, CompleteShard, FailShard, Receive
<1>2. CASE Statement(d)
  <2>1. CASE ClaimShard(d) BY <2>1 DEF ClaimShard
  <2>2. CASE MarkRunRunning(d) BY <2>2 DEF MarkRunRunning
  <2>3. CASE FinishShardRow(d) BY <2>3 DEF FinishShardRow
  <2>4. CASE LockRun(d) BY <2>4 DEF LockRun
  <2>5. CASE CountRemaining(d) BY <2>5 DEF CountRemaining
  <2>6. CASE AggregateRun(d) BY <2>6 DEF AggregateRun
  <2>7. CASE Commit(d) BY <2>7 DEF Commit
  <2> QED BY <1>2, <2>1, <2>2, <2>3, <2>4, <2>5, <2>6, <2>7 DEF Statement
<1>3. CASE Abort(d)
  BY <1>3 DEF Abort
<1> QED BY <1>1, <1>2, <1>3

\* An existing shard only moves on: open to running, open to finished.
LEMMA ShardMovesOn ==
    ASSUME IInv, [Next]_vars, NEW s \in Shards, shardStatus[s] # "absent"
    PROVE  \/ shardStatus'[s] = shardStatus[s]
           \/ shardStatus[s] \in ShardOpen /\ shardStatus'[s] = "running"
           \/ shardStatus[s] \in ShardOpen /\ shardStatus'[s] \in ShardFinal
<1> USE DEF IInv, TypeOK, TablesTypeOK
<1>1. [Lifecycle!Next]_tables
  BY StepRefines
<1>2. CASE UNCHANGED tables
  BY <1>2 DEF tables
<1>3. ASSUME NEW r \in Runs, Lifecycle!Create(r) PROVE shardStatus'[s] = shardStatus[s]
  BY <1>3 DEF Lifecycle!Create, Lifecycle!InsertRun, RowsAgree
<1>4. ASSUME NEW r \in Runs, Lifecycle!RunStarts(r) \/ Lifecycle!Cancel(r)
      PROVE  shardStatus'[s] = shardStatus[s]
  BY <1>4 DEF Lifecycle!RunStarts, Lifecycle!Cancel
<1>5. ASSUME NEW t \in Shards, Lifecycle!ClaimShard(t)
      PROVE  \/ shardStatus'[s] = shardStatus[s]
             \/ shardStatus[s] \in ShardOpen /\ shardStatus'[s] = "running"
  BY <1>5 DEF Lifecycle!ClaimShard, ShardOpen, Lifecycle!ShardOpen
<1>6. ASSUME NEW t \in Shards, NEW o \in ShardFinal, NEW p, Lifecycle!FinishShard(t, o, p)
      PROVE  \/ shardStatus'[s] = shardStatus[s]
             \/ shardStatus[s] \in ShardOpen /\ shardStatus'[s] \in ShardFinal
  BY <1>6 DEF Lifecycle!FinishShard, Lifecycle!EndsWithShards, ShardOpen, Lifecycle!ShardOpen
<1> QED
  BY <1>1, <1>2, <1>3, <1>4, <1>5, <1>6
  DEF Lifecycle!Next, Lifecycle!ReportShard, Lifecycle!DeadLetterShard,
      Lifecycle!ShardFinal, ShardFinal

\* So a request that missed once would miss again.
LEMMA MissStays ==
    ASSUME IInv, [Next]_vars, NEW c \in Sessions, Misses(c),
           pc'[c] = pc[c], call'[c] = call[c]
    PROVE  Misses(c)'
<1>1. pc[c] # "idle" /\ ShardAt(c) \in Shards /\ call[c].op \in Ops
  BY RowsOfCall DEF IInv, Misses
<1>2. ShardAt(c)' = ShardAt(c)
  BY DEF ShardAt
<1>3. shardStatus[ShardAt(c)] # "absent"
  BY <1>1 DEF IInv, CallsWellFormed
<1>4. call[c].op = "complete" => shardStatus[ShardAt(c)] # "queued"
  BY <1>1, <1>3 DEF IInv, CallsWellFormed, RowsAgree, Misses
<1>5. \/ shardStatus'[ShardAt(c)] = shardStatus[ShardAt(c)]
      \/ shardStatus[ShardAt(c)] \in ShardOpen /\ shardStatus'[ShardAt(c)] = "running"
      \/ shardStatus[ShardAt(c)] \in ShardOpen /\ shardStatus'[ShardAt(c)] \in ShardFinal
  BY <1>1, <1>3, ShardMovesOn
<1>6. shardStatus'[ShardAt(c)] \notin Accepts(call[c].op)
  BY <1>1, <1>4, <1>5 DEF Misses, Accepts, Ops, ShardOpen, ShardFinal
<1> QED BY <1>2, <1>6 DEF Misses, Accepts

-----------------------------------------------------------------------------
\* Counting connections.

LEMMA OneMore ==
    ASSUME PoolTypeOK, NEW c \in Sessions
    PROVE  /\ IsFiniteSet(connected) /\ IsFiniteSet(second)
           /\ Cardinality(connected) \in Nat /\ Cardinality(second) \in Nat
           /\ Cardinality(connected \cup {c}) <= Cardinality(connected) + 1
           /\ Cardinality(second \cup {c}) <= Cardinality(second) + 1
           /\ Cardinality(connected \cup {c}) \in Nat
           /\ Cardinality(second \cup {c}) \in Nat
<1>1. IsFiniteSet(connected) /\ IsFiniteSet(second)
  BY SessionsAssumption, FS_Subset DEF PoolTypeOK
<1>2. Cardinality(connected) \in Nat /\ Cardinality(second) \in Nat
  BY <1>1, FS_CardinalityType
<1>3. Cardinality(connected \cup {c}) =
        IF c \in connected THEN Cardinality(connected) ELSE Cardinality(connected) + 1
  BY <1>1, FS_AddElement
<1>4. Cardinality(second \cup {c}) =
        IF c \in second THEN Cardinality(second) ELSE Cardinality(second) + 1
  BY <1>1, FS_AddElement
<1> QED BY <1>1, <1>2, <1>3, <1>4

\* Giving connections back keeps the pool within its size.
LEMMA FewerInUse ==
    ASSUME PoolTypeOK, connected' \subseteq connected, second' \subseteq second
    PROVE  InUse' <= PoolSize
<1>1. IsFiniteSet(connected) /\ IsFiniteSet(second)
  BY SessionsAssumption, FS_Subset DEF PoolTypeOK
<1>2. /\ Cardinality(connected') <= Cardinality(connected)
      /\ Cardinality(second') <= Cardinality(second)
      /\ Cardinality(connected) \in Nat /\ Cardinality(second) \in Nat
      /\ Cardinality(connected') \in Nat /\ Cardinality(second') \in Nat
  BY <1>1, FS_Subset, FS_CardinalityType
<1> QED BY <1>2, PoolSizeAssumption DEF PoolTypeOK, InUse

-----------------------------------------------------------------------------
LEMMA PoolInitInv == PoolInit => PoolInv
<1> SUFFICES ASSUME PoolInit PROVE PoolInv
  OBVIOUS
<1>1. InUse = 0
  BY FS_EmptySet DEF PoolInit, InUse
<1>2. PoolTypeOK
  BY <1>1, PoolSizeAssumption DEF PoolInit, PoolTypeOK
<1> QED BY <1>2 DEF PoolInit, Init, PoolInv, MissStaysTrue, Busy, At, InTransaction

\* A step that leaves the pool's own state and the sessions' places alone.
LEMMA SamePlaces ==
    ASSUME PoolInv, IInv, [Next]_vars, UNCHANGED <<pc, call, connected, second, missed>>,
           server' \in {"down", "serving", "draining"}
    PROVE  PoolInv'
<1>1. PoolTypeOK'
  BY FewerInUse DEF PoolInv, PoolTypeOK
<1>2. ASSUME NEW c \in missed PROVE Misses(c)'
  BY <1>2, MissStays DEF PoolInv, PoolTypeOK, MissStaysTrue
<1> QED BY <1>1, <1>2 DEF PoolInv, MissStaysTrue, Busy, At

\* The sessions other than d keep their part of PoolInv when d alone moves.
LEMMA OnlyOneMoves ==
    ASSUME PoolInv, IInv, [Next]_vars, NEW d \in Sessions, PoolTypeOK',
           \A c \in Sessions \ {d} :
              /\ pc'[c] = pc[c] /\ call'[c] = call[c]
              /\ c \in connected' <=> c \in connected
              /\ c \in second' <=> c \in second
              /\ c \in missed' <=> c \in missed,
           ~Busy(d)' => d \notin connected' \cup missed',
           pc'[d] \in InTransaction => d \in connected' /\ d \notin missed',
           d \in second' => At(d, "finish")' /\ d \in missed',
           d \in missed' => Misses(d)'
    PROVE  PoolInv'
<1>1. ASSUME NEW c \in missed' PROVE Misses(c)'
  <2>1. c \in Sessions
    BY <1>1 DEF PoolTypeOK
  <2>2. CASE c # d
    BY <1>1, <2>1, <2>2, MissStays DEF PoolInv, MissStaysTrue
  <2> QED BY <1>1, <2>2
<1>2. ASSUME NEW c \in Sessions
      PROVE  /\ ~Busy(c)' => c \notin connected' \cup missed'
             /\ pc'[c] \in InTransaction => c \in connected' /\ c \notin missed'
             /\ c \in second' => At(c, "finish")' /\ c \in missed'
  <2>1. CASE c # d
    BY <2>1 DEF PoolInv, Busy, At
  <2> QED BY <2>1
<1> QED BY <1>1, <1>2 DEF PoolInv, MissStaysTrue, Busy, At

LEMMA ArriveKeepsPool ==
    ASSUME PoolInv, IInv, [Next]_vars, NEW d \in Sessions, Arrive(d)
    PROVE  PoolInv'
<1>1. PoolTypeOK'
  BY FewerInUse DEF PoolInv, PoolTypeOK, Arrive, pool
<1>2. d \notin connected' \cup second' \cup missed'
  BY DEF Arrive, Request, StartShard, TakeOverShard, CompleteShard, FailShard,
         Receive, PoolInv, PoolTypeOK, Busy, pool
<1>3. pc'[d] \in {"claim", "finish"}
  BY DEF Arrive, Request, StartShard, TakeOverShard, CompleteShard, FailShard,
         Receive, Goto, IInv, TypeOK
<1>4. \A c \in Sessions \ {d} : pc'[c] = pc[c] /\ call'[c] = call[c]
  BY OthersKeepTheirCalls DEF Arrive, IInv
<1> QED
  BY <1>1, <1>2, <1>3, <1>4, OnlyOneMoves DEF Arrive, pool, InTransaction, Busy, At

LEMMA EndKeepsPool ==
    ASSUME PoolInv, IInv, [Next]_vars, NEW d \in Sessions, End(d)
    PROVE  PoolInv'
<1>1. PoolTypeOK'
  BY FewerInUse DEF PoolInv, PoolTypeOK, End
<1>2. pc'[d] = "idle"
  BY DEF End, Abort, Return, Goto, IInv, TypeOK
<1>3. \A c \in Sessions \ {d} : pc'[c] = pc[c] /\ call'[c] = call[c]
  BY OthersKeepTheirCalls DEF End, IInv
<1> QED BY <1>1, <1>2, <1>3, OnlyOneMoves DEF End, InTransaction, PoolInv, PoolTypeOK

LEMMA ConnectKeepsPool ==
    ASSUME PoolInv, IInv, [Next]_vars, NEW d \in Sessions, Connect(d)
    PROVE  PoolInv'
<1>1. InUse' <= PoolSize
  <2>0. Cardinality(connected) \in Nat /\ Cardinality(second) \in Nat
    BY OneMore DEF PoolInv
  <2>1. Cardinality(connected) + Cardinality(second) < PoolSize
    BY DEF Connect, Free, InUse
  <2>2. CASE d \in connected
    <3>1. second' = second \cup {d} /\ connected' = connected
      BY <2>2 DEF Connect
    <3>2. Cardinality(second') <= Cardinality(second) + 1
      BY <3>1, OneMore DEF PoolInv
    <3>3. Cardinality(second') \in Nat
      BY <3>1, OneMore DEF PoolInv
    <3> QED BY <2>1, <3>1, <3>2, <3>3, <2>0, PoolSizeAssumption DEF InUse
  <2>3. CASE d \notin connected
    <3>1. connected' = connected \cup {d} /\ second' = second
      BY <2>3 DEF Connect
    <3>2. Cardinality(connected') <= Cardinality(connected) + 1
      BY <3>1, OneMore DEF PoolInv
    <3>3. Cardinality(connected') \in Nat
      BY <3>1, OneMore DEF PoolInv
    <3> QED BY <2>1, <3>1, <3>2, <3>3, <2>0, PoolSizeAssumption DEF InUse
  <2> QED BY <2>2, <2>3
<1>2. PoolTypeOK'
  BY <1>1 DEF Connect, PoolInv, PoolTypeOK
<1>3. UNCHANGED <<pc, call>> /\ missed' = missed
  BY DEF Connect, vars, sessions
<1>4. d \in second' => At(d, "finish")' /\ d \in missed'
  BY <1>3 DEF Connect, Waits, NeedsSecond, At, PoolInv, PoolTypeOK
<1>5. d \in missed' => Misses(d)'
  BY <1>3, MissStays DEF PoolInv, MissStaysTrue
<1>6. d \in connected' /\ Busy(d)'
  BY <1>3 DEF Connect, Waits, Busy, At
<1> QED
  BY <1>2, <1>3, <1>4, <1>5, <1>6, OnlyOneMoves DEF Connect, PoolInv

LEMMA MissKeepsPool ==
    ASSUME PoolInv, IInv, [Next]_vars, NEW d \in Sessions, Miss(d)
    PROVE  PoolInv'
<1>1. UNCHANGED <<pc, call, shardStatus, second>>
  BY DEF Miss, vars, sessions, tables
<1>2. d \notin second
  BY DEF Miss, PoolInv
<1>3. PoolTypeOK'
  BY <1>2, FewerInUse DEF Miss, PoolInv, PoolTypeOK
<1>4. Misses(d)'
  BY <1>1, MissStays DEF Miss
<1>5. Busy(d)' /\ pc'[d] \notin InTransaction
  BY <1>1 DEF Miss, Misses, InTransaction, Busy, At
<1> QED
  BY <1>1, <1>2, <1>3, <1>4, <1>5, OnlyOneMoves DEF Miss, PoolInv

LEMMA RunKeepsPool ==
    ASSUME PoolInv, IInv, [Next]_vars, NEW d \in Sessions, Run(d)
    PROVE  PoolInv'
<1>1. d \in connected
  BY DEF Run, Waits
<1>2. pc'[d] \in InTransaction => d \notin second
  <2>1. CASE pc[d] \in InTransaction
    BY <2>1 DEF PoolInv, At, InTransaction
  <2>2. CASE ~(Misses(d) /\ At(d, "finish"))
    BY <2>2 DEF PoolInv, MissStaysTrue
  <2>3. ASSUME Misses(d), At(d, "finish") PROVE pc'[d] = "idle"
    BY <2>3 DEF Run, Statement, ClaimShard, MarkRunRunning, FinishShardRow, LockRun,
                CountRemaining, AggregateRun, Commit, At, Misses, Return, Goto,
                IInv, TypeOK
  <2> QED BY <2>2, <2>3 DEF InTransaction
<1>3. PoolTypeOK'
  BY <1>2, FewerInUse DEF Run, PoolInv, PoolTypeOK
<1>4. \A c \in Sessions \ {d} : pc'[c] = pc[c] /\ call'[c] = call[c]
  BY OthersKeepTheirCalls DEF Run, IInv
<1>5. ~Busy(d)' => d \notin connected' \cup missed'
  BY DEF Run, Busy, At, InTransaction
<1> QED
  BY <1>1, <1>2, <1>3, <1>4, <1>5, OnlyOneMoves DEF Run, PoolInv

\* One case per action.
LEMMA PoolNextInv == PoolInv /\ IInv /\ [PoolNext]_pvars => PoolInv'
<1> SUFFICES ASSUME PoolInv, IInv, [PoolNext]_pvars PROVE PoolInv'
  OBVIOUS
<1>1. [Next]_vars
  BY PoolStepIsStoreStep
<1>2. CASE UNCHANGED pvars
  BY <1>1, <1>2, SamePlaces DEF pvars, vars, sessions, pool, PoolInv, PoolTypeOK
<1>3. CASE Boot \/ Signal \/ Drained
  BY <1>1, <1>3, SamePlaces DEF Boot, Signal, Drained, vars, sessions, pool
<1>4. CASE UserRequest
  BY <1>1, <1>4, SamePlaces
  DEF UserRequest, CreateWithShards, CancelRun, sessions, pool, PoolInv, PoolTypeOK
<1>5. ASSUME NEW d \in Sessions, Arrive(d) PROVE PoolInv'
  BY <1>1, <1>5, ArriveKeepsPool
<1>6. ASSUME NEW d \in Sessions, GiveUp(d) \/ End(d) PROVE PoolInv'
  BY <1>1, <1>6, EndKeepsPool DEF GiveUp
<1>7. ASSUME NEW d \in Sessions, Progress(d) PROVE PoolInv'
  BY <1>1, <1>7, ConnectKeepsPool, MissKeepsPool, RunKeepsPool DEF Progress
<1> QED BY <1>2, <1>3, <1>4, <1>5, <1>6, <1>7 DEF PoolNext

\* The store's invariant and the pool's hold together.
THEOREM PoolInvariant == PoolSpec => [](IInv /\ PoolInv)
<1>1. PoolSpec => []IInv
  BY PoolImplementsStore, StoreInvariant, PTL DEF ImplementsStore
<1> QED BY <1>1, PoolInitInv, PoolNextInv, PTL DEF PoolSpec

\* The pool never opens more connections than its limit.
THEOREM PoolIsBounded == PoolSpec => []PoolTypeOK
<1>1. PoolInv => PoolTypeOK
  BY DEF PoolInv
<1> QED BY <1>1, PoolInvariant, PTL

\* A "done already" or "not this state" is still true when it is sent.
THEOREM AnswersStayTrue == PoolSpec => []MissStaysTrue
<1>1. PoolInv => MissStaysTrue
  BY DEF PoolInv
<1> QED BY <1>1, PoolInvariant, PTL

\* The pool and the row locks cannot wait for each other.
THEOREM WaitersHoldNoRow == PoolSpec => []NoLockWhileWaiting
<1>1. IInv /\ PoolInv => NoLockWhileWaiting
  BY DEF IInv, PoolInv, NoLockWhileWaiting, LocksMatchSteps, Waits, NeedsSecond, At,
         InTransaction, HoldsRun
<1> QED BY <1>1, PoolInvariant, PTL

\* The rows in the order of locking: a session waits only for one that is further on.
Height(step) ==
    CASE step \in {"claim", "finish"} -> 0
      [] step \in {"mark", "lock"}    -> 1
      [] OTHER                        -> 2

LEMMA RowWaits ==
    ASSUME IInv, PoolInv, NEW c \in Sessions, NEW d \in Sessions, WaitsForRow(c, d)
    PROVE  /\ Height(pc[c]) < Height(pc[d])
           /\ Busy(d) /\ ~Waits(d)
<1>1. \/ pc[c] \in {"claim", "finish"} /\ pc[d] \in InTransaction
      \/ pc[c] \in {"mark", "lock"} /\ pc[d] \in HoldsRun
  <2>1. /\ \A s \in Shards : shardLock[s] = d => pc[d] \in InTransaction
        /\ \A r \in Runs : runLock[r] = d => pc[d] \in HoldsRun
    BY DEF IInv, LocksMatchSteps
  <2>2. pc[c] # "idle" => ShardAt(c) \in Shards /\ RunAt(c) \in Runs
    BY RunOfAssumption DEF IInv, TypeOK, Calls, ShardAt, RunAt
  <2> QED  BY <2>1, <2>2 DEF WaitsForRow, At
<1>2. pc[d] \in InTransaction
  BY <1>1 DEF InTransaction, HoldsRun
<1>3. d \in connected /\ d \notin missed
  BY <1>2 DEF PoolInv
<1> QED  BY <1>1, <1>2, <1>3 DEF Height, InTransaction, HoldsRun, Busy, Waits, NeedsSecond, At

\* Requests on the same rows cannot end up waiting for each other: the holder of a run
\* row waits for nothing, the holder of a shard row at most for a run row, and only the
\* pool can hold up everybody (finishShard, startShard, shardMiss).
THEOREM StoreNeverStuck == PoolSpec => []NeverStuck
<1>1. ASSUME IInv, PoolInv, NoLockWhileWaiting PROVE NeverStuck
  <2>1. CASE \A c \in Sessions : Busy(c) => Waits(c)
    <3>1. ASSUME NEW s \in Shards PROVE shardLock[s] = NoSession
      <4>1. shardLock[s] \in Sessions \cup {NoSession}
        BY <1>1 DEF IInv, TypeOK
      <4>2. ASSUME NEW c \in Sessions, shardLock[s] = c PROVE FALSE
        <5>1. Busy(c)
          BY <1>1, <4>2 DEF IInv, LocksMatchSteps, InTransaction, Busy, At
        <5> QED  BY <1>1, <2>1, <4>2, <5>1 DEF NoLockWhileWaiting
      <4> QED  BY <4>1, <4>2
    <3>2. ASSUME NEW r \in Runs PROVE runLock[r] = NoSession
      <4>1. runLock[r] \in Sessions \cup {NoSession}
        BY <1>1 DEF IInv, TypeOK
      <4>2. ASSUME NEW c \in Sessions, runLock[r] = c PROVE FALSE
        <5>1. Busy(c)
          BY <1>1, <4>2 DEF IInv, LocksMatchSteps, HoldsRun, Busy, At
        <5> QED  BY <1>1, <2>1, <4>2, <5>1 DEF NoLockWhileWaiting
      <4> QED  BY <4>1, <4>2
    <3> QED  BY <2>1, <3>1, <3>2 DEF NeverStuck, GoesOn, Idle
  <2>2. ASSUME NEW c \in Sessions, Busy(c), ~Waits(c)
        PROVE  \E d \in Sessions : GoesOn(d)
    <3>1. CASE GoesOn(c)
      BY <3>1
    <3>2. CASE ~GoesOn(c)
      <4>1. PICK d \in Sessions : WaitsForRow(c, d)
        BY <2>2, <3>2 DEF GoesOn
      <4>2. Height(pc[c]) < Height(pc[d]) /\ Busy(d) /\ ~Waits(d)
        BY <1>1, <4>1, RowWaits
      <4>3. CASE ~GoesOn(d)
        <5>1. PICK e \in Sessions : WaitsForRow(d, e)
          BY <4>2, <4>3 DEF GoesOn
        <5>2. Height(pc[d]) < Height(pc[e]) /\ Busy(e) /\ ~Waits(e)
          BY <1>1, <5>1, RowWaits
        <5>3. Height(pc[e]) = 2
          BY <4>2, <5>2 DEF Height
        <5>4. \A x \in Sessions : ~WaitsForRow(e, x)
          <6>1. ASSUME NEW x \in Sessions, WaitsForRow(e, x) PROVE FALSE
            <7>1. Height(pc[e]) < Height(pc[x])
              BY <1>1, <6>1, RowWaits
            <7> QED  BY <5>3, <7>1 DEF Height
          <6> QED  BY <6>1
        <5> QED  BY <5>2, <5>4 DEF GoesOn
      <4> QED  BY <4>3
    <3> QED  BY <3>1, <3>2
  <2> QED  BY <2>1, <2>2 DEF NeverStuck
<1> QED  BY <1>1, PoolInvariant, WaitersHoldNoRow, PTL
=============================================================================
