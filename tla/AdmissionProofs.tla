--------------------------- MODULE AdmissionProofs ---------------------------
(***************************************************************************)
(* How far the cap of concurrent runs can be passed, for any cap and any   *)
(* number of requests in flight, what the shards of a run add up to, and   *)
(* what a run that holds a slot of the cap waits for.                      *)
(***************************************************************************)
EXTENDS Admission, SumTheorems, SequenceTheorems

\* Both sets of CapInv are finite, in every state and its successor.
LEMMA Finite ==
    /\ IsFiniteSet(Active) /\ IsFiniteSet(Creating) /\ IsFiniteSet(Active') /\ IsFiniteSet(Creating')
    /\ Cardinality(Active) \in Nat /\ Cardinality(Creating) \in Nat
    /\ Cardinality(Active') \in Nat /\ Cardinality(Creating') \in Nat
    /\ Cardinality(Clients) \in Nat /\ Cardinality(Creating') <= Cardinality(Clients)
    /\ MaxConcurrentRuns \in Nat
<1>1. /\ Active \subseteq Runs /\ Active' \subseteq Runs
      /\ Creating \subseteq Clients /\ Creating' \subseteq Clients
  BY DEF Active, Creating
<1>2. IsFiniteSet(Runs) /\ IsFiniteSet(Clients) /\ MaxConcurrentRuns \in Nat
  BY AdmissionConstants
<1> QED  BY <1>1, <1>2, FS_Subset, FS_CardinalityType

\* A step that adds to neither set keeps the invariant.
LEMMA NoneAdded ==
    ASSUME CapInv,
           pc' \in [Clients -> {"idle", "count", "create", "publish"}],
           status' \in [Runs -> {"absent"} \cup ActiveStatuses \cup Final],
           Active' \subseteq Active, Creating' \subseteq Creating
    PROVE  CapInv'
<1>1. /\ Cardinality(Active') <= Cardinality(Active)
      /\ Cardinality(Creating') <= Cardinality(Creating)
  BY Finite, FS_Subset
<1> QED  BY <1>1, Finite DEF CapInv

\* A request that passes the count saw room for one more run.
LEMMA CountInv == ASSUME CapInv, NEW c \in Clients, CountActiveRuns(c) PROVE CapInv'
<1>1. CASE Cardinality(Active) >= MaxConcurrentRuns
  <2>1. pc' = [pc EXCEPT ![c] = "idle"] /\ UNCHANGED status
    BY <1>1 DEF CountActiveRuns, Return, Goto, runs
  <2> QED  BY <2>1, NoneAdded DEF CapInv, Active, Creating
<1>2. CASE ~(Cardinality(Active) >= MaxConcurrentRuns)
  <2>1. pc' = [pc EXCEPT ![c] = "create"] /\ UNCHANGED status
    BY <1>2 DEF CountActiveRuns, Goto, runs
  <2>2. Active' = Active
    BY <2>1 DEF Active
  <2>3. Cardinality(Active) + 1 <= MaxConcurrentRuns
    BY <1>2, Finite
  <2> QED  BY <2>1, <2>2, <2>3, Finite DEF CapInv
<1> QED  BY <1>1, <1>2

\* The insert turns the request's slot into its run's.
LEMMA CreateInv == ASSUME CapInv, NEW c \in Clients, CreateWithShards(c) PROVE CapInv'
<1>1. PICK r \in Runs : status[r] = "absent" /\ status' = [status EXCEPT ![r] = "queued"]
  BY DEF CreateWithShards
<1>2. pc[c] = "create" /\ pc' = [pc EXCEPT ![c] = "publish"]
  BY DEF CreateWithShards, At, Goto
<1>3. Active' = Active \cup {r} /\ r \notin Active
  BY <1>1 DEF CapInv, Active, ActiveStatuses
<1>4. Creating' = Creating \ {c} /\ c \in Creating
  BY <1>2 DEF CapInv, Creating
<1>5. Cardinality(Active') = Cardinality(Active) + 1
  BY <1>3, Finite, FS_AddElement
<1>6. Cardinality(Creating') = Cardinality(Creating) - 1
  BY <1>4, Finite, FS_RemoveElement
<1>7. /\ pc' \in [Clients -> {"idle", "count", "create", "publish"}]
      /\ status' \in [Runs -> {"absent"} \cup ActiveStatuses \cup Final]
  BY <1>1, <1>2 DEF CapInv, ActiveStatuses
<1> QED  BY <1>5, <1>6, <1>7, Finite DEF CapInv

LEMMA CapInit == Init => CapInv
<1> SUFFICES ASSUME Init PROVE CapInv
  OBVIOUS
<1>1. Active = {} /\ Creating = {}
  BY DEF Init, Active, Creating, ActiveStatuses
<1>2. Cardinality(Clients) >= 1
  BY AdmissionConstants, FS_EmptySet, FS_CardinalityType
<1> QED  BY <1>1, <1>2, Finite, FS_EmptySet DEF Init, CapInv

\* What the steps of the workers do to the status of a run.
StatusStep(r) ==
    /\ status' = [status EXCEPT ![r] = status'[r]]
    /\ \/ status'[r] = status[r]
       \/ status[r] = "queued" /\ status'[r] = "running"
       \/ status[r] \in ActiveStatuses /\ status'[r] \in Final

LEMMA FinishStep ==
    ASSUME status \in [Runs -> {"absent"} \cup ActiveStatuses \cup Final],
           NEW r \in Runs, NEW i, NEW how, FinishShard(r, i, how)
    PROVE  UNCHANGED pc /\ StatusStep(r)
<1> DEFINE rows == [shard[r] EXCEPT ![i] = how]
           new == IF \A j \in DOMAIN rows : rows[j] \in ShardFinal
                    THEN AggregateRun(status[r], rows) ELSE status[r]
<1>1. status' = [status EXCEPT ![r] = new] /\ UNCHANGED pc
  BY DEF FinishShard, requests
<1>2. \/ new = status[r]
      \/ status[r] \in ActiveStatuses /\ new \in Final
  BY DEF AggregateRun, Verdict, ActiveStatuses, Final
<1> HIDE DEF new
<1> QED  BY <1>1, <1>2 DEF StatusStep

LEMMA WorkSteps ==
    ASSUME status \in [Runs -> {"absent"} \cup ActiveStatuses \cup Final],
           NEW r \in Runs, Work(r) \/ FailShard(r) \/ AckOpenShard(r)
    PROVE  UNCHANGED pc /\ StatusStep(r)
<1>1. CASE StartShard(r) \/ AckOpenShard(r)
  <2>1. UNCHANGED <<pc, status>>
    BY <1>1 DEF StartShard, AckOpenShard, requests
  <2> QED  BY <2>1 DEF StatusStep
<1>2. CASE MarkRunRunning(r)
  BY <1>2 DEF MarkRunRunning, StatusStep, requests
<1>3. CASE CompleteShard(r) \/ FailShard(r)
  BY <1>3, FinishStep DEF CompleteShard, FailShard
<1> QED  BY <1>1, <1>2, <1>3 DEF Work

LEMMA CapNext == CapInv /\ [Next]_vars => CapInv'
<1> SUFFICES ASSUME CapInv, [Next]_vars PROVE CapInv'
  OBVIOUS
<1> USE DEF CapInv
<1>1. ASSUME NEW c \in Clients, Submit(c) PROVE CapInv'
  <2>1. CASE MaxConcurrentRuns > 0
    <3>1. pc' = [pc EXCEPT ![c] = "count"] /\ UNCHANGED status
      BY <1>1, <2>1 DEF Submit, Goto, runs
    <3> QED  BY <3>1, NoneAdded DEF Active, Creating
  <2>2. CASE ~(MaxConcurrentRuns > 0)
    <3>1. pc' = [pc EXCEPT ![c] = "create"] /\ UNCHANGED status
      BY <1>1, <2>2 DEF Submit, Goto, runs
    <3> QED  BY <3>1, <2>2
  <2> QED  BY <2>1, <2>2
<1>2. ASSUME NEW c \in Clients, CountActiveRuns(c) PROVE CapInv'
  BY <1>2, CountInv
<1>3. ASSUME NEW c \in Clients, CreateWithShards(c) PROVE CapInv'
  BY <1>3, CreateInv
<1>4. ASSUME NEW c \in Clients, PublishShard(c) PROVE CapInv'
  BY <1>4, NoneAdded DEF PublishShard, requests, Active, Creating
<1>5. ASSUME NEW c \in Clients, RespondCreated(c) \/ RequestEnds(c) PROVE CapInv'
  <2>1. pc' = [pc EXCEPT ![c] = "idle"] /\ UNCHANGED status
    BY <1>5 DEF RespondCreated, RequestEnds, Return, Goto, runs
  <2> QED  BY <2>1, NoneAdded DEF Active, Creating
<1>6. ASSUME NEW r \in Runs, CancelRun(r) PROVE CapInv'
  <2>1. /\ status' = [status EXCEPT ![r] = "cancelling"] /\ UNCHANGED pc
        /\ status[r] \in {"queued", "running"}
    BY <1>6 DEF CancelRun, requests
  <2> QED  BY <2>1, NoneAdded DEF Active, Creating, ActiveStatuses
\* What workers do to the status of a run keeps an active run active or ends it.
<1>7. ASSUME NEW r \in Runs, Work(r) \/ FailShard(r) \/ AckOpenShard(r) PROVE CapInv'
  <2>1. UNCHANGED pc /\ StatusStep(r)
    BY <1>7, WorkSteps
  <2> QED  BY <2>1, NoneAdded DEF StatusStep, Active, Creating, ActiveStatuses, Final
<1>8. CASE UNCHANGED vars
  BY <1>8, NoneAdded DEF vars, requests, runs, Active, Creating
<1> QED  BY <1>1, <1>2, <1>3, <1>4, <1>5, <1>6, <1>7, <1>8 DEF Next, Handle

\* CreateTestRun: whoever is about to insert a run was counted with fewer active
\* runs than the cap, for every cap and every number of requests.
THEOREM AdmissionInvariant == Spec => []CapInv
  BY CapInit, CapNext, PTL DEF Spec

\* Between the count and the insert of a request others may insert too, so the
\* cap of CreateTestRun is passed by at most the number of requests in flight
\* less one, for every cap and every number of requests.
THEOREM AdmissionBounded == Spec => []CapOvershoot
<1>1. CapInv => CapOvershoot
  BY Finite DEF CapInv, CapOvershoot
<1> QED  BY <1>1, CapInit, CapNext, PTL DEF Spec

-----------------------------------------------------------------------------
\* Shares of a valid request: every shard has a user, none more than the limit.
LEMMA SplitBounds ==
    ASSUME NEW total \in Nat, NEW n \in Nat, n >= 1, n <= total, total <= MaxVirtualUsers,
           NEW i \in 1 .. n
    PROVE  SplitVUs(total, n)[i] \in 1 .. MaxVirtualUsers
<1> DEFINE q == total \div n
           m == total % n
<1>1. q \in Int /\ m \in 0 .. n - 1 /\ total = n * q + m
  OBVIOUS
<1>2. SplitVUs(total, n)[i] = q + IF i - 1 < m THEN 1 ELSE 0
  BY DEF SplitVUs
<1> HIDE DEF q, m
<1>3. q >= 1
  <2>1. CASE q <= 0
    <3>1. n * q <= 0
      BY <1>1, <2>1
    <3> QED  BY <1>1, <3>1
  <2> QED  BY <1>1, <2>1
<1>4. n * q >= q
  BY <1>1, <1>3
<1>5. q + m <= total
  BY <1>1, <1>4
<1> QED  BY <1>1, <1>2, <1>3, <1>5, AdmissionConstants

LEMMA TypeInit == Init => TypeOK
BY AdmissionConstants
   DEF Init, TypeOK, RequestsTypeOK, RunsTypeOK, Messages, ActiveStatuses, Final, Form

LEMMA TypeNext == TypeOK /\ [Next]_vars => TypeOK'
<1> SUFFICES ASSUME TypeOK, [Next]_vars PROVE TypeOK'
  OBVIOUS
<1>1. ASSUME UNCHANGED runs, RequestsTypeOK' PROVE TypeOK'
  BY <1>1 DEF runs, TypeOK, RunsTypeOK
<1>2. ASSUME NEW c \in Clients, Return(c) PROVE RequestsTypeOK'
  BY <1>2, AdmissionConstants DEF Return, Goto, TypeOK, RequestsTypeOK
<1>3. ASSUME NEW c \in Clients, Submit(c) PROVE TypeOK'
  <2>1. PICK f \in Forms : /\ Valid(Normalized(f))
                           /\ form' = [form EXCEPT ![c] = Normalized(f)]
    BY <1>3 DEF Submit
  <2>2. Normalized(f) \in Form
    BY AdmissionConstants DEF Normalized, Form
  <2>3. /\ pc[c] = "idle" /\ UNCHANGED made /\ UNCHANGED runs
        /\ pc' = [pc EXCEPT ![c] = IF MaxConcurrentRuns > 0 THEN "count" ELSE "create"]
    BY <1>3 DEF Submit, At, Goto
  <2>4. /\ Normalized(f).virtualUsers <= MaxVirtualUsers
        /\ Normalized(f).shards \in 1 .. MaxShards
        /\ Normalized(f).shards <= Normalized(f).virtualUsers
    BY <2>1, <2>2, AdmissionConstants DEF Valid, Form
  <2> HIDE DEF Normalized
  <2>5. RequestsTypeOK'
    BY <2>1, <2>2, <2>3, <2>4 DEF TypeOK, RequestsTypeOK
  <2> QED  BY <1>1, <2>3, <2>5
<1>4. ASSUME NEW c \in Clients, CountActiveRuns(c) PROVE TypeOK'
  <2>1. CASE Goto(c, "create") /\ UNCHANGED <<form, made>> /\ pc[c] = "count"
    BY <1>1, <1>4, <2>1 DEF CountActiveRuns, Goto, TypeOK, RequestsTypeOK
  <2> QED  BY <1>1, <1>2, <1>4, <2>1 DEF CountActiveRuns, At
<1>5. ASSUME NEW c \in Clients, CreateWithShards(c) PROVE TypeOK'
  <2> DEFINE f == form[c]
             sent == [i \in 1 .. f.shards |-> "unsent"]
             rows == [i \in 1 .. f.shards |-> "queued"]
             split == SplitVUs(f.virtualUsers, f.shards)
  <2>1. PICK r \in Runs :
           /\ status[r] = "absent"
           /\ status' = [status EXCEPT ![r] = "queued"]
           /\ asked' = [asked EXCEPT ![r] = f]
           /\ vus' = [vus EXCEPT ![r] = split]
           /\ message' = [message EXCEPT ![r] = sent]
           /\ shard' = [shard EXCEPT ![r] = rows]
           /\ made' = [made EXCEPT ![c] = r]
    BY <1>5 DEF CreateWithShards
  <2>2. pc[c] = "create" /\ pc' = [pc EXCEPT ![c] = "publish"] /\ UNCHANGED form
    BY <1>5 DEF CreateWithShards, At, Goto
  <2>3. /\ f \in Form /\ f.virtualUsers \in Nat /\ f.shards \in Nat
        /\ f.virtualUsers <= MaxVirtualUsers
        /\ f.shards \in 1 .. MaxShards /\ f.shards <= f.virtualUsers
    BY <2>2, AdmissionConstants DEF TypeOK, RequestsTypeOK, Form
  <2>4. /\ split \in Seq(1 .. MaxVirtualUsers) /\ Len(split) = f.shards
        /\ DOMAIN split = 1 .. f.shards
    <3>1. \A i \in 1 .. f.shards : split[i] \in 1 .. MaxVirtualUsers
      BY <2>3, SplitBounds
    <3>2. DOMAIN split = 1 .. f.shards /\ split = [i \in 1 .. f.shards |-> split[i]]
      BY DEF SplitVUs
    <3>3. f.shards \in Nat
      BY <2>3
    <3>4. split \in [1 .. f.shards -> 1 .. MaxVirtualUsers]
      BY <3>1, <3>2
    <3> HIDE DEF split, f
    <3>5. split \in Seq(1 .. MaxVirtualUsers)
      BY <3>3, <3>4, SeqDef
    <3> QED  BY <3>3, <3>4, <3>5, LenProperties
  <2>5. /\ sent \in Seq(Messages) /\ Len(sent) = f.shards
        /\ rows \in Seq(ShardOpen \cup ShardFinal) /\ Len(rows) = f.shards
    BY <2>3 DEF Messages, ShardOpen
  <2> HIDE DEF f, sent, split, rows
  <2>6. RequestsTypeOK'
    BY <2>1, <2>2, AdmissionConstants DEF TypeOK, RequestsTypeOK
  <2>7. RunsTypeOK'
    <3>2. /\ status' \in [Runs -> {"absent"} \cup ActiveStatuses \cup Final]
          /\ asked' \in [Runs -> Form \cup {NoForm}]
          /\ vus' \in [Runs -> Seq(1 .. MaxVirtualUsers)]
          /\ message' \in [Runs -> Seq(Messages)]
          /\ shard' \in [Runs -> Seq(ShardOpen \cup ShardFinal)]
      BY <2>1, <2>2, <2>3, <2>4, <2>5 DEF TypeOK, RunsTypeOK, ActiveStatuses
    <3>3. /\ status'[r] = "queued" /\ vus'[r] = split /\ message'[r] = sent
          /\ shard'[r] = rows
          /\ \A x \in Runs \ {r} : /\ status'[x] = status[x] /\ vus'[x] = vus[x]
                                   /\ message'[x] = message[x] /\ shard'[x] = shard[x]
      BY <2>1, <2>2 DEF TypeOK, RunsTypeOK
    <3> QED  BY <2>3, <2>4, <2>5, <3>2, <3>3 DEF TypeOK, RunsTypeOK
  <2> QED  BY <2>6, <2>7 DEF TypeOK
\* Sent or lost, a shard keeps its place.
<1>6. ASSUME NEW r \in Runs, NEW new \in Seq(Messages), Len(new) = Len(message[r]),
             message' = [message EXCEPT ![r] = new], UNCHANGED <<status, asked, vus, shard>>,
             RequestsTypeOK'
      PROVE  TypeOK'
  BY <1>6 DEF TypeOK, RunsTypeOK
<1>7. ASSUME NEW c \in Clients, PublishShard(c) PROVE TypeOK'
  <2>1. made[c] \in Runs
    BY <1>7 DEF PublishShard, At, TypeOK, RequestsTypeOK
  <2>2. PICK i \in DOMAIN message[made[c]], fate \in {"sent", "lost"} :
               message' = [message EXCEPT ![made[c]] = [@ EXCEPT ![i] = fate]]
    BY <1>7 DEF PublishShard, Unsent
  <2>3. message[made[c]] \in Seq(Messages)
    BY <2>1 DEF TypeOK, RunsTypeOK
  <2>4. /\ [message[made[c]] EXCEPT ![i] = fate] \in Seq(Messages)
        /\ Len([message[made[c]] EXCEPT ![i] = fate]) = Len(message[made[c]])
    BY <2>3, <2>2 DEF Messages
  <2>5. RequestsTypeOK' /\ UNCHANGED <<status, asked, vus, shard>>
    BY <1>7 DEF PublishShard, requests, TypeOK, RequestsTypeOK
  <2>6. message' = [message EXCEPT ![made[c]] = [message[made[c]] EXCEPT ![i] = fate]]
    BY <2>2
  <2> QED  BY <1>6, <2>1, <2>4, <2>5, <2>6
<1>8. ASSUME NEW c \in Clients, RespondCreated(c) PROVE TypeOK'
  BY <1>1, <1>2, <1>8 DEF RespondCreated
<1>9. ASSUME NEW c \in Clients, RequestEnds(c) PROVE TypeOK'
  <2>1. RequestsTypeOK' /\ UNCHANGED <<status, asked, vus, shard>>
    BY <1>2, <1>9 DEF RequestEnds
  <2>2. CASE pc[c] = "publish"
    <3> DEFINE old == message[made[c]]
               new == [i \in DOMAIN old |-> IF old[i] = "unsent" THEN "lost" ELSE old[i]]
    <3>1. made[c] \in Runs
      BY <2>2 DEF TypeOK, RequestsTypeOK
    <3>2. message' = [message EXCEPT ![made[c]] = new]
      BY <1>9, <2>2 DEF RequestEnds, At
    <3>3. old \in Seq(Messages)
      BY <3>1 DEF TypeOK, RunsTypeOK
    <3>4. new \in Seq(Messages) /\ Len(new) = Len(old)
      <4>1. Len(old) \in Nat /\ DOMAIN old = 1 .. Len(old)
            /\ \A i \in 1 .. Len(old) : old[i] \in Messages
        BY <3>3
      <4> HIDE DEF old
      <4> QED  BY <4>1 DEF Messages
    <3> QED  BY <1>6, <2>1, <3>1, <3>2, <3>4
  <2>3. CASE pc[c] # "publish"
    <3>1. UNCHANGED runs
      BY <1>9, <2>1, <2>3 DEF RequestEnds, At, runs
    <3> QED  BY <1>1, <2>1, <3>1
  <2> QED  BY <2>2, <2>3
<1>10. ASSUME NEW r \in Runs, CancelRun(r) PROVE TypeOK'
  BY <1>10 DEF CancelRun, requests, TypeOK, RequestsTypeOK, RunsTypeOK, ActiveStatuses
\* A row keeps its place, too.
<1>11. ASSUME NEW r \in Runs, StatusStep(r), UNCHANGED <<requests, asked, vus, message>>,
              NEW rows \in Seq(ShardOpen \cup ShardFinal), Len(rows) = Len(shard[r]),
              Len(rows) > 0, shard' = [shard EXCEPT ![r] = rows]
       PROVE  TypeOK'
  <2>1. status[r] # "absent"
    BY <1>11 DEF TypeOK, RunsTypeOK
  <2>2. /\ status'[r] # "absent" /\ status'[r] \in ActiveStatuses \cup Final
        /\ status' \in [Runs -> {"absent"} \cup ActiveStatuses \cup Final]
        /\ \A x \in Runs \ {r} : status'[x] = status[x]
    <3>1. status'[r] \in ActiveStatuses \cup Final
      BY <1>11, <2>1 DEF StatusStep, TypeOK, RunsTypeOK, ActiveStatuses
    <3> QED  BY <1>11, <3>1 DEF StatusStep, TypeOK, RunsTypeOK, ActiveStatuses, Final
  <2>3. RequestsTypeOK'
    BY <1>11 DEF requests, TypeOK, RequestsTypeOK
  <2> QED  BY <1>11, <2>1, <2>2, <2>3 DEF TypeOK, RunsTypeOK
<1>12. ASSUME NEW r \in Runs, NEW i \in DOMAIN shard[r], NEW how \in ShardOpen \cup ShardFinal,
              StatusStep(r), UNCHANGED <<requests, asked, vus, message>>,
              shard' = [shard EXCEPT ![r] = [shard[r] EXCEPT ![i] = how]]
       PROVE  TypeOK'
  <2>1. shard[r] \in Seq(ShardOpen \cup ShardFinal)
    BY DEF TypeOK, RunsTypeOK
  <2>2. /\ [shard[r] EXCEPT ![i] = how] \in Seq(ShardOpen \cup ShardFinal)
        /\ Len([shard[r] EXCEPT ![i] = how]) = Len(shard[r])
        /\ Len(shard[r]) > 0
    BY <2>1, <1>12
  <2> QED  BY <1>11, <1>12, <2>2
<1>13. ASSUME NEW r \in Runs, Work(r) \/ FailShard(r) \/ AckOpenShard(r) PROVE TypeOK'
  <2>1. StatusStep(r) /\ DOMAIN message[r] = DOMAIN shard[r]
    BY <1>13, WorkSteps DEF TypeOK, RunsTypeOK
  <2>2. CASE StartShard(r)
    <3>1. PICK i \in Published(r) :
             shard' = [shard EXCEPT ![r] = [shard[r] EXCEPT ![i] = "running"]]
      BY <2>2 DEF StartShard
    <3> QED  BY <1>12, <2>1, <2>2, <3>1 DEF StartShard, Published, ShardOpen
  <2>3. CASE MarkRunRunning(r)
    BY <2>3 DEF MarkRunRunning, requests, TypeOK, RequestsTypeOK, RunsTypeOK, ActiveStatuses
  <2>4. CASE CompleteShard(r) \/ FailShard(r)
    <3>1. PICK i \in DOMAIN shard[r], how \in ShardFinal : FinishShard(r, i, how)
      BY <2>1, <2>4 DEF CompleteShard, FailShard, Published, ShardFinal
    <3> QED  BY <1>12, <2>1, <3>1 DEF FinishShard
  <2>5. CASE AckOpenShard(r)
    <3>1. PICK i \in DOMAIN message[r] :
             message' = [message EXCEPT ![r] = [message[r] EXCEPT ![i] = "acked"]]
      BY <2>5 DEF AckOpenShard
    <3>2. message[r] \in Seq(Messages)
      BY DEF TypeOK, RunsTypeOK
    <3>3. /\ [message[r] EXCEPT ![i] = "acked"] \in Seq(Messages)
          /\ Len([message[r] EXCEPT ![i] = "acked"]) = Len(message[r])
      BY <3>2 DEF Messages
    <3>4. RequestsTypeOK' /\ UNCHANGED <<status, asked, vus, shard>>
      BY <2>5 DEF AckOpenShard, requests, TypeOK, RequestsTypeOK
    <3> QED  BY <1>6, <3>1, <3>3, <3>4
  <2> QED  BY <1>13, <2>2, <2>3, <2>4, <2>5 DEF Work
<1>14. CASE UNCHANGED vars
  BY <1>14 DEF vars, requests, runs, TypeOK, RequestsTypeOK, RunsTypeOK
<1> QED  BY <1>3, <1>4, <1>5, <1>7, <1>8, <1>9, <1>10, <1>13, <1>14 DEF Next, Handle

\* CreateTestRun: whatever clients send, a request that gets past validateCreate has
\* numbers within the limits, and every shard it makes has a user and none too many.
THEOREM AdmissionTypeOK == Spec => []TypeOK
  BY TypeInit, TypeNext, PTL DEF Spec

-----------------------------------------------------------------------------
\* What a run waits for.

\* What WaitInv says of one run.
Waits(r) ==
    /\ status[r] \in Final => NoneOpen(r)
    /\ (status[r] \in ActiveStatuses /\ NoneOpen(r)) =>
          \A i \in DOMAIN shard[r] : shard[r][i] = "failed"
    /\ \A i \in DOMAIN shard[r] :
          /\ shard[r][i] = "completed" => status[r] # "queued"
          /\ shard[r][i] # "queued" => i \in Published(r)
Sender(r) == Unsent(r) # {} => \E c \in Clients : At(c, "publish") /\ made[c] = r

LEMMA WaitParts ==
    /\ WaitInv <=> \A r \in Runs : Waits(r) /\ Sender(r)
    /\ WaitInv' <=> \A r \in Runs : Waits(r)' /\ Sender(r)'
  BY DEF WaitInv, Waits, Sender

\* Rows that stay as they are may have more published shards.
LEMMA WaitsOn ==
    ASSUME NEW r \in Runs, Waits(r), status'[r] = status[r], shard'[r] = shard[r],
           \A i \in DOMAIN shard[r] : i \in Published(r) => i \in Published(r)'
    PROVE  Waits(r)'
  BY DEF Waits, NoneOpen

\* The barrier: the last shard to end ends its run, unless nothing has marked the run.
LEMMA WaitFinish ==
    ASSUME TypeOK, NEW r \in Runs, Waits(r), NEW i \in DOMAIN shard[r], i \in Published(r),
           shard[r][i] \in ShardOpen, NEW how \in ShardFinal,
           status[r] = "queued" => how = "failed", FinishShard(r, i, how)
    PROVE  Waits(r)'
<1> DEFINE rows == [shard[r] EXCEPT ![i] = how]
<1>1. /\ shard'[r] = rows /\ message' = message
      /\ status'[r] = IF \A j \in DOMAIN rows : rows[j] \in ShardFinal
                        THEN AggregateRun(status[r], rows) ELSE status[r]
  BY DEF FinishShard, TypeOK, RunsTypeOK
<1>2. /\ DOMAIN rows = DOMAIN shard[r] /\ rows[i] = how
      /\ \A j \in DOMAIN shard[r] : j # i => rows[j] = shard[r][j]
  OBVIOUS
<1>3. status[r] \in ActiveStatuses
  <2>1. ~NoneOpen(r)
    BY DEF NoneOpen, ShardOpen, ShardFinal
  <2>2. status[r] # "absent"
    <3>1. DOMAIN shard[r] = 1 .. Len(shard[r]) /\ Len(shard[r]) = Len(vus[r])
      BY DEF TypeOK, RunsTypeOK
    <3>2. SUFFICES ASSUME status[r] = "absent" PROVE FALSE
      OBVIOUS
    <3>3. Len(shard[r]) = 0
      BY <3>1, <3>2 DEF TypeOK, RunsTypeOK
    <3> QED  BY <3>1, <3>3
  <2> QED  BY <2>1, <2>2 DEF Waits, TypeOK, RunsTypeOK
<1>4. NoneOpen(r)' <=> \A j \in DOMAIN rows : rows[j] \in ShardFinal
  BY <1>1 DEF NoneOpen
<1>5. \A j \in DOMAIN rows : rows[j] # "queued" => j \in Published(r)'
  BY <1>1, <1>2 DEF Waits, Published
<1> HIDE DEF rows
<1>6. CASE (\A j \in DOMAIN rows : rows[j] \in ShardFinal) /\ status[r] # "queued"
  <2>1. status'[r] \in Final
    BY <1>1, <1>3, <1>6 DEF AggregateRun, Verdict, ActiveStatuses, Final
  <2> QED  BY <1>1, <1>4, <1>5, <1>6, <2>1 DEF Waits, ActiveStatuses, Final
<1>7. CASE (\A j \in DOMAIN rows : rows[j] \in ShardFinal) /\ status[r] = "queued"
  <2>1. status'[r] = "queued"
    BY <1>1, <1>7 DEF AggregateRun
  <2>2. \A j \in DOMAIN rows : rows[j] = "failed"
    BY <1>2, <1>7 DEF Waits, ShardFinal
  <2> QED  BY <1>1, <1>5, <2>1, <2>2 DEF Waits, Final
<1>8. CASE ~(\A j \in DOMAIN rows : rows[j] \in ShardFinal)
  <2>1. status'[r] = status[r] /\ status[r] \notin Final
    BY <1>1, <1>3, <1>8 DEF ActiveStatuses, Final
  <2>2. \A j \in DOMAIN rows : rows[j] = "completed" => status[r] # "queued"
    BY <1>2 DEF Waits
  <2> QED  BY <1>1, <1>4, <1>5, <1>8, <2>1, <2>2 DEF Waits
<1> QED  BY <1>6, <1>7, <1>8

\* What one step of the workers does to its run.
LEMMA WaitWork ==
    ASSUME TypeOK, NEW r \in Runs, Waits(r), Work(r) \/ FailShard(r) \/ AckOpenShard(r)
    PROVE  Waits(r)'
<1>1. DOMAIN message[r] = DOMAIN shard[r]
  BY DEF TypeOK, RunsTypeOK
<1>2. CASE StartShard(r)
  <2>1. PICK i \in Published(r) :
           /\ shard[r][i] = "queued" /\ message' = message /\ status' = status
           /\ shard' = [shard EXCEPT ![r][i] = "running"]
    BY <1>2 DEF StartShard
  <2>2. /\ i \in DOMAIN shard'[r] /\ shard'[r][i] = "running"
        /\ DOMAIN shard'[r] = DOMAIN shard[r]
        /\ \A j \in DOMAIN shard[r] : j # i => shard'[r][j] = shard[r][j]
    BY <1>1, <2>1 DEF Published, TypeOK, RunsTypeOK
  <2>3. ~NoneOpen(r) /\ ~NoneOpen(r)' /\ Published(r)' = Published(r)
    BY <1>1, <2>1, <2>2 DEF NoneOpen, ShardFinal, Published
  <2> QED  BY <2>1, <2>2, <2>3 DEF Waits
<1>3. CASE MarkRunRunning(r)
  <2>1. PICK i \in DOMAIN shard[r] : shard[r][i] = "running"
    BY <1>3 DEF MarkRunRunning
  <2>2. status'[r] = "running" /\ shard' = shard /\ message' = message
    BY <1>3 DEF MarkRunRunning, TypeOK, RunsTypeOK
  <2>3. ~NoneOpen(r)' /\ Published(r)' = Published(r)
    BY <2>1, <2>2 DEF NoneOpen, ShardFinal, Published
  <2> QED  BY <2>2, <2>3 DEF Waits, Final
<1>4. CASE CompleteShard(r)
  <2>1. PICK i \in DOMAIN shard[r], how \in ShardFinal :
           shard[r][i] = "running" /\ FinishShard(r, i, how)
    BY <1>4 DEF CompleteShard
  <2>2. status[r] # "queued" /\ i \in Published(r) /\ shard[r][i] \in ShardOpen
    BY <1>4, <2>1 DEF CompleteShard, Waits, ShardOpen
  <2> QED  BY <2>1, <2>2, WaitFinish
<1>5. CASE FailShard(r)
  <2>1. PICK i \in Published(r) : shard[r][i] \in ShardOpen /\ FinishShard(r, i, "failed")
    BY <1>5 DEF FailShard
  <2>2. i \in DOMAIN shard[r] /\ "failed" \in ShardFinal
    BY <1>1, <2>1 DEF Published, ShardFinal
  <2> QED  BY <2>1, <2>2, WaitFinish
<1>6. CASE AckOpenShard(r)
  <2>1. PICK i \in DOMAIN message[r] : message' = [message EXCEPT ![r][i] = "acked"]
    BY <1>6 DEF AckOpenShard
  <2>2. \A j \in Published(r) : j \in Published(r)'
    BY <2>1 DEF Published, TypeOK, RunsTypeOK
  <2>3. status' = status /\ shard' = shard
    BY <1>6 DEF AckOpenShard
  <2> QED  BY <2>2, <2>3, WaitsOn
<1> QED  BY <1>2, <1>3, <1>4, <1>5, <1>6 DEF Work

\* What is still to be sent stays to be sent, or is sent, whatever the workers do; and
\* no run but the worker's is touched.
LEMMA WorkKeeps ==
    ASSUME TypeOK, NEW r \in Runs, Work(r) \/ FailShard(r) \/ AckOpenShard(r)
    PROVE  /\ UNCHANGED requests
           /\ \A x \in Runs : Unsent(x)' = Unsent(x)
           /\ \A x \in Runs \ {r} : /\ status'[x] = status[x] /\ shard'[x] = shard[x]
                                    /\ message'[x] = message[x]
<1>1. CASE Work(r) \/ FailShard(r)
  <2>1. UNCHANGED <<requests, message>>
    BY <1>1 DEF Work, StartShard, MarkRunRunning, CompleteShard, FailShard, FinishShard
  <2>2. \A x \in Runs \ {r} : status'[x] = status[x]
    BY <1>1, WorkSteps DEF StatusStep, TypeOK, RunsTypeOK
  <2>3. \A x \in Runs \ {r} : shard'[x] = shard[x]
    BY <1>1 DEF Work, StartShard, MarkRunRunning, CompleteShard, FailShard, FinishShard,
                TypeOK, RunsTypeOK
  <2> QED  BY <2>1, <2>2, <2>3 DEF Unsent
<1>2. CASE AckOpenShard(r)
  <2>1. PICK i \in DOMAIN message[r] :
           /\ message[r][i] = "sent" /\ message' = [message EXCEPT ![r][i] = "acked"]
           /\ UNCHANGED <<requests, status, shard>>
    BY <1>2 DEF AckOpenShard
  <2>2. \A x \in Runs \ {r} : message'[x] = message[x]
    BY <2>1 DEF TypeOK, RunsTypeOK
  <2>3. Unsent(r)' = Unsent(r)
    BY <2>1 DEF Unsent, TypeOK, RunsTypeOK
  <2> QED  BY <2>1, <2>2, <2>3 DEF Unsent
<1> QED  BY <1>1, <1>2

LEMMA WaitNext == TypeOK /\ WaitInv /\ [Next]_vars => WaitInv'
<1> SUFFICES ASSUME TypeOK, WaitInv, [Next]_vars PROVE WaitInv'
  OBVIOUS
<1>0. \A r \in Runs : Waits(r) /\ Sender(r)
  BY WaitParts
<1>a. ASSUME UNCHANGED runs PROVE \A r \in Runs : Waits(r)' /\ Unsent(r)' = Unsent(r)
  BY <1>0, <1>a, WaitsOn DEF runs, Published, Unsent
\* A request may go once it has nothing to send.
<1>1. ASSUME NEW c \in Clients, Return(c), UNCHANGED runs, At(c, "publish") => Unsent(made[c]) = {}
      PROVE  WaitInv'
  <2>1. \A r \in Runs : Sender(r)'
    BY <1>0, <1>a, <1>1 DEF Sender, Return, Goto, At, TypeOK, RequestsTypeOK
  <2> QED  BY <1>1, <1>a, <2>1, WaitParts
<1>2. ASSUME NEW c \in Clients, UNCHANGED <<made, runs>>, ~At(c, "publish"),
             \E next \in {"count", "create"} : Goto(c, next)
      PROVE  WaitInv'
  <2>1. \A r \in Runs : Sender(r)'
    BY <1>0, <1>a, <1>2 DEF Sender, Goto, At, TypeOK, RequestsTypeOK
  <2> QED  BY <1>2, <1>a, <2>1, WaitParts
<1>3. ASSUME NEW c \in Clients, Submit(c) PROVE WaitInv'
  BY <1>2, <1>3 DEF Submit, At
<1>4. ASSUME NEW c \in Clients, CountActiveRuns(c) PROVE WaitInv'
  BY <1>1, <1>2, <1>4 DEF CountActiveRuns, At
<1>5. ASSUME NEW c \in Clients, CreateWithShards(c) PROVE WaitInv'
  <2>1. PICK r \in Runs :
           /\ status[r] = "absent"
           /\ status' = [status EXCEPT ![r] = "queued"]
           /\ message' = [message EXCEPT ![r] = [i \in 1 .. form[c].shards |-> "unsent"]]
           /\ shard' = [shard EXCEPT ![r] = [i \in 1 .. form[c].shards |-> "queued"]]
           /\ made' = [made EXCEPT ![c] = r]
    BY <1>5 DEF CreateWithShards
  <2>2. pc[c] = "create" /\ pc' = [pc EXCEPT ![c] = "publish"]
    BY <1>5 DEF CreateWithShards, At, Goto
  <2>3. Waits(r)'
    <3>1. /\ status'[r] = "queued" /\ shard'[r] = [i \in 1 .. form[c].shards |-> "queued"]
          /\ 1 \in DOMAIN shard'[r]
      <4>1. form[c].shards \in 1 .. MaxShards
        BY <2>2 DEF TypeOK, RequestsTypeOK
      <4>2. 1 \in 1 .. form[c].shards
        BY <4>1, AdmissionConstants
      <4> QED  BY <2>1, <4>2 DEF TypeOK, RunsTypeOK
    <3>2. shard'[r][1] = "queued" /\ ~NoneOpen(r)'
      BY <3>1 DEF NoneOpen, ShardFinal
    <3>3. \A i \in DOMAIN shard'[r] : shard'[r][i] = "queued"
      BY <3>1
    <3> QED  BY <3>1, <3>2, <3>3 DEF Waits, Final
  <2>4. Sender(r)'
    BY <2>1, <2>2 DEF Sender, At, TypeOK, RequestsTypeOK
  <2>5. ASSUME NEW x \in Runs, x # r PROVE Waits(x)' /\ Sender(x)'
    <3>1. /\ status'[x] = status[x] /\ message'[x] = message[x] /\ shard'[x] = shard[x]
      BY <2>1, <2>5 DEF TypeOK, RunsTypeOK
    <3>2. Waits(x)'
      BY <1>0, <3>1, WaitsOn DEF Published
    <3>3. Sender(x)'
      BY <1>0, <2>1, <2>2, <3>1 DEF Sender, Unsent, At, TypeOK, RequestsTypeOK
    <3> QED  BY <3>2, <3>3
  <2> QED  BY <2>3, <2>4, <2>5, WaitParts
\* Messages that were sent stay sent.
<1>6. ASSUME NEW x \in Runs, UNCHANGED <<status, shard>>,
             \A r \in Runs : r # x => message'[r] = message[r],
             DOMAIN message'[x] = DOMAIN message[x],
             \A i \in DOMAIN message[x] : message[x][i] \in {"sent", "acked"} =>
                                             message'[x][i] = message[x][i]
      PROVE  \A r \in Runs : Waits(r)'
  <2>1. \A r \in Runs : \A i \in Published(r) : i \in Published(r)'
    BY <1>6 DEF Published
  <2> QED  BY <1>0, <1>6, <2>1, WaitsOn
<1>7. ASSUME NEW c \in Clients, PublishShard(c) PROVE WaitInv'
  <2> DEFINE x == made[c]
  <2>1. x \in Runs /\ pc[c] = "publish" /\ UNCHANGED <<requests, status, shard>>
    BY <1>7 DEF PublishShard, At, TypeOK, RequestsTypeOK
  <2>2. PICK i \in Unsent(x), fate \in {"sent", "lost"} :
               message' = [message EXCEPT ![x][i] = fate]
    BY <1>7 DEF PublishShard
  <2>3. \A r \in Runs : r # x => message'[r] = message[r]
    BY <2>1, <2>2 DEF TypeOK, RunsTypeOK
  <2>4. /\ DOMAIN message'[x] = DOMAIN message[x]
        /\ \A j \in DOMAIN message[x] : message[x][j] \in {"sent", "acked"} =>
                                           message'[x][j] = message[x][j]
    <3>1. message[x][i] = "unsent"
      BY <2>2 DEF Unsent
    <3>2. /\ DOMAIN message'[x] = DOMAIN message[x]
          /\ \A j \in DOMAIN message[x] : j # i => message'[x][j] = message[x][j]
      BY <2>1, <2>2 DEF TypeOK, RunsTypeOK
    <3> QED  BY <3>1, <3>2
  <2>5. \A r \in Runs : Waits(r)'
    BY <1>6, <2>1, <2>3, <2>4
  <2>6. \A r \in Runs : Sender(r)'
    <3>1. \A r \in Runs : r # x => Unsent(r)' = Unsent(r)
      BY <2>3 DEF Unsent
    <3>2. At(c, "publish")' /\ made'[c] = x
      BY <2>1 DEF requests, At
    <3> QED  BY <1>0, <2>1, <3>1, <3>2 DEF Sender, requests, At
  <2> QED  BY <2>5, <2>6, WaitParts
<1>8. ASSUME NEW c \in Clients, RespondCreated(c) PROVE WaitInv'
  BY <1>1, <1>8 DEF RespondCreated
<1>9. ASSUME NEW c \in Clients, RequestEnds(c) PROVE WaitInv'
  <2>1. CASE ~At(c, "publish")
    BY <1>1, <1>9, <2>1 DEF RequestEnds, runs
  <2>2. CASE At(c, "publish")
    <3> PICK x : x = made[c]
      OBVIOUS
    <3>1. x \in Runs /\ UNCHANGED <<status, shard>> /\ Return(c)
      BY <1>9, <2>2 DEF RequestEnds, At, TypeOK, RequestsTypeOK
    <3>2. message' = [message EXCEPT ![x] =
                        [i \in DOMAIN @ |-> IF @[i] = "unsent" THEN "lost" ELSE @[i]]]
      BY <1>9, <2>2 DEF RequestEnds
    <3>3. /\ \A r \in Runs : r # x => message'[r] = message[r]
          /\ message'[x] = [i \in DOMAIN message[x] |->
                               IF message[x][i] = "unsent" THEN "lost" ELSE message[x][i]]
      BY <3>1, <3>2 DEF TypeOK, RunsTypeOK
    <3>4. \A r \in Runs : Waits(r)'
      BY <1>6, <3>1, <3>3
    <3>5. Unsent(x)' = {}
      BY <3>3 DEF Unsent
    <3>6. \A r \in Runs : r # x => Unsent(r)' = Unsent(r)
      BY <3>3 DEF Unsent
    <3>7. \A d \in Clients : d # c => pc'[d] = pc[d] /\ made'[d] = made[d]
      BY <3>1 DEF Return, Goto, TypeOK, RequestsTypeOK
    <3>8. \A r \in Runs : Sender(r)'
      BY <1>0, <3>5, <3>6, <3>7 DEF Sender, At
    <3> QED  BY <3>4, <3>8, WaitParts
  <2> QED  BY <2>1, <2>2
<1>10. ASSUME NEW r \in Runs, CancelRun(r) PROVE WaitInv'
  <2>1. /\ status[r] \in {"queued", "running"}
        /\ \A x \in Runs : status'[x] = IF x = r THEN "cancelling" ELSE status[x]
        /\ UNCHANGED <<requests, message, shard>>
    BY <1>10 DEF CancelRun, TypeOK, RunsTypeOK
  <2>2. Waits(r)'
    <3>1. Waits(r) /\ Published(r)' = Published(r)
      BY <1>0, <2>1 DEF Published
    <3> QED  BY <2>1, <3>1 DEF Waits, NoneOpen, ActiveStatuses, Final
  <2>3. \A x \in Runs : Waits(x)'
    BY <1>0, <2>1, <2>2, WaitsOn DEF Published
  <2>4. \A x \in Runs : Sender(x)'
    BY <1>0, <2>1 DEF Sender, requests, Unsent, At
  <2> QED  BY <2>3, <2>4, WaitParts
<1>11. ASSUME NEW r \in Runs, Work(r) \/ FailShard(r) \/ AckOpenShard(r) PROVE WaitInv'
  <2>1. /\ UNCHANGED requests
        /\ \A x \in Runs : Unsent(x)' = Unsent(x)
        /\ \A x \in Runs \ {r} : /\ status'[x] = status[x] /\ shard'[x] = shard[x]
                                 /\ message'[x] = message[x]
    BY <1>11, WorkKeeps
  <2>2. Waits(r)'
    BY <1>0, <1>11, WaitWork
  <2>3. \A x \in Runs : Waits(x)'
    BY <1>0, <2>1, <2>2, WaitsOn DEF Published
  <2>4. \A x \in Runs : Sender(x)'
    BY <1>0, <2>1 DEF Sender, requests, At
  <2> QED  BY <2>3, <2>4, WaitParts
<1>12. CASE UNCHANGED vars
  <2>1. UNCHANGED runs /\ UNCHANGED requests
    BY <1>12 DEF vars
  <2>2. \A x \in Runs : Sender(x)'
    BY <1>0, <1>a, <2>1 DEF Sender, requests, At
  <2> QED  BY <1>a, <2>1, <2>2, WaitParts
<1> QED  BY <1>3, <1>4, <1>5, <1>7, <1>8, <1>9, <1>10, <1>11, <1>12 DEF Next, Handle

\* Requests, rows, messages and runs agree, and the barrier passes by only runs whose
\* shards were all dead-lettered, for every cap, number of creations, form and set of
\* runs in trouble (CreateTestRun, finishShard, deadLetter).
THEOREM AdmissionKeepsInv == Spec => []AdmissionInv
<1>1. Init => WaitInv
  BY DEF Init, WaitInv, NoneOpen, ActiveStatuses, Final, Unsent
<1>2. TypeOK /\ CapInv /\ WaitInv => AdmissionInv
  BY DEF AdmissionInv
<1> QED  BY <1>1, <1>2, WaitNext, AdmissionTypeOK, AdmissionInvariant, PTL DEF Spec

\* Why a run holds a slot of the cap, with every way the code can leave it there, and
\* that none gives it up early: for every cap, number of creations, form and set of runs
\* in trouble (CountActiveRuns, finishShard, deadLetter, handleMessage).
THEOREM AdmissionAccountsForSlots == Spec => []SlotsAreAccountedFor
<1>1. ASSUME AdmissionInv PROVE SlotsAreAccountedFor
  <2>1. ASSUME NEW r \in Runs
        PROVE  /\ DOMAIN message[r] = DOMAIN shard[r] /\ Waits(r) /\ Sender(r)
               /\ \A i \in DOMAIN shard[r] : /\ message[r][i] \in Messages
                                             /\ shard[r][i] \in ShardOpen \cup ShardFinal
    BY <1>1, WaitParts DEF AdmissionInv, TypeOK, RunsTypeOK
  <2>2. ASSUME NEW r \in Active, ~(\A i \in DOMAIN shard[r] : shard[r][i] = "failed")
        PROVE  \/ OpenWith(r, "sent")
               \/ OpenWith(r, "unsent") /\ \E c \in Clients : At(c, "publish") /\ made[c] = r
               \/ OpenWith(r, "lost")
               \/ OpenWith(r, "acked")
    <3>1. PICK i \in DOMAIN shard[r] : shard[r][i] \in ShardOpen
      BY <2>1, <2>2 DEF Waits, NoneOpen, Active
    <3>2. CASE message[r][i] = "unsent"
      BY <2>1, <3>1, <3>2 DEF Sender, Unsent, OpenWith, Active
    <3> QED  BY <2>1, <3>1, <3>2 DEF OpenWith, Messages, Active
  <2>3. ASSUME NEW r \in Runs, status[r] \in Final
        PROVE  \A i \in DOMAIN shard[r] : shard[r][i] \in ShardFinal /\ i \in Published(r)
    BY <2>1, <2>3 DEF Waits, NoneOpen, ShardFinal
  <2> QED  BY <2>2, <2>3 DEF SlotsAreAccountedFor
<1> QED  BY <1>1, AdmissionKeepsInv, PTL

-----------------------------------------------------------------------------
\* splitVUs gives out all users: n quotients, and one more for each of the first
\* total % n shards.
LEMMA SplitSum ==
    ASSUME NEW total \in Nat, NEW n \in Nat, n >= 1
    PROVE  SumFunctionOnSet(SplitVUs(total, n), 1 .. n) = total
<1> DEFINE q == total \div n
           m == total % n
           even == [i \in 1 .. n |-> q]
           extra == [i \in 1 .. n |-> IF i - 1 < m THEN 1 ELSE 0]
           split == SplitVUs(total, n)
           B == (1 .. n) \ (1 .. m)
<1>1. q \in Int /\ m \in 0 .. n - 1 /\ total = n * q + m
  OBVIOUS
<1>2. \A i \in 1 .. n : split[i] = even[i] + extra[i]
  BY DEF SplitVUs
<1> HIDE DEF q, m, split
<1>3. /\ \A i \in 1 .. n : even[i] \in Int /\ extra[i] \in Int /\ even[i] = q
      /\ \A i \in 1 .. m : extra[i] = 1
      /\ \A i \in B : extra[i] = 0
  BY <1>1
<1>4. /\ 1 .. n = (1 .. m) \cup B /\ (1 .. m) \cap B = {} /\ 1 \in Int /\ n \in Int /\ m \in Int
      /\ n >= 1 /\ 1 .. m \subseteq 1 .. n
  BY <1>1
<1>5. /\ IsFiniteSet(1 .. n) /\ IsFiniteSet(1 .. m) /\ IsFiniteSet(B)
      /\ Cardinality(1 .. n) = n /\ Cardinality(1 .. m) = m
  BY <1>1, <1>4, FS_Interval, FS_Subset
<1> HIDE DEF even, extra, B
<1>6. SumFunctionOnSet(split, 1 .. n)
        = SumFunctionOnSet(even, 1 .. n) + SumFunctionOnSet(extra, 1 .. n)
  BY <1>2, <1>3, <1>5, SumPlus
<1>7. SumFunctionOnSet(even, 1 .. n) = q * n
  BY <1>1, <1>3, <1>5, SumConstant
<1>8. SumFunctionOnSet(extra, 1 .. m) = m
  BY <1>3, <1>5, SumOnes
<1>9. SumFunctionOnSet(extra, B) = 0
  <2>1. Cardinality(B) \in Nat /\ SumFunctionOnSet(extra, B) = 0 * Cardinality(B)
    BY <1>3, <1>5, SumConstant, FS_CardinalityType
  <2> QED  BY <2>1
<1>10. SumFunctionOnSet(extra, 1 .. n)
         = SumFunctionOnSet(extra, 1 .. m) + SumFunctionOnSet(extra, B)
  <2>1. \A i \in (1 .. m) \cup B : extra[i] \in Int
    BY <1>3, <1>4
  <2>2. SumFunctionOnSet(extra, (1 .. m) \cup B)
          = SumFunctionOnSet(extra, 1 .. m) + SumFunctionOnSet(extra, B)
    BY <1>4, <1>5, <2>1, SumUnion
  <2> QED  BY <1>4, <2>2
<1>11. q * n + (m + 0) = total
  BY <1>1
<1> QED  BY <1>6, <1>7, <1>8, <1>9, <1>10, <1>11 DEF split

\* The shares of a valid request, as they are in a row of the run.
Covers(split, f) ==
    /\ Len(split) = f.shards
    /\ SumFunction(split) = f.virtualUsers
    /\ \A i, j \in DOMAIN split : split[i] >= 1 /\ split[i] <= split[j] + 1

LEMMA SplitCovers ==
    ASSUME NEW f \in Form, f.virtualUsers <= MaxVirtualUsers,
           f.shards >= 1, f.shards <= f.virtualUsers
    PROVE  Covers(SplitVUs(f.virtualUsers, f.shards), f)
<1> DEFINE n == f.shards
           total == f.virtualUsers
           split == SplitVUs(total, n)
<1>1. n \in Nat /\ total \in Nat /\ n >= 1 /\ n <= total
  BY DEF Form
<1>2. DOMAIN split = 1 .. n /\ split = [i \in 1 .. n |-> split[i]]
  BY DEF SplitVUs
<1>3. \A i \in 1 .. n : split[i] \in 1 .. MaxVirtualUsers
  BY <1>1, SplitBounds
<1>4. \A i, j \in 1 .. n : split[i] <= split[j] + 1
  <2> DEFINE q == total \div n
             m == total % n
  <2>1. \A i \in 1 .. n : split[i] = q + IF i - 1 < m THEN 1 ELSE 0
    BY DEF SplitVUs
  <2>2. q \in Int
    BY <1>1
  <2> HIDE DEF q, m, split, n
  <2> QED  BY <2>1, <2>2
<1>5. SumFunctionOnSet(split, 1 .. n) = total
  BY <1>1, SplitSum
<1>6. Len(split) = n
  <2> HIDE DEF split, n, total
  <2>1. split \in [1 .. n -> 1 .. MaxVirtualUsers]
    BY <1>2, <1>3
  <2>2. split \in Seq(1 .. MaxVirtualUsers)
    BY <1>1, <2>1, SeqDef
  <2> QED  BY <1>1, <1>2, <2>2, LenProperties
<1>7. \A i \in 1 .. n : split[i] >= 1
  <2> HIDE DEF split, n
  <2> QED  BY <1>3, AdmissionConstants
<1> HIDE DEF split
<1>8. SumFunction(split) = total
  BY <1>2, <1>5 DEF SumFunction
<1> QED  BY <1>2, <1>4, <1>6, <1>7, <1>8 DEF Covers, split

\* No step but the insert touches the shares.
LEMMA CoverNext == TypeOK /\ ShardsCoverUsers /\ [Next]_vars => ShardsCoverUsers'
<1> SUFFICES ASSUME TypeOK, ShardsCoverUsers, [Next]_vars PROVE ShardsCoverUsers'
  OBVIOUS
<1>a. \A r \in Runs : status[r] # "absent" => Covers(vus[r], asked[r])
  BY DEF ShardsCoverUsers, Covers
<1>b. SUFFICES \A r \in Runs : status'[r] # "absent" => Covers(vus'[r], asked'[r])
  BY DEF ShardsCoverUsers, Covers
<1>1. ASSUME UNCHANGED runs
      PROVE  \A r \in Runs : status'[r] # "absent" => Covers(vus'[r], asked'[r])
  BY <1>1, <1>a DEF runs
<1>2. ASSUME NEW c \in Clients,
             \/ Submit(c) \/ CountActiveRuns(c) \/ RespondCreated(c)
      PROVE  UNCHANGED runs
  BY <1>2 DEF Submit, CountActiveRuns, RespondCreated
<1>3. ASSUME NEW c \in Clients, CreateWithShards(c), NEW r \in Runs, status'[r] # "absent"
      PROVE  Covers(vus'[r], asked'[r])
  <2>1. PICK x \in Runs :
           /\ status' = [status EXCEPT ![x] = "queued"]
           /\ asked' = [asked EXCEPT ![x] = form[c]]
           /\ vus' = [vus EXCEPT ![x] = SplitVUs(form[c].virtualUsers, form[c].shards)]
    BY <1>3 DEF CreateWithShards
  <2>2. CASE r = x
    <3>1. /\ vus'[r] = SplitVUs(form[c].virtualUsers, form[c].shards)
          /\ asked'[r] = form[c]
      BY <2>1, <2>2 DEF TypeOK, RunsTypeOK
    <3>2. /\ form[c] \in Form /\ form[c].virtualUsers <= MaxVirtualUsers
          /\ form[c].shards >= 1 /\ form[c].shards <= form[c].virtualUsers
      BY <1>3, AdmissionConstants DEF CreateWithShards, At, TypeOK, RequestsTypeOK
    <3> QED  BY <3>1, <3>2, SplitCovers
  <2>3. CASE r # x
    <3>1. status'[r] = status[r] /\ asked'[r] = asked[r] /\ vus'[r] = vus[r]
      BY <2>1, <2>3 DEF TypeOK, RunsTypeOK
    <3> QED  BY <1>3, <1>a, <3>1
  <2> QED  BY <2>2, <2>3
<1>4. ASSUME NEW c \in Clients, PublishShard(c) \/ RequestEnds(c)
      PROVE  UNCHANGED <<status, asked, vus>>
  BY <1>4 DEF PublishShard, RequestEnds
<1>5. ASSUME NEW x \in Runs, CancelRun(x) \/ Work(x) \/ FailShard(x) \/ AckOpenShard(x)
      PROVE  /\ UNCHANGED <<asked, vus>>
             /\ \A r \in Runs : status[r] = "absent" => status'[r] = "absent"
  <2>1. UNCHANGED <<asked, vus>>
    BY <1>5 DEF CancelRun, Work, StartShard, MarkRunRunning, CompleteShard, FailShard,
                FinishShard, AckOpenShard
  <2>2. CASE CancelRun(x)
    BY <2>1, <2>2 DEF CancelRun, TypeOK, RunsTypeOK
  <2>3. CASE ~CancelRun(x)
    <3>1. StatusStep(x)
      BY <1>5, <2>3, WorkSteps DEF TypeOK, RunsTypeOK
    <3> QED  BY <2>1, <3>1 DEF StatusStep, TypeOK, RunsTypeOK, ActiveStatuses
  <2> QED  BY <2>2, <2>3
<1>6. CASE UNCHANGED vars
  BY <1>1, <1>6 DEF vars
<1> QED  BY <1>1, <1>2, <1>3, <1>4, <1>5, <1>6, <1>a DEF Next, Handle

\* splitVUs, behind validateCreate: every run's shards carry all users that were asked
\* for and no more, none is empty, and no two differ by more than one user, for any
\* limits and any numbers a client may send.
THEOREM AdmissionCoversUsers == Spec => []ShardsCoverUsers
<1>1. Init => ShardsCoverUsers
  BY DEF Init, ShardsCoverUsers
<1> QED  BY <1>1, CoverNext, AdmissionTypeOK, PTL DEF Spec
=============================================================================
