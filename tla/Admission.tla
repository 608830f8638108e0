----------------------------- MODULE Admission -----------------------------
(***************************************************************************)
(* POST /test-runs (handlers/test_runs.go): validate, count the active     *)
(* runs, insert the run with its shards, publish one message per shard.    *)
(* Several requests are in flight at once, and nothing spans their steps:  *)
(* the count is read before the insert it decides about, and the insert is *)
(* committed before the messages are sent.  A request may end at any step, *)
(* because its client hangs up, its server stops or a call fails.          *)
(*                                                                         *)
(* Of what becomes of a run afterwards, this module has what decides        *)
(* whether it still counts against the cap: shards are started, reported,  *)
(* dead-lettered or given up, and the last one to end runs the barrier.    *)
(* Each is one step; RunLifecycle and ShardStore have their statements     *)
(* (among them a startShard held up between its two UPDATEs until its      *)
(* shard has ended), Delivery their messages.                              *)
(***************************************************************************)
EXTENDS Integers, Sequences, FiniteSets, SequencesExt

CONSTANTS
    Clients,            \* requests that may be in flight together
    Runs,               \* rows of test_runs; bound: how many are created
    MaxConcurrentRuns,  \* MAX_CONCURRENT_RUNS; 0 is no cap
    MaxVirtualUsers,    \* maxVirtualUsers
    MaxShards,          \* maxShards
    Troubled,           \* runs whose shards may be dead-lettered or given up; bound
    Forms,              \* the numbers a client may send
    NoForm

Form == [virtualUsers : Int, shards : Int]

ASSUME AdmissionConstants ==
    /\ IsFiniteSet(Clients) /\ Clients # {}
    /\ IsFiniteSet(Runs)
    /\ MaxConcurrentRuns \in Nat
    /\ MaxVirtualUsers \in Nat /\ MaxShards \in Nat
    /\ Troubled \subseteq Runs
    /\ Forms \subseteq Form
    /\ NoForm \notin Form /\ NoForm \notin Runs

VARIABLES
    pc,         \* the next step of each request
    form,       \* the validated request, normalized
    made,       \* the run it has inserted
    status,     \* test_runs.status, "absent" before the row exists
    asked,      \* the form each run was made from
    vus,        \* virtual_users of the shards of each run
    message,    \* of each shard: not sent yet, in the stream, never to be, or
                \* acknowledged while the shard was open
    shard       \* test_run_shards.status, by shard_index

requests == <<pc, form, made>>
runs == <<status, asked, vus, message, shard>>
vars == <<requests, runs>>

Final == {"completed", "failed", "cancelled"}
ActiveStatuses == {"queued", "running", "cancelling"}
Messages == {"unsent", "sent", "lost", "acked"}
ShardOpen == {"queued", "running"}
ShardFinal == {"completed", "failed"}

RequestsTypeOK ==
    /\ pc \in [Clients -> {"idle", "count", "create", "publish"}]
    /\ form \in [Clients -> Form \cup {NoForm}]
    /\ \A c \in Clients : pc[c] \in {"count", "create"} =>
          /\ form[c] \in Form
          /\ form[c].virtualUsers <= MaxVirtualUsers
          /\ form[c].shards \in 1 .. MaxShards /\ form[c].shards <= form[c].virtualUsers
    /\ made \in [Clients -> Runs \cup {NoForm}]
    /\ \A c \in Clients : pc[c] = "publish" <=> made[c] # NoForm

RunsTypeOK ==
    /\ status \in [Runs -> {"absent"} \cup ActiveStatuses \cup Final]
    /\ asked \in [Runs -> Form \cup {NoForm}]
    /\ vus \in [Runs -> Seq(1 .. MaxVirtualUsers)]
    /\ message \in [Runs -> Seq(Messages)]
    /\ shard \in [Runs -> Seq(ShardOpen \cup ShardFinal)]
    /\ \A r \in Runs :
          /\ Len(message[r]) = Len(vus[r]) /\ Len(shard[r]) = Len(vus[r])
          /\ Len(vus[r]) \in IF status[r] = "absent" THEN {0} ELSE 1 .. MaxShards

TypeOK == RequestsTypeOK /\ RunsTypeOK

Init ==
    /\ pc = [c \in Clients |-> "idle"]
    /\ form = [c \in Clients |-> NoForm]
    /\ made = [c \in Clients |-> NoForm]
    /\ status = [r \in Runs |-> "absent"]
    /\ asked = [r \in Runs |-> NoForm]
    /\ vus = [r \in Runs |-> <<>>]
    /\ message = [r \in Runs |-> <<>>]
    /\ shard = [r \in Runs |-> <<>>]

Active == {r \in Runs : status[r] \in ActiveStatuses}
At(c, here) == pc[c] = here
Goto(c, next) == pc' = [pc EXCEPT ![c] = next]

-----------------------------------------------------------------------------
\* splitVUs: as even as possible, the first ones get the remainder.

\* Variant: an off-by-one in who gets one of the remainder.
SplitOneMore(total, n) ==
    [i \in 1 .. n |-> (total \div n) + IF i - 1 <= total % n THEN 1 ELSE 0]

SplitVUs(total, n) ==
    [i \in 1 .. n |-> (total \div n) + IF i - 1 < total % n THEN 1 ELSE 0]

\* validateCreate: a missing shard count is one shard.
Normalized(f) == [f EXCEPT !.shards = IF @ = 0 THEN 1 ELSE @]

\* Variant: the shard count is not compared with the virtual users.
ValidAlone(f) ==
    /\ f.virtualUsers > 0 /\ f.virtualUsers <= MaxVirtualUsers
    /\ f.shards >= 1 /\ f.shards <= MaxShards

Valid(f) ==
    /\ f.virtualUsers > 0 /\ f.virtualUsers <= MaxVirtualUsers
    /\ f.shards >= 1 /\ f.shards <= MaxShards
    /\ f.shards <= f.virtualUsers

-----------------------------------------------------------------------------
\* CreateTestRun.

Return(c) ==
    /\ Goto(c, "idle")
    /\ form' = [form EXCEPT ![c] = NoForm]
    /\ made' = [made EXCEPT ![c] = NoForm]

\* An invalid request is refused at once (400).
Submit(c) ==
    /\ At(c, "idle")
    /\ \E f \in Forms :
          /\ Valid(Normalized(f))
          /\ form' = [form EXCEPT ![c] = Normalized(f)]
    /\ Goto(c, IF MaxConcurrentRuns > 0 THEN "count" ELSE "create")
    /\ UNCHANGED <<made, runs>>

\* Variant: runs that are being cancelled are not counted.
CountOpenRuns(c) ==
    /\ At(c, "count")
    /\ IF Cardinality({r \in Active : status[r] # "cancelling"}) >= MaxConcurrentRuns
         THEN Return(c)
         ELSE Goto(c, "create") /\ UNCHANGED <<form, made>>
    /\ UNCHANGED runs

\* At the cap: 429.
CountActiveRuns(c) ==
    /\ At(c, "count")
    /\ IF Cardinality(Active) >= MaxConcurrentRuns
         THEN Return(c)
         ELSE Goto(c, "create") /\ UNCHANGED <<form, made>>
    /\ UNCHANGED runs

CreateWithShards(c) ==
    /\ At(c, "create")
    /\ \E r \in Runs :
          /\ status[r] = "absent"
          /\ status' = [status EXCEPT ![r] = "queued"]
          /\ asked' = [asked EXCEPT ![r] = form[c]]
          /\ vus' = [vus EXCEPT ![r] = SplitVUs(form[c].virtualUsers, form[c].shards)]
          /\ message' = [message EXCEPT ![r] = [i \in 1 .. form[c].shards |-> "unsent"]]
          /\ shard' = [shard EXCEPT ![r] = [i \in 1 .. form[c].shards |-> "queued"]]
          /\ made' = [made EXCEPT ![c] = r]
    /\ Goto(c, "publish")
    /\ UNCHANGED form

\* One XADD after the other; a failed one is only logged.
Unsent(r) == {i \in DOMAIN message[r] : message[r][i] = "unsent"}

PublishShard(c) ==
    LET r == made[c] IN
    /\ At(c, "publish")
    /\ \E i \in Unsent(r) :
          /\ \A j \in Unsent(r) : i <= j
          /\ \E fate \in {"sent", "lost"} :
                message' = [message EXCEPT ![r][i] = fate]
    /\ UNCHANGED <<requests, status, asked, vus, shard>>

RespondCreated(c) ==
    /\ At(c, "publish")
    /\ Unsent(made[c]) = {}
    /\ Return(c)
    /\ UNCHANGED runs

\* The client hangs up, the server stops, or the database refuses: what has been
\* committed stays, what has not been sent never will be.
RequestEnds(c) ==
    /\ ~At(c, "idle")
    /\ Return(c)
    /\ message' = IF At(c, "publish")
                    THEN [message EXCEPT ![made[c]] =
                            [i \in DOMAIN @ |-> IF @[i] = "unsent" THEN "lost" ELSE @[i]]]
                    ELSE message
    /\ UNCHANGED <<status, asked, vus, shard>>

-----------------------------------------------------------------------------
\* The rest of the platform.

CancelRun(r) ==
    /\ status[r] \in {"queued", "running"}
    /\ status' = [status EXCEPT ![r] = "cancelling"]
    /\ UNCHANGED <<requests, asked, vus, message, shard>>

\* A message that was in the stream may be delivered again after its acknowledgement,
\* by a retried XADD, or still be in the hands of a slow worker.
Published(r) == {i \in DOMAIN message[r] : message[r][i] \in {"sent", "acked"}}

\* The first UPDATE of startShard.
StartShard(r) ==
    \E i \in Published(r) :
        /\ shard[r][i] = "queued"
        /\ shard' = [shard EXCEPT ![r][i] = "running"]
        /\ UNCHANGED <<requests, status, asked, vus, message>>

\* The second one, of this start or, when that one was lost, of a takeover.
MarkRunRunning(r) ==
    /\ status[r] = "queued"
    /\ \E i \in DOMAIN shard[r] : shard[r][i] = "running"
    /\ status' = [status EXCEPT ![r] = "running"]
    /\ UNCHANGED <<requests, asked, vus, message, shard>>

Verdict(was, rows) ==
    IF was = "cancelling" THEN "cancelled"
    ELSE IF \E i \in DOMAIN rows : rows[i] = "failed" THEN "failed" ELSE "completed"

\* Variant: the barrier closes running runs only.
AggregateRunning(was, rows) == IF was = "running" THEN Verdict(was, rows) ELSE was

\* The UPDATE of aggregateRun: it matches no row of a run that was never marked running.
AggregateRun(was, rows) ==
    IF was \in {"running", "cancelling"} THEN Verdict(was, rows) ELSE was

FinishShard(r, i, how) ==
    LET rows == [shard[r] EXCEPT ![i] = how] IN
    /\ shard' = [shard EXCEPT ![r] = rows]
    /\ status' = [status EXCEPT ![r] =
                    IF \A j \in DOMAIN rows : rows[j] \in ShardFinal
                      THEN AggregateRun(@, rows) ELSE @]
    /\ UNCHANGED <<requests, asked, vus, message>>

\* A worker reports the load it ran.  It got its assignment after the second UPDATE.
CompleteShard(r) ==
    /\ status[r] # "queued"
    /\ \E i \in DOMAIN shard[r], how \in ShardFinal :
          shard[r][i] = "running" /\ FinishShard(r, i, how)

\* deadLetter: the message was delivered too often, whether or not the shard was started.
FailShard(r) ==
    /\ r \in Troubled
    /\ \E i \in Published(r) : shard[r][i] \in ShardOpen /\ FinishShard(r, i, "failed")

\* The message of an open shard is acknowledged: by deadLetter when its FailShard was
\* lost, or by handleMessage when its claim was refused because a peer runs the shard.
\* Acknowledging the message of a shard that has ended changes nothing here.
AckOpenShard(r) ==
    /\ r \in Troubled
    /\ \E i \in DOMAIN message[r] :
          /\ message[r][i] = "sent" /\ shard[r][i] \in ShardOpen
          /\ message' = [message EXCEPT ![r][i] = "acked"]
    /\ UNCHANGED <<requests, status, asked, vus, shard>>

-----------------------------------------------------------------------------
Handle(c) ==
    \/ CountActiveRuns(c) \/ CreateWithShards(c) \/ PublishShard(c) \/ RespondCreated(c)

Work(r) == StartShard(r) \/ MarkRunRunning(r) \/ CompleteShard(r)

Next ==
    \/ \E c \in Clients : Submit(c) \/ Handle(c) \/ RequestEnds(c)
    \/ \E r \in Runs : CancelRun(r) \/ Work(r) \/ FailShard(r) \/ AckOpenShard(r)

Spec == Init /\ [][Next]_vars

\* The server works on the requests it has, workers on the shards they get.
FairSpec ==
    /\ Spec
    /\ \A c \in Clients : WF_vars(Handle(c))
    /\ \A r \in Runs : WF_vars(Work(r))

-----------------------------------------------------------------------------
\* The cap is checked without a lock, so it can be passed, but only by the
\* requests that were counted together: never by more than one less than the
\* requests in flight ("best-effort", CreateTestRun).
CapOvershoot ==
    MaxConcurrentRuns > 0 =>
        Cardinality(Active) <= MaxConcurrentRuns + Cardinality(Clients) - 1

\* A run's shards carry exactly the users that were asked for, as evenly as they
\* can and none without a user, whatever the client sent (validateCreate, splitVUs).
ShardsCoverUsers ==
    \A r \in Runs : status[r] # "absent" =>
        /\ Len(vus[r]) = asked[r].shards
        /\ SumFunction(vus[r]) = asked[r].virtualUsers
        /\ \A i, j \in DOMAIN vus[r] : vus[r][i] >= 1 /\ vus[r][i] <= vus[r][j] + 1

\* Inductive strengthening of CapOvershoot: a request that was let through takes
\* up its slot before its run does.
Creating == {c \in Clients : pc[c] = "create"}
CapInv ==
    /\ pc \in [Clients -> {"idle", "count", "create", "publish"}]
    /\ status \in [Runs -> {"absent"} \cup ActiveStatuses \cup Final]
    /\ MaxConcurrentRuns > 0 =>
          Cardinality(Active) + Cardinality(Creating)
              <= MaxConcurrentRuns + Cardinality(Clients) - 1

\* What a run without an open shard is: ended, or active because all its shards failed
\* before any start marked it running.  Only published shards leave "queued", and what is
\* still to be sent has its request.
NoneOpen(r) == \A i \in DOMAIN shard[r] : shard[r][i] \in ShardFinal
WaitInv ==
    \A r \in Runs :
        /\ status[r] \in Final => NoneOpen(r)
        /\ (status[r] \in ActiveStatuses /\ NoneOpen(r)) =>
              \A i \in DOMAIN shard[r] : shard[r][i] = "failed"
        /\ \A i \in DOMAIN shard[r] :
              /\ shard[r][i] = "completed" => status[r] # "queued"
              /\ shard[r][i] # "queued" => i \in Published(r)
        /\ Unsent(r) # {} => \E c \in Clients : At(c, "publish") /\ made[c] = r

\* Every request in flight has its place in the count, what was let through can be
\* split, and shards, messages and runs agree (CreateTestRun, validateCreate,
\* finishShard); CapOvershoot and SlotsAreAccountedFor follow.
AdmissionInv == TypeOK /\ CapInv /\ WaitInv

\* Why a run still counts against the cap: a shard of it is open, and its message is in
\* the stream, about to be sent, lost on the way to it, or acknowledged too early; or the
\* barrier has passed it by, and then all its shards were dead-lettered before any start
\* marked the run.  And no run gives its slot up while a shard of it is open, or was
\* never published (CountActiveRuns, the publish loop of CreateTestRun, finishShard).
OpenWith(r, fate) ==
    \E i \in DOMAIN shard[r] : shard[r][i] \in ShardOpen /\ message[r][i] = fate
SlotsAreAccountedFor ==
    \A r \in Runs :
        /\ r \in Active =>
              \/ OpenWith(r, "sent")
              \/ OpenWith(r, "unsent") /\ \E c \in Clients : At(c, "publish") /\ made[c] = r
              \/ OpenWith(r, "lost")
              \/ OpenWith(r, "acked")
              \/ \A i \in DOMAIN shard[r] : shard[r][i] = "failed"
        /\ status[r] \in Final =>
              \A i \in DOMAIN shard[r] : shard[r][i] \in ShardFinal /\ i \in Published(r)

\* "The completion barrier then finalizes the run to 'cancelled'" (CancelRun,
\* store/test_run_store.go:348-349).
CancelledRunEnds ==
    \A r \in Runs : status[r] = "cancelling" ~> status[r] \in Final
=============================================================================
