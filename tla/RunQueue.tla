------------------------------ MODULE RunQueue ------------------------------
(***************************************************************************)
(* The claim path of before sharding, kept as a fallback: a worker takes   *)
(* whole runs, either the oldest queued one straight from the table        *)
(* (ClaimNext, FOR UPDATE SKIP LOCKED) or one whose id a message carried   *)
(* (StartByID, TakeOver), and reports it with Complete or Fail.            *)
(*                                                                         *)
(* One action is one step of a request: the worker's client sends it, the  *)
(* backend runs its statement, the client reads the answer.  A statement   *)
(* is atomic except ClaimNext's, which scans its snapshot row by row and   *)
(* locks the row it takes until it commits.  The worker may die, or the    *)
(* request be lost, at any point.  Nothing here looks at the run's shards: *)
(* neither does the code.                                                  *)
(*                                                                         *)
(* An operator introduced as a variant is the code with a plausible        *)
(* mistake, which a property must reject, and no part of Next.             *)
(***************************************************************************)
EXTENDS Integers, Sequences, SequencesExt

CONSTANTS
    Runs,       \* rows of test_runs
    Workers,    \* each with at most one request in flight
    NoRun,
    NoWorker

ASSUME QueueConstants ==
    /\ NoRun \notin Runs
    /\ NoWorker \notin Workers

VARIABLES
    status,     \* test_runs.status, "absent" before the row exists
    created,    \* the runs in the order of created_at
    lock,       \* the request that has the run row locked
    pc,         \* where each worker's request is
    call,       \* what it asks, of which run
    scan,       \* the rows of its snapshot ClaimNext has not looked at yet
    passed,     \* the locked rows its walk has stepped over
    starts      \* how often each run was taken from the queue

rows == <<status, created, lock>>
requests == <<pc, call, scan, passed>>
vars == <<rows, requests, starts>>

Final == {"completed", "failed", "cancelled"}
Statuses == {"absent", "queued", "running", "cancelling"} \cup Final
Requests == {"claim", "start", "takeover", "complete", "fail"}
Outcomes == {"completed", "failed", "done"}

RowsTypeOK ==
    /\ status \in [Runs -> Statuses]
    /\ lock \in [Runs -> Workers \cup {NoWorker}]
    /\ starts \in [Runs -> Nat]

RequestsTypeOK ==
    /\ pc \in [Workers -> {"idle", "sent", "walk", "update", "answered"}]
    /\ call \in [Workers -> [op : Requests, run : Runs \cup {NoRun},
                             outcome : Outcomes, code : {0, 200, 204, 400, 404, 409}]]
    /\ \A w \in Workers :
          pc[w] = "update" \/ (pc[w] = "sent" /\ call[w].op # "claim") => call[w].run \in Runs
    /\ scan \in [Workers -> SUBSET Runs] /\ passed \in [Workers -> SUBSET Runs]

TypeOK ==
    /\ RowsTypeOK
    /\ RequestsTypeOK
    /\ created \in Seq(Runs) /\ IsInjective(created)
    /\ ToSet(created) = {r \in Runs : status[r] # "absent"}

NoCall == [op |-> "claim", run |-> NoRun, outcome |-> "failed", code |-> 0]

Init ==
    /\ status = [r \in Runs |-> "absent"]
    /\ created = <<>>
    /\ lock = [r \in Runs |-> NoWorker]
    /\ pc = [w \in Workers |-> "idle"]
    /\ call = [w \in Workers |-> NoCall]
    /\ scan = [w \in Workers |-> {}]
    /\ passed = [w \in Workers |-> {}]
    /\ starts = [r \in Runs |-> 0]

At(w, here) == pc[w] = here
Goto(w, next) == pc' = [pc EXCEPT ![w] = next]
Serving(w, op) == At(w, "sent") /\ call[w].op = op

\* An autocommitted UPDATE of run r: it waits for the row's lock.
SetStatus(r, from, to) ==
    /\ status[r] \in from
    /\ lock[r] = NoWorker
    /\ status' = [status EXCEPT ![r] = to]

Started(r) == starts' = [starts EXCEPT ![r] = @ + 1]

-----------------------------------------------------------------------------
\* The store's statements on a run row, and how they miss.

Create(r) ==
    /\ status[r] = "absent"
    /\ status' = [status EXCEPT ![r] = "queued"]
    /\ created' = Append(created, r)
    /\ UNCHANGED <<lock, requests, starts>>

CancelRun(r) ==
    /\ SetStatus(r, {"queued", "running"}, "cancelling")
    /\ UNCHANGED <<created, lock, requests, starts>>

StartByID(r) == SetStatus(r, {"queued"}, "running")
ErrNotQueued(r) == status[r] \notin {"absent", "queued"}

\* Variant: a run that is being cancelled can be taken over.
TakeOverCancelling(r) == SetStatus(r, {"queued", "running", "cancelling"}, "running")

TakeOver(r) == SetStatus(r, {"queued", "running"}, "running")
ErrAlreadyDone(r) == status[r] \in {"cancelling"} \cup Final

Complete(r, outcome) == SetStatus(r, {"running"}, outcome)
ErrNotRunning(r) == status[r] \notin {"absent", "running"}

Fail(r) == SetStatus(r, {"queued", "running"}, "failed")

-----------------------------------------------------------------------------
\* The worker's client sends a request.

Send(w, op, r, outcome) ==
    /\ At(w, "idle")
    /\ Goto(w, "sent")
    /\ call' = [call EXCEPT ![w] = [op |-> op, run |-> r, outcome |-> outcome, code |-> 0]]
    /\ UNCHANGED <<rows, scan, passed, starts>>

SendClaimNext(w) == Send(w, "claim", NoRun, "failed")
SendStartRun(w, r) == Send(w, "start", r, "failed")
SendTakeOverRun(w, r) == Send(w, "takeover", r, "failed")
SendFailRun(w, r) == Send(w, "fail", r, "failed")
SendComplete(w, r) == \E outcome \in Outcomes : Send(w, "complete", r, outcome)

-----------------------------------------------------------------------------
\* The handlers: one statement, then a status code.

Answer(w, code) ==
    /\ Goto(w, "answered")
    /\ call' = [call EXCEPT ![w].code = code]
    /\ UNCHANGED <<created, lock, scan, passed>>

Refused(w, code) == Answer(w, code) /\ UNCHANGED <<status, starts>>
NotFound(w) == status[call[w].run] = "absent" /\ Refused(w, 404)

StartTestRun(w) ==
    LET r == call[w].run IN
    /\ Serving(w, "start")
    /\ \/ StartByID(r) /\ Started(r) /\ Answer(w, 200)
       \/ ErrNotQueued(r) /\ Refused(w, 409)
       \/ NotFound(w)

TakeoverTestRun(w) ==
    LET r == call[w].run IN
    /\ Serving(w, "takeover")
    /\ \/ TakeOver(r) /\ Answer(w, 200) /\ UNCHANGED starts
       \/ ErrAlreadyDone(r) /\ Refused(w, 409)
       \/ NotFound(w)

\* A run that is not open any more is returned as it is.
FailTestRun(w) ==
    LET r == call[w].run IN
    /\ Serving(w, "fail")
    /\ \/ Fail(r) /\ Answer(w, 200) /\ UNCHANGED starts
       \/ status[r] \in {"cancelling"} \cup Final /\ Refused(w, 200)
       \/ NotFound(w)

\* validateComplete
ValidOutcome == {"completed", "failed"}

CompleteTestRun(w) ==
    LET r == call[w].run IN
    /\ Serving(w, "complete")
    /\ \/ call[w].outcome \notin ValidOutcome /\ Refused(w, 400)
       \/ /\ call[w].outcome \in ValidOutcome
          /\ \/ Complete(r, call[w].outcome) /\ Answer(w, 200) /\ UNCHANGED starts
             \/ ErrNotRunning(r) /\ Refused(w, 409)
             \/ NotFound(w)

-----------------------------------------------------------------------------
\* ClaimNext: the queued rows of the statement's snapshot, oldest first; the walk
\* steps over a row that is locked or that has changed since, locks the first
\* other one and updates it by its id.

Queued(r) == status[r] = "queued"
Older(q, r) ==
    \E i, j \in DOMAIN created : i < j /\ created[i] = q /\ created[j] = r

\* Variant: no ORDER BY, any row may come next.
NextRowUnordered(w, r) == At(w, "walk") /\ r \in scan[w]

NextRow(w, r) ==
    /\ At(w, "walk")
    /\ r \in scan[w]
    /\ \A q \in scan[w] : ~Older(q, r)

\* Variant: the snapshot is the newest queued run alone (DESC).
BeginClaimNewest(w) ==
    /\ Serving(w, "claim")
    /\ scan' = [scan EXCEPT ![w] =
                  {r \in Runs : Queued(r) /\ \A q \in Runs : Queued(q) => ~Older(r, q)}]
    /\ Goto(w, "walk")
    /\ UNCHANGED <<rows, call, passed, starts>>

BeginClaim(w) ==
    /\ Serving(w, "claim")
    /\ scan' = [scan EXCEPT ![w] = {r \in Runs : Queued(r)}]
    /\ Goto(w, "walk")
    /\ UNCHANGED <<rows, call, passed, starts>>

\* Variant: a locked row is waited for (no SKIP LOCKED).
SkipChanged(w) ==
    \E r \in Runs :
        /\ NextRow(w, r)
        /\ lock[r] = NoWorker /\ ~Queued(r)
        /\ scan' = [scan EXCEPT ![w] = @ \ {r}]
        /\ UNCHANGED <<rows, pc, call, passed, starts>>

SkipLocked(w) ==
    \E r \in Runs :
        /\ NextRow(w, r)
        /\ lock[r] # NoWorker \/ ~Queued(r)
        /\ scan' = [scan EXCEPT ![w] = @ \ {r}]
        /\ passed' = [passed EXCEPT ![w] = IF lock[r] # NoWorker THEN @ \cup {r} ELSE @]
        /\ UNCHANGED <<rows, pc, call, starts>>

\* Variant: the subquery only reads, it does not lock (no FOR UPDATE).
LockOldestReads(w) ==
    \E r \in Runs :
        /\ NextRow(w, r)
        /\ lock[r] = NoWorker /\ Queued(r)
        /\ call' = [call EXCEPT ![w].run = r]
        /\ Goto(w, "update")
        /\ UNCHANGED <<rows, scan, passed, starts>>

LockOldest(w) ==
    \E r \in Runs :
        /\ NextRow(w, r)
        /\ lock[r] = NoWorker /\ Queued(r)
        /\ lock' = [lock EXCEPT ![r] = w]
        /\ call' = [call EXCEPT ![w].run = r]
        /\ Goto(w, "update")
        /\ UNCHANGED <<status, created, scan, passed, starts>>

\* The outer UPDATE has no guard but the id: it relies on the lock.
UpdateClaimed(w) ==
    LET r == call[w].run IN
    /\ At(w, "update")
    /\ status' = [status EXCEPT ![r] = "running"]
    /\ lock' = [lock EXCEPT ![r] = NoWorker]
    /\ Started(r)
    /\ Goto(w, "answered")
    /\ call' = [call EXCEPT ![w].code = 200]
    /\ scan' = [scan EXCEPT ![w] = {}]
    /\ UNCHANGED <<created, passed>>

\* ErrNoQueuedRuns: 204.
NothingQueued(w) ==
    /\ At(w, "walk") /\ scan[w] = {}
    /\ Refused(w, 204)

-----------------------------------------------------------------------------
\* The client reads the answer, or the worker dies first; a request whose client
\* is gone is rolled back, unless it has committed.

Return(w) ==
    /\ pc' = [pc EXCEPT ![w] = "idle"]
    /\ call' = [call EXCEPT ![w] = NoCall]
    /\ scan' = [scan EXCEPT ![w] = {}]
    /\ passed' = [passed EXCEPT ![w] = {}]
    /\ UNCHANGED <<status, created, starts>>

ReadAnswer(w) ==
    /\ At(w, "answered")
    /\ Return(w)
    /\ UNCHANGED lock

GiveUp(w) ==
    /\ ~At(w, "idle") /\ ~At(w, "answered")
    /\ Return(w)
    /\ lock' = [r \in Runs |-> IF lock[r] = w THEN NoWorker ELSE lock[r]]

-----------------------------------------------------------------------------
SendRequest(w) ==
    \/ SendClaimNext(w)
    \/ \E r \in Runs : \/ SendStartRun(w, r) \/ SendTakeOverRun(w, r)
                       \/ SendFailRun(w, r) \/ SendComplete(w, r)

ClaimNext(w) ==
    \/ BeginClaim(w) \/ SkipLocked(w) \/ LockOldest(w)
    \/ UpdateClaimed(w) \/ NothingQueued(w)

Serve(w) ==
    \/ StartTestRun(w) \/ TakeoverTestRun(w) \/ FailTestRun(w)
    \/ CompleteTestRun(w) \/ ClaimNext(w)

Next ==
    \/ \E r \in Runs : Create(r) \/ CancelRun(r)
    \/ \E w \in Workers :
          SendRequest(w) \/ Serve(w) \/ ReadAnswer(w) \/ GiveUp(w)

Spec == Init /\ [][Next]_vars

-----------------------------------------------------------------------------
\* However claims by age and starts by id race, also with users who cancel and
\* workers that die in the middle, a run is taken from the queue at most once:
\* "two workers can never claim the same run" (ClaimNext, StartByID).
TakenOnce == \A r \in Runs : starts[r] <= 1

\* A run that was cancelled or has ended is never brought back, although the
\* UPDATE of ClaimNext does not look at the status again (WHERE guards, row lock).
NeverRevived ==
    [][\A r \in Runs : status[r] \in {"cancelling"} \cup Final
          => status'[r] = status[r]]_vars

\* The oldest queued run is taken first; a claim passes an older one by only if
\* it met that one locked by another claim (ORDER BY created_at, SKIP LOCKED).
OldestFirst ==
    [][\A w \in Workers : (At(w, "walk") /\ At(w, "update")') =>
          \A q \in Runs : (Older(q, call'[w].run) /\ Queued(q)) => q \in passed[w]]_vars

\* A claim never waits for another request: whatever is locked, it has a next
\* step of its own (SKIP LOCKED).
ClaimNeverWaits ==
    \A w \in Workers : pc[w] \in {"walk", "update"} => ENABLED ClaimNext(w)

\* The rest is the inductive invariant of RunQueueProofs.

\* A row is locked exactly while a claim is between its SELECT and its UPDATE.
LocksHeld ==
    \A r \in Runs, w \in Workers :
        lock[r] = w <=> (pc[w] = "update" /\ call[w].run = r)

\* What the SELECT found of the row is still true at the UPDATE.
LockedIsQueued == \A r \in Runs : lock[r] # NoWorker => status[r] = "queued"

QueuedIsUntaken ==
    \A r \in Runs : status[r] \in {"absent", "queued"} => starts[r] = 0

QInv ==
    /\ RowsTypeOK
    /\ RequestsTypeOK
    /\ LocksHeld
    /\ LockedIsQueued
    /\ QueuedIsUntaken
    /\ TakenOnce

\* A walk has created runs before it, and has not forgotten a queued one that is
\* older than one of them.
WalksInOrder ==
    \A w \in Workers : At(w, "walk") =>
        \A r \in scan[w] :
            /\ status[r] # "absent"
            /\ \A q \in Runs : (Older(q, r) /\ Queued(q)) => q \in scan[w] \cup passed[w]

OrderInv == TypeOK /\ WalksInOrder

\* Locks match the steps of the claims, and every claim walks by age over rows that
\* other requests change meanwhile (ClaimNext); TakenOnce and OldestFirst follow.
QueueInv == QInv /\ OrderInv
=============================================================================
