---------------------------- MODULE RunQueueProofs ----------------------------
(***************************************************************************)
(* For any number of runs and of workers: a run is taken from the fallback *)
(* queue at most once and by age, one that was cancelled or has ended      *)
(* never comes back, and a claim waits for nobody.                         *)
(***************************************************************************)
EXTENDS RunQueue, SumTheorems

LEMMA InitQInv == Init => QInv
BY QueueConstants DEF Init, QInv, RowsTypeOK, RequestsTypeOK, LocksHeld, LockedIsQueued,
   QueuedIsUntaken, TakenOnce, Statuses, Requests, Outcomes, NoCall

\* An autocommitted UPDATE finds its row unlocked, so that no claim relies on it;
\* only a start counts, and only of a queued run.
LEMMA SetStatusInv ==
    ASSUME QInv, NEW r \in Runs, NEW from, NEW to \in Statuses \ {"absent", "queued"},
           SetStatus(r, from, to), UNCHANGED <<lock, scan, passed>>,
           RequestsTypeOK', LocksHeld',
           starts' = starts \/ (Started(r) /\ from = {"queued"})
    PROVE  QInv'
<1>1. /\ lock[r] = NoWorker
      /\ status[r] \in from
      /\ status' = [status EXCEPT ![r] = to]
  BY DEF SetStatus
<1>2. starts' \in [Runs -> Nat] /\ (\A q \in Runs : q # r => starts'[q] = starts[q])
      /\ starts'[r] <= 1
  <2>1. CASE starts' = starts
    BY <2>1 DEF QInv, RowsTypeOK, TakenOnce
  <2>2. CASE Started(r) /\ from = {"queued"}
    BY <2>2, <1>1 DEF QInv, RowsTypeOK, QueuedIsUntaken, Started
  <2> QED  BY <2>1, <2>2
<1>3. RowsTypeOK'
  BY <1>1, <1>2 DEF QInv, RowsTypeOK
<1>4. LockedIsQueued'
  BY <1>1 DEF QInv, RowsTypeOK, LockedIsQueued
<1>5. QueuedIsUntaken' /\ TakenOnce'
  BY <1>1, <1>2 DEF QInv, RowsTypeOK, QueuedIsUntaken, TakenOnce
<1> QED  BY <1>3, <1>4, <1>5 DEF QInv

\* A step that touches no row.
LEMMA RequestStepInv ==
    ASSUME QInv, UNCHANGED <<status, lock, starts>>, RequestsTypeOK', LocksHeld'
    PROVE  QInv'
BY DEF QInv, RowsTypeOK, LockedIsQueued, QueuedIsUntaken, TakenOnce

LEMMA CreateInv == ASSUME QInv, NEW r \in Runs, Create(r) PROVE QInv'
<1>1. /\ status[r] = "absent" /\ status' = [status EXCEPT ![r] = "queued"]
      /\ UNCHANGED <<lock, pc, call, scan, passed, starts>>
  BY DEF Create, requests
<1>2. RowsTypeOK' /\ RequestsTypeOK'
  BY <1>1 DEF QInv, RowsTypeOK, RequestsTypeOK, Statuses
<1>3. LocksHeld'
  BY <1>1 DEF QInv, LocksHeld
<1>4. LockedIsQueued' /\ QueuedIsUntaken' /\ TakenOnce'
  BY <1>1 DEF QInv, RowsTypeOK, LockedIsQueued, QueuedIsUntaken, TakenOnce
<1> QED  BY <1>2, <1>3, <1>4 DEF QInv

LEMMA CancelInv == ASSUME QInv, NEW r \in Runs, CancelRun(r) PROVE QInv'
<1>1. /\ SetStatus(r, {"queued", "running"}, "cancelling")
      /\ UNCHANGED <<lock, pc, call, scan, passed, starts>>
  BY DEF CancelRun, requests
<1>2. RequestsTypeOK' /\ LocksHeld'
  BY <1>1 DEF QInv, RequestsTypeOK, LocksHeld
<1> QED  BY <1>1, <1>2, SetStatusInv DEF Statuses

LEMMA SendInv == ASSUME QInv, NEW w \in Workers, SendRequest(w) PROVE QInv'
<1>1. PICK op \in Requests, r \in Runs \cup {NoRun}, outcome \in Outcomes :
          Send(w, op, r, outcome) /\ (op # "claim" => r \in Runs)
  BY DEF SendRequest, SendClaimNext, SendStartRun, SendTakeOverRun, SendFailRun, SendComplete,
         Requests, Outcomes
<1>2. /\ pc[w] = "idle" /\ pc' = [pc EXCEPT ![w] = "sent"]
      /\ call' = [call EXCEPT ![w] = [op |-> op, run |-> r, outcome |-> outcome, code |-> 0]]
      /\ UNCHANGED <<status, lock, scan, passed, starts>>
  BY <1>1 DEF Send, At, Goto, rows
<1>3. RequestsTypeOK'
  BY <1>1, <1>2 DEF QInv, RequestsTypeOK
<1>4. LocksHeld'
  BY <1>2 DEF QInv, LocksHeld, RequestsTypeOK
<1> QED  BY <1>2, <1>3, <1>4, RequestStepInv

\* An answer says what was done; the request holds no lock before or after it.
LEMMA AnswerKeeps ==
    ASSUME QInv, NEW w \in Workers, NEW code \in {0, 200, 204, 400, 404, 409},
           pc[w] \in {"sent", "walk"}, Answer(w, code)
    PROVE  RequestsTypeOK' /\ LocksHeld' /\ UNCHANGED <<lock, scan, passed>>
<1>1. /\ pc' = [pc EXCEPT ![w] = "answered"]
      /\ call' = [call EXCEPT ![w].code = code]
      /\ UNCHANGED <<lock, scan, passed>>
  BY DEF Answer, Goto
<1>2. RequestsTypeOK'
  BY <1>1 DEF QInv, RequestsTypeOK
<1>3. LocksHeld'
  BY <1>1 DEF QInv, LocksHeld, RequestsTypeOK
<1> QED  BY <1>1, <1>2, <1>3

LEMMA RefusedInv ==
    ASSUME QInv, NEW w \in Workers, NEW code \in {0, 200, 204, 400, 404, 409},
           pc[w] \in {"sent", "walk"}, Refused(w, code)
    PROVE  QInv'
<1>1. Answer(w, code) /\ UNCHANGED <<status, starts>>
  BY DEF Refused
<1> QED  BY <1>1, AnswerKeeps, RequestStepInv

\* The four endpoints that are given a run.
LEMMA ServedInv ==
    ASSUME QInv, NEW w \in Workers,
           StartTestRun(w) \/ TakeoverTestRun(w) \/ FailTestRun(w) \/ CompleteTestRun(w)
    PROVE  QInv'
<1> DEFINE r == call[w].run
<1>1. pc[w] = "sent" /\ r \in Runs /\ call[w].outcome \in Outcomes
  BY DEF StartTestRun, TakeoverTestRun, FailTestRun, CompleteTestRun, Serving, At, QInv,
         RequestsTypeOK
<1>2. \/ \E code \in {0, 200, 204, 400, 404, 409} : Refused(w, code)
      \/ Answer(w, 200) /\ StartByID(r) /\ Started(r)
      \/ Answer(w, 200) /\ UNCHANGED starts
         /\ (TakeOver(r) \/ Fail(r)
              \/ (call[w].outcome \in ValidOutcome /\ Complete(r, call[w].outcome)))
  BY DEF StartTestRun, TakeoverTestRun, FailTestRun, CompleteTestRun, NotFound
<1>3. CASE \E code \in {0, 200, 204, 400, 404, 409} : Refused(w, code)
  BY <1>1, <1>3, RefusedInv
<1>4. CASE Answer(w, 200) /\ StartByID(r) /\ Started(r)
  <2>1. RequestsTypeOK' /\ LocksHeld' /\ UNCHANGED <<lock, scan, passed>>
    BY <1>1, <1>4, AnswerKeeps
  <2> QED  BY <1>1, <1>4, <2>1, SetStatusInv DEF StartByID, Statuses
<1>5. CASE /\ Answer(w, 200) /\ UNCHANGED starts
           /\ \/ TakeOver(r) \/ Fail(r)
              \/ call[w].outcome \in ValidOutcome /\ Complete(r, call[w].outcome)
  <2>1. RequestsTypeOK' /\ LocksHeld' /\ UNCHANGED <<lock, scan, passed>>
    BY <1>1, <1>5, AnswerKeeps
  <2>2. PICK to \in Statuses \ {"absent", "queued"}, from \in SUBSET {"queued", "running"} :
               SetStatus(r, from, to)
    <3>1. {"running", "failed", "completed"} \subseteq Statuses \ {"absent", "queued"}
      BY DEF Statuses, Final
    <3>2. \E to \in {"running", "failed", "completed"}, from \in SUBSET {"queued", "running"} :
              SetStatus(r, from, to)
      BY <1>5 DEF TakeOver, Fail, Complete, ValidOutcome
    <3> QED  BY <3>1, <3>2
  <2> QED  BY <1>1, <1>5, <2>1, <2>2, SetStatusInv
<1> QED  BY <1>2, <1>3, <1>4, <1>5

\* The claim's walk: only the step that takes a row locks it, and it is queued then.
LEMMA WalkInv ==
    ASSUME QInv, NEW w \in Workers, BeginClaim(w) \/ SkipLocked(w) \/ NothingQueued(w)
    PROVE  QInv'
<1>1. CASE BeginClaim(w)
  <2>1. /\ pc[w] = "sent" /\ pc' = [pc EXCEPT ![w] = "walk"]
        /\ scan' = [scan EXCEPT ![w] = {r \in Runs : Queued(r)}]
        /\ UNCHANGED <<status, lock, call, passed, starts>>
    BY <1>1 DEF BeginClaim, Serving, At, Goto, rows
  <2>2. RequestsTypeOK' /\ LocksHeld'
    BY <2>1 DEF QInv, RequestsTypeOK, LocksHeld
  <2> QED  BY <2>1, <2>2, RequestStepInv
<1>2. CASE SkipLocked(w)
  <2>1. PICK r \in Runs :
           /\ scan' = [scan EXCEPT ![w] = @ \ {r}]
           /\ passed' = [passed EXCEPT ![w] = IF lock[r] # NoWorker THEN @ \cup {r} ELSE @]
           /\ UNCHANGED <<status, lock, pc, call, starts>>
    BY <1>2 DEF SkipLocked, rows
  <2>2. RequestsTypeOK'
    BY <2>1 DEF QInv, RequestsTypeOK
  <2>3. LocksHeld'
    BY <2>1 DEF QInv, LocksHeld
  <2> QED  BY <2>1, <2>2, <2>3, RequestStepInv
<1>3. CASE NothingQueued(w)
  BY <1>3, RefusedInv DEF NothingQueued, At
<1> QED  BY <1>1, <1>2, <1>3

LEMMA LockOldestInv == ASSUME QInv, NEW w \in Workers, LockOldest(w) PROVE QInv'
<1>1. PICK r \in Runs :
         /\ pc[w] = "walk" /\ lock[r] = NoWorker /\ status[r] = "queued"
         /\ lock' = [lock EXCEPT ![r] = w]
         /\ call' = [call EXCEPT ![w].run = r]
         /\ pc' = [pc EXCEPT ![w] = "update"]
         /\ UNCHANGED <<status, scan, passed, starts>>
  BY DEF LockOldest, NextRow, At, Queued, Goto
<1>2. RowsTypeOK'
  BY <1>1 DEF QInv, RowsTypeOK
<1>3. RequestsTypeOK' /\ LocksHeld'
  <2>1. call'[w].run = r /\ (\A v \in Workers : v # w => call'[v] = call[v] /\ pc'[v] = pc[v])
    BY <1>1 DEF QInv, RequestsTypeOK
  <2>2. call' \in [Workers -> [op : Requests, run : Runs \cup {NoRun}, outcome : Outcomes,
                              code : {0, 200, 204, 400, 404, 409}]]
    BY <1>1 DEF QInv, RequestsTypeOK
  <2>3. RequestsTypeOK'
    BY <1>1, <2>1, <2>2 DEF QInv, RequestsTypeOK
  <2>4. LocksHeld'
    BY <1>1, <2>1, QueueConstants DEF QInv, LocksHeld, RowsTypeOK, RequestsTypeOK
  <2> QED  BY <2>3, <2>4
<1>4. LockedIsQueued' /\ QueuedIsUntaken' /\ TakenOnce'
  BY <1>1 DEF QInv, RowsTypeOK, LockedIsQueued, QueuedIsUntaken, TakenOnce
<1> QED  BY <1>2, <1>3, <1>4 DEF QInv

\* The lock makes up for the missing guard: the row is still queued.
LEMMA UpdateClaimedInv ==
    ASSUME QInv, NEW w \in Workers, UpdateClaimed(w)
    PROVE  QInv' /\ status[call[w].run] = "queued"
<1> DEFINE r == call[w].run
<1>1. /\ pc[w] = "update" /\ pc' = [pc EXCEPT ![w] = "answered"]
      /\ status' = [status EXCEPT ![r] = "running"]
      /\ lock' = [lock EXCEPT ![r] = NoWorker]
      /\ starts' = [starts EXCEPT ![r] = @ + 1]
      /\ call' = [call EXCEPT ![w].code = 200]
      /\ scan' = [scan EXCEPT ![w] = {}]
      /\ UNCHANGED passed
  BY DEF UpdateClaimed, At, Goto, Started
<1>2. r \in Runs /\ lock[r] = w /\ status[r] = "queued" /\ starts[r] = 0
  BY <1>1, QueueConstants DEF QInv, RequestsTypeOK, LocksHeld, LockedIsQueued, QueuedIsUntaken
<1>3. RowsTypeOK' /\ RequestsTypeOK'
  BY <1>1, <1>2 DEF QInv, RowsTypeOK, RequestsTypeOK, Statuses
<1>4. LocksHeld'
  BY <1>1, <1>2, QueueConstants DEF QInv, LocksHeld, RowsTypeOK, RequestsTypeOK
<1>5. LockedIsQueued' /\ QueuedIsUntaken' /\ TakenOnce'
  BY <1>1, <1>2 DEF QInv, RowsTypeOK, LockedIsQueued, QueuedIsUntaken, TakenOnce
<1> QED  BY <1>2, <1>3, <1>4, <1>5 DEF QInv

LEMMA ReturnInv ==
    ASSUME QInv, NEW w \in Workers, ReadAnswer(w) \/ GiveUp(w)
    PROVE  QInv'
<1>1. /\ pc' = [pc EXCEPT ![w] = "idle"]
      /\ call' = [call EXCEPT ![w] = NoCall]
      /\ scan' = [scan EXCEPT ![w] = {}] /\ passed' = [passed EXCEPT ![w] = {}]
      /\ UNCHANGED <<status, starts>>
  BY DEF ReadAnswer, GiveUp, Return
<1>2. lock' = [r \in Runs |-> IF lock[r] = w THEN NoWorker ELSE lock[r]]
  BY QueueConstants DEF ReadAnswer, GiveUp, At, QInv, RowsTypeOK, LocksHeld
<1>3. RowsTypeOK' /\ RequestsTypeOK'
  BY <1>1, <1>2 DEF QInv, RowsTypeOK, RequestsTypeOK, NoCall, Requests, Outcomes
<1>4. LocksHeld'
  BY <1>1, <1>2, QueueConstants DEF QInv, LocksHeld, RowsTypeOK, RequestsTypeOK
<1>5. LockedIsQueued' /\ QueuedIsUntaken' /\ TakenOnce'
  BY <1>1, <1>2 DEF QInv, RowsTypeOK, LockedIsQueued, QueuedIsUntaken, TakenOnce
<1> QED  BY <1>3, <1>4, <1>5 DEF QInv

LEMMA NextQInv == QInv /\ [Next]_vars => QInv'
<1> SUFFICES ASSUME QInv, [Next]_vars PROVE QInv'
  OBVIOUS
<1>1. ASSUME NEW r \in Runs, Create(r) \/ CancelRun(r) PROVE QInv'
  BY <1>1, CreateInv, CancelInv
<1>2. ASSUME NEW w \in Workers, SendRequest(w) \/ Serve(w) PROVE QInv'
  BY <1>2, SendInv, ServedInv, WalkInv, LockOldestInv, UpdateClaimedInv DEF Serve, ClaimNext
<1>3. ASSUME NEW w \in Workers, ReadAnswer(w) \/ GiveUp(w) PROVE QInv'
  BY <1>3, ReturnInv
<1>4. CASE UNCHANGED vars
  <2>1. UNCHANGED <<status, lock, pc, call, scan, passed, starts>>
    BY <1>4 DEF vars, rows, requests
  <2> QED  BY <2>1 DEF QInv, RowsTypeOK, RequestsTypeOK, LocksHeld, LockedIsQueued,
                       QueuedIsUntaken, TakenOnce
<1> QED  BY <1>1, <1>2, <1>3, <1>4 DEF Next

\* The fallback queue's requests keep their invariant, for any number of them.
THEOREM QueueInvariant == Spec => []QInv
BY InitQInv, NextQInv, PTL DEF Spec

\* "Two workers can never claim the same run": however many of them claim by age
\* or start by id at the same time (ClaimNext, StartByID).
THEOREM QueueTakesOnce == Spec => []TakenOnce
<1>1. QInv => TakenOnce
  BY DEF QInv
<1> QED  BY <1>1, QueueInvariant, PTL

\* No request changes the status of a run that is being cancelled or has ended
\* (the WHERE guards, and ClaimNext's row lock where a guard is missing).
THEOREM QueueNeverRevives == Spec => NeverRevived
<1> DEFINE Gone(r) == status[r] \in {"cancelling"} \cup Final
           Keeps == \A r \in Runs : Gone(r) => status'[r] = status[r]
<1>1. ASSUME QInv, [Next]_vars PROVE Keeps
  <2>1. ASSUME NEW q \in Runs, NEW from \in SUBSET {"queued", "running"}, NEW to,
               SetStatus(q, from, to)
        PROVE  Keeps
    BY <1>1, <2>1 DEF SetStatus, QInv, RowsTypeOK, Final
  <2>2. CASE UNCHANGED status
    BY <2>2
  <2>3. ASSUME NEW q \in Runs, Create(q) PROVE Keeps
    BY <1>1, <2>3 DEF Create, QInv, RowsTypeOK, Final
  <2>4. ASSUME NEW q \in Runs, CancelRun(q) PROVE Keeps
    BY <2>1, <2>4 DEF CancelRun
  <2>5. ASSUME NEW w \in Workers, SendRequest(w) \/ ReadAnswer(w) \/ GiveUp(w) PROVE Keeps
    <3>1. UNCHANGED status
      BY <2>5 DEF SendRequest, SendClaimNext, SendStartRun, SendTakeOverRun, SendFailRun,
                  SendComplete, Send, ReadAnswer, GiveUp, Return, rows
    <3> QED  BY <2>2, <3>1
  <2>6. ASSUME NEW w \in Workers,
               StartTestRun(w) \/ TakeoverTestRun(w) \/ FailTestRun(w) \/ CompleteTestRun(w)
        PROVE  Keeps
    <3>1. call[w].run \in Runs
      BY <1>1, <2>6 DEF StartTestRun, TakeoverTestRun, FailTestRun, CompleteTestRun, Serving, At,
                        QInv, RequestsTypeOK
    <3>2. \/ UNCHANGED status
          \/ \E from \in SUBSET {"queued", "running"}, to \in Statuses \cup Outcomes :
                SetStatus(call[w].run, from, to)
      BY <2>6 DEF StartTestRun, TakeoverTestRun, FailTestRun, CompleteTestRun, NotFound, Refused,
                  StartByID, TakeOver, Fail, Complete, ValidOutcome, Statuses, Outcomes, Final
    <3> QED  BY <2>1, <2>2, <3>1, <3>2
  <2>7. ASSUME NEW w \in Workers, ClaimNext(w) PROVE Keeps
    <3>1. CASE UpdateClaimed(w)
      BY <1>1, <3>1, UpdateClaimedInv DEF UpdateClaimed, QInv, RowsTypeOK, Final
    <3>2. CASE ~UpdateClaimed(w)
      <4>1. UNCHANGED status
        BY <2>7, <3>2 DEF ClaimNext, BeginClaim, SkipLocked, LockOldest, NothingQueued, Refused,
                          rows
      <4> QED  BY <2>2, <4>1
    <3> QED  BY <3>1, <3>2
  <2>8. CASE UNCHANGED vars
    BY <2>2, <2>8 DEF vars, rows
  <2> QED  BY <1>1, <2>3, <2>4, <2>5, <2>6, <2>7, <2>8 DEF Next, Serve
<1>2. QInv /\ [Next]_vars => [Keeps]_vars
  BY <1>1
<1> QED  BY <1>2, QueueInvariant, PTL DEF Spec, NeverRevived

-----------------------------------------------------------------------------
\* The order of the claims.

\* Rows are created last in the order, and no other step makes a run queued.
LEMMA RowSteps ==
    ASSUME QInv, [Next]_vars
    PROVE  \/ \E r \in Runs : Create(r)
           \/ /\ UNCHANGED created
              /\ \A r \in Runs : /\ status'[r] = "absent" <=> status[r] = "absent"
                                 /\ status'[r] = "queued" => status[r] = "queued"
<1> DEFINE Kept == /\ UNCHANGED created
                   /\ \A r \in Runs : /\ status'[r] = "absent" <=> status[r] = "absent"
                                      /\ status'[r] = "queued" => status[r] = "queued"
<1>1. ASSUME NEW q \in Runs, NEW from \in SUBSET {"queued", "running"},
             NEW to \in {"running", "cancelling", "failed", "completed"},
             SetStatus(q, from, to), UNCHANGED created
      PROVE  Kept
  BY <1>1 DEF SetStatus, QInv, RowsTypeOK
<1>2. CASE UNCHANGED <<status, created>>
  BY <1>2
<1>3. ASSUME NEW q \in Runs, CancelRun(q) PROVE Kept
  BY <1>1, <1>3 DEF CancelRun
<1>4. ASSUME NEW w \in Workers, SendRequest(w) \/ ReadAnswer(w) \/ GiveUp(w) PROVE Kept
  <2>1. UNCHANGED <<status, created>>
    BY <1>4 DEF SendRequest, SendClaimNext, SendStartRun, SendTakeOverRun, SendFailRun,
                SendComplete, Send, ReadAnswer, GiveUp, Return, rows
  <2> QED  BY <1>2, <2>1
<1>5. ASSUME NEW w \in Workers,
             StartTestRun(w) \/ TakeoverTestRun(w) \/ FailTestRun(w) \/ CompleteTestRun(w)
      PROVE  Kept
  <2>1. call[w].run \in Runs
    BY <1>5 DEF StartTestRun, TakeoverTestRun, FailTestRun, CompleteTestRun, Serving, At,
                QInv, RequestsTypeOK
  <2>2. UNCHANGED created
    BY <1>5 DEF StartTestRun, TakeoverTestRun, FailTestRun, CompleteTestRun, NotFound, Refused,
                Answer
  <2>3. \/ UNCHANGED status
        \/ \E from \in SUBSET {"queued", "running"}, to \in {"running", "failed", "completed"} :
              SetStatus(call[w].run, from, to)
    BY <1>5 DEF StartTestRun, TakeoverTestRun, FailTestRun, CompleteTestRun, NotFound, Refused,
                StartByID, TakeOver, Fail, Complete, ValidOutcome
  <2> QED  BY <1>1, <1>2, <2>1, <2>2, <2>3
<1>6. ASSUME NEW w \in Workers, ClaimNext(w) PROVE Kept
  <2>1. CASE UpdateClaimed(w)
    <3>1. /\ status' = [status EXCEPT ![call[w].run] = "running"] /\ UNCHANGED created
          /\ call[w].run \in Runs
      BY <2>1 DEF UpdateClaimed, At, QInv, RequestsTypeOK
    <3> QED  BY <2>1, <3>1, UpdateClaimedInv DEF QInv, RowsTypeOK
  <2>2. CASE ~UpdateClaimed(w)
    <3>1. UNCHANGED <<status, created>>
      BY <1>6, <2>2 DEF ClaimNext, BeginClaim, SkipLocked, LockOldest, NothingQueued, Refused,
                        Answer, rows
    <3> QED  BY <1>2, <3>1
  <2> QED  BY <2>1, <2>2
<1>7. CASE UNCHANGED vars
  BY <1>2, <1>7 DEF vars, rows
<1> QED  BY <1>3, <1>4, <1>5, <1>6, <1>7 DEF Next, Serve

\* A walk starts with every queued run, steps over one at a time, and nobody but
\* its worker has a part in it.
LEMMA WalkSteps ==
    ASSUME QInv, [Next]_vars, NEW w \in Workers, At(w, "walk")'
    PROVE  \/ BeginClaim(w) \/ SkipLocked(w)
           \/ At(w, "walk") /\ scan'[w] = scan[w] /\ passed'[w] = passed[w]
<1> DEFINE Kept == At(w, "walk") /\ scan'[w] = scan[w] /\ passed'[w] = passed[w]
<1>1. CASE UNCHANGED vars \/ \E r \in Runs : Create(r) \/ CancelRun(r)
  BY <1>1 DEF vars, requests, Create, CancelRun, At
<1>2. ASSUME NEW v \in Workers, SendRequest(v) \/ ReadAnswer(v) \/ GiveUp(v) PROVE Kept
  <2>1. /\ pc' = [pc EXCEPT ![v] = "sent"] \/ pc' = [pc EXCEPT ![v] = "idle"]
        /\ \A u \in Workers \ {v} : scan'[u] = scan[u] /\ passed'[u] = passed[u]
    BY <1>2 DEF SendRequest, SendClaimNext, SendStartRun, SendTakeOverRun, SendFailRun,
                SendComplete, Send, Goto, ReadAnswer, GiveUp, Return, QInv, RequestsTypeOK
  <2> QED  BY <2>1 DEF At, QInv, RequestsTypeOK
<1>3. ASSUME NEW v \in Workers,
             StartTestRun(v) \/ TakeoverTestRun(v) \/ FailTestRun(v) \/ CompleteTestRun(v)
               \/ NothingQueued(v)
      PROVE  Kept
  <2>1. pc' = [pc EXCEPT ![v] = "answered"] /\ UNCHANGED <<scan, passed>>
    BY <1>3 DEF StartTestRun, TakeoverTestRun, FailTestRun, CompleteTestRun, NothingQueued,
                NotFound, Refused, Answer, Goto
  <2> QED  BY <2>1 DEF At, QInv, RequestsTypeOK
<1>4. ASSUME NEW v \in Workers, LockOldest(v) \/ UpdateClaimed(v) PROVE Kept
  <2>1. /\ pc' = [pc EXCEPT ![v] = "update"] \/ pc' = [pc EXCEPT ![v] = "answered"]
        /\ \A u \in Workers \ {v} : scan'[u] = scan[u] /\ passed'[u] = passed[u]
    BY <1>4 DEF LockOldest, UpdateClaimed, Goto, QInv, RequestsTypeOK
  <2> QED  BY <2>1 DEF At, QInv, RequestsTypeOK
<1>5. ASSUME NEW v \in Workers, BeginClaim(v) \/ SkipLocked(v), v # w PROVE Kept
  <2>1. /\ pc' = [pc EXCEPT ![v] = "walk"] \/ UNCHANGED pc
        /\ scan'[w] = scan[w] /\ passed'[w] = passed[w]
    BY <1>5 DEF BeginClaim, SkipLocked, Goto, QInv, RequestsTypeOK
  <2> QED  BY <1>5, <2>1 DEF At, QInv, RequestsTypeOK
<1> QED  BY <1>1, <1>2, <1>3, <1>4, <1>5 DEF Next, Serve, ClaimNext

LEMMA CreatedInv == ASSUME QInv, TypeOK, [Next]_vars, QInv' PROVE TypeOK'
<1>1. CASE \E r \in Runs : Create(r)
  <2>1. PICK r \in Runs : /\ status[r] = "absent" /\ status' = [status EXCEPT ![r] = "queued"]
                          /\ created' = Append(created, r)
    BY <1>1 DEF Create
  <2>2. /\ created \in Seq(Runs) /\ IsInjective(created)
        /\ ToSet(created) = {q \in Runs : status[q] # "absent"}
    BY DEF TypeOK
  <2>3. /\ created' \in Seq(Runs) /\ Len(created') = Len(created) + 1
        /\ DOMAIN created' = 1 .. Len(created) + 1 /\ DOMAIN created = 1 .. Len(created)
        /\ created'[Len(created) + 1] = r
        /\ \A i \in 1 .. Len(created) : created'[i] = created[i]
        /\ Len(created) \in Nat
    BY <2>1, <2>2
  <2>4. \A i \in 1 .. Len(created) : created[i] # r
    BY <2>1, <2>2, <2>3 DEF ToSet
  <2>5. IsInjective(created')
    BY <2>2, <2>3, <2>4 DEF IsInjective
  <2>6. ToSet(created') = ToSet(created) \cup {r}
    BY <2>3 DEF ToSet
  <2>7. {q \in Runs : status'[q] # "absent"} = {q \in Runs : status[q] # "absent"} \cup {r}
    BY <2>1 DEF QInv, RowsTypeOK
  <2> QED  BY <2>2, <2>3, <2>5, <2>6, <2>7 DEF QInv, TypeOK
<1>2. CASE /\ UNCHANGED created
           /\ \A r \in Runs : status'[r] = "absent" <=> status[r] = "absent"
  <2>1. {r \in Runs : status'[r] # "absent"} = {r \in Runs : status[r] # "absent"}
    BY <1>2
  <2> QED  BY <1>2, <2>1 DEF QInv, TypeOK
<1> QED  BY <1>1, <1>2, RowSteps

\* A run created now is older than no other.
LEMMA OlderKept ==
    ASSUME QInv, TypeOK, [Next]_vars, NEW q \in Runs, NEW r \in Runs, status[r] # "absent",
           Older(q, r)', Queued(q)'
    PROVE  Older(q, r) /\ Queued(q)
<1>1. CASE \E x \in Runs : Create(x)
  <2>1. PICK x \in Runs : /\ status[x] = "absent" /\ status' = [status EXCEPT ![x] = "queued"]
                          /\ created' = Append(created, x)
    BY <1>1 DEF Create
  <2>2. /\ DOMAIN created' = 1 .. Len(created) + 1 /\ DOMAIN created = 1 .. Len(created)
        /\ created'[Len(created) + 1] = x
        /\ \A i \in 1 .. Len(created) : created'[i] = created[i]
        /\ Len(created) \in Nat
    BY <2>1 DEF TypeOK
  <2>3. PICK i, j \in DOMAIN created' : i < j /\ created'[i] = q /\ created'[j] = r
    BY DEF Older
  <2>4. j \in 1 .. Len(created) /\ i \in 1 .. Len(created)
    BY <2>1, <2>2, <2>3
  <2>5. Older(q, r)
    BY <2>2, <2>3, <2>4 DEF Older
  <2>6. q \in ToSet(created)
    BY <2>2, <2>3, <2>4 DEF ToSet
  <2>7. q # x
    BY <2>1, <2>6 DEF TypeOK
  <2> QED  BY <2>1, <2>5, <2>7 DEF Queued, QInv, RowsTypeOK
<1>2. CASE /\ UNCHANGED created
           /\ \A x \in Runs : status'[x] = "queued" => status[x] = "queued"
  BY <1>2 DEF Older, Queued
<1> QED  BY <1>1, <1>2, RowSteps

LEMMA OrderNext ==
    ASSUME QInv, QInv', OrderInv, [Next]_vars
    PROVE  OrderInv'
<1>1. TypeOK'
  BY CreatedInv DEF OrderInv
<1>2. ASSUME NEW w \in Workers, At(w, "walk")', NEW r \in scan'[w]
      PROVE  /\ status'[r] # "absent"
             /\ \A q \in Runs : (Older(q, r)' /\ Queued(q)') => q \in scan'[w] \cup passed'[w]
  <2>1. CASE BeginClaim(w)
    <3>1. scan'[w] = {x \in Runs : Queued(x)} /\ UNCHANGED status
      BY <2>1 DEF BeginClaim, rows, QInv, RequestsTypeOK
    <3> QED  BY <1>2, <3>1 DEF Queued
  <2>2. CASE SkipLocked(w)
    <3>1. PICK x \in Runs :
             /\ NextRow(w, x)
             /\ lock[x] # NoWorker \/ ~Queued(x)
             /\ scan' = [scan EXCEPT ![w] = @ \ {x}]
             /\ passed' = [passed EXCEPT ![w] = IF lock[x] # NoWorker THEN @ \cup {x} ELSE @]
             /\ UNCHANGED <<rows, pc, call, starts>>
      BY <2>2 DEF SkipLocked
    <3>2. /\ pc[w] = "walk" /\ UNCHANGED <<status, created>>
          /\ scan'[w] = scan[w] \ {x}
          /\ passed'[w] = IF lock[x] # NoWorker THEN passed[w] \cup {x} ELSE passed[w]
      BY <3>1 DEF NextRow, At, rows, QInv, RequestsTypeOK
    <3>3. r \in scan[w]
      BY <1>2, <3>2
    <3>4. ASSUME NEW q \in Runs, Older(q, r)', Queued(q)'
          PROVE  q \in scan'[w] \cup passed'[w]
      <4>1. Older(q, r) /\ Queued(q)
        BY <3>2, <3>4 DEF Older, Queued
      <4>2. q \in scan[w] \cup passed[w]
        BY <3>2, <3>3, <4>1 DEF OrderInv, WalksInOrder, At
      <4>3. q = x => lock[x] # NoWorker
        BY <3>1, <4>1
      <4> QED  BY <3>2, <4>2, <4>3
    <3> QED  BY <3>2, <3>3, <3>4 DEF OrderInv, WalksInOrder, At
  <2>3. CASE At(w, "walk") /\ scan'[w] = scan[w] /\ passed'[w] = passed[w]
    <3>1. r \in Runs /\ status[r] # "absent"
      BY <1>2, <2>3 DEF QInv, RequestsTypeOK, OrderInv, WalksInOrder
    <3>2. status'[r] # "absent"
      BY <3>1, RowSteps DEF Create, QInv, RowsTypeOK
    <3>3. ASSUME NEW q \in Runs, Older(q, r)', Queued(q)'
          PROVE  q \in scan'[w] \cup passed'[w]
      <4>1. Older(q, r) /\ Queued(q)
        BY <3>1, <3>3, OlderKept DEF OrderInv
      <4> QED  BY <1>2, <2>3, <4>1 DEF OrderInv, WalksInOrder
    <3> QED  BY <3>2, <3>3
  <2> QED  BY <1>2, <2>1, <2>2, <2>3, WalkSteps
<1> QED  BY <1>1, <1>2 DEF OrderInv, WalksInOrder

\* The walk of a claim and the order of creation agree, for any number of runs and
\* workers (ClaimNext's ORDER BY over one snapshot).
THEOREM QueueOrder == Spec => []OrderInv
<1>1. Init => OrderInv
  BY InitQInv DEF Init, QInv, OrderInv, TypeOK, WalksInOrder, At, IsInjective, ToSet
<1>2. QInv /\ QInv' /\ OrderInv /\ [Next]_vars => OrderInv'
  BY OrderNext
<1> QED  BY <1>1, <1>2, QueueInvariant, PTL DEF Spec

\* Every reachable state of the fallback queue is well typed, and each row has one
\* place in the order of creation.
THEOREM QueueTypeOK == Spec => []TypeOK
<1>1. OrderInv => TypeOK
  BY DEF OrderInv
<1> QED  BY <1>1, QueueOrder, PTL

\* A claim takes the oldest queued run; it passes an older one by only if it met
\* that one locked (ORDER BY created_at, SKIP LOCKED).
THEOREM QueueOldestFirst == Spec => OldestFirst
<1> DEFINE Ordered ==
      \A w \in Workers : (At(w, "walk") /\ At(w, "update")') =>
          \A q \in Runs : (Older(q, call'[w].run) /\ Queued(q)) => q \in passed[w]
<1>1. ASSUME QInv, OrderInv, [Next]_vars PROVE Ordered
  <2> SUFFICES ASSUME NEW w \in Workers, pc[w] = "walk", pc'[w] = "update", NEW q \in Runs,
                      Older(q, call'[w].run), Queued(q)
               PROVE  q \in passed[w]
    BY DEF At
  <2>1. LockOldest(w)
    <3>1. CASE UNCHANGED vars \/ \E r \in Runs : Create(r) \/ CancelRun(r)
      BY <3>1 DEF vars, requests, Create, CancelRun
    <3>2. ASSUME NEW v \in Workers, SendRequest(v) \/ ReadAnswer(v) \/ GiveUp(v) PROVE FALSE
      <4>1. pc' = [pc EXCEPT ![v] = "sent"] \/ pc' = [pc EXCEPT ![v] = "idle"]
        BY <3>2 DEF SendRequest, SendClaimNext, SendStartRun, SendTakeOverRun, SendFailRun,
                    SendComplete, Send, Goto, ReadAnswer, GiveUp, Return
      <4> QED  BY <1>1, <4>1 DEF QInv, RequestsTypeOK
    <3>3. ASSUME NEW v \in Workers,
                 StartTestRun(v) \/ TakeoverTestRun(v) \/ FailTestRun(v) \/ CompleteTestRun(v)
                   \/ NothingQueued(v) \/ UpdateClaimed(v)
          PROVE  FALSE
      <4>1. pc' = [pc EXCEPT ![v] = "answered"]
        BY <3>3 DEF StartTestRun, TakeoverTestRun, FailTestRun, CompleteTestRun, NothingQueued,
                    UpdateClaimed, NotFound, Refused, Answer, Goto
      <4> QED  BY <1>1, <4>1 DEF QInv, RequestsTypeOK
    <3>4. ASSUME NEW v \in Workers, BeginClaim(v) \/ SkipLocked(v) PROVE FALSE
      <4>1. pc' = [pc EXCEPT ![v] = "walk"] \/ UNCHANGED pc
        BY <3>4 DEF BeginClaim, SkipLocked, Goto
      <4> QED  BY <1>1, <4>1 DEF QInv, RequestsTypeOK
    <3>5. ASSUME NEW v \in Workers, LockOldest(v) PROVE v = w
      <4>1. pc' = [pc EXCEPT ![v] = "update"]
        BY <3>5 DEF LockOldest, Goto
      <4> QED  BY <1>1, <4>1 DEF QInv, RequestsTypeOK
    <3> QED  BY <1>1, <3>1, <3>2, <3>3, <3>4, <3>5 DEF Next, Serve, ClaimNext
  <2>2. PICK r \in Runs : NextRow(w, r) /\ call' = [call EXCEPT ![w].run = r]
    BY <2>1 DEF LockOldest
  <2>3. call'[w].run = r
    BY <1>1, <2>2 DEF QInv, RequestsTypeOK
  <2>4. r \in scan[w] /\ \A x \in scan[w] : ~Older(x, r)
    BY <2>2 DEF NextRow
  <2>5. q \in scan[w] \cup passed[w]
    BY <1>1, <2>3, <2>4 DEF OrderInv, WalksInOrder, At
  <2> QED  BY <2>3, <2>4, <2>5
<1>2. QInv /\ OrderInv /\ [Next]_vars => [Ordered]_vars
  BY <1>1
<1> QED  BY <1>2, QueueInvariant, QueueOrder, PTL DEF Spec, OldestFirst

\* Locks, statuses and the walks of all claims agree, for any number of runs and
\* workers (ClaimNext).
THEOREM QueueKeepsInv == Spec => []QueueInv
<1>1. QInv /\ OrderInv => QueueInv
  BY DEF QueueInv
<1> QED  BY <1>1, QueueInvariant, QueueOrder, PTL

-----------------------------------------------------------------------------
\* What a claim under way can do next, guard by guard and without ENABLED.
SkipsRow(w, r) == NextRow(w, r) /\ (lock[r] # NoWorker \/ ~Queued(r))
TakesRow(w, r) == NextRow(w, r) /\ lock[r] = NoWorker /\ Queued(r)
HoldsRow(w) == call[w].run \in Runs /\ lock[call[w].run] = w

ClaimHasNext ==
    \A w \in Workers :
        /\ At(w, "walk") => scan[w] = {} \/ \E r \in Runs : SkipsRow(w, r) \/ TakesRow(w, r)
        /\ At(w, "update") => HoldsRow(w)

\* A walk that has rows left has an oldest one.
LEMMA OldestOfScan ==
    ASSUME QueueInv, NEW w \in Workers, At(w, "walk"), scan[w] # {}
    PROVE  \E r \in Runs : NextRow(w, r)
<1> DEFINE B == {i \in DOMAIN created : created[i] \in scan[w]}
<1>1. /\ created \in Seq(Runs) /\ IsInjective(created) /\ scan[w] \subseteq Runs
      /\ ToSet(created) = {r \in Runs : status[r] # "absent"}
      /\ \A r \in scan[w] : status[r] # "absent"
  BY DEF QueueInv, QInv, RequestsTypeOK, OrderInv, TypeOK, WalksInOrder
<1>2. DOMAIN created \subseteq Nat
  BY <1>1
<1>3. \A r \in scan[w] : \E i \in DOMAIN created : created[i] = r
  <2>1. scan[w] \subseteq ToSet(created)
    BY <1>1
  <2> QED  BY <2>1 DEF ToSet
<1>4. B \in SUBSET Nat /\ B # {}
  BY <1>2, <1>3
<1>5. PICK i \in B : \A j \in B : i <= j
  <2> HIDE DEF B
  <2> QED  BY <1>4, LeastNumber
<1>6. ASSUME NEW q \in scan[w], Older(q, created[i]) PROVE FALSE
  <2>1. PICK j, k \in DOMAIN created : j < k /\ created[j] = q /\ created[k] = created[i]
    BY <1>6 DEF Older
  <2>2. k = i
    BY <1>1, <1>5, <2>1 DEF IsInjective
  <2>3. j \in B /\ i <= j
    BY <1>5, <2>1
  <2> QED  BY <1>2, <1>4, <2>1, <2>2, <2>3
<1>7. created[i] \in scan[w] /\ created[i] \in Runs
  BY <1>1, <1>5
<1> QED  BY <1>6, <1>7 DEF NextRow

\* Whatever other requests have locked or changed, a claim under way finds a row to
\* step over or to take, or is through, and has the lock it needs for its UPDATE: it
\* waits for nobody (FOR UPDATE SKIP LOCKED).
THEOREM QueueClaimHasNext == Spec => []ClaimHasNext
<1>1. ASSUME QueueInv, NEW w \in Workers, At(w, "walk"), scan[w] # {}
      PROVE  \E r \in Runs : SkipsRow(w, r) \/ TakesRow(w, r)
  <2>1. PICK r \in Runs : NextRow(w, r)
    BY <1>1, OldestOfScan
  <2> QED  BY <2>1 DEF SkipsRow, TakesRow
<1>2. ASSUME QueueInv, NEW w \in Workers, At(w, "update") PROVE HoldsRow(w)
  BY <1>2 DEF QueueInv, QInv, RequestsTypeOK, LocksHeld, HoldsRow, At
<1>3. QueueInv => ClaimHasNext
  BY <1>1, <1>2 DEF ClaimHasNext
<1> QED  BY <1>3, QueueKeepsInv, PTL
=============================================================================
