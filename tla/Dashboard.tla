------------------------------ MODULE Dashboard ------------------------------
(***************************************************************************)
(* One browser on the dashboard (frontend/src/pages/Home.jsx and           *)
(* RunDetail.jsx): the polls of the two pages, whose answers are late, out *)
(* of order or never come, while the user moves between the pages and the  *)
(* backend moves the runs.                                                 *)
(*                                                                         *)
(* A request is sent, read by the backend and answered in three steps.     *)
(* One that was sent by a page since left is not live: RunDetail drops its *)
(* answer because `active` is false, React drops Home's because the        *)
(* component is gone.                                                      *)
(***************************************************************************)
EXTENDS Naturals, Bags

CONSTANTS
    Runs,           \* the runs; each is created at most once
    Home,           \* the page of the list
    NoRun,          \* RunDetail before its first answer
    MaxRequests     \* bound: requests in flight when another is sent

VARIABLES
    runStatus,      \* the backend's rows
    page,           \* Home or the run of the detail page
    shown,          \* RunDetail's `run`
    failed,         \* RunDetail's `error` is set
    timers,         \* the runs for which a poll is due
    list,           \* Home's `runs`: the statuses it shows
    listFailed,     \* Home's `error` is set
    requests        \* a bag: what is in flight

dvars == <<runStatus, page, shown, failed, timers, list, listFailed, requests>>

\* "completed" stands for failed as well: the pages treat them alike.
Statuses == {"absent", "queued", "running", "cancelling", "completed", "cancelled"}
Open == {"queued", "running"}
Over == {"completed", "cancelled"}

ASSUME DashboardConstants ==
    /\ Home \notin Runs
    /\ NoRun \notin [run : Runs, status : Statuses]

\* Variant: a run that is being cancelled is not polled any more.
TerminalAndCancelling == {"completed", "cancelled", "cancelling"}

TERMINAL == {"completed", "cancelled"}

Unread == [r \in Runs |-> "unread"]
EmptyList == [r \in Runs |-> "absent"]

Kinds == {"detail", "list", "create", "cancel"}
RequestType == [kind : Kinds, run : Runs \cup {NoRun}, live : BOOLEAN,
                read : [Runs -> Statuses \cup {"unread"}]]
Request(kind, r) == [kind |-> kind, run |-> r, live |-> TRUE, read |-> Unread]
Send(kind, r) == SetToBag({Request(kind, r)})
InFlight == BagToSet(requests)
Room == BagCardinality(requests) < MaxRequests

TypeOK ==
    /\ runStatus \in [Runs -> Statuses]
    /\ page \in Runs \cup {Home}
    /\ shown \in {NoRun} \cup [run : Runs, status : Statuses \ {"absent"}]
    /\ failed \in BOOLEAN /\ listFailed \in BOOLEAN
    /\ timers \subseteq Runs
    /\ list \in [Runs -> Statuses]
    /\ InFlight \subseteq RequestType

DInit ==
    /\ runStatus \in [Runs -> {"absent", "queued"}]
    /\ page = Home
    /\ shown = NoRun /\ failed = FALSE /\ timers = {}
    /\ list = EmptyList /\ listFailed = FALSE
    /\ requests = Send("list", NoRun)

-----------------------------------------------------------------------------
\* The backend, and everybody else who uses it.

Cancelled(r) ==
    [runStatus EXCEPT ![r] = IF @ \in Open THEN "cancelling" ELSE @]

RunMoves(r) ==
    /\ \/ /\ runStatus[r] = "queued"
          /\ runStatus' = [runStatus EXCEPT ![r] = "running"]
       \/ /\ runStatus[r] = "running"
          /\ runStatus' = [runStatus EXCEPT ![r] = "completed"]
       \/ /\ runStatus[r] \in Open
          /\ runStatus' = Cancelled(r)
       \/ /\ runStatus[r] = "cancelling"
          /\ runStatus' = [runStatus EXCEPT ![r] = "cancelled"]
    /\ UNCHANGED <<page, shown, failed, timers, list, listFailed, requests>>

\* Variant: a creation is answered before its row is inserted.
HandleAnswersFirst(q) ==
    CASE q.kind = "create" -> runStatus
      [] q.kind = "cancel" -> Cancelled(q.run)
      [] OTHER             -> runStatus

\* What the handler of request q does to the rows, and reads of them.
Handle(q) ==
    CASE q.kind = "create" -> [runStatus EXCEPT ![q.run] = "queued"]
      [] q.kind = "cancel" -> Cancelled(q.run)
      [] OTHER             -> runStatus

Reads(q) ==
    IF q.kind = "list" THEN runStatus
                       ELSE [Unread EXCEPT ![q.run] = Handle(q)[q.run]]

Serve(q) ==
    /\ q.read = Unread
    /\ q.kind = "create" => runStatus[q.run] = "absent"
    /\ runStatus' = Handle(q)
    /\ requests' = (requests (-) SetToBag({q}))
                     (+) SetToBag({[q EXCEPT !.read = Reads(q)]})
    /\ UNCHANGED <<page, shown, failed, timers, list, listFailed>>

-----------------------------------------------------------------------------
\* Moving between the pages.  Leaving the detail page of a run runs the
\* effect's cleanup; a step of the history from one run's page to another's
\* keeps the component, with what it shows and its calls of cancelRun.

\* Variant: the cleanup forgets the timer.
CleanupKeepsTimer == UNCHANGED timers

\* clearTimeout(timer)
Cleanup == timers' = {}

Left(q) ==
    [q EXCEPT !.live = @ /\ page # Home /\ q.kind = "cancel"]
Gone(q) == [q EXCEPT !.live = FALSE]

\* The history, a link of the list, or navigate(); inFlight is what the
\* browser waits for without the requests of the page it leaves.
Show(r, inFlight) ==
    /\ page' = r
    /\ Cleanup
    /\ shown' = IF page = Home THEN NoRun ELSE shown
    /\ failed' = (page # Home /\ failed)
    /\ list' = EmptyList /\ listFailed' = FALSE
    /\ requests' = BagOfAll(Left, inFlight) (+) Send("detail", r)

OpenRun(r) ==
    /\ page # r
    /\ runStatus[r] # "absent"
    /\ Room
    /\ Show(r, requests)
    /\ UNCHANGED runStatus

GoHome ==
    /\ page # Home
    /\ Room
    /\ page' = Home
    /\ Cleanup
    /\ shown' = NoRun /\ failed' = FALSE
    /\ requests' = BagOfAll(Gone, requests) (+) Send("list", NoRun)
    /\ UNCHANGED <<runStatus, list, listFailed>>

\* CreateForm; its button is disabled while it waits.  A form that was left
\* waits no more.
SubmitRun(r) ==
    /\ page = Home
    /\ runStatus[r] = "absent"
    /\ \A q \in InFlight : q.kind = "create" => ~q.live /\ q.run # r
    /\ Room
    /\ requests' = requests (+) Send("create", r)
    /\ UNCHANGED <<runStatus, page, shown, failed, timers, list, listFailed>>

\* The button is there while the run on show is not terminal, and cancels the
\* run of the page's address.
ClickCancel ==
    /\ page # Home /\ ~failed
    /\ shown # NoRun
    /\ shown.status \notin TERMINAL
    /\ Room
    /\ requests' = requests (+) Send("cancel", page)
    /\ UNCHANGED <<runStatus, page, shown, failed, timers, list, listFailed>>

-----------------------------------------------------------------------------
\* The timers.

PollDetail(r) ==
    /\ r \in timers
    /\ timers' = timers \ {r}
    /\ requests' = requests (+) Send("detail", r)
    /\ UNCHANGED <<runStatus, page, shown, failed, list, listFailed>>

\* Variant: the list is loaded until it shows something.
PollHomeUntilShown ==
    /\ page = Home
    /\ list = EmptyList
    /\ Room
    /\ requests' = requests (+) Send("list", NoRun)
    /\ UNCHANGED <<runStatus, page, shown, failed, timers, list, listFailed>>

\* setInterval: whether or not the last poll was answered.
PollHome ==
    /\ page = Home
    /\ Room
    /\ requests' = requests (+) Send("list", NoRun)
    /\ UNCHANGED <<runStatus, page, shown, failed, timers, list, listFailed>>

-----------------------------------------------------------------------------
\* The answers.

Taken(q) == requests (-) SetToBag({q})

\* Variant: the answer is used without a look at `active`.
AnswerDetailAnyway(q) ==
    /\ q.kind = "detail"
    /\ shown' = [run |-> q.run, status |-> q.read[q.run]]
    /\ failed' = FALSE
    /\ timers' = IF q.read[q.run] \in TERMINAL THEN timers ELSE timers \cup {q.run}
    /\ requests' = Taken(q)
    /\ UNCHANGED <<page, list, listFailed>>

AnswerDetail(q) ==
    /\ q.kind = "detail"
    /\ IF q.live
         THEN /\ shown' = [run |-> q.run, status |-> q.read[q.run]]
              /\ failed' = FALSE
              /\ timers' = IF q.read[q.run] \in TERMINAL
                             THEN timers ELSE timers \cup {q.run}
         ELSE UNCHANGED <<shown, failed, timers>>
    /\ requests' = Taken(q)
    /\ UNCHANGED <<page, list, listFailed>>

AnswerList(q) ==
    /\ q.kind = "list"
    /\ IF q.live THEN list' = q.read /\ listFailed' = FALSE
                 ELSE UNCHANGED <<list, listFailed>>
    /\ requests' = Taken(q)
    /\ UNCHANGED <<page, shown, failed, timers>>

\* navigate() goes to the new run wherever the user is by now, and leaves the
\* Home whose onCreated() loaded the list: nothing shows that answer.
AnswerCreate(q) ==
    /\ q.kind = "create"
    /\ IF page = q.run
         THEN /\ requests' = Taken(q)
              /\ UNCHANGED <<page, shown, failed, timers, list, listFailed>>
         ELSE Show(q.run, Taken(q))

AnswerCancel(q) ==
    /\ q.kind = "cancel"
    /\ requests' = Taken(q)
    /\ UNCHANGED <<page, shown, failed, timers, list, listFailed>>

Answer(q) ==
    /\ q.read # Unread
    /\ AnswerDetail(q) \/ AnswerList(q) \/ AnswerCreate(q) \/ AnswerCancel(q)
    /\ UNCHANGED runStatus

\* The network, the proxy or the backend fails, before or after the request
\* was handled.  A detail poll that fails sets no timer.  The error of a failed
\* creation is the form's own.
Fail(q) ==
    /\ failed' = (failed \/ (q.live /\ q.kind \in {"detail", "cancel"}))
    /\ listFailed' = (listFailed \/ (q.live /\ q.kind = "list"))
    /\ requests' = Taken(q)
    /\ UNCHANGED <<runStatus, page, shown, timers, list>>

-----------------------------------------------------------------------------
DNext ==
    \/ \E r \in Runs : RunMoves(r) \/ OpenRun(r) \/ SubmitRun(r) \/ PollDetail(r)
    \/ GoHome \/ ClickCancel \/ PollHome
    \/ \E q \in InFlight : Serve(q) \/ Answer(q) \/ Fail(q)

DSpec == DInit /\ [][DNext]_dvars

Comes(kind) == \E q \in InFlight : q.kind = kind /\ (Serve(q) \/ Answer(q))

\* Timers fire and answers come, though not each in its turn; the user, the
\* workers and the failures owe nothing.
DFairSpec ==
    /\ DSpec
    /\ \A r \in Runs : WF_dvars(PollDetail(r))
    /\ WF_dvars(PollHome)
    /\ \A kind \in Kinds : WF_dvars(Comes(kind))

-----------------------------------------------------------------------------
Polls == {q \in InFlight : q.kind = "detail" /\ q.live}

\* A detail page has one chain of polls, for its own run: one request in
\* flight or one timer, however often the user left and came back, and no page
\* that was left polls on (the effect's cleanup and `active`).
OnePollChain ==
    /\ timers \subseteq {page}
    /\ \A q \in Polls : q.run = page /\ requests[q] = 1
    /\ \A p, q \in Polls : p = q
    /\ timers = {} \/ Polls = {}

\* The page never shows a run as live that it has stopped asking about: polling
\* goes on until the status on show is terminal or the error is (load).
PollingGoesOn ==
    (page # Home /\ ~failed) =>
        \/ timers # {} \/ Polls # {}
        \/ shown # NoRun /\ shown.run = page /\ shown.status \in Over

Stage(status) ==
    CASE status = "queued" -> 0 [] status = "running" -> 1
      [] status = "cancelling" -> 2 [] OTHER -> 3

\* A detail page never takes back what it has shown, and an answer for one run
\* never appears on the page of another, although answers cross (`active`).
ShownMovesOn ==
    [][shown' # shown /\ shown' # NoRun =>
          /\ shown'.run = page'
          /\ (shown # NoRun /\ shown.run = shown'.run) =>
                Stage(shown.status) <= Stage(shown'.status)]_dvars

\* The rest is the inductive invariant of DashboardProofs.

\* A request is about a run that was there when it was answered, or sent by its page.
RequestsMakeSense ==
    \A q \in InFlight :
        IF q.kind = "list" THEN q.read = Unread \/ q.read \in [Runs -> Statuses]
        ELSE /\ q.run \in Runs
             /\ q.read # Unread => q.read[q.run] \in Statuses \ {"absent"}
             /\ (q.kind = "create" /\ q.read = Unread) \/ runStatus[q.run] # "absent"

\* What the page shows is behind the answer that is on its way to it, and that one
\* is behind the backend, except that an end is how the run ended.
Behind(status, r) ==
    /\ Stage(status) <= Stage(runStatus[r])
    /\ status \in Over => runStatus[r] = status
ShownIsPast ==
    /\ page # Home => runStatus[page] # "absent"
    /\ shown # NoRun => runStatus[shown.run] # "absent" /\ Behind(shown.status, shown.run)
    /\ \A q \in Polls : q.read # Unread =>
          /\ Behind(q.read[q.run], q.run)
          /\ (shown # NoRun /\ shown.run = q.run)
                => Stage(shown.status) <= Stage(q.read[q.run])

\* A detail page is told about its own run, in order, by one poll after the other
\* (load, the effect's cleanup, `active`); ShownMovesOn follows.
DetailInv ==
    /\ TypeOK /\ RequestsMakeSense
    /\ OnePollChain /\ PollingGoesOn
    /\ ShownIsPast

\* What Home shows, and will show, of a run was true once, in whatever order the answers
\* of its overlapping polls come (setInterval).
WasTrue(statuses) ==
    \A r \in Runs : statuses[r] # "absent" =>
        runStatus[r] # "absent" /\ Behind(statuses[r], r)
ListIsPast ==
    /\ WasTrue(list)
    /\ \A q \in InFlight : (q.kind = "list" /\ q.read # Unread) => WasTrue(q.read)

DashboardInv == DetailInv /\ ListIsPast

\* A run that either page shows as ended has ended so, although what the pages show is
\* late and, at Home, out of order: the cancel button goes, and the polls of a detail
\* page stop, only for a run that is over (load, TERMINAL).
EndsAreTrue ==
    /\ (shown # NoRun /\ shown.status \in Over) => runStatus[shown.run] = shown.status
    /\ \A r \in Runs : list[r] \in Over => runStatus[r] = list[r]

\* Home's overlapping polls may show an older answer after a newer one, but
\* not in the end: on a page that is kept open and whose polls stop failing,
\* the list ends with how the runs ended.
HomeSettles ==
    \A r \in Runs :
        (<>[](page = Home /\ ~listFailed) /\ <>(runStatus[r] \in Over))
            => <>[](list[r] = runStatus[r])

\* A detail page that is kept open ends with the run's end, unless a poll
\* fails: that one is the last.
DetailSettles ==
    \A r \in Runs :
        (<>[](page = r /\ ~failed) /\ <>(runStatus[r] \in Over))
            => <>[](shown = [run |-> r, status |-> runStatus[r]])

\* Both pages, as long as one is kept open and its polls do not fail.
PagesSettle == HomeSettles /\ DetailSettles
=============================================================================
