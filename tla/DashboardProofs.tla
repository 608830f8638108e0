--------------------------- MODULE DashboardProofs ---------------------------
(***************************************************************************)
(* What a detail page shows, for any number of runs and any number of      *)
(* requests in flight: one chain of polls, about its own run, in order;    *)
(* and what either page shows of a run that has ended.                     *)
(***************************************************************************)
EXTENDS Dashboard, TLAPS

-----------------------------------------------------------------------------
\* The bag of requests.  Only the counts of live polls matter.

\* One request more.
LEMMA OneMore ==
    ASSUME NEW B, NEW e
    PROVE  DOMAIN (B (+) SetToBag({e})) = DOMAIN B \cup {e}
BY DEF (+), SetToBag

LEMMA OthersStay ==
    ASSUME NEW B, NEW e, NEW d \in DOMAIN B, d # e, B[d] = 1
    PROVE  (B (+) SetToBag({e}))[d] = 1
BY DEF (+), SetToBag

LEMMA NewOne ==
    ASSUME NEW B, NEW e, e \notin DOMAIN B
    PROVE  (B (+) SetToBag({e}))[e] = 1
BY DEF (+), SetToBag

\* One request less.
LEMMA OneLess ==
    ASSUME NEW B, NEW e
    PROVE  /\ DOMAIN (B (-) SetToBag({e})) \subseteq DOMAIN B
           /\ \A d \in DOMAIN (B (-) SetToBag({e})) : d # e => (B (-) SetToBag({e}))[d] = B[d]
           /\ \A d \in DOMAIN B : d # e /\ B[d] = 1 => d \in DOMAIN (B (-) SetToBag({e}))
           /\ e \in DOMAIN B /\ B[e] = 1 => e \notin DOMAIN (B (-) SetToBag({e}))
BY DEF (-), SetToBag

\* The requests of a page that is left.
LEMMA AllLeft ==
    ASSUME NEW B
    PROVE  /\ DOMAIN BagOfAll(Left, B) = {Left(q) : q \in DOMAIN B}
           /\ DOMAIN BagOfAll(Gone, B) = {Gone(q) : q \in DOMAIN B}
BY DEF BagOfAll, BagToSet

\* A request that has just been sent.
LEMMA Sent ==
    ASSUME NEW kind \in Kinds, NEW r \in Runs \cup {NoRun}
    PROVE  /\ Request(kind, r) \in RequestType
           /\ Request(kind, r).kind = kind /\ Request(kind, r).run = r
           /\ Request(kind, r).live = TRUE /\ Request(kind, r).read = Unread
BY DEF Request, RequestType, Unread

\* No page that was left has a live poll.
LEMMA LeftFields ==
    ASSUME NEW q \in RequestType
    PROVE  /\ Left(q) \in RequestType /\ Left(q).kind = q.kind
           /\ Left(q).run = q.run /\ Left(q).read = q.read
           /\ Left(q).live => q.kind = "cancel"
           /\ Gone(q) \in RequestType /\ Gone(q).kind = q.kind
           /\ Gone(q).run = q.run /\ Gone(q).read = q.read
           /\ ~Gone(q).live
BY DEF Left, Gone, RequestType

-----------------------------------------------------------------------------
\* What the ways of changing the requests do to the live polls.

\* Another kind of request is sent.
LEMMA SendOther ==
    ASSUME DetailInv, NEW kind \in Kinds \ {"detail"}, NEW r \in Runs \cup {NoRun},
           requests' = requests (+) Send(kind, r)
    PROVE  /\ InFlight' = InFlight \cup {Request(kind, r)}
           /\ Polls' = Polls /\ \A p \in Polls : requests'[p] = 1
<1>1. Request(kind, r).kind # "detail"
  BY Sent
<1>2. InFlight' = InFlight \cup {Request(kind, r)}
  BY OneMore DEF InFlight, BagToSet, Send
<1>3. Polls' = Polls
  BY <1>1, <1>2 DEF Polls
<1>4. ASSUME NEW p \in Polls PROVE requests'[p] = 1
  <2>1. requests[p] = 1 /\ p \in DOMAIN requests /\ p # Request(kind, r)
    BY <1>1 DEF DetailInv, OnePollChain, Polls, InFlight, BagToSet
  <2>2. (requests (+) SetToBag({Request(kind, r)}))[p] = 1
    BY <2>1, OthersStay
  <2> QED  BY <2>2 DEF Send
<1> QED  BY <1>2, <1>3, <1>4

\* A poll is sent, and there was none.
LEMMA SendPoll ==
    ASSUME DetailInv, NEW r \in Runs, Polls = {},
           requests' = requests (+) Send("detail", r)
    PROVE  /\ InFlight' = InFlight \cup {Request("detail", r)}
           /\ Polls' = {Request("detail", r)} /\ requests'[Request("detail", r)] = 1
<1>1. Request("detail", r).kind = "detail" /\ Request("detail", r).live
  BY Sent DEF Kinds
<1>2. InFlight' = InFlight \cup {Request("detail", r)}
  BY OneMore DEF InFlight, BagToSet, Send
<1>3. Request("detail", r) \notin DOMAIN requests
  BY <1>1 DEF Polls, InFlight, BagToSet
<1>4. (requests (+) SetToBag({Request("detail", r)}))[Request("detail", r)] = 1
  BY <1>3, NewOne
<1>5. Polls' = Polls \cup {Request("detail", r)}
  BY <1>1, <1>2 DEF Polls
<1> QED  BY <1>2, <1>4, <1>5 DEF Send

\* A request that is no live poll is answered or lost.
LEMMA TakeOther ==
    ASSUME DetailInv, NEW q \in InFlight, q \notin Polls, requests' = Taken(q)
    PROVE  /\ InFlight' \subseteq InFlight
           /\ Polls' = Polls /\ \A p \in Polls : requests'[p] = 1
<1>1. ASSUME NEW p \in Polls PROVE p \in InFlight' /\ requests'[p] = 1
  <2>1. requests[p] = 1 /\ p \in DOMAIN requests /\ p # q
    BY DEF DetailInv, OnePollChain, Polls, InFlight, BagToSet
  <2> QED  BY <2>1, OneLess DEF Taken, InFlight, BagToSet
<1>2. InFlight' \subseteq InFlight
  BY OneLess DEF InFlight, BagToSet, Taken
<1>3. Polls' = Polls
  BY <1>1, <1>2 DEF Polls
<1> QED  BY <1>1, <1>2, <1>3

\* The live poll is answered or lost.
LEMMA TakePoll ==
    ASSUME DetailInv, NEW q \in Polls, requests' = Taken(q)
    PROVE  InFlight' \subseteq InFlight /\ Polls' = {} /\ timers = {}
<1>1. InFlight' \subseteq InFlight
  BY OneLess DEF InFlight, BagToSet, Taken
<1>2. q \notin InFlight'
  <2>1. requests[q] = 1 /\ q \in DOMAIN requests
    BY DEF DetailInv, OnePollChain, Polls, InFlight, BagToSet
  <2> QED  BY <2>1, OneLess DEF InFlight, BagToSet, Taken
<1>3. Polls' \subseteq Polls /\ q \notin Polls'
  BY <1>1, <1>2 DEF Polls
<1>4. \A p \in Polls : p = q
  BY DEF DetailInv, OnePollChain
<1> QED  BY <1>1, <1>3, <1>4 DEF DetailInv, OnePollChain

\* A request is read.
LEMMA ReadOne ==
    ASSUME DetailInv, NEW q \in InFlight, q.read = Unread,
           NEW v \in [Runs -> Statuses \cup {"unread"}], q \in Polls => v # Unread,
           requests' = (requests (-) SetToBag({q})) (+) SetToBag({[q EXCEPT !.read = v]})
    PROVE  /\ InFlight' \subseteq InFlight \cup {[q EXCEPT !.read = v]}
           /\ Polls' = IF q \in Polls THEN {[q EXCEPT !.read = v]} ELSE Polls
           /\ \A p \in Polls' : requests'[p] = 1
<1> DEFINE p == [q EXCEPT !.read = v]
           B == requests (-) SetToBag({q})
<1>1. /\ p \in RequestType /\ p.kind = q.kind /\ p.run = q.run /\ p.live = q.live
      /\ p.read = v /\ (q \in Polls => p # q)
  BY DEF DetailInv, TypeOK, RequestType
<1>2. requests' = B (+) SetToBag({p})
  OBVIOUS
<1> HIDE DEF p
<1>3. DOMAIN B \subseteq DOMAIN requests /\ InFlight' = DOMAIN B \cup {p}
  BY <1>2, OneLess, OneMore DEF InFlight, BagToSet
<1>4. CASE q \in Polls
  <2>1. requests[q] = 1 /\ \A d \in Polls : d = q
    BY <1>4 DEF DetailInv, OnePollChain
  <2>2. q \notin DOMAIN B
    BY <2>1, OneLess DEF InFlight, BagToSet
  <2>3. p \notin DOMAIN requests
    BY <1>1, <1>4, <2>1 DEF Polls, InFlight, BagToSet
  <2>4. requests'[p] = 1
    <3>1. p \notin DOMAIN B
      BY <1>3, <2>3
    <3>2. (B (+) SetToBag({p}))[p] = 1
      BY <3>1, NewOne
    <3> QED  BY <1>2, <3>2
  <2>5. Polls' = {p}
    BY <1>1, <1>3, <1>4, <2>1, <2>2 DEF Polls, InFlight, BagToSet
  <2> QED  BY <1>3, <1>4, <2>4, <2>5 DEF InFlight, BagToSet, p
<1>5. CASE q \notin Polls
  <2>1. ~(p.kind = "detail" /\ p.live)
    BY <1>1, <1>5 DEF Polls
  <2>2. ASSUME NEW d \in Polls PROVE d \in DOMAIN B /\ requests'[d] = 1
    <3>1. requests[d] = 1 /\ d \in DOMAIN requests /\ d # q /\ d # p
      BY <1>5, <2>1 DEF DetailInv, OnePollChain, Polls, InFlight, BagToSet
    <3>2. d \in DOMAIN B /\ B[d] = 1
      BY <3>1, OneLess
    <3>3. (B (+) SetToBag({p}))[d] = 1
      BY <3>1, <3>2, OthersStay
    <3> QED  BY <1>2, <3>2, <3>3
  <2>3. Polls' = Polls
    BY <1>3, <2>1, <2>2 DEF Polls, InFlight, BagToSet
  <2> QED  BY <1>3, <1>5, <2>2, <2>3 DEF InFlight, BagToSet, p
<1> QED  BY <1>4, <1>5

\* A detail page is left for another page, or entered.
LEMMA TurnPage ==
    ASSUME DetailInv, NEW r \in Runs, NEW B, DOMAIN B \subseteq InFlight,
           requests' = BagOfAll(Left, B) (+) Send("detail", r)
    PROVE  /\ InFlight' \subseteq {Left(q) : q \in InFlight} \cup {Request("detail", r)}
           /\ Polls' = {Request("detail", r)} /\ requests'[Request("detail", r)] = 1
<1> DEFINE new == Request("detail", r)
           A == BagOfAll(Left, B)
<1>1. requests' = A (+) SetToBag({new})
  BY DEF Send
<1>2. DOMAIN A = {Left(q) : q \in DOMAIN B}
  BY AllLeft
<1>3. \A q \in InFlight : Left(q).live => Left(q).kind # "detail"
  BY LeftFields DEF DetailInv, TypeOK
<1>4. new.kind = "detail" /\ new.live
  BY Sent DEF Kinds
<1> HIDE DEF A, new
<1>5. InFlight' = DOMAIN A \cup {new}
  BY <1>1, OneMore DEF InFlight, BagToSet
<1>6. \A d \in DOMAIN A : d.live => d.kind # "detail"
  BY <1>2, <1>3
<1>7. requests'[new] = 1
  <2>1. new \notin DOMAIN A
    BY <1>4, <1>6
  <2>2. (A (+) SetToBag({new}))[new] = 1
    BY <2>1, NewOne
  <2> QED  BY <1>1, <2>2
<1>8. Polls' = {new}
  BY <1>4, <1>5, <1>6 DEF Polls
<1> QED  BY <1>2, <1>5, <1>7, <1>8 DEF new

LEMMA TurnHome ==
    ASSUME DetailInv, requests' = BagOfAll(Gone, requests) (+) Send("list", NoRun)
    PROVE  /\ InFlight' = {Gone(q) : q \in InFlight} \cup {Request("list", NoRun)}
           /\ Polls' = {}
<1>1. InFlight' = {Gone(q) : q \in InFlight} \cup {Request("list", NoRun)}
  BY AllLeft, OneMore DEF InFlight, BagToSet, Send
<1>2. \A q \in InFlight : ~Gone(q).live
  BY LeftFields DEF DetailInv, TypeOK
<1>3. Request("list", NoRun).kind # "detail"
  BY Sent DEF Kinds
<1> QED  BY <1>1, <1>2, <1>3 DEF Polls

-----------------------------------------------------------------------------
\* The invariant, action by action.

LEMMA InitInv == DInit => DetailInv
<1> SUFFICES ASSUME DInit PROVE DetailInv
  OBVIOUS
<1>1. InFlight = {Request("list", NoRun)}
  BY DEF DInit, Send, SetToBag, InFlight, BagToSet
<1>2. /\ Request("list", NoRun) \in RequestType /\ Request("list", NoRun).kind = "list"
      /\ Request("list", NoRun).read = Unread
  BY Sent DEF Kinds
<1>3. Polls = {}
  BY <1>1, <1>2 DEF Polls
<1>4. TypeOK
  BY <1>1, <1>2 DEF DInit, TypeOK, Statuses, EmptyList
<1>5. RequestsMakeSense
  BY <1>1, <1>2 DEF RequestsMakeSense
<1>6. OnePollChain /\ PollingGoesOn /\ ShownIsPast
  BY <1>3 DEF DInit, OnePollChain, PollingGoesOn, ShownIsPast
<1> QED  BY <1>4, <1>5, <1>6 DEF DetailInv

\* Rows only move on, and the page with its polls stays as it is.
MovesOn ==
    /\ runStatus' \in [Runs -> Statuses]
    /\ \A r \in Runs : runStatus[r] # "absent" =>
          /\ runStatus'[r] # "absent" /\ Stage(runStatus[r]) <= Stage(runStatus'[r])
          /\ runStatus[r] \in Over => runStatus'[r] = runStatus[r]

LEMMA Standstill == ASSUME DetailInv, UNCHANGED runStatus PROVE MovesOn
<1>1. \A r \in Runs : Stage(runStatus[r]) \in 0 .. 3
  BY DEF Stage
<1> QED  BY <1>1 DEF MovesOn, DetailInv, TypeOK

LEMMA PageStays ==
    ASSUME DetailInv, MovesOn, UNCHANGED <<page, shown, failed, timers>>,
           Polls' = Polls, \A p \in Polls : requests'[p] = 1
    PROVE  OnePollChain' /\ PollingGoesOn' /\ ShownIsPast'
<1>1. \A status \in Statuses : Stage(status) \in 0 .. 3
  BY DEF Stage
<1>2. OnePollChain' /\ PollingGoesOn'
  BY DEF DetailInv, OnePollChain, PollingGoesOn
<1>3. page # Home => runStatus'[page] # "absent"
  BY DEF DetailInv, TypeOK, ShownIsPast, MovesOn
<1>4. \A r \in Runs, status \in Statuses :
        runStatus[r] # "absent" /\ Behind(status, r) =>
            /\ Stage(status) <= Stage(runStatus'[r])
            /\ status \in Over => runStatus'[r] = status
  BY <1>1 DEF Behind, MovesOn, DetailInv, TypeOK
<1>5. shown # NoRun => /\ shown.run \in Runs /\ shown.status \in Statuses
                       /\ runStatus'[shown.run] # "absent"
                       /\ Stage(shown.status) <= Stage(runStatus'[shown.run])
                       /\ shown.status \in Over => runStatus'[shown.run] = shown.status
  BY <1>4 DEF DetailInv, TypeOK, ShownIsPast, MovesOn
<1>6. ASSUME NEW q \in Polls, q.read # Unread
      PROVE  /\ Stage(q.read[q.run]) <= Stage(runStatus'[q.run])
             /\ q.read[q.run] \in Over => runStatus'[q.run] = q.read[q.run]
             /\ (shown # NoRun /\ shown.run = q.run) => Stage(shown.status) <= Stage(q.read[q.run])
  BY <1>4, <1>6 DEF Polls, DetailInv, RequestsMakeSense, ShownIsPast
<1> QED  BY <1>2, <1>3, <1>5, <1>6 DEF ShownIsPast, Behind

\* Requests that are there already keep making sense.
LEMMA OldOnes ==
    ASSUME DetailInv, MovesOn
    PROVE  \A q \in InFlight :
             IF q.kind = "list" THEN q.read = Unread \/ q.read \in [Runs -> Statuses]
             ELSE /\ q.run \in Runs
                  /\ q.read # Unread => q.read[q.run] \in Statuses \ {"absent"}
                  /\ (q.kind = "create" /\ q.read = Unread) \/ runStatus'[q.run] # "absent"
BY DEF DetailInv, RequestsMakeSense, MovesOn

\* The backend moves a run.
LEMMA RunMovesOn == ASSUME DetailInv, NEW r \in Runs, RunMoves(r) PROVE MovesOn
<1>1. \A t \in Runs \ {r} : runStatus'[t] = runStatus[t]
  BY DEF RunMoves, Cancelled, DetailInv, TypeOK
<1>2. /\ runStatus' \in [Runs -> Statuses] /\ runStatus'[r] # "absent"
      /\ Stage(runStatus[r]) <= Stage(runStatus'[r]) /\ runStatus[r] \notin Over
  BY DEF RunMoves, Cancelled, Stage, Open, Over, Statuses, DetailInv, TypeOK
<1>3. \A t \in Runs : Stage(runStatus[t]) <= Stage(runStatus[t])
  BY DEF Stage
<1> QED  BY <1>1, <1>2, <1>3 DEF MovesOn

LEMMA RunMovesInv == ASSUME DetailInv, NEW r \in Runs, RunMoves(r) PROVE DetailInv'
<1>1. UNCHANGED <<page, shown, failed, timers, list, listFailed, requests>>
  BY DEF RunMoves
<1>2. MovesOn
  BY RunMovesOn
<1>3. InFlight' = InFlight /\ Polls' = Polls
  BY <1>1 DEF InFlight, BagToSet, Polls
<1>4. TypeOK' /\ RequestsMakeSense'
  BY <1>1, <1>2, <1>3, OldOnes DEF DetailInv, TypeOK, RequestsMakeSense, MovesOn
<1>5. OnePollChain' /\ PollingGoesOn' /\ ShownIsPast'
  BY <1>1, <1>2, <1>3, PageStays DEF DetailInv, OnePollChain
<1> QED  BY <1>4, <1>5 DEF DetailInv

\* A request of another kind than a poll is sent.
LEMMA SendInv ==
    ASSUME DetailInv, NEW kind \in Kinds \ {"detail"}, NEW r \in Runs \cup {NoRun},
           kind # "list" => r \in Runs,
           kind = "cancel" => runStatus[r] # "absent",
           requests' = requests (+) Send(kind, r),
           UNCHANGED <<runStatus, page, shown, failed, timers, list, listFailed>>
    PROVE  DetailInv'
<1> DEFINE new == Request(kind, r)
<1>1. /\ InFlight' = InFlight \cup {new}
      /\ Polls' = Polls /\ \A p \in Polls : requests'[p] = 1
  BY SendOther
<1>2. new \in RequestType /\ new.kind = kind /\ new.run = r /\ new.read = Unread
  BY Sent
<1> HIDE DEF new
<1>3. MovesOn
  BY Standstill
<1>4. TypeOK'
  BY <1>1, <1>2 DEF DetailInv, TypeOK
<1>5. RequestsMakeSense'
  <2>1. kind \in {"list", "create", "cancel"}
    BY DEF Kinds
  <2> QED  BY <1>1, <1>2, <1>3, <2>1, OldOnes DEF RequestsMakeSense
<1> QED  BY <1>1, <1>3, <1>4, <1>5, PageStays DEF DetailInv

LEMMA SubmitRunInv == ASSUME DetailInv, NEW r \in Runs, SubmitRun(r) PROVE DetailInv'
<1>1. "create" \in Kinds \ {"detail"}
  BY DEF Kinds
<1> QED  BY <1>1, SendInv DEF SubmitRun

LEMMA ClickCancelInv == ASSUME DetailInv, ClickCancel PROVE DetailInv'
<1>1. "cancel" \in Kinds \ {"detail"}
  BY DEF Kinds
<1>2. page \in Runs /\ runStatus[page] # "absent"
  BY DEF ClickCancel, DetailInv, TypeOK, ShownIsPast
<1> QED  BY <1>1, <1>2, SendInv DEF ClickCancel

LEMMA PollHomeInv == ASSUME DetailInv, PollHome PROVE DetailInv'
<1>1. "list" \in Kinds \ {"detail"}
  BY DEF Kinds
<1> QED  BY <1>1, SendInv DEF PollHome

\* The timer turns into a poll.
LEMMA PollDetailInv == ASSUME DetailInv, NEW r \in Runs, PollDetail(r) PROVE DetailInv'
<1> DEFINE new == Request("detail", r)
<1>1. page = r /\ timers = {r} /\ Polls = {} /\ page # Home /\ runStatus[r] # "absent"
  BY DashboardConstants DEF PollDetail, DetailInv, OnePollChain, ShownIsPast
<1>2. InFlight' = InFlight \cup {new} /\ Polls' = {new} /\ requests'[new] = 1
  BY <1>1, SendPoll DEF PollDetail
<1>3. /\ new \in RequestType /\ new.kind = "detail" /\ new.run = r /\ new.read = Unread
  BY Sent DEF Kinds
<1> HIDE DEF new
<1>4. timers' = {} /\ UNCHANGED <<runStatus, page, shown, failed, list, listFailed>>
  BY <1>1 DEF PollDetail
<1>5. TypeOK'
  BY <1>2, <1>3, <1>4 DEF DetailInv, TypeOK
<1>6. RequestsMakeSense'
  BY <1>1, <1>2, <1>3, <1>4 DEF DetailInv, RequestsMakeSense
<1>7. OnePollChain' /\ PollingGoesOn'
  BY <1>1, <1>2, <1>3, <1>4 DEF OnePollChain, PollingGoesOn
<1>8. ShownIsPast'
  BY <1>2, <1>3, <1>4 DEF DetailInv, ShownIsPast, Behind
<1> QED  BY <1>5, <1>6, <1>7, <1>8 DEF DetailInv

\* The detail page of a run, from wherever the user is: one new chain of polls.
LEMMA ShowInv ==
    ASSUME DetailInv, NEW r \in Runs, runStatus[r] # "absent", NEW B, DOMAIN B \subseteq InFlight,
           Show(r, B), UNCHANGED runStatus
    PROVE  DetailInv'
<1> DEFINE new == Request("detail", r)
<1>1. /\ InFlight' \subseteq {Left(q) : q \in InFlight} \cup {new}
      /\ Polls' = {new} /\ requests'[new] = 1
  BY TurnPage DEF Show
<1>2. /\ new \in RequestType /\ new.kind = "detail" /\ new.run = r /\ new.read = Unread
  BY Sent DEF Kinds
<1> HIDE DEF new
<1>3. /\ page' = r /\ timers' = {} /\ shown' \in {NoRun, shown} /\ failed' \in BOOLEAN
      /\ list' = EmptyList /\ listFailed' = FALSE /\ UNCHANGED runStatus
  BY DEF Show, Cleanup, DetailInv, TypeOK
<1>4. TypeOK'
  <2>1. \A q \in InFlight : Left(q) \in RequestType
    BY LeftFields DEF DetailInv, TypeOK
  <2>2. InFlight' \subseteq RequestType
    BY <1>1, <1>2, <2>1
  <2>3. EmptyList \in [Runs -> Statuses]
    BY DEF EmptyList, Statuses
  <2> QED  BY <1>3, <2>2, <2>3 DEF DetailInv, TypeOK
<1>5. RequestsMakeSense'
  <2>1. ASSUME NEW q \in InFlight
        PROVE  IF Left(q).kind = "list"
                 THEN Left(q).read = Unread \/ Left(q).read \in [Runs -> Statuses]
                 ELSE /\ Left(q).run \in Runs
                      /\ Left(q).read # Unread => Left(q).read[Left(q).run] \in Statuses \ {"absent"}
                      /\ \/ Left(q).kind = "create" /\ Left(q).read = Unread
                         \/ runStatus[Left(q).run] # "absent"
    <3>1. Left(q).kind = q.kind /\ Left(q).run = q.run /\ Left(q).read = q.read
      BY LeftFields DEF DetailInv, TypeOK
    <3> QED  BY <3>1 DEF DetailInv, RequestsMakeSense
  <2> QED  BY <1>1, <1>2, <1>3, <2>1 DEF RequestsMakeSense
<1>6. OnePollChain' /\ PollingGoesOn'
  BY <1>1, <1>2, <1>3 DEF OnePollChain, PollingGoesOn
<1>7. ShownIsPast'
  BY <1>1, <1>2, <1>3 DEF DetailInv, ShownIsPast, Behind
<1> QED  BY <1>4, <1>5, <1>6, <1>7 DEF DetailInv

LEMMA OpenRunInv == ASSUME DetailInv, NEW r \in Runs, OpenRun(r) PROVE DetailInv'
BY ShowInv DEF OpenRun, InFlight, BagToSet

LEMMA GoHomeInv == ASSUME DetailInv, GoHome PROVE DetailInv'
<1> DEFINE new == Request("list", NoRun)
<1>1. InFlight' = {Gone(q) : q \in InFlight} \cup {new} /\ Polls' = {}
  BY TurnHome DEF GoHome
<1>2. new \in RequestType /\ new.kind = "list" /\ new.read = Unread
  BY Sent DEF Kinds
<1> HIDE DEF new
<1>3. /\ page' = Home /\ timers' = {} /\ shown' = NoRun /\ failed' = FALSE
      /\ UNCHANGED <<runStatus, list, listFailed>>
  BY DEF GoHome, Cleanup
<1>4. TypeOK'
  <2>1. \A q \in InFlight : Gone(q) \in RequestType
    BY LeftFields DEF DetailInv, TypeOK
  <2> QED  BY <1>1, <1>2, <1>3, <2>1 DEF DetailInv, TypeOK
<1>5. RequestsMakeSense'
  <2>1. ASSUME NEW q \in InFlight
        PROVE  IF Gone(q).kind = "list"
                 THEN Gone(q).read = Unread \/ Gone(q).read \in [Runs -> Statuses]
                 ELSE /\ Gone(q).run \in Runs
                      /\ Gone(q).read # Unread => Gone(q).read[Gone(q).run] \in Statuses \ {"absent"}
                      /\ \/ Gone(q).kind = "create" /\ Gone(q).read = Unread
                         \/ runStatus[Gone(q).run] # "absent"
    <3>1. Gone(q).kind = q.kind /\ Gone(q).run = q.run /\ Gone(q).read = q.read
      BY LeftFields DEF DetailInv, TypeOK
    <3> QED  BY <3>1 DEF DetailInv, RequestsMakeSense
  <2> QED  BY <1>1, <1>2, <1>3, <2>1 DEF RequestsMakeSense
<1>6. OnePollChain' /\ PollingGoesOn' /\ ShownIsPast'
  BY <1>1, <1>3 DEF OnePollChain, PollingGoesOn, ShownIsPast
<1> QED  BY <1>4, <1>5, <1>6 DEF DetailInv

\* The backend handles a request, and reads the truth of that moment.
LEMMA HandleMovesOn ==
    ASSUME DetailInv, NEW q \in InFlight, q.kind # "list", q.read = Unread,
           q.kind = "create" => runStatus[q.run] = "absent"
    PROVE  /\ Handle(q) \in [Runs -> Statuses] /\ q.run \in Runs /\ Handle(q)[q.run] # "absent"
           /\ \A r \in Runs : runStatus[r] # "absent" =>
                 /\ Handle(q)[r] # "absent" /\ Stage(runStatus[r]) <= Stage(Handle(q)[r])
                 /\ runStatus[r] \in Over => Handle(q)[r] = runStatus[r]
<1>1. q.run \in Runs /\ q.kind \in Kinds /\ (q.kind # "create" => runStatus[q.run] # "absent")
  BY DEF DetailInv, TypeOK, RequestType, RequestsMakeSense
<1>2. \A r \in Runs : Stage(runStatus[r]) <= Stage(runStatus[r])
  BY DEF Stage
<1>3. CASE q.kind = "create"
  BY <1>1, <1>2, <1>3 DEF Handle, DetailInv, TypeOK, Statuses
<1>4. CASE q.kind = "cancel"
  <2>1. Handle(q) = Cancelled(q.run)
    BY <1>4 DEF Handle
  <2>2. \A r \in Runs \ {q.run} : Cancelled(q.run)[r] = runStatus[r]
    BY DEF Cancelled, DetailInv, TypeOK
  <2>3. /\ Cancelled(q.run) \in [Runs -> Statuses] /\ Cancelled(q.run)[q.run] # "absent"
        /\ Stage(runStatus[q.run]) <= Stage(Cancelled(q.run)[q.run])
        /\ runStatus[q.run] \in Over => Cancelled(q.run)[q.run] = runStatus[q.run]
    BY <1>1, <1>2, <1>4 DEF Cancelled, Open, Over, Stage, Statuses, DetailInv, TypeOK
  <2> QED  BY <1>1, <1>2, <2>1, <2>2, <2>3
<1>5. CASE q.kind = "detail"
  BY <1>1, <1>2, <1>5 DEF Handle, DetailInv, TypeOK
<1> QED  BY <1>1, <1>3, <1>4, <1>5 DEF Kinds, DetailInv, TypeOK

LEMMA ServeMovesOn == ASSUME DetailInv, NEW q \in InFlight, Serve(q) PROVE MovesOn
<1>1. CASE q.kind = "list"
  BY <1>1, Standstill DEF Serve, Handle
<1>2. CASE q.kind # "list"
  BY <1>2, HandleMovesOn DEF Serve, MovesOn
<1> QED  BY <1>1, <1>2

LEMMA ServeInv == ASSUME DetailInv, NEW q \in InFlight, Serve(q) PROVE DetailInv'
<1> DEFINE p == [q EXCEPT !.read = Reads(q)]
<1>1. q \in RequestType /\ q.kind \in Kinds /\ q.read = Unread
  BY DEF DetailInv, TypeOK, RequestType, Serve
<1>2. /\ runStatus' = Handle(q)
      /\ requests' = (requests (-) SetToBag({q})) (+) SetToBag({[q EXCEPT !.read = Reads(q)]})
      /\ UNCHANGED <<page, shown, failed, timers, list, listFailed>>
  BY DEF Serve
<1>3. MovesOn
  BY ServeMovesOn
<1>4. /\ q.kind = "list" => Reads(q) \in [Runs -> Statuses]
      /\ q.kind # "list" => /\ Reads(q) \in [Runs -> Statuses \cup {"unread"}]
                            /\ q.run \in Runs /\ Reads(q)[q.run] = runStatus'[q.run]
                            /\ Reads(q)[q.run] \in Statuses \ {"absent"}
                            /\ Reads(q) # Unread
  <2>1. CASE q.kind = "list"
    BY <2>1 DEF Reads, DetailInv, TypeOK
  <2>2. CASE q.kind # "list"
    <3>1. /\ Handle(q) \in [Runs -> Statuses] /\ q.run \in Runs /\ Handle(q)[q.run] # "absent"
      BY <1>1, <2>2, HandleMovesOn DEF Serve
    <3>2. Reads(q) = [Unread EXCEPT ![q.run] = Handle(q)[q.run]]
      BY <2>2 DEF Reads
    <3>3. Unread[q.run] \notin Statuses
      BY <3>1 DEF Unread, Statuses
    <3> QED  BY <1>2, <2>2, <3>1, <3>2, <3>3 DEF Unread
  <2> QED  BY <2>1, <2>2
<1>5. /\ InFlight' \subseteq InFlight \cup {p}
      /\ Polls' = IF q \in Polls THEN {p} ELSE Polls
      /\ \A d \in Polls' : requests'[d] = 1
  <2>1. q \in Polls => Reads(q) # Unread
    BY <1>4 DEF Polls
  <2>2. Reads(q) \in [Runs -> Statuses \cup {"unread"}]
    BY <1>4
  <2> QED  BY <1>1, <1>2, <2>1, <2>2, ReadOne
<1>6. /\ p \in RequestType /\ p.kind = q.kind /\ p.run = q.run /\ p.live = q.live
      /\ p.read = Reads(q)
  BY <1>1, <1>4 DEF RequestType
<1> HIDE DEF p
<1>7. TypeOK'
  BY <1>2, <1>3, <1>5, <1>6 DEF DetailInv, TypeOK, MovesOn
<1>8. RequestsMakeSense'
  BY <1>3, <1>4, <1>5, <1>6, OldOnes DEF RequestsMakeSense
<1>9. CASE q \notin Polls
  BY <1>2, <1>3, <1>5, <1>7, <1>8, <1>9, PageStays DEF DetailInv
<1>10. CASE q \in Polls
  <2>1. q.run = page /\ \A d \in Polls : d = q
    BY <1>10 DEF DetailInv, OnePollChain
  <2>2. OnePollChain' /\ PollingGoesOn'
    BY <1>2, <1>5, <1>6, <1>10, <2>1 DEF DetailInv, OnePollChain, PollingGoesOn
  <2>3. q.kind = "detail" /\ runStatus' = runStatus
    BY <1>2, <1>10 DEF Polls, Handle
  <2>4. \A r \in Runs : Stage(runStatus[r]) <= Stage(runStatus[r])
    BY DEF Stage
  <2>5. p.read[p.run] = runStatus[p.run] /\ p.run \in Runs
    BY <1>4, <1>6, <2>3
  <2>6. ShownIsPast'
    BY <1>2, <1>5, <1>10, <2>3, <2>4, <2>5 DEF DetailInv, ShownIsPast, Behind
  <2> QED  BY <1>7, <1>8, <2>2, <2>6 DEF DetailInv
<1> QED  BY <1>9, <1>10

\* An answer, or a failure, that the page takes no notice of.
LEMMA IgnoredInv ==
    ASSUME DetailInv, NEW q \in InFlight, q \notin Polls, requests' = Taken(q),
           UNCHANGED <<runStatus, page, shown, timers>>,
           failed' \in BOOLEAN, failed => failed',
           list' \in [Runs -> Statuses], listFailed' \in BOOLEAN
    PROVE  DetailInv'
<1>1. InFlight' \subseteq InFlight /\ Polls' = Polls /\ \A p \in Polls : requests'[p] = 1
  BY TakeOther
<1>2. TypeOK' /\ RequestsMakeSense'
  BY <1>1 DEF DetailInv, TypeOK, RequestsMakeSense
<1>3. OnePollChain' /\ PollingGoesOn' /\ ShownIsPast'
  BY <1>1 DEF DetailInv, OnePollChain, PollingGoesOn, ShownIsPast, Behind
<1> QED  BY <1>2, <1>3 DEF DetailInv

LEMMA AnswerDetailInv ==
    ASSUME DetailInv, NEW q \in InFlight, q.read # Unread, AnswerDetail(q), UNCHANGED runStatus
    PROVE  DetailInv'
<1>1. CASE ~q.live
  BY <1>1, IgnoredInv DEF AnswerDetail, Polls, DetailInv, TypeOK
<1>2. CASE q.live
  <2>1. /\ q \in Polls /\ q.run = page /\ q.run \in Runs
        /\ q.read[q.run] \in Statuses \ {"absent"} /\ Behind(q.read[q.run], q.run)
        /\ runStatus[q.run] # "absent"
    BY <1>2 DEF AnswerDetail, Polls, DetailInv, RequestsMakeSense, OnePollChain, ShownIsPast
  <2>2. InFlight' \subseteq InFlight /\ Polls' = {} /\ timers = {}
    BY <2>1, TakePoll DEF AnswerDetail
  <2>3. /\ shown' = [run |-> q.run, status |-> q.read[q.run]] /\ failed' = FALSE
        /\ timers' = IF q.read[q.run] \in TERMINAL THEN {} ELSE {q.run}
        /\ UNCHANGED <<runStatus, page, list, listFailed>>
    BY <1>2, <2>2 DEF AnswerDetail
  <2>4. TypeOK' /\ RequestsMakeSense'
    BY <2>1, <2>2, <2>3 DEF DetailInv, TypeOK, RequestsMakeSense
  <2>5. OnePollChain' /\ PollingGoesOn'
    BY <2>1, <2>2, <2>3, DashboardConstants DEF OnePollChain, PollingGoesOn, TERMINAL, Over
  <2>6. ShownIsPast'
    BY <2>1, <2>2, <2>3 DEF DetailInv, ShownIsPast, Behind
  <2> QED  BY <2>4, <2>5, <2>6 DEF DetailInv
<1> QED  BY <1>1, <1>2 DEF DetailInv, TypeOK, RequestType

LEMMA AnswerInv == ASSUME DetailInv, NEW q \in InFlight, Answer(q) PROVE DetailInv'
<1>1. q.read # Unread /\ UNCHANGED runStatus
  BY DEF Answer
<1>2. CASE AnswerDetail(q)
  BY <1>1, <1>2, AnswerDetailInv
<1>3. CASE AnswerList(q)
  BY <1>1, <1>3, IgnoredInv DEF AnswerList, Polls, DetailInv, TypeOK, RequestsMakeSense
<1>4. CASE AnswerCreate(q)
  <2>1. q.kind = "create" /\ q.run \in Runs /\ runStatus[q.run] # "absent" /\ q \notin Polls
    BY <1>1, <1>4 DEF AnswerCreate, DetailInv, RequestsMakeSense, Polls
  <2>2. CASE page = q.run
    <3>1. requests' = Taken(q) /\ UNCHANGED <<page, shown, failed, timers, list, listFailed>>
      BY <1>4, <2>2 DEF AnswerCreate
    <3>2. failed \in BOOLEAN /\ listFailed \in BOOLEAN /\ list \in [Runs -> Statuses]
      BY DEF DetailInv, TypeOK
    <3> QED  BY <1>1, <2>1, <3>1, <3>2, IgnoredInv
  <2>3. CASE page # q.run
    <3>1. DOMAIN Taken(q) \subseteq InFlight
      BY OneLess DEF Taken, InFlight, BagToSet
    <3> QED  BY <1>1, <1>4, <2>1, <2>3, <3>1, ShowInv DEF AnswerCreate
  <2> QED  BY <2>2, <2>3
<1>5. CASE AnswerCancel(q)
  BY <1>1, <1>5, IgnoredInv DEF AnswerCancel, Polls, DetailInv, TypeOK
<1> QED  BY <1>2, <1>3, <1>4, <1>5 DEF Answer

\* A live poll that fails is the last: its error takes the place of the run.
LEMMA FailInv == ASSUME DetailInv, NEW q \in InFlight, Fail(q) PROVE DetailInv'
<1>1. /\ requests' = Taken(q) /\ UNCHANGED <<runStatus, page, shown, timers, list>>
      /\ failed' \in BOOLEAN /\ listFailed' \in BOOLEAN /\ (failed => failed')
  BY DEF Fail, DetailInv, TypeOK
<1>2. CASE q \notin Polls
  BY <1>1, <1>2, IgnoredInv DEF DetailInv, TypeOK
<1>3. CASE q \in Polls
  <2>1. failed'
    BY <1>3 DEF Fail, Polls
  <2>2. InFlight' \subseteq InFlight /\ Polls' = {} /\ timers = {}
    BY <1>1, <1>3, TakePoll
  <2> QED  BY <1>1, <2>1, <2>2 DEF DetailInv, TypeOK, RequestsMakeSense, OnePollChain,
                                    PollingGoesOn, ShownIsPast, Behind
<1> QED  BY <1>2, <1>3

LEMMA NextInv == DetailInv /\ [DNext]_dvars => DetailInv'
<1> SUFFICES ASSUME DetailInv, [DNext]_dvars PROVE DetailInv'
  OBVIOUS
<1>1. CASE UNCHANGED dvars
  BY <1>1 DEF dvars, DetailInv, TypeOK, RequestsMakeSense, OnePollChain, PollingGoesOn,
              ShownIsPast, Behind, InFlight, BagToSet, Polls
<1>2. CASE DNext
  BY <1>2, RunMovesInv, OpenRunInv, SubmitRunInv, PollDetailInv, GoHomeInv, ClickCancelInv,
     PollHomeInv, ServeInv, AnswerInv, FailInv DEF DNext
<1> QED  BY <1>1, <1>2

\* In every interleaving of polls, answers, failures and moves between the pages, the
\* requests make sense, a detail page has one chain of polls, and what it shows is
\* behind what it will be told (load, the cleanup, `active`).
THEOREM DetailInvariant == DSpec => []DetailInv
<1> QED  BY InitInv, NextInv, PTL DEF DSpec

\* The types of the pages and of what is in flight.
THEOREM DashboardTypeOK == DSpec => []TypeOK
<1>1. DetailInv => TypeOK
  BY DEF DetailInv
<1> QED  BY <1>1, DetailInvariant, PTL

\* One request or one timer, for the run of the page's address, whatever the user
\* clicked and whatever is still in flight for a page that was left.
THEOREM DashboardPollsOnce == DSpec => []OnePollChain
<1>1. DetailInv => OnePollChain
  BY DEF DetailInv
<1> QED  BY <1>1, DetailInvariant, PTL

\* Polling stops only at a terminal status or with an error on the page (load).
THEOREM DashboardPollsOn == DSpec => []PollingGoesOn
<1>1. DetailInv => PollingGoesOn
  BY DEF DetailInv
<1> QED  BY <1>1, DetailInvariant, PTL

-----------------------------------------------------------------------------
\* What is shown.

\* Only the live poll of the page changes what a page goes on showing.
LEMMA ShownChanges ==
    ASSUME DetailInv, [DNext]_dvars, shown' # shown, shown' # NoRun
    PROVE  /\ shown'.run = page'
           /\ (shown # NoRun /\ shown.run = shown'.run)
                 => Stage(shown.status) <= Stage(shown'.status)
<1>1. PICK q \in InFlight : AnswerDetail(q) /\ q.live /\ q.read # Unread
  BY DEF dvars, DNext, RunMoves, OpenRun, SubmitRun, PollDetail, GoHome, ClickCancel, PollHome,
         Serve, Answer, AnswerDetail, AnswerList, AnswerCreate, AnswerCancel, Fail, Show
<1>2. q \in Polls /\ shown' = [run |-> q.run, status |-> q.read[q.run]] /\ page' = page
  BY <1>1 DEF AnswerDetail, Polls
<1>3. q.run = page
  BY <1>2 DEF DetailInv, OnePollChain
<1>4. (shown # NoRun /\ shown.run = q.run) => Stage(shown.status) <= Stage(q.read[q.run])
  BY <1>1, <1>2 DEF DetailInv, ShownIsPast
<1> QED  BY <1>2, <1>3, <1>4

\* A page never takes a status back, and never shows the answer for another run.
THEOREM DashboardMovesOn == DSpec => ShownMovesOn
<1>1. DetailInv /\ [DNext]_dvars =>
        [shown' # shown /\ shown' # NoRun =>
            /\ shown'.run = page'
            /\ (shown # NoRun /\ shown.run = shown'.run) =>
                  Stage(shown.status) <= Stage(shown'.status)]_dvars
  BY ShownChanges
<1> QED  BY <1>1, DetailInvariant, PTL DEF DSpec, ShownMovesOn

-----------------------------------------------------------------------------
\* What Home shows: its polls overlap, so only what every answer has in common helps.

\* What was true of a run stays behind it.
LEMMA BehindStays ==
    ASSUME MovesOn, DetailInv, NEW r \in Runs, NEW status \in Statuses,
           runStatus[r] # "absent", Behind(status, r)
    PROVE  runStatus'[r] # "absent" /\ Behind(status, r)'
<1>1. \A s \in Statuses : Stage(s) \in 0 .. 3
  BY DEF Stage
<1> QED  BY <1>1 DEF Behind, MovesOn, DetailInv, TypeOK

LEMMA PastStays ==
    ASSUME MovesOn, DetailInv, NEW statuses \in [Runs -> Statuses], WasTrue(statuses)
    PROVE  WasTrue(statuses)'
BY BehindStays DEF WasTrue

\* The list changes to what an answer says, or is emptied; answers are those that were
\* on their way before, or say how the runs are.
LEMMA ListStays ==
    ASSUME DetailInv, ListIsPast, MovesOn,
           list' \in {list, EmptyList} \cup {q.read : q \in {p \in InFlight :
                                               p.kind = "list" /\ p.read # Unread}},
           \A p \in InFlight' : (p.kind = "list" /\ p.read # Unread) =>
               \/ p.read = runStatus'
               \/ \E q \in InFlight : q.kind = "list" /\ q.read = p.read
    PROVE  ListIsPast'
<1>1. \A q \in InFlight : (q.kind = "list" /\ q.read # Unread) => WasTrue(q.read)'
  <2> SUFFICES ASSUME NEW q \in InFlight, q.kind = "list", q.read # Unread
               PROVE  WasTrue(q.read)'
    OBVIOUS
  <2>1. q.read \in [Runs -> Statuses] /\ WasTrue(q.read)
    BY DEF ListIsPast, DetailInv, RequestsMakeSense
  <2> QED  BY <2>1, PastStays
<1>2. PICK now : now = runStatus'
  OBVIOUS
<1>3. WasTrue(now)'
  <2>1. \A r \in Runs : Stage(now[r]) \in 0 .. 3
    BY DEF Stage
  <2> QED  BY <1>2, <2>1 DEF WasTrue, Behind
<1>4. PICK old, new : old = list /\ new = list'
  OBVIOUS
<1>5. WasTrue(new)'
  <2>1. CASE new = old
    <3>1. old \in [Runs -> Statuses] /\ WasTrue(old)
      BY <1>4 DEF ListIsPast, DetailInv, TypeOK
    <3> QED  BY <2>1, <3>1, PastStays
  <2>2. CASE new = EmptyList
    BY <2>2 DEF WasTrue, EmptyList
  <2>3. CASE \E q \in InFlight : q.kind = "list" /\ q.read # Unread /\ q.read = new
    BY <1>1, <2>3
  <2> QED  BY <1>4, <2>1, <2>2, <2>3
<1>6. WasTrue(list)'
  BY <1>4, <1>5 DEF WasTrue
<1>7. ASSUME NEW p \in InFlight', p.kind = "list", p.read # Unread PROVE WasTrue(p.read)'
  BY <1>1, <1>2, <1>3, <1>7
<1> QED  BY <1>6, <1>7 DEF ListIsPast

LEMMA ListInit == DInit => ListIsPast
<1> SUFFICES ASSUME DInit PROVE ListIsPast
  OBVIOUS
<1>1. InFlight = {Request("list", NoRun)} /\ Request("list", NoRun).read = Unread
  BY Sent DEF DInit, Send, SetToBag, InFlight, BagToSet, Kinds
<1> QED  BY <1>1 DEF DInit, ListIsPast, WasTrue, EmptyList

\* Sending, leaving and taking requests reads nothing.
LEMMA ReadsStay ==
    ASSUME DetailInv, NEW kind \in Kinds, NEW r \in Runs \cup {NoRun}, NEW B,
           DOMAIN B \subseteq InFlight,
           \/ requests' = B (+) Send(kind, r)
           \/ requests' = BagOfAll(Left, B) (+) Send(kind, r)
           \/ requests' = BagOfAll(Gone, B) (+) Send(kind, r)
    PROVE  \A p \in InFlight' : p.read # Unread =>
               \E q \in InFlight : q.kind = p.kind /\ q.read = p.read
<1> DEFINE new == Request(kind, r)
<1>1. new.read = Unread
  BY Sent
<1>2. \A q \in InFlight : /\ Left(q).kind = q.kind /\ Left(q).read = q.read
                          /\ Gone(q).kind = q.kind /\ Gone(q).read = q.read
  BY LeftFields DEF DetailInv, TypeOK
<1>3. CASE requests' = B (+) Send(kind, r)
  <2>1. InFlight' = DOMAIN B \cup {new}
    BY <1>3, OneMore DEF InFlight, BagToSet, Send
  <2> QED  BY <1>1, <2>1
<1>4. CASE requests' = BagOfAll(Left, B) (+) Send(kind, r)
  <2>1. InFlight' = {Left(q) : q \in DOMAIN B} \cup {new}
    BY <1>4, OneMore, AllLeft DEF InFlight, BagToSet, Send
  <2> QED  BY <1>1, <1>2, <2>1
<1>5. CASE requests' = BagOfAll(Gone, B) (+) Send(kind, r)
  <2>1. InFlight' = {Gone(q) : q \in DOMAIN B} \cup {new}
    BY <1>5, OneMore, AllLeft DEF InFlight, BagToSet, Send
  <2> QED  BY <1>1, <1>2, <2>1
<1> QED  BY <1>3, <1>4, <1>5

LEMMA ListNext == DetailInv /\ ListIsPast /\ [DNext]_dvars => ListIsPast'
<1> SUFFICES ASSUME DetailInv, ListIsPast, [DNext]_dvars PROVE ListIsPast'
  OBVIOUS
<1> DEFINE Inherited == \A p \in InFlight' : p.read # Unread =>
                            \E q \in InFlight : q.kind = p.kind /\ q.read = p.read
<1>0. ASSUME Inherited, MovesOn, list' \in {list, EmptyList} PROVE ListIsPast'
  BY <1>0, ListStays
<1>1. CASE UNCHANGED dvars
  BY <1>1 DEF dvars, ListIsPast, WasTrue, Behind, InFlight, BagToSet
<1>2. ASSUME NEW r \in Runs, RunMoves(r) PROVE ListIsPast'
  <2>1. Inherited /\ list' = list
    BY <1>2 DEF RunMoves, InFlight, BagToSet
  <2> QED  BY <1>0, <1>2, <2>1, RunMovesOn
<1>3. ASSUME NEW kind \in Kinds, NEW r \in Runs \cup {NoRun}, UNCHANGED <<runStatus, list>>,
             requests' = requests (+) Send(kind, r)
      PROVE  ListIsPast'
  <2>1. Inherited
    BY <1>3, ReadsStay DEF InFlight, BagToSet
  <2> QED  BY <1>0, <1>3, <2>1, Standstill
<1>4. ASSUME NEW r \in Runs, NEW B, DOMAIN B \subseteq InFlight, Show(r, B), UNCHANGED runStatus
      PROVE  ListIsPast'
  <2>1. Inherited
    BY <1>4, ReadsStay DEF Show, Kinds
  <2> QED  BY <1>0, <1>4, <2>1, Standstill DEF Show
<1>5. CASE GoHome
  <2>1. Inherited
    BY <1>5, ReadsStay DEF GoHome, Kinds, InFlight, BagToSet
  <2> QED  BY <1>0, <1>5, <2>1, Standstill DEF GoHome
<1>6. ASSUME NEW q \in InFlight, Serve(q) PROVE ListIsPast'
  <2>1. requests' = (requests (-) SetToBag({q})) (+) SetToBag({[q EXCEPT !.read = Reads(q)]})
    BY <1>6 DEF Serve
  <2>2. InFlight' \subseteq InFlight \cup {[q EXCEPT !.read = Reads(q)]}
    <3> DEFINE B == requests (-) SetToBag({q})
               p == [q EXCEPT !.read = Reads(q)]
    <3>1. requests' = B (+) SetToBag({p})
      BY <2>1
    <3>2. DOMAIN B \subseteq InFlight
      BY OneLess DEF InFlight, BagToSet
    <3> HIDE DEF B, p
    <3>3. InFlight' = DOMAIN B \cup {p}
      BY <3>1, OneMore DEF InFlight, BagToSet
    <3> QED  BY <3>2, <3>3 DEF p
  <2>3. /\ [q EXCEPT !.read = Reads(q)].kind = q.kind
        /\ [q EXCEPT !.read = Reads(q)].read = Reads(q)
    BY DEF DetailInv, TypeOK, RequestType
  <2>4. q.kind = "list" => Reads(q) = runStatus'
    BY <1>6 DEF Serve, Handle, Reads
  <2>5. list' = list
    BY <1>6 DEF Serve
  <2>6. ASSUME NEW p \in InFlight', p.kind = "list", p.read # Unread
        PROVE  \/ p.read = runStatus'
               \/ \E d \in InFlight : d.kind = "list" /\ d.read = p.read
    BY <2>2, <2>3, <2>4, <2>6
  <2> QED  BY <1>6, <2>5, <2>6, ServeMovesOn, ListStays
<1>7. ASSUME NEW q \in InFlight, requests' = Taken(q), UNCHANGED runStatus,
             list' \in {list} \cup {p.read : p \in {d \in InFlight :
                                            d.kind = "list" /\ d.read # Unread}}
      PROVE  ListIsPast'
  <2>1. InFlight' \subseteq InFlight
    BY <1>7, OneLess DEF InFlight, BagToSet, Taken
  <2> QED  BY <1>7, <2>1, Standstill, ListStays
<1>8. ASSUME NEW q \in InFlight, Answer(q) PROVE ListIsPast'
  <2>1. CASE AnswerDetail(q) \/ AnswerCancel(q)
    BY <1>7, <1>8, <2>1 DEF Answer, AnswerDetail, AnswerCancel
  <2>2. CASE AnswerList(q)
    BY <1>7, <1>8, <2>2 DEF Answer, AnswerList
  <2>3. CASE AnswerCreate(q) /\ page = q.run
    BY <1>7, <1>8, <2>3 DEF Answer, AnswerCreate
  <2>4. CASE AnswerCreate(q) /\ page # q.run
    <3>1. q.run \in Runs
      BY <2>4 DEF AnswerCreate, DetailInv, RequestsMakeSense
    <3>2. DOMAIN Taken(q) \subseteq InFlight
      BY OneLess DEF Taken, InFlight, BagToSet
    <3> QED  BY <1>4, <1>8, <2>4, <3>1, <3>2 DEF Answer, AnswerCreate
  <2> QED  BY <1>8, <2>1, <2>2, <2>3, <2>4 DEF Answer
<1>9. ASSUME NEW q \in InFlight, Fail(q) PROVE ListIsPast'
  BY <1>7, <1>9 DEF Fail
<1>10. ASSUME NEW r \in Runs, OpenRun(r) PROVE ListIsPast'
  BY <1>4, <1>10 DEF OpenRun, InFlight, BagToSet
<1>11. ASSUME NEW r \in Runs, SubmitRun(r) \/ PollDetail(r) PROVE ListIsPast'
  BY <1>3, <1>11 DEF SubmitRun, PollDetail, Kinds
<1>12. CASE ClickCancel \/ PollHome
  <2>1. CASE ClickCancel
    <3>1. page \in Runs
      BY <2>1 DEF ClickCancel, DetailInv, TypeOK
    <3> QED  BY <1>3, <2>1, <3>1 DEF ClickCancel, Kinds
  <2>2. CASE PollHome
    BY <1>3, <2>2 DEF PollHome, Kinds
  <2> QED  BY <1>12, <2>1, <2>2
<1> QED  BY <1>1, <1>2, <1>5, <1>6, <1>8, <1>9, <1>10, <1>11, <1>12 DEF DNext

\* Both pages only show what was true: answers cross, are late, or come for a page that
\* was left (`active`, setInterval).
THEOREM DashboardInvariant == DSpec => []DashboardInv
<1>1. DetailInv /\ ListIsPast /\ [DNext]_dvars /\ DetailInv' => ListIsPast'
  BY ListNext
<1>2. DashboardInv <=> DetailInv /\ ListIsPast
  BY DEF DashboardInv
<1> QED  BY <1>1, <1>2, ListInit, DetailInvariant, PTL DEF DSpec

\* A run that a page shows as ended has ended so: the cancel button goes, and polling
\* stops, only for a run that is over (load, TERMINAL).
THEOREM DashboardEndsAreTrue == DSpec => []EndsAreTrue
<1>1. DashboardInv => EndsAreTrue
  BY DEF DashboardInv, DetailInv, TypeOK, ShownIsPast, ListIsPast, WasTrue, Behind, EndsAreTrue, Over
<1> QED  BY <1>1, DashboardInvariant, PTL
=============================================================================
