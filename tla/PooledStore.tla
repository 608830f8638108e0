----------------------------- MODULE PooledStore -----------------------------
(***************************************************************************)
(* The backend process around ShardStore: the connection pool of           *)
(* internal/db/db.go, which every request shares, and the server of        *)
(* cmd/api/main.go, which starts, drains and dies.                         *)
(*                                                                         *)
(* startShard takes one connection for each of its statements, finishShard *)
(* one for its transaction.  A statement that matches no row is followed   *)
(* by shardMiss, a query of its own: startShard has given its connection   *)
(* back by then, finishShard still holds its transaction's and asks the    *)
(* pool for a second one.                                                  *)
(***************************************************************************)
EXTENDS ShardStore, Naturals, FiniteSets

CONSTANT PoolSize       \* SetMaxOpenConns

ASSUME PoolSizeAssumption == PoolSize \in Nat \ {0}
ASSUME SessionsAssumption == IsFiniteSet(Sessions)

VARIABLES
    server,     \* "down", "serving" or "draining": after SIGTERM
    connected,  \* the sessions that hold a connection
    second,     \* of these, the sessions that hold two
    missed      \* the sessions whose statement matched no row, in shardMiss

pool == <<connected, second, missed>>
pvars == <<vars, server, pool>>

InUse == Cardinality(connected) + Cardinality(second)
Free == InUse < PoolSize

PoolTypeOK ==
    /\ server \in {"down", "serving", "draining"}
    /\ connected \subseteq Sessions
    /\ second \subseteq connected
    /\ missed \subseteq Sessions
    /\ InUse <= PoolSize

PoolInit ==
    /\ Init
    /\ server = "down"
    /\ connected = {} /\ second = {} /\ missed = {}

Busy(c) == ~At(c, "idle")
Idle == \A c \in Sessions : ~Busy(c)

\* Variant: the percentiles are read over the pool instead of the transaction.
AggregatesOutside(c) == \/ At(c, "finish") /\ c \in missed
                        \/ At(c, "aggregate")

\* shardMiss inside finishShard's transaction.
NeedsSecond(c) == At(c, "finish") /\ c \in missed

\* The session waits for the pool, not for a row.
Waits(c) ==
    /\ Busy(c)
    /\ \/ c \notin connected
       \/ NeedsSecond(c) /\ c \notin second

-----------------------------------------------------------------------------
\* The server.

\* Both connects succeed; a failed one exits and the deployment tries again.
Boot ==
    /\ server = "down"
    /\ Idle
    /\ server' = "serving"
    /\ UNCHANGED <<vars, pool>>

Signal ==
    /\ server = "serving"
    /\ server' = "draining"
    /\ UNCHANGED <<vars, pool>>

\* Shutdown returns because nothing is in flight.  When its ten seconds are
\* over first, or the process is killed, every session ends (End).
Drained ==
    /\ server = "draining"
    /\ Idle
    /\ server' = "down"
    /\ UNCHANGED <<vars, pool>>

\* Variant: the listener stays open while the server drains.
AcceptingWhileUp == server # "down"

Accepting == server = "serving"

Arrive(c) ==
    /\ Accepting
    /\ Request(c)
    /\ UNCHANGED <<server, pool>>

-----------------------------------------------------------------------------
\* The pool.

\* Variant: SetMaxOpenConns is left out.
ConnectUnlimited(c) ==
    /\ Waits(c)
    /\ IF c \in connected
         THEN second' = second \cup {c} /\ UNCHANGED connected
         ELSE connected' = connected \cup {c} /\ UNCHANGED second
    /\ UNCHANGED <<vars, server, missed>>

Connect(c) ==
    /\ Waits(c)
    /\ Free
    /\ IF c \in connected
         THEN second' = second \cup {c} /\ UNCHANGED connected
         ELSE connected' = connected \cup {c} /\ UNCHANGED second
    /\ UNCHANGED <<vars, server, missed>>

Misses(c) ==
    /\ pc[c] \in {"claim", "finish"}
    /\ shardStatus[ShardAt(c)] \notin Accepts(call[c].op)

\* The guarded UPDATE matches no row.
Miss(c) ==
    /\ Busy(c) /\ ~Waits(c)
    /\ Misses(c) /\ c \notin missed
    /\ missed' = missed \cup {c}
    /\ connected' = IF At(c, "claim") THEN connected \ {c} ELSE connected
    /\ UNCHANGED <<vars, server, second>>

\* A statement of ShardStore, shardMiss being the answer of the one that
\* missed.  Outside a transaction it gives its connection back.
Run(c) ==
    /\ Busy(c) /\ ~Waits(c)
    /\ Misses(c) => c \in missed
    /\ Statement(c)
    /\ connected' = IF pc'[c] \in InTransaction THEN connected ELSE connected \ {c}
    /\ second' = IF pc'[c] \in InTransaction THEN second ELSE second \ {c}
    /\ missed' = missed \ {c}
    /\ UNCHANGED <<server>>

\* The request ends early and gives back what it holds.
End(c) ==
    /\ Abort(c)
    /\ connected' = connected \ {c}
    /\ second' = second \ {c}
    /\ missed' = missed \ {c}
    /\ UNCHANGED <<server>>

\* Variant: the worker's http.Client has no timeout.
GiveUpNever(c) ==
    /\ FALSE
    /\ End(c)

\* The worker's client gives up after ten seconds, which cancels the request's
\* context and its wait for a connection.
GiveUp(c) ==
    /\ Waits(c)
    /\ End(c)

\* The user's requests hold one connection for one statement.  A cancel that
\* waits for a run row holds it meanwhile: left out, since the holder of the row
\* never waits for the pool (NoLockWhileWaiting).
UserRequest ==
    /\ server # "down"
    /\ Free
    /\ \E r \in Runs : CreateWithShards(r) \/ CancelRun(r)
    /\ UNCHANGED <<server, pool>>

\* GET /health pings the database over the pool and waits two seconds: it says
\* "unreachable" also of a database that is up, when no connection is free.
Health == IF Free THEN "ok" ELSE "unreachable"

-----------------------------------------------------------------------------
Progress(c) == Connect(c) \/ Miss(c) \/ Run(c)

PoolNext ==
    \/ Boot \/ Signal \/ Drained
    \/ UserRequest
    \/ \E c \in Sessions : Arrive(c) \/ Progress(c) \/ GiveUp(c) \/ End(c)

PoolSpec == PoolInit /\ [][PoolNext]_pvars

\* database/sql hands a connection that is given back to one of the waiters,
\* at random, and PostgreSQL a row lock to its waiters in order: no session is
\* passed over for ever.  Clients time out and an idle server leaves Shutdown;
\* nothing makes a server start, a request arrive or one End for other reasons.
PoolFairSpec ==
    /\ PoolSpec
    /\ \A c \in Sessions : SF_pvars(Progress(c)) /\ WF_pvars(GiveUp(c))
    /\ WF_pvars(Drained)

-----------------------------------------------------------------------------
\* No cycle through the pool and the row locks: a request that waits for a
\* connection holds no row (finishShard runs all its statements on the
\* connection of its transaction; only shardMiss asks for another, and then
\* there is nothing to hold).
NoLockWhileWaiting ==
    \A c \in Sessions : Waits(c) =>
        /\ \A s \in Shards : shardLock[s] # c
        /\ \A r \in Runs : runLock[r] # c

\* Session c waits for a row that session d has locked.
WaitsForRow(c, d) ==
    /\ ~Waits(c) /\ ~Misses(c)
    /\ \/ pc[c] \in {"claim", "finish"} /\ shardLock[ShardAt(c)] = d
       \/ At(c, "mark") /\ runStatus[RunAt(c)] = "queued" /\ runLock[RunAt(c)] = d
       \/ At(c, "lock") /\ runLock[RunAt(c)] = d

\* What Progress asks of the other sessions: a connection, or a row nobody holds.
GoesOn(c) ==
    /\ Busy(c)
    /\ IF Waits(c) THEN Free ELSE \A d \in Sessions : ~WaitsForRow(c, d)

\* Requests in flight never wait for each other's rows in a circle: one of them can go
\* on, unless the pool is used up and all of them wait for it, which is when the
\* clients' timeouts are needed; then no row is locked either (finishShard locks the
\* shard before the run).
NeverStuck ==
    \/ Idle
    \/ \E c \in Sessions : GoesOn(c)
    \/ /\ ~Free /\ \A c \in Sessions : Busy(c) => Waits(c)
       /\ \A s \in Shards : shardLock[s] = NoSession
       /\ \A r \in Runs : runLock[r] = NoSession

\* shardMiss answers "already done" or "not this state" by a later query, over
\* another connection, than the UPDATE that missed; the worker acknowledges the
\* message because of it.  The row has not become acceptable in between.
MissStaysTrue ==
    \A c \in missed : Misses(c)

\* An exhausted pool recovers, even when every connection is held by a request
\* that waits for a second one: /health, the liveness probe of the deployment,
\* does not fail for ever (the client's timeout).
HealthComesBack == Health = "unreachable" ~> Health = "ok"

\* A drain ends by itself, without the ten seconds of Shutdown: what is in
\* flight returns and nothing new arrives.
DrainEnds == server = "draining" ~> server = "down"

\* With a bounded pool and a server that drains, the requests still are those
\* of ShardStore.
ImplementsStore == Spec

\* What the proofs need of the pool and the statements, besides IInv.
PoolInv ==
    /\ PoolTypeOK
    /\ \A c \in Sessions :
         /\ ~Busy(c) => c \notin connected \cup missed
         /\ pc[c] \in InTransaction => c \in connected /\ c \notin missed
         /\ c \in second => At(c, "finish") /\ c \in missed
    /\ MissStaysTrue
=============================================================================
