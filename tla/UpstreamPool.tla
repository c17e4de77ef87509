---------------------------- MODULE UpstreamPool ----------------------------
(***************************************************************************)
(* The upstream connection pool of one gateway worker: UpstreamPool with   *)
(* the leases it hands out, the connects it awaits (AsyncConnect), and the *)
(* order in which GatewayServer::stop drains it.                           *)
(*                                                                         *)
(* Everything runs on the worker's loop thread, so an action is what runs  *)
(* between two suspensions.  A request is one acquire() and the use of its *)
(* lease; the connection it may open carries the request's name.  Expiry   *)
(* of idle entries, deadlines and the ends of connects are chosen freely.  *)
(***************************************************************************)
EXTENDS Integers, Sequences, FiniteSets, Functions

CONSTANTS
  Requests,        \* the acquisitions sessions will make
  Buckets,         \* pairs of a route and an endpoint
  MaxConnections,  \* Route::maxConnectionsPerWorker
  MaxIdle          \* Route::maxIdlePerWorker

ASSUME RequestsAssumption ==
  IsFiniteSet(Requests) /\ "none" \notin Requests \cup Buckets
ASSUME LimitAssumption == MaxConnections \in Nat /\ MaxIdle \in Nat

VARIABLES
  req,           \* where a request is
  bucket,        \* the bucket it asked for
  lease,         \* lease[r]: the connection leased to r
  cancelled,     \* AsyncConnectControl::cancellationRequested_ of r's connect
  socket,        \* the descriptor connectOwned opened for r
  conn,          \* conn[c]: the TcpConnection opened by request c
  idle,          \* Bucket::idleConnections, oldest first
  totalCount, leasedCount, connectingCount, \* the counters of a bucket
  poolActive, poolIdle, \* the gauges of the worker's GatewayMetricShard
  accepting,     \* accepting_
  phase          \* how far GatewayServer::stop has got with this worker

gauges == <<poolActive, poolIdle>>
countVars == <<totalCount, leasedCount, connectingCount, gauges>>
vars == <<req, bucket, lease, cancelled, socket, conn, idle, countVars, accepting,
          phase>>

None == "none"

\* "queued": the connect waits in pendingSubmissions_ of the loop.
ReqStates == {"new", "queued", "connecting", "leased", "done"}
ConnStates == {"none", "connected", "lost", "destroyed"}
\* "held" by the Socket in the frame of connectOwned, "released" to a
\* TcpConnection, or "closed" by the destructor of the Socket.
SocketStates == {"none", "held", "released", "closed"}

TypeOK ==
  /\ req \in [Requests -> ReqStates]
  /\ bucket \in [Requests -> Buckets \cup {None}]
  /\ lease \in [Requests -> Requests \cup {None}]
  /\ cancelled \in [Requests -> BOOLEAN]
  /\ socket \in [Requests -> SocketStates]
  /\ conn \in [Requests -> ConnStates]
  /\ idle \in [Buckets -> Seq(Requests)]
  /\ totalCount \in [Buckets -> Nat]
  /\ leasedCount \in [Buckets -> Nat]
  /\ connectingCount \in [Buckets -> Nat]
  /\ poolActive \in Nat /\ poolIdle \in Nat
  /\ accepting \in BOOLEAN
  /\ phase \in {"serving", "draining", "forced", "closed"}

Init ==
  /\ req = [r \in Requests |-> "new"]
  /\ bucket = [r \in Requests |-> None]
  /\ lease = [r \in Requests |-> None]
  /\ cancelled = [r \in Requests |-> FALSE]
  /\ socket = [r \in Requests |-> "none"]
  /\ conn = [r \in Requests |-> "none"]
  /\ idle = [b \in Buckets |-> <<>>]
  /\ totalCount = [b \in Buckets |-> 0]
  /\ leasedCount = [b \in Buckets |-> 0]
  /\ connectingCount = [b \in Buckets |-> 0]
  /\ poolActive = 0 /\ poolIdle = 0
  /\ accepting = TRUE
  /\ phase = "serving"

----------------------------------------------------------------------------
(* acquire *)

\* pruneIdle erases the entries that expired, a prefix since the deque is in
\* the order of idleSince, and those that are no longer connected.
Kept(b, n) == {i \in n + 1..Len(idle[b]) : conn[idle[b][i]] = "connected"}

\* The others stay in their order.
Pruned(b, n) ==
  [k \in 1..Cardinality(Kept(b, n)) |->
     idle[b][CHOOSE i \in Kept(b, n) : Cardinality(Kept(b, n) \cap (1..i)) = k]]
Erased(b, n) == Range(idle[b]) \ Range(Pruned(b, n))
Destroy(cs) == [c \in Requests |-> IF c \in cs THEN "destroyed" ELSE conn[c]]

\* The pool drains, or the deadline has passed, before anything is touched.
AcquireRefused(r) ==
  /\ req[r] = "new"
  /\ req' = [req EXCEPT ![r] = "done"]
  /\ UNCHANGED <<bucket, lease, cancelled, socket, conn, idle, countVars, accepting,
                 phase>>

\* After pruning, the oldest idle connection is leased.
AcquireIdle(r, b, n) ==
  /\ req[r] = "new" /\ accepting
  /\ Pruned(b, n) # <<>>
  /\ idle' = [idle EXCEPT ![b] = Tail(Pruned(b, n))]
  /\ conn' = Destroy(Erased(b, n))
  /\ totalCount' = [totalCount EXCEPT ![b] = @ - Len(idle[b]) + Len(Pruned(b, n))]
  /\ leasedCount' = [leasedCount EXCEPT ![b] = @ + 1]
  /\ poolIdle' = poolIdle - Len(idle[b]) + Len(Pruned(b, n)) - 1
  /\ poolActive' = poolActive + 1
  /\ lease' = [lease EXCEPT ![r] = Head(Pruned(b, n))]
  /\ bucket' = [bucket EXCEPT ![r] = b]
  /\ req' = [req EXCEPT ![r] = "leased"]
  /\ UNCHANGED <<cancelled, socket, connectingCount, accepting, phase>>

\* Mutant: connects under way are not counted against the limit.
HasRoomForgetful(b, total) == total < MaxConnections

HasRoom(b, total) == total + connectingCount[b] < MaxConnections

\* pruneIdle has emptied the deque.
PruneAll(b) ==
  /\ idle' = [idle EXCEPT ![b] = <<>>]
  /\ conn' = Destroy(Range(idle[b]))
  /\ totalCount' = [totalCount EXCEPT ![b] = @ - Len(idle[b])]
  /\ poolIdle' = poolIdle - Len(idle[b])

\* connectOwned got a socket, and its connect is submitted or queued.
ConnectStarts(r, b) ==
  /\ \E s \in {"queued", "connecting"} : req' = [req EXCEPT ![r] = s]
  /\ socket' = [socket EXCEPT ![r] = "held"]
  /\ connectingCount' = [connectingCount EXCEPT ![b] = @ + 1]

\* socket() failed; or the socket was not configured, the deadline has passed
\* or the loop rejected the connect, and the Socket is destroyed.
ConnectRefused(r) ==
  /\ req' = [req EXCEPT ![r] = "done"]
  /\ \/ UNCHANGED socket
     \/ socket' = [socket EXCEPT ![r] = "closed"]
  /\ UNCHANGED connectingCount

\* Nothing idle is left: a connect is started, submitted at once, queued by a
\* full ring, or refused on the spot, which gives the reservation back.
AcquireConnect(r, b) ==
  /\ req[r] = "new" /\ accepting
  /\ HasRoom(b, totalCount[b] - Len(idle[b]))
  /\ PruneAll(b)
  /\ ConnectStarts(r, b) \/ ConnectRefused(r)
  /\ bucket' = [bucket EXCEPT ![r] = b]
  /\ UNCHANGED <<lease, cancelled, leasedCount, poolActive, accepting, phase>>

\* ... or the bucket is at its limit.
AcquireExhausted(r, b) ==
  /\ req[r] = "new" /\ accepting
  /\ ~HasRoom(b, totalCount[b] - Len(idle[b]))
  /\ PruneAll(b)
  /\ req' = [req EXCEPT ![r] = "done"]
  /\ UNCHANGED <<bucket, lease, cancelled, socket, leasedCount, connectingCount,
                 poolActive, accepting, phase>>

----------------------------------------------------------------------------
(* The connect that acquire awaits *)

Connecting == {r \in Requests : req[r] \in {"queued", "connecting"}}

\* flushPendingSubmissions hands a queued connect to the ring.
FlushConnect(r) ==
  /\ req[r] = "queued"
  /\ req' = [req EXCEPT ![r] = "connecting"]
  /\ UNCHANGED <<bucket, lease, cancelled, socket, conn, idle, countVars, accepting,
                 phase>>

\* connectOwned hands its descriptor to a connection and establishes it.
Established(r) ==
  /\ socket' = [socket EXCEPT ![r] = "released"]
  /\ conn' = [conn EXCEPT ![r] = "connected"]

\* The connect succeeded, also when its cancellation came too late: the
\* connection is established, counted and leased, the reservation returned.
ConnectSucceeded(r) ==
  /\ req[r] = "connecting"
  /\ Established(r)
  /\ lease' = [lease EXCEPT ![r] = r]
  /\ req' = [req EXCEPT ![r] = "leased"]
  /\ totalCount' = [totalCount EXCEPT ![bucket[r]] = @ + 1]
  /\ leasedCount' = [leasedCount EXCEPT ![bucket[r]] = @ + 1]
  /\ connectingCount' = [connectingCount EXCEPT ![bucket[r]] = @ - 1]
  /\ poolActive' = poolActive + 1
  /\ UNCHANGED <<bucket, cancelled, idle, poolIdle, accepting, phase>>

\* Mutant: a connection that never came to be is taken off the total.
ConnectFailedDiscounted(r) ==
  /\ req[r] = "connecting"
  /\ req' = [req EXCEPT ![r] = "done"]
  /\ connectingCount' = [connectingCount EXCEPT ![bucket[r]] = @ - 1]
  /\ totalCount' = [totalCount EXCEPT ![bucket[r]] = @ - 1]
  /\ UNCHANGED <<bucket, lease, cancelled, socket, conn, idle, leasedCount, gauges,
                 accepting, phase>>

\* It failed, timed out or was cancelled.
ConnectFailed(r) ==
  /\ req[r] = "connecting"
  /\ req' = [req EXCEPT ![r] = "done"]
  /\ socket' = [socket EXCEPT ![r] = "closed"]
  /\ connectingCount' = [connectingCount EXCEPT ![bucket[r]] = @ - 1]
  /\ UNCHANGED <<bucket, lease, cancelled, conn, idle, totalCount, leasedCount,
                 gauges, accepting, phase>>

----------------------------------------------------------------------------
(* Leases *)

\* A leased connection fails or is force-closed by its session.
ConnectionLost(r) ==
  /\ req[r] = "leased"
  /\ conn[lease[r]] = "connected"
  /\ conn' = [conn EXCEPT ![lease[r]] = "lost"]
  /\ UNCHANGED <<req, bucket, lease, cancelled, socket, idle, countVars, accepting,
                 phase>>

Keeps(r) == conn[lease[r]] = "connected" /\ Len(idle[bucket[r]]) < MaxIdle

\* Mutant: the lease is not emptied when its connection goes back.
ReleaseKeepAliased(r) ==
  /\ req[r] = "leased"
  /\ Keeps(r)
  /\ idle' = [idle EXCEPT ![bucket[r]] = Append(@, lease[r])]
  /\ leasedCount' = [leasedCount EXCEPT ![bucket[r]] = @ - 1]
  /\ poolActive' = poolActive - 1 /\ poolIdle' = poolIdle + 1
  /\ req' = [req EXCEPT ![r] = "done"]
  /\ UNCHANGED <<bucket, lease, cancelled, socket, conn, totalCount,
                 connectingCount, accepting, phase>>

\* release of a lease marked reusable: back to the deque if it may be kept.
ReleaseKeep(r) ==
  /\ req[r] = "leased"
  /\ Keeps(r)
  /\ idle' = [idle EXCEPT ![bucket[r]] = Append(@, lease[r])]
  /\ leasedCount' = [leasedCount EXCEPT ![bucket[r]] = @ - 1]
  /\ req' = [req EXCEPT ![r] = "done"]
  /\ lease' = [lease EXCEPT ![r] = None]
  /\ poolActive' = poolActive - 1 /\ poolIdle' = poolIdle + 1
  /\ UNCHANGED <<bucket, cancelled, socket, conn, totalCount, connectingCount,
                 accepting, phase>>

\* release of any other lease, or one the deque had no memory for.
ReleaseDiscard(r) ==
  /\ req[r] = "leased"
  /\ conn' = [conn EXCEPT ![lease[r]] = "destroyed"]
  /\ leasedCount' = [leasedCount EXCEPT ![bucket[r]] = @ - 1]
  /\ totalCount' = [totalCount EXCEPT ![bucket[r]] = @ - 1]
  /\ req' = [req EXCEPT ![r] = "done"]
  /\ lease' = [lease EXCEPT ![r] = None]
  /\ poolActive' = poolActive - 1
  /\ UNCHANGED <<bucket, cancelled, socket, idle, connectingCount, poolIdle,
                 accepting, phase>>

----------------------------------------------------------------------------
(* GatewayServer::stop, as far as it concerns this pool *)

StopAcquiring ==
  /\ phase = "serving"
  /\ accepting' = FALSE
  /\ phase' = "draining"
  /\ UNCHANGED <<req, bucket, lease, cancelled, socket, conn, idle, countVars>>

SessionsDone == \A r \in Requests : req[r] \in {"new", "done"}

\* Mutant: stop() waits for the sessions without cancelling the connects.
CancelNothing ==
  /\ phase = "draining" /\ ~SessionsDone
  /\ phase' = "forced"
  /\ cancelled' = [r \in Requests |-> cancelled[r] \/ r \in Connecting]
  /\ UNCHANGED <<req, bucket, lease, socket, conn, idle, countVars, accepting>>

\* AsyncConnectControl::cancel of every connect under way.  A queued one ends
\* inside the call, one in flight when its CQE comes.
CancelConnects ==
  LET queued(b) == {r \in Requests : req[r] = "queued" /\ bucket[r] = b} IN
  /\ cancelled' = [r \in Requests |-> cancelled[r] \/ r \in Connecting]
  /\ req' = [r \in Requests |-> IF req[r] = "queued" THEN "done" ELSE req[r]]
  /\ socket' = [r \in Requests |-> IF req[r] = "queued" THEN "closed" ELSE socket[r]]
  /\ connectingCount' =
       [b \in Buckets |-> connectingCount[b] - Cardinality(queued(b))]

\* The grace period is over with sessions left: cancelPendingAcquisitions.
CancelPendingAcquisitions ==
  /\ phase = "draining" /\ ~SessionsDone
  /\ phase' = "forced"
  /\ CancelConnects
  /\ UNCHANGED <<bucket, lease, conn, idle, totalCount, leasedCount, gauges,
                 accepting>>

\* The entries of all the deques.
IdleEntries == UNION {{b} \X (1..Len(idle[b])) : b \in Buckets}

\* Mutant: sessions are not waited for.
CloseIdleEarly ==
  /\ phase \in {"draining", "forced"}
  /\ phase' = "closed"
  /\ idle' = [b \in Buckets |-> <<>>]
  /\ conn' = Destroy(UNION {Range(idle[b]) : b \in Buckets})
  /\ totalCount' = [b \in Buckets |-> totalCount[b] - Len(idle[b])]
  /\ poolIdle' = poolIdle - Cardinality(IdleEntries)
  /\ UNCHANGED <<req, bucket, lease, cancelled, socket, leasedCount, connectingCount,
                 poolActive, accepting>>

\* Once no session is active: closeIdle.
CloseIdle ==
  /\ phase \in {"draining", "forced"}
  /\ SessionsDone
  /\ phase' = "closed"
  /\ idle' = [b \in Buckets |-> <<>>]
  /\ conn' = Destroy(UNION {Range(idle[b]) : b \in Buckets})
  /\ totalCount' = [b \in Buckets |-> totalCount[b] - Len(idle[b])]
  /\ poolIdle' = poolIdle - Cardinality(IdleEntries)
  /\ UNCHANGED <<req, bucket, lease, cancelled, socket, leasedCount, connectingCount,
                 poolActive, accepting>>

Closed == phase = "closed" /\ UNCHANGED vars

----------------------------------------------------------------------------
\* acquire is called by a session; none is left once the pool is closed.
Acquire(r) ==
  /\ phase # "closed"
  /\ \/ AcquireRefused(r)
     \/ \E b \in Buckets :
          \/ \E n \in 0..Len(idle[b]) : AcquireIdle(r, b, n)
          \/ AcquireConnect(r, b)
          \/ AcquireExhausted(r, b)

Session(r) == ConnectSucceeded(r) \/ ConnectFailed(r) \/ ReleaseKeep(r)
                \/ ReleaseDiscard(r)

Next ==
  \/ \E r \in Requests : \/ Acquire(r) \/ FlushConnect(r) \/ Session(r)
                         \/ ConnectionLost(r)
  \/ StopAcquiring
  \/ CancelPendingAcquisitions
  \/ CloseIdle
  \/ Closed

Spec == Init /\ [][Next]_vars

\* A submitted connect ends by its linked timeout, a session by its response
\* deadline or its cancellation, and stop() goes on.  Nothing is assumed of a
\* connect that waits in the pending queue.
Fairness ==
  /\ \A r \in Requests : WF_vars(Session(r))
  /\ WF_vars(CancelPendingAcquisitions)
  /\ WF_vars(CloseIdle)

FairSpec == Spec /\ Fairness

----------------------------------------------------------------------------
(* Properties *)

LeasesOf(b) == {r \in Requests : req[r] = "leased" /\ bucket[r] = b}
ConnectsOf(b) == {r \in Connecting : bucket[r] = b}

\* The counters a bucket keeps across the awaits of acquire are what they
\* claim to count, whatever fails, is cancelled, pruned or discarded; so are
\* the gauges of the worker.
CountsExact ==
  /\ \A b \in Buckets :
       /\ leasedCount[b] = Cardinality(LeasesOf(b))
       /\ connectingCount[b] = Cardinality(ConnectsOf(b))
       /\ totalCount[b] = leasedCount[b] + Len(idle[b])
  /\ poolActive = Cardinality({r \in Requests : req[r] = "leased"})
  /\ poolIdle = Cardinality(IdleEntries)

\* The route's limits hold for the connections that exist, those still being
\* opened included, although acquire checks before it suspends.
WithinLimits ==
  \A b \in Buckets :
    /\ Cardinality({c \in Requests : /\ bucket[c] = b
                                     /\ conn[c] \in {"connected", "lost"}})
         + Cardinality(ConnectsOf(b)) <= MaxConnections
    /\ Len(idle[b]) <= MaxIdle

\* What a bucket counts is what there is, and what there is keeps to the route's
\* limits.
PoolAccounted == CountsExact /\ WithinLimits

\* An open connection has one owner: one lease, or one place in one deque of
\* its own bucket; a destroyed one has none.  An outbound descriptor belongs
\* to the connect under way or to the connection that came of it.
SingleOwner ==
  /\ \A c \in Requests :
       Cardinality({r \in Requests : lease[r] = c})
         + Cardinality({e \in IdleEntries : idle[e[1]][e[2]] = c})
         = (IF conn[c] \in {"connected", "lost"} THEN 1 ELSE 0)
  /\ \A b \in Buckets : \A c \in Range(idle[b]) : bucket[c] = b
  /\ \A r \in Requests : /\ socket[r] = "held" <=> r \in Connecting
                         /\ socket[r] = "released" <=> conn[r] # "none"

\* A draining pool opens nothing new, and once stop() has begun to cancel, no
\* connect is left that was not told so.
DrainReachesAll ==
  phase \in {"forced", "closed"} => \A r \in Connecting : cancelled[r]

\* When stop() is through with the pool, nothing it ever opened is left open.
ClosedClean ==
  phase = "closed" =>
    /\ \A c \in Requests : conn[c] \in {"none", "destroyed"}
    /\ \A b \in Buckets : totalCount[b] = 0 /\ connectingCount[b] = 0

\* The drain forgets nothing that was asked for before it, on either side of an
\* await: neither a connect under way nor a connection.
DrainClean == DrainReachesAll /\ ClosedClean

\* stop() gets through with the pool, even if a connect is stuck in the
\* pending queue of the loop.
StopCompletes == phase = "draining" ~> phase = "closed"
=============================================================================
