---------------------------- MODULE ProxySession ----------------------------
(***************************************************************************)
(* Sessions of one worker: the request loop of ProxySession over its   *)
(* awaits, the peer-close monitor, cancelInLoop, and the leases it takes   *)
(* from the worker's UpstreamPool.  Everything runs on one loop thread, so *)
(* a session gives way to others only where it awaits an operation; pc is  *)
(* that place, or a place of Running, where the coroutine is executing.    *)
(*                                                                         *)
(* Bytes are tokens that name the request they belong to: one for a head,  *)
(* one for each unit of a body.  A head that arrives in pieces is read by  *)
(* the same loop and is not told apart.                                    *)
(***************************************************************************)
EXTENDS Integers, Sequences, FiniteSets

CONSTANTS
  Sessions,       \* the downstream connections of the worker
  Script,         \* Script[s]: the tokens of the requests s sends
  Conns,          \* maxConnectionsPerWorker connections to the one upstream
  MaxIdle,        \* maxIdlePerWorker
  ResponseBodies, \* the body lengths an upstream answers with
  None            \* no connection

Token == [req : Sessions \X Nat, part : {"head", "body"}, len : Nat,
          keep : BOOLEAN]

ASSUME ScriptAssumption == Script \in [Sessions -> Seq(Token)]
ASSUME ConnAssumption ==
  IsFiniteSet(Conns) /\ IsFiniteSet(Sessions) /\ None \notin Conns /\ MaxIdle \in Nat
ASSUME BodyAssumption == ResponseBodies \subseteq Nat

\* Of the nth request of s, a stream q holds m units of its body and then whole
\* requests, each a head and the body it announces; q may end anywhere.
Framed(s, q, m, n) ==
  \A i \in 1..Len(q) :
    /\ i <= m => q[i].part = "body" /\ q[i].req = <<s, n>>
    /\ i = m + 1 => q[i].part = "head" /\ q[i].req = <<s, n + 1>>
    /\ q[i].part = "head" => \A j \in 1..(q[i].len + 1) : i + j <= Len(q) =>
         IF j <= q[i].len THEN q[i + j].part = "body" /\ q[i + j].req = q[i].req
         ELSE q[i + j].part = "head" /\ q[i + j].req = <<s, q[i].req[2] + 1>>

\* The framing of a request is what GatewayFront checks of HttpFramer.
ASSUME FramingAssumption == \A s \in Sessions : Framed(s, Script[s], 0, 0)

VARIABLES
  pc,              \* where the coroutine of s is
  op,              \* its operation: "none", "submitted", or "immediate":
                   \* refused by await_suspend
  cancelling,      \* sessions whose operation was asked to cancel
  cancelled, responseStarted, \* cancelled_ and responseStarted_
  finished,        \* how often onFinished_ was called
  heads,           \* heads sent to the client for the current request
  down,            \* state of the downstream TcpConnection
  peer,            \* whether the client has its side open
  monitor,         \* the operation of monitorDownstreamClose
  client, input,   \* what the client has sent, and downstreamInput_
  upstreamInput,   \* upstreamInput_
  chunk,           \* what is being written
  current,         \* number of the request being served
  left,            \* what streamExact has still to transfer
  keepAlive,       \* what decides on reuse: request and response keep-alive
  lease, currentUpstream, \* the lease's connection; currentUpstream_
  idle,            \* idleConnections of the pool, oldest first
  accepting,       \* accepting_ of the pool
  place,           \* where each upstream connection is
  wire,            \* what an upstream has sent and nobody has read
  asked,           \* the request an upstream has received and not answered
  owes             \* body units of it still to come

sessionVars == <<cancelled, finished, heads, down, monitor>>
dataVars == <<client, input, upstreamInput, chunk, current, left, keepAlive>>
leaseVars == <<lease, currentUpstream>>
poolVars == <<idle, place>>
upstreamVars == <<wire, asked, owes>>
vars == <<pc, op, cancelling, responseStarted, peer, sessionVars, dataVars,
          leaseVars, poolVars, accepting, upstreamVars>>

DownstreamOps == {"readRequest", "uploadRead", "writeResponse",
                  "downloadWrite", "sendError"}
UpstreamOps == {"writeHead", "uploadWrite", "readResponse", "downloadRead"}
Writes == {"writeHead", "uploadWrite", "writeResponse", "downloadWrite",
           "sendError"}
Awaits == DownstreamOps \cup UpstreamOps \cup {"connect"}
Running == {"top", "parse", "acquire", "upload", "response", "download", "leave"}

Request(s) == <<s, current[s]>>
NoRequest == <<>>

TypeOK ==
  /\ pc \in [Sessions -> {"new", "finished"} \cup Awaits \cup Running]
  /\ op \in [Sessions -> {"none", "submitted", "immediate"}]
  /\ cancelling \subseteq Sessions /\ cancelled \subseteq Sessions
  /\ responseStarted \subseteq Sessions /\ peer \subseteq Sessions
  /\ finished \in [Sessions -> Nat] /\ heads \in [Sessions -> Nat]
  /\ down \in [Sessions -> {"connected", "disconnecting", "closed"}]
  /\ monitor \in [Sessions -> {"new", "waiting", "cancelling", "done"}]
  /\ client \in [Sessions -> Seq(Token)] /\ input \in [Sessions -> Seq(Token)]
  /\ upstreamInput \in [Sessions -> Seq(Token)] /\ chunk \in [Sessions -> Seq(Token)]
  /\ current \in [Sessions -> Nat] /\ left \in [Sessions -> Nat]
  /\ keepAlive \in [Sessions -> BOOLEAN] /\ accepting \in BOOLEAN
  /\ lease \in [Sessions -> Conns \cup {None}]
  /\ currentUpstream \in [Sessions -> Conns \cup {None}]
  /\ idle \in Seq(Conns)
  /\ place \in [Conns -> {"free", "idle", "leased", "lent"}]
  /\ wire \in [Conns -> Seq(Token)] /\ owes \in [Conns -> Nat]
  /\ asked \in [Conns -> (Sessions \X Nat) \cup {NoRequest}]

Init ==
  /\ pc = [s \in Sessions |-> "new"] /\ op = [s \in Sessions |-> "none"]
  /\ cancelling = {} /\ cancelled = {} /\ responseStarted = {}
  /\ finished = [s \in Sessions |-> 0] /\ heads = [s \in Sessions |-> 0]
  /\ down = [s \in Sessions |-> "connected"] /\ peer = Sessions
  /\ monitor = [s \in Sessions |-> "new"]
  /\ client = Script
  /\ input = [s \in Sessions |-> <<>>]
  /\ upstreamInput = [s \in Sessions |-> <<>>]
  /\ chunk = [s \in Sessions |-> <<>>]
  /\ current = [s \in Sessions |-> 0] /\ left = [s \in Sessions |-> 0]
  /\ keepAlive = [s \in Sessions |-> FALSE]
  /\ lease = [s \in Sessions |-> None]
  /\ currentUpstream = [s \in Sessions |-> None]
  /\ idle = <<>> /\ place = [c \in Conns |-> "free"] /\ accepting = TRUE
  /\ wire = [c \in Conns |-> <<>>] /\ asked = [c \in Conns |-> NoRequest]
  /\ owes = [c \in Conns |-> 0]

----------------------------------------------------------------------------
(* Operations.  await_suspend refuses one on a connection that is no longer *)
(* connected, and submitOperation may reject any.                           *)

Run(s, p) ==
  /\ pc' = [pc EXCEPT ![s] = p]
  /\ op' = [op EXCEPT ![s] = "none"]
  /\ cancelling' = cancelling \ {s}

Submitted(s, p) ==
  {"immediate"} \cup
    (IF p \in DownstreamOps /\ down[s] # "connected" THEN {} ELSE {"submitted"})

Await(s, p) ==
  /\ pc' = [pc EXCEPT ![s] = p]
  /\ \E o \in Submitted(s, p) : op' = [op EXCEPT ![s] = o]
  /\ cancelling' = cancelling \ {s}

\* The operation s awaits is with the kernel.
InFlight(s, p) == pc[s] = p /\ op[s] = "submitted"

\* No coroutine of the sessions S is executing.  While one is, nothing else
\* runs on the loop thread; what the peers do is seen at its next await.
Waiting(S) == \A s \in S : pc[s] \notin Running /\ op[s] # "immediate"
Quiet == Waiting(Sessions)

Prefix(q, k) == SubSeq(q, 1, k)
Rest(q, k) == SubSeq(q, k + 1, Len(q))
AtMost(n, q) == IF Len(q) < n THEN Len(q) ELSE n

\* asyncWriteAll goes on with what a write has left, as a new operation: a
\* request to cancel the one that has written is lost.
PartialWrite(s) ==
  /\ pc[s] \in Writes /\ op[s] = "submitted"
  /\ Await(s, pc[s])
  /\ UNCHANGED <<responseStarted, peer, sessionVars, dataVars, leaseVars,
                 poolVars, accepting, upstreamVars>>

SendError(s) ==
  IF s \in responseStarted
  THEN Run(s, "leave") /\ UNCHANGED <<heads, responseStarted>>
  ELSE /\ Await(s, "sendError")
       /\ heads' = [heads EXCEPT ![s] = @ + 1]
       /\ responseStarted' = responseStarted \cup {s}

----------------------------------------------------------------------------
(* The upstream pool, as UpstreamPool specifies it *)

\* Connections given up: connectDestroyed closes them.
Discard(C) ==
  /\ wire' = [c \in Conns |-> IF c \in C THEN <<>> ELSE wire[c]]
  /\ asked' = [c \in Conns |-> IF c \in C THEN NoRequest ELSE asked[c]]
  /\ owes' = [c \in Conns |-> IF c \in C THEN 0 ELSE owes[c]]

Elements(q) == {q[i] : i \in 1..Len(q)}
Connecting == {s \in Sessions : pc[s] = "connect"}
HasRoom(C) ==
  Cardinality({c \in Conns \ C : place[c] # "free"}) + Cardinality(Connecting)
    < Cardinality(Conns)

\* The lease is made and its connection becomes currentUpstream_.
Lease(s, c) ==
  /\ lease' = [lease EXCEPT ![s] = c]
  /\ currentUpstream' = [currentUpstream EXCEPT ![s] = c]
  /\ Await(s, "writeHead")

AcquireRefused(s) ==
  /\ pc[s] = "acquire"
  /\ ~accepting
  /\ SendError(s)
  /\ UNCHANGED <<peer, cancelled, finished, down, monitor, dataVars, leaseVars,
                 poolVars, accepting, upstreamVars>>

\* The k oldest idle connections have expired; the next one is reused.
AcquireIdle(s) ==
  /\ pc[s] = "acquire"
  /\ accepting
  /\ \E k \in 0..Len(idle) - 1 :
       /\ idle' = Rest(idle, k + 1)
       /\ place' = [c \in Conns |->
            IF c \in Elements(Prefix(idle, k)) THEN "free"
            ELSE IF c = idle[k + 1] THEN "leased" ELSE place[c]]
       /\ Discard(Elements(Prefix(idle, k)))
       /\ Lease(s, idle[k + 1])
  /\ UNCHANGED <<responseStarted, peer, sessionVars, dataVars, accepting>>

\* Every idle connection has expired: connect, if the bucket has room.
AcquireConnect(s) ==
  /\ pc[s] = "acquire"
  /\ accepting
  /\ Discard(Elements(idle))
  /\ place' = [c \in Conns |-> IF place[c] = "idle" THEN "free" ELSE place[c]]
  /\ idle' = <<>>
  /\ \/ /\ HasRoom(Elements(idle))
        /\ Await(s, "connect")
        /\ UNCHANGED <<heads, responseStarted>>
     \/ ~HasRoom(Elements(idle)) /\ SendError(s)
  /\ UNCHANGED <<peer, cancelled, finished, down, monitor, dataVars, leaseVars,
                 accepting>>

\* A connect may succeed although it was asked to cancel.
Connected(s) ==
  /\ InFlight(s, "connect")
  /\ LET c == CHOOSE d \in Conns : place[d] = "free" IN
     /\ place' = [place EXCEPT ![c] = "leased"]
     /\ Lease(s, c)
  /\ UNCHANGED <<responseStarted, peer, sessionVars, dataVars, idle, accepting,
                 upstreamVars>>

\* Mutant: the response counts as consumed once its head was forwarded.
HeadForwarded(s) == pc[s] = "download"

\* streamExact has moved the whole body of the response.
ResponseConsumed(s) == left[s] = 0

\* The response is complete: the lease goes back, to be kept if both sides
\* keep alive and the pool has room for another idle connection.
Completed(s) ==
  /\ pc[s] = "download" /\ ResponseConsumed(s)
  /\ LET c == lease[s] keep == keepAlive[s] /\ Len(idle) < MaxIdle IN
     /\ idle' = IF keep THEN Append(idle, c) ELSE idle
     /\ place' = [place EXCEPT ![c] = IF keep THEN "idle" ELSE "free"]
     /\ Discard(IF keep THEN {} ELSE {c})
  /\ lease' = [lease EXCEPT ![s] = None]
  /\ currentUpstream' = [currentUpstream EXCEPT ![s] = None]
  /\ Run(s, IF keepAlive[s] THEN "top" ELSE "leave")
  /\ UNCHANGED <<responseStarted, peer, sessionVars, dataVars, accepting>>

----------------------------------------------------------------------------
(* run and runLoop *)

\* startSession turns connections away once acceptingSessions_ is cleared,
\* which GatewayServer::stop does before it lets the pool stop acquiring.
Start(s) ==
  /\ Quiet
  /\ accepting
  /\ pc[s] = "new"
  /\ Run(s, "top")
  /\ monitor' = [monitor EXCEPT ![s] = "waiting"]
  /\ UNCHANGED <<responseStarted, peer, cancelled, finished, heads, down,
                 dataVars, leaseVars, poolVars, accepting, upstreamVars>>

Top(s) ==
  /\ pc[s] = "top"
  /\ Run(s, IF s \in cancelled THEN "leave" ELSE "parse")
  /\ responseStarted' = responseStarted \ {s}
  /\ heads' = [heads EXCEPT ![s] = 0]
  /\ UNCHANGED <<peer, cancelled, finished, down, monitor, dataVars, leaseVars,
                 poolVars, accepting, upstreamVars>>

\* readRequestHead and the routing of the request: what does not parse, has
\* no route or no endpoint is answered with an error.
Parse(s) ==
  /\ pc[s] = "parse"
  /\ \/ /\ input[s] = <<>>
        /\ Await(s, "readRequest")
        /\ UNCHANGED <<input, current, left, keepAlive, heads, responseStarted>>
     \/ /\ input[s] # <<>>
        /\ SendError(s)
        /\ UNCHANGED <<input, current, left, keepAlive>>
     \/ /\ input[s] # <<>> /\ Head(input[s]).part = "head"
        /\ input' = [input EXCEPT ![s] = Tail(@)]
        /\ current' = [current EXCEPT ![s] = @ + 1]
        /\ left' = [left EXCEPT ![s] = Head(input[s]).len]
        /\ keepAlive' = [keepAlive EXCEPT ![s] = Head(input[s]).keep]
        /\ Run(s, "acquire")
        /\ UNCHANGED <<heads, responseStarted>>
  /\ UNCHANGED <<peer, cancelled, finished, down, monitor, client,
                 upstreamInput, chunk, leaseVars, poolVars, accepting,
                 upstreamVars>>

ReadRequest(s) ==
  /\ InFlight(s, "readRequest")
  /\ \E k \in 1..Len(client[s]) :
       /\ input' = [input EXCEPT ![s] = @ \o Prefix(client[s], k)]
       /\ client' = [client EXCEPT ![s] = Rest(@, k)]
  /\ Run(s, "parse")
  /\ UNCHANGED <<responseStarted, peer, sessionVars, upstreamInput, chunk,
                 current, left, keepAlive, leaseVars, poolVars, accepting,
                 upstreamVars>>

\* Mutant: what is buffered is sent whole, the next request included.
WholeBuffer(s) == Len(input[s])

\* How much of the buffer streamExact sends.
FromBuffer(s) == AtMost(left[s], input[s])

\* streamExact from the client: what is buffered first, then what arrives.
Upload(s) ==
  /\ pc[s] = "upload"
  /\ \/ left[s] = 0 /\ Run(s, "response")
          /\ upstreamInput' = [upstreamInput EXCEPT ![s] = <<>>]
          /\ UNCHANGED <<input, chunk>>
     \/ left[s] > 0 /\ input[s] # <<>> /\ Await(s, "uploadWrite")
          /\ LET k == FromBuffer(s) IN
             /\ chunk' = [chunk EXCEPT ![s] = Prefix(input[s], k)]
             /\ input' = [input EXCEPT ![s] = Rest(@, k)]
          /\ UNCHANGED upstreamInput
     \/ left[s] > 0 /\ input[s] = <<>> /\ Await(s, "uploadRead")
          /\ UNCHANGED <<input, chunk, upstreamInput>>
  /\ UNCHANGED <<responseStarted, peer, sessionVars, client, current, left,
                 keepAlive, leaseVars, poolVars, accepting, upstreamVars>>

UploadRead(s) ==
  /\ InFlight(s, "uploadRead")
  /\ \E k \in 1..AtMost(left[s], client[s]) :
       /\ chunk' = [chunk EXCEPT ![s] = Prefix(client[s], k)]
       /\ client' = [client EXCEPT ![s] = Rest(@, k)]
  /\ Await(s, "uploadWrite")
  /\ UNCHANGED <<responseStarted, peer, sessionVars, input, upstreamInput,
                 current, left, keepAlive, leaseVars, poolVars, accepting,
                 upstreamVars>>

\* readResponseHead and the head that is forwarded.
Response(s) ==
  /\ pc[s] = "response"
  /\ \/ /\ upstreamInput[s] = <<>>
        /\ Await(s, "readResponse")
        /\ UNCHANGED <<upstreamInput, chunk, left, keepAlive, heads,
                       responseStarted>>
     \/ /\ upstreamInput[s] # <<>>
        /\ SendError(s)
        /\ UNCHANGED <<upstreamInput, chunk, left, keepAlive>>
     \/ /\ upstreamInput[s] # <<>> /\ Head(upstreamInput[s]).part = "head"
        /\ chunk' = [chunk EXCEPT ![s] = <<Head(upstreamInput[s])>>]
        /\ upstreamInput' = [upstreamInput EXCEPT ![s] = Tail(@)]
        /\ left' = [left EXCEPT ![s] = Head(upstreamInput[s]).len]
        /\ keepAlive' = [keepAlive EXCEPT
                           ![s] = @ /\ Head(upstreamInput[s]).keep]
        /\ responseStarted' = responseStarted \cup {s}
        /\ heads' = [heads EXCEPT ![s] = @ + 1]
        /\ Await(s, "writeResponse")
  /\ UNCHANGED <<peer, cancelled, finished, down, monitor, client, input,
                 current, leaseVars, poolVars, accepting, upstreamVars>>

ReadResponse(s) ==
  /\ InFlight(s, "readResponse")
  /\ LET c == currentUpstream[s] IN \E k \in 1..Len(wire[c]) :
       /\ upstreamInput' = [upstreamInput EXCEPT ![s] = @ \o Prefix(wire[c], k)]
       /\ wire' = [wire EXCEPT ![c] = Rest(@, k)]
  /\ Run(s, "response")
  /\ UNCHANGED <<responseStarted, peer, sessionVars, client, input, chunk,
                 current, left, keepAlive, leaseVars, poolVars, accepting,
                 asked, owes>>

\* streamExact from the upstream.
Download(s) ==
  /\ pc[s] = "download" /\ left[s] > 0
  /\ \/ /\ upstreamInput[s] # <<>>
        /\ LET k == AtMost(left[s], upstreamInput[s]) IN
           /\ chunk' = [chunk EXCEPT ![s] = Prefix(upstreamInput[s], k)]
           /\ upstreamInput' = [upstreamInput EXCEPT ![s] = Rest(@, k)]
        /\ Await(s, "downloadWrite")
     \/ /\ upstreamInput[s] = <<>>
        /\ Await(s, "downloadRead")
        /\ UNCHANGED <<chunk, upstreamInput>>
  /\ UNCHANGED <<responseStarted, peer, sessionVars, client, input, current,
                 left, keepAlive, leaseVars, poolVars, accepting, upstreamVars>>

DownloadRead(s) ==
  /\ InFlight(s, "downloadRead")
  /\ LET c == currentUpstream[s] IN
     \E k \in 1..AtMost(left[s], wire[c]) :
       /\ chunk' = [chunk EXCEPT ![s] = Prefix(wire[c], k)]
       /\ wire' = [wire EXCEPT ![c] = Rest(@, k)]
  /\ Await(s, "downloadWrite")
  /\ UNCHANGED <<responseStarted, peer, sessionVars, client, input,
                 upstreamInput, current, left, keepAlive, leaseVars, poolVars,
                 accepting, asked, owes>>

\* Mutant: a response is taken to have no body.
AfterWriteNoBody == [writeHead |-> "upload", uploadWrite |-> "upload",
                     writeResponse |-> "top", downloadWrite |-> "download",
                     sendError |-> "leave"]

AfterWrite == [writeHead |-> "upload", uploadWrite |-> "upload",
               writeResponse |-> "download", downloadWrite |-> "download",
               sendError |-> "leave"]

\* The last byte of a write is out; the upstream has what it was sent.
Written(s) ==
  /\ pc[s] \in Writes /\ op[s] = "submitted"
  /\ Run(s, AfterWrite[pc[s]])
  /\ left' = [left EXCEPT ![s] = IF pc[s] \in {"uploadWrite", "downloadWrite"}
                                 THEN @ - Len(chunk[s]) ELSE @]
  /\ chunk' = [chunk EXCEPT ![s] = <<>>]
  /\ LET c == currentUpstream[s] IN
     /\ asked' = IF pc[s] = "writeHead" THEN [asked EXCEPT ![c] = Request(s)]
                 ELSE asked
     /\ owes' = CASE pc[s] = "writeHead" -> [owes EXCEPT ![c] = left[s]]
                  [] pc[s] = "uploadWrite" ->
                       [owes EXCEPT ![c] = @ - Len(chunk[s])]
                  [] OTHER -> owes
  /\ UNCHANGED <<responseStarted, peer, sessionVars, client, input,
                 upstreamInput, current, keepAlive, leaseVars, poolVars,
                 accepting, wire>>

\* Mutant: no operation has a deadline.
OnlyRefused(s) == op[s] = "immediate" \/ s \in cancelling \/ s \notin peer

\* An operation may fail at once, by its deadline or its connection; reading
\* a request has no deadline.
MayFail(s) ==
  \/ op[s] = "immediate"
  \/ /\ pc[s] \in Awaits
     /\ pc[s] # "readRequest" \/ s \in cancelling \/ s \notin peer

\* What follows a failure: the end of a connection is no error while a request
\* is awaited, and once the response has begun there is nothing to be sent.
Fail(s) ==
  /\ MayFail(s)
  /\ \/ /\ pc[s] = "readRequest" /\ op[s] # "immediate"
        /\ Run(s, "leave")
        /\ UNCHANGED <<heads, responseStarted>>
     \/ /\ pc[s] \in {"writeResponse", "downloadRead", "downloadWrite",
                      "sendError"}
        /\ Run(s, "leave")
        /\ UNCHANGED <<heads, responseStarted>>
     \/ /\ pc[s] \in {"readRequest", "connect", "uploadRead", "readResponse",
                      "writeHead", "uploadWrite"}
        /\ SendError(s)
  /\ UNCHANGED <<peer, cancelled, finished, down, monitor, dataVars, leaseVars,
                 poolVars, accepting, upstreamVars>>

\* The session object goes, with its buffers.
Forget(s) ==
  /\ client' = [client EXCEPT ![s] = <<>>]
  /\ input' = [input EXCEPT ![s] = <<>>]
  /\ upstreamInput' = [upstreamInput EXCEPT ![s] = <<>>]
  /\ chunk' = [chunk EXCEPT ![s] = <<>>]
  /\ left' = [left EXCEPT ![s] = 0]
  /\ keepAlive' = [keepAlive EXCEPT ![s] = FALSE]
  /\ current' = [current EXCEPT ![s] = 0]
  /\ heads' = [heads EXCEPT ![s] = 0]
  /\ responseStarted' = responseStarted \ {s}
  /\ cancelled' = cancelled \ {s}
  /\ peer' = peer \ {s}

\* Mutant: the lease outlives the session.
LeaseKept(s) == {}

\* The lease a session leaves behind is destroyed, never kept.
LeaseDropped(s) == {lease[s]} \ {None}

\* The end of runLoop, where the lease goes out of scope, and finish.
Leave(s) ==
  /\ pc[s] = "leave"
  /\ place' = [c \in Conns |-> IF c \in LeaseDropped(s) THEN "free" ELSE place[c]]
  /\ Discard(LeaseDropped(s))
  /\ lease' = [lease EXCEPT ![s] = None]
  /\ currentUpstream' = [currentUpstream EXCEPT ![s] = None]
  /\ down' = [down EXCEPT ![s] = IF @ = "connected" THEN "disconnecting" ELSE @]
  /\ finished' = [finished EXCEPT ![s] = @ + 1]
  /\ monitor' = [monitor EXCEPT ![s] = IF @ = "waiting" THEN "cancelling" ELSE @]
  /\ Run(s, "finished")
  /\ Forget(s)
  /\ UNCHANGED <<idle, accepting>>

----------------------------------------------------------------------------
(* Cancellation: the monitor, GatewayServer::stop, and forceClose *)

\* Sessions whose operation a cancellation of both connections reaches; while
\* acquire is awaited there is no currentUpstream_.
Reached(S) == {s \in S : \/ pc[s] \in DownstreamOps
                         \/ pc[s] \in UpstreamOps /\ currentUpstream[s] # None}

\* Mutant: the flag is raised and the operations are left to end by themselves.
CancelFlagOnly(S, extra) ==
  /\ cancelled' = cancelled \cup S
  /\ UNCHANGED <<cancelling, down>>

\* cancelInLoop of the sessions S, each of which acts on it once.
CancelInLoop(S, extra) ==
  LET new == S \ cancelled IN
  /\ cancelled' = cancelled \cup S
  /\ cancelling' = cancelling \cup Reached(new) \cup extra
  /\ down' = [s \in Sessions |-> IF s \in new /\ down[s] = "connected"
                                 THEN "disconnecting" ELSE down[s]]

\* monitorDownstreamClose: the poll reports the client's end, or its cancel.
PeerClosed(s) ==
  /\ Quiet
  /\ monitor[s] \in {"waiting", "cancelling"}
  /\ \/ s \notin peer /\ CancelInLoop({s} \ {t \in {s} : finished[t] > 0}, {})
     \/ monitor[s] = "cancelling" /\ UNCHANGED <<cancelled, cancelling, down>>
  /\ monitor' = [monitor EXCEPT ![s] = "done"]
  /\ UNCHANGED <<pc, op, responseStarted, peer, finished, heads, dataVars,
                 leaseVars, poolVars, accepting, upstreamVars>>

\* GatewayServer::stop on this worker: stopAcquiring, later cancelSessions.
StopAcquiring ==
  /\ Quiet
  /\ accepting
  /\ accepting' = FALSE
  /\ UNCHANGED <<pc, op, cancelling, responseStarted, peer, sessionVars,
                 dataVars, leaseVars, poolVars, upstreamVars>>

Active == {s \in Sessions : pc[s] \notin {"new", "finished"}}

CancelSessions ==
  /\ Quiet
  /\ ~accepting /\ ~(Active \subseteq cancelled)
  /\ CancelInLoop(Active, Connecting)
  /\ monitor' = [s \in Sessions |-> IF s \in Active \ cancelled
                                       /\ monitor[s] = "waiting"
                                    THEN "cancelling" ELSE monitor[s]]
  /\ UNCHANGED <<pc, op, responseStarted, peer, finished, heads, dataVars,
                 leaseVars, poolVars, accepting, upstreamVars>>

\* The functor forceClose has queued: cancelPendingOperations, handleClose.
CloseDownstream(s) ==
  /\ Quiet
  /\ down[s] = "disconnecting"
  /\ down' = [down EXCEPT ![s] = "closed"]
  /\ cancelling' = IF pc[s] \in DownstreamOps THEN cancelling \cup {s}
                   ELSE cancelling
  /\ monitor' = [monitor EXCEPT ![s] = IF @ = "waiting" THEN "cancelling" ELSE @]
  /\ UNCHANGED <<pc, op, responseStarted, peer, cancelled, finished, heads,
                 dataVars, leaseVars, poolVars, accepting, upstreamVars>>

----------------------------------------------------------------------------
(* The worker's other sessions: they take connections from the same pool and *)
(* return them at a message boundary, as UpstreamPool specifies.             *)

OthersTake(c) ==
  /\ Quiet
  /\ accepting /\ place[c] \in {"free", "idle"} /\ HasRoom({c})
  /\ place' = [place EXCEPT ![c] = "lent"]
  /\ \/ place[c] = "free" /\ UNCHANGED idle
     \/ \E i \in 1..Len(idle) :
          idle[i] = c /\ idle' = Prefix(idle, i - 1) \o Rest(idle, i)
  /\ UNCHANGED <<pc, op, cancelling, responseStarted, peer, sessionVars,
                 dataVars, leaseVars, accepting, upstreamVars>>

OthersReturn(c) ==
  /\ Quiet
  /\ place[c] = "lent"
  /\ \/ place' = [place EXCEPT ![c] = "free"] /\ UNCHANGED idle
     \/ /\ Len(idle) < MaxIdle
        /\ place' = [place EXCEPT ![c] = "idle"]
        /\ idle' = Append(idle, c)
  /\ UNCHANGED <<pc, op, cancelling, responseStarted, peer, sessionVars,
                 dataVars, leaseVars, accepting, upstreamVars>>

----------------------------------------------------------------------------
(* The peers *)

ClientCloses(s) ==
  /\ Quiet
  /\ s \in peer /\ pc[s] \notin {"new", "finished"}
  /\ peer' = peer \ {s}
  /\ UNCHANGED <<pc, op, cancelling, responseStarted, sessionVars, dataVars,
                 leaseVars, poolVars, accepting, upstreamVars>>

\* An upstream answers the request it has, with the body it announces or, if
\* it fails meanwhile, with less.  One that has closed its side answers no more,
\* also while its connection is idle.
Answer(c) ==
  /\ Quiet
  /\ asked[c] # NoRequest /\ owes[c] = 0
  /\ \E len \in ResponseBodies, keep \in BOOLEAN : \E sent \in 0..len :
       LET token(part) == [req |-> asked[c], part |-> part, len |-> len,
                           keep |-> keep]
       IN wire' = [wire EXCEPT ![c] = @ \o <<token("head")>>
                      \o [i \in 1..sent |-> token("body")]]
  /\ asked' = [asked EXCEPT ![c] = NoRequest]
  /\ UNCHANGED <<pc, op, cancelling, responseStarted, peer, sessionVars,
                 dataVars, leaseVars, poolVars, accepting, owes>>

----------------------------------------------------------------------------
Advance(s) ==
  \/ Top(s) \/ Parse(s) \/ ReadRequest(s) \/ AcquireRefused(s)
  \/ AcquireIdle(s) \/ AcquireConnect(s) \/ Connected(s)
  \/ Upload(s) \/ UploadRead(s) \/ Response(s) \/ ReadResponse(s)
  \/ Download(s) \/ DownloadRead(s) \/ Completed(s)
  \/ PartialWrite(s) \/ Written(s) \/ Fail(s) \/ Leave(s)

Proceed(s) == Waiting(Sessions \ {s}) /\ Advance(s)

\* Every session has ended, every descriptor is closed.
Ended ==
  /\ \A s \in Sessions :
       \/ pc[s] = "finished" /\ down[s] = "closed"
       \/ pc[s] = "new" /\ ~accepting
  /\ UNCHANGED vars

Next ==
  \/ \E s \in Sessions : \/ Start(s) \/ Proceed(s) \/ PeerClosed(s)
                          \/ CloseDownstream(s) \/ ClientCloses(s)
  \/ \E c \in Conns : Answer(c) \/ OthersTake(c) \/ OthersReturn(c)
  \/ StopAcquiring \/ CancelSessions
  \/ Ended

Spec == Init /\ [][Next]_vars

\* The loop thread goes on; the kernel completes what has data, was asked to
\* cancel or has a deadline.  Clients and upstreams need not do anything.
Fairness ==
  \A s \in Sessions :
    WF_vars(Proceed(s)) /\ WF_vars(PeerClosed(s)) /\ WF_vars(CloseDownstream(s))

FairSpec == Spec /\ Fairness

----------------------------------------------------------------------------
(* Properties *)

\* No mix-up: what a client is sent as the answer to its request is part of
\* the answer an upstream gave to that request, and what an upstream is sent
\* as its body is that body, although connections are reused, requests are
\* pipelined and both streams are cut anywhere (streamExact, release).
StreamsMatch ==
  \A s \in Sessions :
    pc[s] \in {"uploadWrite", "writeResponse", "downloadWrite"} =>
      \A i \in 1..Len(chunk[s]) :
        /\ chunk[s][i].req = Request(s)
        /\ chunk[s][i].part = (IF pc[s] = "writeResponse" THEN "head" ELSE "body")

\* A connection the pool keeps is between two messages: its upstream has
\* answered everything, all of it was read, and no session refers to it.
IdleAtBoundary ==
  /\ \A i \in 1..Len(idle) :
       /\ wire[idle[i]] = <<>> /\ asked[idle[i]] = NoRequest
       /\ \A s \in Sessions : idle[i] \notin {lease[s], currentUpstream[s]}
  /\ \A c \in Conns : place[c] = "idle" <=> c \in Elements(idle)

\* A request gets one response, and gets it whole: no error is put behind a
\* response that has begun, and the session turns to the next request only when
\* all of the announced body has gone to the client, however it was cut.
WholeResponses ==
  \A s \in Sessions : heads[s] <= 1 /\ (pc[s] = "top" => left[s] = 0)

\* finish runs once, whoever ended the session, and leaves nothing behind: no
\* lease, no awaited operation, no open downstream connection; every leased
\* connection has a session that will give it back.
FinishedClean ==
  /\ \A s \in Sessions :
       /\ finished[s] = (IF pc[s] = "finished" THEN 1 ELSE 0)
       /\ pc[s] = "finished" => lease[s] = None /\ down[s] # "connected"
  /\ \A c \in Conns : place[c] = "leased" <=> \E s \in Sessions : lease[s] = c

\* A session is always at one of the awaits of runLoop, with the operations that
\* await has, and one that has ended has left nothing behind.
SessionClean == TypeOK /\ FinishedClean

\* A session ends when its client is gone or the gateway cancels it, wherever
\* it is and whatever the upstream does.
CancelledEnds ==
  \A s \in Sessions :
    (pc[s] # "new" /\ s \notin peer) \/ s \in cancelled ~> pc[s] = "finished"

\* A request that was read gets a response or the connection is closed, over a
\* pooled connection that its upstream has closed too.
RequestAnswered ==
  \A s \in Sessions : pc[s] = "acquire" ~> heads[s] = 1 \/ pc[s] = "finished"

\* What the design says of the session's cancellation source: a downstream EOF
\* or error cancels upstream work, so a cancelled session starts no other
\* operation on an upstream connection.
CancelStopsUpstreamWork ==
  [][\A s \in Sessions :
       s \in cancelled /\ pc'[s] \in UpstreamOps => pc'[s] = pc[s]]_vars
=============================================================================
