# AsyncNetworks: models, checks and proofs

AsyncNetworks is a C++20 network runtime on io_uring (one `EventLoop` per
thread, coroutine I/O) with an HTTP reverse proxy (the UCP gateway) on top of
it. This directory holds TLA+ models of the runtime and the gateway, TLC
configurations that check them on small instances, and theorems that TLAPS
proves for every value of the constants. `PROJECT.json` maps every definition
to the lines it models and lists the hazards of the code, each at its line,
with the properties that would catch them.

## 1. Inventory

| Component | State it keeps | Operations | What is hard, and what makes it correct |
|---|---|---|---|
| `EventLoop` operations + `IoOperation` | `inFlightOperations_`, `pendingSubmissions_`, ring, per operation `pendingCqes_`, `cancelRequested_`, `externallyCompleted_` | submit, cancel, completion, drain | CQEs of one operation race; cancel needs an SQE that may not be there; shutdown meets every state. One result per waiter, no dangling token, a clean stop |
| `EventLoop` ingress + lifecycle | functor queue, control deque, counter, water marks, `lifecycleState_`, `quit_`, eventfd | `queueInLoop`, `queueControlInLoop`, `runInLoop`, `quit`, `loop` | any thread calls at any time, also while the loop stops. Accepted work runs once, no lost wakeup, no use of a closed eventfd |
| `LockFreeQueue`, `Logger` | slots with sequence numbers, two positions; file, `running_` | `enqueue`, `dequeue`; `log`, background thread, rotation, `shutdown` | claim and publish are separate; rotation renames to a name that may be taken, and opening may fail. FIFO, no duplicate, no loss but the known ones, shutdown writes a last batch |
| `UpstreamPool` + `AsyncConnect` | per bucket: idle deque, three counters; pending connects and their descriptors | `acquire`, `release`, drain operations | state is reserved before an await and settled after it. Exact counts, limits, one owner, clean drain |
| `ProxySession`, `AsyncSocket` | request progress, current upstream, cancel and finish flags | `run`, `cancel`, `finish`, close monitor | cancellation at any await; streams cut anywhere. One finish, one whole response, nothing mixed up, no reuse of a dirty upstream |
| `GatewayServer`, `TcpServer`, `Acceptor`, `TcpConnection`, `EventLoopThreadPool` | workers, sessions, stop flags, connection map, states | `start`, accept, establish, `forceClose`, destroy, `stop` | a multi-phase stop across threads that aborts if a phase stalls; hand-overs that may be rejected. Every phase ends, every descriptor is closed once |
| `HttpFramer`, `Buffer`, codecs | bytes of a connection | parse, forward, append, retrieve | boundaries of reads and limits. Each message is seen once, as what it is |
| `GatewayConfig`, `RouteTable`, balancer | settings, order of routes, a cursor | load, match, select | limits, order. Sound settings, longest prefix, even turns |
| Older awaitables, `asyncSend`, recommendation server | output buffer, water marks, `IoContext` | `asyncSend`, service coroutine | partial writes, slow or closed peers. Replies in order, a bounded buffer |
| `Task`, `Result`, `MemoryPool`, metrics, `Socket`, applications | – | – | section 8 |

How they interact: user coroutines call `submitOperation` on their loop thread
and are resumed from `handleCompletionEvent`. Threads reach a loop only through
`queueInLoop`, `queueControlInLoop` and `quit`. A `ProxySession` lives on the
loop of its downstream connection, leases upstream connections from that
worker's `UpstreamPool` and is cancelled through the control queue.
`GatewayServer::stop` runs on another thread and drives base loop and worker
loops by posting to them and waiting. Every thread logs through one queue.

## 2. Plan

Done: the models of sections 3 and 4 and the proofs of section 6. The modules
depend on each other by what each assumes of the next:

    GatewayFront  (bytes)      ProxySession ---- UpstreamPool
                                    |                |
    Logger -- LockFreeQueue    GatewayServer --------+
                 |                  |
            BoundedFifo        LoopIngress      IoOperations -- OperationContract

`GatewayServer` takes from `ProxySession` that a cancelled session ends, from
`LoopIngress` that an accepted functor runs, from `IoOperations` that a
cancelled operation completes. `ProxySession` takes framing from
`GatewayFront` and has the pool's interface built in.

Left, in this order:

1. upstreams that send more than they announce: the code parks such a connection
   without a look at `upstreamInput_` (a hazard without a property), and the
   theorems about `ProxySession` are for upstreams that do not;
2. a `start()` that overlaps with `stop()`;
3. registered buffers and the reads of the older interface.

Nothing of the safety that the runs check is left to prove; what stays with TLC is
in section 7.

## 3. The modules

### IoOperations, OperationContract

One `EventLoop` with its ring. An operation has four possible SQEs, named by
kind: `io`, `timeout` (its linked timeout), `cancel` (from `cancelOperation`) and
`drain` (from `drainOperationsForShutdown`). `slot[o][k]` follows each from the
submission ring through the kernel to its CQE; `place[o]` says where the loop
keeps the operation (`pending` in `pendingSubmissions_`, `inflight` in
`inFlightOperations_`, `rejected`, `drained`). `pendingCqes`, `cancelRequested`
and `result` are the fields of `IoOperation`. `resumed` and `seen` are history.
`pc` walks through `loop()`: control functors, functors, flush, submit, wait,
CQEs; then the exit phases and the drain.

| Actions | Code |
|---|---|
| `SubmitOperation`, `SubmitOffLoop`, `PrepareSubmission` | `submitOperation`, `prepareSubmission` |
| `CancelPending`, `CancelInFlight`, `SubmitCancel`, `QueueRetry`, `RetryCancel` | `cancelOperation`, `submitCancel`, `retryCancel` |
| `HandleCompletion` with `OnCompletion`, `Selected`, `ErrorFromKernelResult` | `handleCompletionEvent`, `IoOperation::onCompletion`, `errorFromKernelResult` |
| `HandleWakeup` | `handleWakeup`, `asyncReadWakeup` |
| `DoControlFunctors` .. `CqesDone` | the body of `loop()` |
| `RequestStop`, `CommitStop`, `LeaveLoop`, `DrainPending` .. `DrainDone` | `quit`, `beginStopping`, `drainOperationsForShutdown` |
| `KernelIo`, `KernelRun`, `KernelTimer`, `KernelCancel`, `KernelPost`, `KernelWakeup` | io_uring, external |

The kernel is modelled from what the code relies on: a linked timeout ends as
`ECANCELED`, `ETIME` or, if a worker already executes the I/O, `EALREADY`; a
cancel finds its target, finds it executing, or finds nothing; CQEs may be
consumed in any order. A fatal error of submit or wait (`RingFaults`) leaves the
loop, or, during the drain, ends in `aborted`, where the code gives up.

`OperationContract` says what a coroutine may rely on and nothing else: an
operation is accepted or refused, an accepted one is answered once, and
`loop()` returns only when no answer is owed. `ContractKept` states that
`IoOperations` implements it, with an operation "waiting" when it has left the
caller and has no result.

### LoopIngress

Every step of a queueing call that another thread can interleave with: the
unlocked stop check, the shared lock, the compare-exchange reservation, slot
claim, publication, load and store of the water-mark flag, the eventfd write,
unlock, callback. `quit()` likewise. The loop thread runs from its prologue to
`releaseResources`. A task belongs to a thread of its own or, in `LoopTasks`, to
the loop thread, which can do nothing else while the call is under way. The drain
of I/O operations is one phase here; it is the subject of `IoOperations`.

### UpstreamPool

Everything runs on one loop thread, so an action is what runs between two
suspensions. A request is one `acquire` and the use of its lease. `AcquireIdle`,
`AcquireConnect`, `AcquireExhausted` and `AcquireRefused` are the four ways
through `acquire` before its await; `ConnectSucceeded` and `ConnectFailed` the
two after it. `ConnectStarts`, `ConnectRefused`, `Established` and
`CancelConnects` are `connectOwned` and `AsyncConnectControl`; `socket` follows
the descriptor through them. Releases keep or discard. `StopAcquiring`,
`CancelPendingAcquisitions` and `CloseIdle` are called by
`GatewayServer::stop` in that order. Expiry of idle connections is a free choice
of a prefix, since the deque is ordered by `idleSince`. The gauges of the worker
are compared with the cardinalities of the sets they stand for.

### ProxySession

The coroutine of a session from await to await: reading and parsing a head,
acquiring an upstream, moving the request body up and the response down
(`streamExact`, in chunks cut anywhere, with partial writes), error responses,
the decision to reuse the lease, `finish`. `pc[s]` is the await a session is
in, `op` and `cancelling` what the kernel has of it. The peer-close monitor,
the server's cancellation (`CancelSessions`) and the client run beside it. A
byte of a body carries the request it belongs to, so that a mix-up is visible.
`OthersTake` and `OthersReturn` stand for the other sessions on the same pool:
they lease idle connections and give them back at a message boundary. An
upstream may answer less than it announces or not at all, and may close a
connection that lies idle; it sends no more than it announced.

`Script[s]` is what a client sends, labelled by request: a head, the body it
announces, the next head (`Framed`). The labels restrict nobody, since whatever
bytes come behind a body are read as the next head; that `HttpFramer` finds these
boundaries is what `GatewayFront` checks.

### GatewayServer

Three kinds of thread: base loop, worker loops, callers of `stop()`. The state
is that of `Acceptor` (accept operation, listening), `TcpServer` (connections,
next loop), `TcpConnection` (state, closes of its descriptor), the sessions as
counted by `GatewayServer`, and the queue of functors of every loop. A queue is a
set, since a functor refused by one of a loop's two queues goes to the other and
so may overtake. `phase` walks through `stop()`; a phase that waits for the loops
collects them in `complete`. `start()` returns before `stop()` is called.

`CancelInLoop` is `ProxySession::cancelInLoop` as far as the server sees it: the
session is cancelled and its connection closed, whether the server's functor or the
peer-close monitor calls it. So a connection may be closed, destroyed and published
while its session is still running, and the session calls `forceClose` on it again
when it ends (`SessionEnds`). Two cases of `TcpServer` do not arise in the gateway and
are left out: a destroy functor rejected by a worker loop that is stopping
(`TcpServer.cpp:157`; the workers stop when no connection is left, which
`StoppedClean` and `NoneIsStranded` confirm), and `Acceptor::stop` called from another
thread.

### LockFreeQueue, BoundedFifo, Logger

`LockFreeQueue` has one action per atomic access of `enqueueImpl` and `dequeue`:
load position, load sequence, compare-exchange, copy, publish.
`compare_exchange_weak` is taken not to fail spuriously (a retry repeats the
same steps). A ring has at least two slots, as its two users ask for
(`EventLoop.cpp:63`, `Logger.cpp:62`): with one slot the number a writer leaves for
the reader equals the number that tells the next writer that the slot is free.
`BoundedFifo` is the abstract queue, and `QueueIsFifo` the
refinement: a value is in the queue from the claim of its position to the claim
by a consumer. `Logger` extends the queue with the threads that log, the
background thread with its batches, rotation and shutdown. The log file is open or
not and has a size, which at the start may be that of an earlier run. Rotation renames
it to a name made of the second (`Names`), which replaces an archive of that name
(`overwritten`); the rename may fail, then the same file is opened again, and the open
may fail, after which entries go to the console only (`unfiled`). A call of `log` that
is under way when the instance is destroyed, and a write to an open file that fails,
are outside the model.

### GatewayFront with Buffer, HttpFramer, Codecs, AsyncSend, GatewayConfig, RouteTable, Ordering

The operators of the byte-level parts, and one process that uses them the way
`ucp_gateway.cpp`, `ProxySession` and `recommend_server.cpp` do. A *job* is a
configuration file, a decoder (`request`, `response`, `http`, `rpc`, `service`)
and the messages a peer sends. `GatewayFront` loads the file, reads the stream in
pieces, decodes from the buffer, streams bodies, routes requests; for `service` it
answers through `asyncSend`, and a write may take any of a set of amounts, fail,
or find the connection closed. `asyncSend` under the strategy that discards appends
its data like any other, as in the code.

Abstractions: a line of an HTTP head is one byte of the stream, a header a record
of its name, spelling, number and tokens; a field of an RPC header is one byte; a
configuration line is a record, so that a route's name is a value (one with a dot in
it is not taken apart); integer widths are scaled (`MaxInt`, `MaxUnsigned`)
so that the limits and one beyond them occur; a vector's capacity is its size.
The results are compared with declarative definitions of what a message means,
written without buffers or positions (`Outcome`, with `LineError` for the first
offence of a header line and `ReplyError` for a response that `HttpCodec` encoded),
and of what a file sets (`Setters`). `std::sort`, by which routes and their names
are ordered, is `Ordering`'s `Sorted`: the elements of a finite set by how many
come before each, so that nothing depends on the algorithm.

Assumed of the constants, and checked by TLC on the run's values: sizes are
numbers and the low mark is below the high one (`BufferAssumption`,
`WaterMarkAssumption`, `MessageLengthAssumption`); the largest values of the integer types
are in the order of their widths (`WidthAssumption`); defaults are numbers
(`DefaultsAssumption`, the initialisers of `GatewayConfig`); and what a job is
(`JobsAssumption`):

- a configuration file has lines of the five kinds that `loadFromString` tells apart,
  with a number or none, a text and a list as its value, and numbers as the names of
  routes (the model orders them as the code orders strings) (`FileOk`);
- a message is what an encoder writes, or a first line, header lines, well-formed or
  not, and a body, which may hold any bytes, heads included (`MessageOk`);
- a body is as long as its headers announce, except that of the last message, which
  may be cut off (`StreamOk`). A peer that lies about a length has started another
  stream of messages, which is another job;
- for `HttpCodec` and the recommendation server a message has at most one
  `Content-Length` and one connection header: these two look for one occurrence and
  have no rule for a second, so that there is nothing to compare them with. For the
  framer, which has such rules, nothing of the kind is assumed.

## 4. The runs

| Run | Checks | Instance and why it is enough |
|---|---|---|
| `io_races` | `TypeOK`, `ExactlyOnce`, `OwnedUntilDrained`, `ResultFaithful` (timeouts, bytes and cancellations are what happened), `ContractKept`, `DeadlineHolds`, `QuitStops`, `CancelCompletes` | one operation at a time, `a` a linked read that a kernel worker may execute or `b` a plain one without a timeout, two I/O errors, a ring of two entries: all orders of up to four CQEs, shutdown anywhere, a cancel that must wait for space and that alone can end the I/O. Operations interact only through ring space, which is the next run |
| `io_capacity` | `BufferReleased`, `StoppedClean` | two operations on a ring of two entries and a pending queue of one, with ring faults and submissions from every phase: queueing, rejection, cancel retry, drain with a full ring |
| `ingress` | `LifecycleSafe` (`TypeOK`, `NoWakeupAfterRelease`), `AcceptedRunsOnce`, `AcceptedRuns`, `QuitStops` | an outside call, a call and a control call on the loop thread, a `quit()` from outside and one in a callback, ring faults, a capacity below the number of slots |
| `pool` | `TypeOK`, `PoolAccounted` (`CountsExact`, `WithinLimits`), `SingleOwner`, `DrainClean` (`DrainReachesAll`, `ClosedClean`), `StopCompletes` | three requests, two buckets, two connections, one idle: limit reached with connects under way, reuse, pruning, discard, stop at any point |
| `session` | `StreamsMatch`, `IdleAtBoundary`, `WholeResponses`, `SessionClean` (`TypeOK`, `FinishedClean`), `CancelledEnds`, `RequestAnswered` | a client that pipelines a second request behind one with a body, two upstream connections, a pool that keeps one; other sessions on the pool by their effect |
| `server` | `ListenerSound` (`TypeOK`, `AcceptArmed`), `DescriptorsOwned`, `StoppedClean`, `AdmissionClosed`, `StopReturns` | two clients, two workers, a rejected accept, a second caller of `stop()`: a connection can be in any state of its life in every phase |
| `log` | `LogSound` (`TypeOK`, `FilesInOrder`, `EntriesAccounted`), `ShutdownFlushes`, `QueueIsFifo`, `EntriesWritten` | two threads with two entries each on a ring of two, batches of one, files of two, two names for archives: full ring, second round of the ring, a backlog longer than a batch, two rotations with the same name or different ones, a rename and an open that fail, shutdown anywhere |
| `front` | `BytesInOrder` (`TypeOK`, `BufferHolds`, `RepliesInOrder`), `MessagesRecovered`, `ForwardAgrees`, `WellRouted` (`RoutedByLongestPrefix`, `SpreadEvenly`), `ConfigSound`, `OutputBounded` | some 270 files that differ from a good one in a line, thirty streams cut into pieces of one to four bytes, a pipelining client of the service under each strategy of `asyncSend` |

An invariant with names in brackets is the conjunction of those parts.

Ring sizes are powers of two as io_uring makes them. Operations, tasks, requests,
entries and clients are used up, so every behaviour is finite. There are two further
bounds: `MaxRejected`, the accept submissions the base loop rejects, and in `io_races`
`OneAtATime`, a state constraint that cuts off behaviours with both operations (no
fairness asks for a submission, so those with one are complete). In
`io_races` submissions come from functors, for the sake of `QuitStops`: from a CQE
handler they can fill the ring before the wakeup read is re-armed, which is
`io_lost_wakeup`.

Four runs show where the code does not do what its documentation says; each is a
finding in `PROJECT.json`:

- `io_pending_stuck`: an operation that had to be queued because the ring was full
  stays queued while the loop sleeps. `loop()` flushes the queue before
  `io_uring_submit` has emptied the ring and never between the two.
- `io_lost_wakeup`: with a ring that is full at the moment the wakeup CQE is
  handled, the eventfd read is not re-armed; a later `quit()` wakes nobody.
- `session_cancel`: a session that was cancelled still sends its request upstream
  if the cancellation came while it awaited its connection, or when the cancelled
  operation completed first. It does end (`CancelledEnds`), by its deadline.
- `front_discard`: with the strategy `discard`, `asyncSend` counts and logs the data
  that exceed the high mark as dropped (`TcpConnection.cpp:469`, `TcpConnection.hpp:36`)
  and appends them to the output buffer all the same, so that nothing is lost and the
  buffer is not bounded. `RepliesInOrder` holds under this strategy for that reason.

Some properties say less than a comment does, on purpose:

- `ShutdownFlushes` is about the first batch of the backlog that `shutdown` finds. What
  is behind it is discarded, although `Logger.cpp:36` and `Logger.hpp:97` promise that
  everything pending is waited for.
- `EntriesAccounted` lists the archives that a later rotation of the same second has
  replaced, although a comment says that all files of the past are kept
  (`Logger.cpp:232`), and the entries that find no open file.
- `AcceptedRuns` is about functors accepted by a loop; how many run before the next CQE
  is handled is bounded by a number (`BatchLimit`, 65536 in `EventLoop.cpp:930`) and
  not by time.
- `MessagesRecovered` is about title-case headers for `HttpCodec` and the recommendation
  server, which look for just that spelling.
- `OutputBounded` is about connections on which no write has failed.

## 5. Fairness

Liveness runs use `FairSpec`. Assumed everywhere: threads that can go on do (weak
fairness of their steps), a `quit()` or `stop()` that began goes on, the kernel
serves timers, cancels, the eventfd read and work it executes. Not assumed: that a
peer answers or reads, that a waiting I/O completes, that user code calls anything,
that a signal or another CQE wakes a sleeping loop. Each higher model assumes what a
lower one shows: in the pool a submitted connect ends (its linked timeout,
`DeadlineHolds`), and nothing is assumed of one in the pending queue; in a session
an operation ends when it has data, was asked to cancel or has a deadline; in the
server a cancelled session ends (`CancelledEnds`), an uncancelled one need not.
`failStop`, which aborts the process when a phase of `stop()` takes more than five
seconds, is what `StopReturns` excludes: each phase ends, durations are not
modelled.

## 6. What is proved

Every safety invariant and every action property that a passing run checks, and both
refinements, are theorems for all values of the constants that the `ASSUME`s allow.
Each theorem about a property has the shape `Spec => []P` and comes from an inductive
invariant: `Init => IndInv`, a lemma per action (or per conjunct and action) for
`IndInv /\ [Next]_vars => IndInv'`, and `IndInv => P`. Below: what is proved, what is
assumed, and what had to be added and why. TLC finds each of these invariants true in
all states of the run's instance.

### IoOperationsProofs

For all sets of operations, ring sizes, queue capacities and error sets. Assumed:
the kinds of operations are subsets of `Ops`, the errors are errno values other
than the two the kernel reserves for cancellation and timers, ring and queue have
room for something.

- `TypeCorrect`, `ResumedExactlyOnce`, `TokensAreOwned`, `StopIsClean`: `TypeOK`,
  `ExactlyOnce`, `OwnedUntilDrained`, `StoppedClean`. `IndInv` adds `Accounting`
  (`pendingCqes_` is the number of slots that hold an SQE or CQE of the operation,
  so that an entry leaves the map exactly when no token of it is left; stated as a
  sum of four zero-or-one terms, which arithmetic can carry through the actions),
  `PlaceInv` (results agree with places), `QueueInv` (`pendingSubmissions_` lists the
  pending operations, each once), `CancelInv` (a cancel slot and a queued retry never
  exist together, so `SubmitCancel` fills an empty slot) and `DrainInv` (what the
  phases of the drain have established).
- `ResultIsFaithful`, `BufferIsReleased`: `ResultFaithful`, `BufferReleased`. They need
  the history: `SeenOk` (a CQE is consumed once), `TimerOk` (a timer that fired has
  doomed the I/O) and `WaiterOk` (why an I/O is being cancelled, and that a waiter
  goes on without the I/O's CQE only after the timer's). The hard case is a fired
  timer whose CQE comes after the I/O's.
- `ContractImplemented`: `ContractKept`, the refinement of `OperationContract`. Each
  action is a contract step or a stutter; the invariant is needed where an
  operation is answered (it was waiting) and where `loop()` returns (nobody waits).

### LoopIngressProofs

For all sets of tasks and quitters, any capacity, batch limit and water marks.
Assumed: control tasks, loop tasks and loop quitters are subsets of their sets,
names differ from the marker values, and the capacity is at most the number of slots
(`queueInLoop`'s counter guards a ring that the constructor rounds up).

- `FunctorsRunOnce`, `LifecycleIsSafe`: `AcceptedRunsOnce`, `LifecycleSafe`.
- `ReservationSuffices`: a caller with a reservation finds a free slot. No run states
  it, since TLC sees it only as a step that is never disabled.

`TaskInv` says that a functor is in one place at a time (one queue, one batch, or
it has run), `LockInv` who owns the exclusive lock, `PhaseInv` what each phase of
`loop()` has emptied and that nobody is inside the shared lock once the exclusive one
was taken, `CountInv` that the counter is the number of reservations not yet enqueued
plus the slots not yet given back.

### UpstreamPoolProofs

For every finite set of acquisitions, all buckets and limits. `PoolTyped`,
`PoolIsAccounted`, `ConnectionsHaveOneOwner`, `DrainIsClean`: `TypeOK`,
`PoolAccounted`, `SingleOwner`, `DrainClean`. `OwnInv` ties a request to the
descriptor and the connection it opened, and every open connection to one deque
position or one lease; `CountInv` equates each counter with the cardinality of a set.
The limit holds across the await inside `acquire` because a connect under way is
counted before it suspends. Finiteness is needed for cardinalities only.

### ProxySessionProofs

For every finite set of sessions and of connections, any idle limit, any framed
streams and response lengths. `SessionIsClean`, `StreamsAreMatched`,
`IdleIsAtBoundary`, `ResponsesAreWhole`: `SessionClean`, `StreamsMatch`,
`IdleAtBoundary`, `WholeResponses`. The run has a small instance of each constant;
the theorems cover any number of sessions on one pool.

- `LeaseInv`, `PoolInv`: a lease has one session, the deque lists the idle
  connections once, whatever is not leased is at a message boundary, and used
  connections and connects under way fit together into the limit, so that a connect
  that succeeds finds a place.
- `ClientOk`: what the client has sent is framed from where the session is in it
  (`Framed` with `ToCome` units of the current body ahead). Every read and every cut
  by `streamExact` moves this boundary by as much as it takes.
- `Asking`, `Hearing`, `Relaying`: while the request is uploaded the upstream lacks
  exactly `left`, so it cannot answer early; while the response is relayed, the units
  buffered, on the wire and being written are no more than `left`. Hence at `left = 0`
  nothing is under way and a connection that is kept is clean. This is where "an
  upstream sends no more than it announces" is used.
- `HeadOk`, `FinishOk`: one head per request, one finish per session.

### GatewayServerProofs

For every set of clients and callers and every number of workers.
`ListenerIsSound`, `DescriptorsAreOwned`, `StopIsClean`, `AdmissionCloses`:
`ListenerSound`, `DescriptorsOwned`, `StoppedClean`, `AdmissionClosed` (an action
property). `NoneIsStranded`: a connection that is not closed yet has a functor or a
monitor that will move it on; no run states it, and the liveness of `stop()` rests
on it. `LoopInv` and `AskInv` say which loops run in which phase and that
`stop()` asks one thing at a time; `ListenInv` and `SessionInv` what each phase has
made sure of (no accept, no admission, no session, no connection); `ConnInv` relates
the state of a connection to its queued functors (`QueueOk`), to the closes of its
descriptor (`StateOk`) and to whoever moves it on (`MovesOn`). Since a cancelled
session's connection is closed at once, `MovesOn` goes one way only: a connected
connection has a session that will close it, but a session may run on while its
connection is in any later state, where its own `forceClose` changes nothing.

### LoggerProofs

For every set of producers and of archive names, any batch and file limit, any number
of entries, any ring of at least two slots. `QueueIsAFifo`: `QueueIsFifo`, the
refinement of `BoundedFifo` by the lock-free ring. `LogIsSound`, `ShutdownIsComplete`:
`LogSound`, `ShutdownFlushes`.

`SlotInv` says what the sequence number of each slot between the two positions
means; `WriterOk` and `ReaderOk` that a position that is still the shared one when it
is claimed is free (resp. published) and stays the holder's until it publishes; the
proof needs that positions within one round have different slots, a fact about
remainders proved once. On top of it, `WorkerInv` (the background thread is the only
consumer, so the position it has loaded is current), `OrderInv` (entries of one
thread are written, held and queued in order), `EntryInv` (each entry was written, was
dropped, or is on its way) and `OwedInv`: of what shutdown found, the part that one batch
takes (`Due`) is published and at the front of the queue, and once the last batch has
begun the entries still in the queue fit into what is left of it. As the entries of the
queue are distinct, an entry of `Due` has one position there, which is at most `MaxBatch`.
These make up `FlowInv`, which does not look at the files. `FileInv` does: file and
archives are in order and disjoint, an archive is older than the file, and every entry
written is in one of them, in `unfiled` or in `overwritten`, whatever a rotation does.

### FrontOperatorProofs, GatewayFrontProofs

For any set of jobs that `JobsAssumption` allows (any files, any streams of messages,
any sizes of reads and writes), any buffer sizes, water marks, limits and defaults.
`FrontOperatorProofs` is about the operators and has no state: what each parser and
encoder computes, for every input. `GatewayFrontProofs` is about the process.

- `ConfigurationsAreSound`: `ConfigSound`. An accepted file gives sound settings, and
  the value of a key is that of the last line that sets it. `ConfigInv`: the
  configuration is what the file gave, and it was valid.
- `RequestsAreWellRouted`: `WellRouted`. `Sorted` lists a finite set once and in order,
  so the first route that matches has the longest prefix. `TurnInv`: the upstreams
  before the cursor of a route have had one turn more than those from it on.
- `BytesStayInOrder`, `OutputStaysBounded`: `BytesInOrder`, `OutputBounded`. `ByteInv`:
  the buffer is a window of the stream, whatever `makeSpace` does, and a decoder never
  uses more than it was given. `OutInv`: what was delivered and what is in the output
  buffer are the answers one after the other; a sender that blocks is under the high
  mark again before it goes on.
- `ForwardedHeadsAgree`: `ForwardAgrees`. `ForwardInv` says it of every head at the
  moment it is forwarded; needed is that the lines which `Forwarded` drops are just
  those that decide about the connection, and that the others parse as before behind
  any prefix of them.
- `MessagesAreRecovered`: `MessagesRecovered`. `SeenInv`: after `k` results a reader
  stands at the end of message `k`, or the rest of a body takes it there; the results
  are the outcomes of the messages; and a closed reader has met the message that ends
  its session. The step is `DecodedFinds`: on a buffer that begins at message `k + 1` a
  decoder gives the outcome of that message, or finds that it is not all there yet.
  For that, `RequestRead` and `ResponseRead` follow a head through end of head, lines,
  headers and limits to its first offence, `FoundHeader` shows that the header which
  `HttpCodec` finds is the message's own and not one of a later message, and
  `EncodedHead` reads back what `HttpCodec::encode` writes.

The recursion in these operators is in folds and recursive functions. Their theorems
are by induction on a length, in the form in which the prover can do it: the set of
the numbers for which a statement holds contains zero and the successor of each
member, hence every number (`Induction`); a fold is defined and stays in the set
that each of its steps stays in (`FoldIsDefined`). What remains out of reach is a
`RECURSIVE` operator and the library's induction theorems; the models use neither.

The proof corrected the model's specification twice. `Outcome` of a response that
`HttpCodec` encoded ignored the gateway's limits, and `StreamOk` let a cut-off last
body be longer than announced, in which case the bytes behind it are read as another
message; the listed streams had neither. `ReplyError`, the bound in `StreamOk` and a
stream with responses beyond the limits were added.

## 7. What is only model-checked

- Liveness (`QuitStops`, `CancelCompletes`, `DeadlineHolds`, `AcceptedRuns`,
  `StopCompletes`, `CancelledEnds`, `RequestAnswered`, `StopReturns`,
  `EntriesWritten`): fairness and `ENABLED` are outside the prover's reach.
- That a gateway's peer is ever read: `GatewayFront` states no fairness, its theorems
  say what was seen of what has come.
- The four violations of section 4, which are single behaviours.

## 8. What is not modelled

- SQPOLL (no shipped configuration uses it); memory ordering weaker than sequential
  consistency (the flags concerned are single words whose readers tolerate either
  value); durations, which appear only as "a timer may fire".
- `Task` and `Result`: frames and moved values; the models show where a coroutine
  suspends. `Socket`, `InetAddress`: wrappers of system calls.
- `MemoryPool`: nothing in the repository allocates from it.
- Counters of `GatewayMetrics` that only grow; log formatting and levels.
- Registered buffers, sendfile and zero-copy writes, `AsyncSleep`.
- `stop()` while `start()` runs; `log` while the logger is destroyed; the logger's
  synchronous mode, and a write to an open log file that fails.
- Callbacks of user code that call back into the loop: the backpressure callback runs
  outside the lifecycle lock, as in the code, and does nothing.
- Ranking, features and JSON of the recommendation example, benchmarks, clients.
