---------------------------- MODULE IoOperations ----------------------------
(***************************************************************************)
(* The life of an I/O operation on one EventLoop: IoOperation's completion *)
(* state machine, the submission, cancellation and shutdown-drain paths of *)
(* EventLoop, the loop() iteration that drives them, and the kernel side   *)
(* of the ring as the code uses it.                                        *)
(*                                                                         *)
(* An operation owns up to four SQEs, named by their kind: the I/O itself, *)
(* its linked timeout, the cancel SQE of cancelOperation() and the cancel  *)
(* SQE of drainOperationsForShutdown().  slot[o][k] follows one of them:   *)
(*   "none" -> "sq" -> "kernel" -> (in-kernel states) -> a CQE result      *)
(* and back to "none" when handleCompletionEvent() has consumed the CQE.   *)
(* CQEs are consumed in any order, which includes the order of posting.    *)
(* The ring is the non-SQPOLL one of the shipped configurations: one       *)
(* io_uring_submit() hands every prepared SQE to the kernel.               *)
(***************************************************************************)
EXTENDS Integers, Sequences, FiniteSets

CONSTANTS
  Ops,           \* the operations user code will submit
  LinkedOps,     \* those submitted with a linked timeout (two SQEs)
  ReadOps,       \* those of OperationType::read, where 0 bytes means EOF
  PuntableOps,   \* those a kernel worker may execute uncancellably
  IoErrors,      \* errno values an I/O may fail with
  SqEntries,     \* Options::ringEntries
  PendingCap,    \* Options::pendingSubmissionCapacity
  SubmitPhases,  \* the loop phases in which user code submits operations
  RingFaults     \* whether submit and wait may return a fatal error

Errnos == {"ECANCELED", "ETIME", "ETIMEDOUT", "ECONNRESET", "EPIPE",
           "ENOTCONN", "EAGAIN", "ENOBUFS", "ENOMEM", "EALREADY", "ENOENT",
           "EIO"}

ASSUME OpsAssumption ==
  /\ LinkedOps \subseteq Ops
  /\ ReadOps \subseteq Ops
  /\ PuntableOps \subseteq Ops
ASSUME ErrnoAssumption == IoErrors \subseteq Errnos \ {"ECANCELED", "ETIME"}
ASSUME CapacityAssumption == SqEntries \in Nat \ {0} /\ PendingCap \in Nat \ {0}
ASSUME WorkloadAssumption ==
  /\ SubmitPhases \subseteq {"runControl", "functors", "cqes"}
  /\ RingFaults \in BOOLEAN

VARIABLES
  place,           \* where the EventLoop keeps the operation
  slot,            \* slot[o][k]: what became of o's SQE of kind k
  seen,            \* seen[o][k]: history, the I/O or timeout CQE consumed
  pendingCqes,     \* IoOperation::pendingCqes_
  cancelRequested, \* IoOperation::cancelRequested_
  result,          \* IoOperation::result_, "none" until externallyCompleted_
  resumed,         \* history: how often the waiter was given a result
  pendingSubs,     \* EventLoop::pendingSubmissions_
  retry,           \* retryCancel functor of o: none, queued or in the batch
  todo,            \* cancellations not yet submitted by the shutdown drain
  stoppingRequested, quit, \* EventLoop::stoppingRequested_, quit_
  eventfd,         \* whether the wakeup eventfd counter is non-zero
  wake,            \* the wakeup read: "sq", "kernel", "cq" or "lost"
  pc               \* where the loop thread is

opVars == <<place, slot, seen, pendingCqes, cancelRequested, result, resumed>>
loopVars == <<pendingSubs, retry, todo>>
ringVars == <<eventfd, wake>>
vars == <<opVars, loopVars, stoppingRequested, quit, ringVars, pc>>

Kinds == {"io", "timeout", "cancel", "drain"}
CqeResults == {"bytes", "zero"} \cup Errnos
InKernel == {"kernel", "running", "doomed", "firing"}
SlotValues == {"none", "sq"} \cup InKernel \cup CqeResults
Results == {"none", "success", "eof", "cancelled", "timedOut",
            "connectionReset", "notConnected", "resourceExhausted", "system"}
Places == {"fresh", "rejected", "pending", "inflight", "drained"}
LoopPhases == {"control", "runControl", "functors", "flush", "submit", "wait",
               "cqes"}
DrainPhases == {"drainCancel", "drainSubmit", "drainWait", "drainCqes"}
ExitPhases == {"exit", "exitControl", "exitFunctors", "drainPending"}
Phases == LoopPhases \cup ExitPhases \cup DrainPhases
            \cup {"stopped", "aborted"}
\* Phases in which callbacks and resumed coroutines of the user run.
UserPhases == {"runControl", "functors", "cqes", "exitControl",
               "exitFunctors", "drainPending", "drainCqes"}

TypeOK ==
  /\ place \in [Ops -> Places]
  /\ slot \in [Ops -> [Kinds -> SlotValues]]
  /\ seen \in [Ops -> [{"io", "timeout"} -> {"none"} \cup CqeResults]]
  /\ pendingCqes \in [Ops -> Nat]
  /\ cancelRequested \in [Ops -> BOOLEAN]
  /\ result \in [Ops -> Results]
  /\ resumed \in [Ops -> Nat]
  /\ pendingSubs \in Seq(Ops)
  /\ retry \in [Ops -> {"none", "queued", "batch"}]
  /\ todo \in SUBSET Ops
  /\ stoppingRequested \in BOOLEAN
  /\ quit \in BOOLEAN
  /\ eventfd \in BOOLEAN
  /\ wake \in {"sq", "kernel", "cq", "lost"}
  /\ pc \in Phases

\* The constructor has prepared the first wakeup read; loop() has started.
Init ==
  /\ place = [o \in Ops |-> "fresh"]
  /\ slot = [o \in Ops |-> [k \in Kinds |-> "none"]]
  /\ seen = [o \in Ops |-> [k \in {"io", "timeout"} |-> "none"]]
  /\ pendingCqes = [o \in Ops |-> 0]
  /\ cancelRequested = [o \in Ops |-> FALSE]
  /\ result = [o \in Ops |-> "none"]
  /\ resumed = [o \in Ops |-> 0]
  /\ pendingSubs = <<>>
  /\ retry = [o \in Ops |-> "none"]
  /\ todo = {}
  /\ stoppingRequested = FALSE
  /\ quit = FALSE
  /\ eventfd = FALSE
  /\ wake = "sq"
  /\ pc = "control"

----------------------------------------------------------------------------
(* IoOperation *)

\* Mutant: the errno is passed on as it is.
ErrorUnnormalised(e) == e

\* errorFromKernelResult
ErrorFromKernelResult(e) ==
  CASE e = "ECANCELED" -> "cancelled"
    [] e \in {"ETIME", "ETIMEDOUT"} -> "timedOut"
    [] e \in {"ECONNRESET", "EPIPE"} -> "connectionReset"
    [] e = "ENOTCONN" -> "notConnected"
    [] e \in {"EAGAIN", "ENOBUFS", "ENOMEM"} -> "resourceExhausted"
    [] OTHER -> "system"

\* Mutant: a timeout CQE decides nothing, the I/O CQE is waited for.
SelectedTimeoutIgnored(o, k, r) ==
  CASE k # "io" -> "none"
    [] r \in {"bytes", "zero"} ->
         IF o \in ReadOps /\ r = "zero" THEN "eof" ELSE "success"
    [] r \notin {"bytes", "zero"} /\ cancelRequested[o] -> "cancelled"
    [] OTHER -> IF r = "ECANCELED" THEN "none" ELSE ErrorFromKernelResult(r)

\* The result a CQE selects for an operation that has none yet, "none" when
\* the CQE decides nothing.
Selected(o, k, r) ==
  CASE k \in {"cancel", "drain"} -> "none"
    [] k = "io" /\ r \in {"bytes", "zero"} ->
         IF o \in ReadOps /\ r = "zero" THEN "eof" ELSE "success"
    [] k = "io" /\ r \notin {"bytes", "zero"} /\ cancelRequested[o] ->
         "cancelled"
    [] k = "timeout" ->
         IF r = "ECANCELED" THEN "none" ELSE ErrorFromKernelResult(r)
    [] OTHER ->
         IF o \in LinkedOps /\ r = "ECANCELED" THEN "none"
         ELSE ErrorFromKernelResult(r)

\* Mutant: externallyCompleted_ is not consulted.
OnCompletionUnchecked(o, k, r) == Selected(o, k, r)

\* onCompletion counts the CQE ...
CqesLeft(o) == IF pendingCqes[o] = 0 THEN 0 ELSE pendingCqes[o] - 1

\* ... and gives the result to resume the waiter with, "none" when it is not
\* resumed.  A last CQE that decides nothing ends the operation as cancelled.
OnCompletion(o, k, r) ==
  IF result[o] # "none" \/ pendingCqes[o] = 0 THEN "none"
  ELSE IF Selected(o, k, r) = "none" /\ CqesLeft(o) = 0 THEN "cancelled"
  ELSE Selected(o, k, r)

\* selectResult followed by the resumption of the waiter.
Deliver(o, r) ==
  /\ result' = [result EXCEPT ![o] = r]
  /\ resumed' = [resumed EXCEPT ![o] = @ + 1]

\* requestCancel succeeds once, and only before a result is selected.
MayRequestCancel(o) == result[o] = "none" /\ ~cancelRequested[o]

----------------------------------------------------------------------------
(* EventLoop: submission and cancellation *)

SqUsed == Cardinality({t \in Ops \X Kinds : slot[t[1]][t[2]] = "sq"})
            + (IF wake = "sq" THEN 1 ELSE 0)
SqSpaceLeft == SqEntries - SqUsed
SqesOf(o) == IF o \in LinkedOps THEN {"io", "timeout"} ELSE {"io"}
SqeCount(o) == IF o \in LinkedOps THEN 2 ELSE 1
InFlight == {o \in Ops : place[o] = "inflight"}

\* Mutant: the linked timeout is not prepared.
PrepareSubmissionUntimed(o) ==
  /\ slot' = [slot EXCEPT ![o]["io"] = "sq"]
  /\ pendingCqes' = [pendingCqes EXCEPT ![o] = 1]
  /\ place' = [place EXCEPT ![o] = "inflight"]

\* prepareSubmission: the SQEs are filled, the operation armed and recorded.
PrepareSubmission(o) ==
  /\ slot' = [slot EXCEPT ![o] =
                [k \in Kinds |-> IF k \in SqesOf(o) THEN "sq" ELSE slot[o][k]]]
  /\ pendingCqes' = [pendingCqes EXCEPT ![o] = SqeCount(o)]
  /\ place' = [place EXCEPT ![o] = "inflight"]

\* A submission that is turned down: the coroutine does not suspend and reads
\* the rejection at once.
Reject(o, r) ==
  /\ place' = [place EXCEPT ![o] = "rejected"]
  /\ Deliver(o, r)
  /\ UNCHANGED <<slot, seen, pendingCqes, cancelRequested, loopVars>>

UserMaySubmit(o) ==
  /\ place[o] = "fresh"
  /\ pc \in SubmitPhases \/ (stoppingRequested /\ pc \in UserPhases)

\* submitOperation on the loop thread.
SubmitOperation(o) ==
  /\ UserMaySubmit(o)
  /\ \/ /\ stoppingRequested
        /\ Reject(o, "cancelled")
     \/ /\ ~stoppingRequested
        /\ SqSpaceLeft >= SqeCount(o)
        /\ PrepareSubmission(o)
        /\ UNCHANGED <<seen, cancelRequested, result, resumed, loopVars>>
     \/ /\ ~stoppingRequested
        /\ SqSpaceLeft < SqeCount(o)
        /\ Len(pendingSubs) < PendingCap
        /\ pendingSubs' = Append(pendingSubs, o)
        /\ place' = [place EXCEPT ![o] = "pending"]
        /\ UNCHANGED <<slot, seen, pendingCqes, cancelRequested, result,
                       resumed, retry, todo>>
     \/ /\ ~stoppingRequested
        /\ SqSpaceLeft < SqeCount(o)
        /\ Len(pendingSubs) >= PendingCap
        /\ Reject(o, "resourceExhausted")
  /\ UNCHANGED <<stoppingRequested, quit, ringVars, pc>>

\* submitOperation called from a thread that does not own the loop.
SubmitOffLoop(o) ==
  /\ place[o] = "fresh"
  /\ Reject(o, "system")
  /\ UNCHANGED <<stoppingRequested, quit, ringVars, pc>>

\* Mutant: addExpectedCqe is forgotten.
SubmitCancelUncounted(o, k) ==
  /\ SqSpaceLeft > 0
  /\ slot' = [slot EXCEPT ![o][k] = "sq"]
  /\ UNCHANGED pendingCqes

\* submitCancel: one more SQE and one more CQE to wait for.
SubmitCancel(o, k) ==
  /\ SqSpaceLeft > 0
  /\ slot' = [slot EXCEPT ![o][k] = "sq"]
  /\ pendingCqes' = [pendingCqes EXCEPT ![o] = @ + 1]

\* Mutant: the control functor is queued without a wakeup.
QueueRetrySilently(o) ==
  /\ retry' = [retry EXCEPT ![o] = IF stoppingRequested THEN "none"
                                   ELSE "queued"]
  /\ UNCHANGED eventfd

\* queueControlInLoop({retryCancel}): dropped once the loop is stopping.
QueueRetry(o) ==
  IF stoppingRequested
  THEN /\ retry' = [retry EXCEPT ![o] = "none"]
       /\ UNCHANGED eventfd
  ELSE /\ retry' = [retry EXCEPT ![o] = "queued"]
       /\ eventfd' = TRUE

\* cancelOperation of an operation still in the pending-submission queue.
CancelPending(o) ==
  /\ pc \in UserPhases
  /\ \E i \in 1..Len(pendingSubs) :
       /\ pendingSubs[i] = o
       /\ pendingSubs' = SubSeq(pendingSubs, 1, i - 1)
                           \o SubSeq(pendingSubs, i + 1, Len(pendingSubs))
  /\ MayRequestCancel(o)
  /\ cancelRequested' = [cancelRequested EXCEPT ![o] = TRUE]
  /\ place' = [place EXCEPT ![o] = "rejected"]
  /\ Deliver(o, "cancelled")
  /\ UNCHANGED <<slot, seen, pendingCqes, retry, todo, stoppingRequested, quit,
                 ringVars, pc>>

\* Mutant: the waiter is resumed as if the I/O were not with the kernel.
CancelInFlightEager(o) ==
  /\ pc \in UserPhases
  /\ place[o] = "inflight"
  /\ MayRequestCancel(o)
  /\ cancelRequested' = [cancelRequested EXCEPT ![o] = TRUE]
  /\ SubmitCancel(o, "cancel")
  /\ Deliver(o, "cancelled")
  /\ UNCHANGED <<place, seen, loopVars, stoppingRequested, quit, ringVars, pc>>

\* cancelOperation of an operation in flight.
CancelInFlight(o) ==
  /\ pc \in UserPhases
  /\ place[o] = "inflight"
  /\ MayRequestCancel(o)
  /\ cancelRequested' = [cancelRequested EXCEPT ![o] = TRUE]
  /\ \/ /\ SubmitCancel(o, "cancel")
        /\ UNCHANGED <<retry, eventfd>>
     \/ /\ SqSpaceLeft <= 0
        /\ QueueRetry(o)
        /\ UNCHANGED <<slot, pendingCqes>>
  /\ UNCHANGED <<place, seen, result, resumed, pendingSubs, todo,
                 stoppingRequested, quit, wake, pc>>

\* retryCancel, run from the batch of control functors.
RetryCancel(o) ==
  /\ pc \in {"runControl", "exitControl"}
  /\ retry[o] = "batch"
  /\ \/ /\ place[o] # "inflight"
        /\ retry' = [retry EXCEPT ![o] = "none"]
        /\ UNCHANGED <<slot, pendingCqes, eventfd>>
     \/ /\ place[o] = "inflight"
        /\ SubmitCancel(o, "cancel")
        /\ retry' = [retry EXCEPT ![o] = "none"]
        /\ UNCHANGED eventfd
     \/ /\ place[o] = "inflight"
        /\ SqSpaceLeft <= 0
        /\ QueueRetry(o)
        /\ UNCHANGED <<slot, pendingCqes>>
  /\ UNCHANGED <<place, seen, cancelRequested, result, resumed, pendingSubs,
                 todo, stoppingRequested, quit, wake, pc>>

----------------------------------------------------------------------------
(* EventLoop::loop *)

SwapControl == retry' = [o \in Ops |-> IF retry[o] = "queued" THEN "batch"
                                       ELSE retry[o]]
BatchDone == \A o \in Ops : retry[o] # "batch"

Goto(from, to) == pc = from /\ pc' = to

\* doControlFunctors takes the deque, runs the batch and returns.
DoControlFunctors ==
  /\ Goto("control", "runControl")
  /\ SwapControl
  /\ UNCHANGED <<opVars, pendingSubs, todo, stoppingRequested, quit, ringVars>>

ControlFunctorsDone ==
  /\ BatchDone
  /\ Goto("runControl", "functors") \/ Goto("exitControl", "exitFunctors")
  /\ UNCHANGED <<opVars, loopVars, stoppingRequested, quit, ringVars>>

\* doPendingFunctors returns; what the functors did are user actions.
PendingFunctorsDone ==
  /\ Goto("functors", "flush") \/ Goto("exitFunctors", "drainPending")
  /\ UNCHANGED <<opVars, loopVars, stoppingRequested, quit, ringVars>>

HeadFits == /\ pendingSubs # <<>>
            /\ SqSpaceLeft >= SqeCount(Head(pendingSubs))

\* flushPendingSubmissions moves the head while its SQEs fit.
FlushPendingSubmission ==
  /\ pc = "flush"
  /\ HeadFits
  /\ PrepareSubmission(Head(pendingSubs))
  /\ pendingSubs' = Tail(pendingSubs)
  /\ UNCHANGED <<seen, cancelRequested, result, resumed, retry, todo,
                 stoppingRequested, quit, ringVars, pc>>

FlushDone ==
  /\ ~HeadFits
  /\ Goto("flush", IF quit THEN "exit" ELSE "submit")
  /\ UNCHANGED <<opVars, loopVars, stoppingRequested, quit, ringVars>>

\* io_uring_submit: every prepared SQE becomes the kernel's.
SubmitRing ==
  /\ Goto("submit", "wait") \/ Goto("drainSubmit", "drainWait")
  /\ slot' = [o \in Ops |-> [k \in Kinds |->
                IF slot[o][k] = "sq" THEN "kernel" ELSE slot[o][k]]]
  /\ wake' = IF wake = "sq" THEN "kernel" ELSE wake
  /\ UNCHANGED <<place, seen, pendingCqes, cancelRequested, result, resumed,
                 loopVars, stoppingRequested, quit, eventfd>>

CqEmpty == wake # "cq" /\ \A o \in Ops, k \in Kinds : slot[o][k] \notin CqeResults

\* io_uring_wait_cqe returns once a CQE is there.
WaitCqe ==
  /\ ~CqEmpty
  /\ Goto("wait", "cqes") \/ Goto("drainWait", "drainCqes")
  /\ UNCHANGED <<opVars, loopVars, stoppingRequested, quit, ringVars>>

\* io_uring_wait_cqe interrupted by a signal while it sleeps.
WaitInterrupted ==
  /\ CqEmpty
  /\ Goto("wait", IF quit THEN "exit" ELSE "control")
       \/ Goto("drainWait", "drainCancel")
  /\ UNCHANGED <<opVars, loopVars, stoppingRequested, quit, ringVars>>

\* A fatal submit or wait error leaves the loop, or aborts the shutdown drain.
RingError ==
  /\ RingFaults
  /\ \/ Goto("submit", "exit")
     \/ Goto("wait", "exit")
     \/ Goto("drainSubmit", "aborted")
     \/ Goto("drainWait", "aborted")
  /\ UNCHANGED <<opVars, loopVars, stoppingRequested, quit, ringVars>>

\* handleCompletionEvent for an operation token.
HandleCompletion(o, k) ==
  /\ pc \in {"cqes", "drainCqes"}
  /\ slot[o][k] \in CqeResults
  /\ slot' = [slot EXCEPT ![o][k] = "none"]
  /\ seen' = IF k \in {"io", "timeout"}
             THEN [seen EXCEPT ![o][k] = slot[o][k]] ELSE seen
  /\ IF place[o] = "inflight"
     THEN LET r == OnCompletion(o, k, slot[o][k]) IN
          /\ pendingCqes' = [pendingCqes EXCEPT ![o] = CqesLeft(o)]
          /\ place' = [place EXCEPT ![o] = IF CqesLeft(o) = 0 THEN "drained"
                                          ELSE @]
          /\ IF r # "none" THEN Deliver(o, r)
                           ELSE UNCHANGED <<result, resumed>>
     ELSE UNCHANGED <<pendingCqes, place, result, resumed>>
  /\ UNCHANGED <<cancelRequested, loopVars, stoppingRequested, quit, ringVars,
                 pc>>

\* handleWakeup -> asyncReadWakeup: re-armed if an SQE can be had.
HandleWakeup ==
  /\ pc \in {"cqes", "drainCqes"}
  /\ wake = "cq"
  /\ wake' = IF SqSpaceLeft > 0 THEN "sq" ELSE "lost"
  /\ UNCHANGED <<opVars, loopVars, stoppingRequested, quit, eventfd, pc>>

CqesDone ==
  /\ CqEmpty
  /\ Goto("cqes", IF quit THEN "exit" ELSE "control")
       \/ Goto("drainCqes", "drainCancel")
  /\ UNCHANGED <<opVars, loopVars, stoppingRequested, quit, ringVars>>

----------------------------------------------------------------------------
(* Shutdown *)

\* beginStopping by another thread: the flag first, then, under the lifecycle
\* lock, quit_ and the wakeup.
RequestStop ==
  /\ ~stoppingRequested
  /\ stoppingRequested' = TRUE
  /\ UNCHANGED <<opVars, loopVars, quit, ringVars, pc>>

\* Mutant: quit() does not wake the loop.
CommitStopSilently ==
  /\ stoppingRequested
  /\ ~quit
  /\ quit' = TRUE
  /\ UNCHANGED <<opVars, loopVars, stoppingRequested, ringVars, pc>>

CommitStop ==
  /\ stoppingRequested
  /\ ~quit
  /\ quit' = TRUE
  /\ eventfd' = TRUE
  /\ UNCHANGED <<opVars, loopVars, stoppingRequested, wake, pc>>

\* The loop was left: beginStopping(false), then a last doControlFunctors.
LeaveLoop ==
  /\ Goto("exit", "exitControl")
  /\ stoppingRequested' = TRUE
  /\ quit' = TRUE
  /\ SwapControl
  /\ UNCHANGED <<opVars, pendingSubs, todo, ringVars>>

\* drainOperationsForShutdown rejects what never reached the ring ...
DrainPending ==
  /\ pc = "drainPending"
  /\ pendingSubs # <<>>
  /\ pendingSubs' = Tail(pendingSubs)
  /\ place' = [place EXCEPT ![Head(pendingSubs)] = "rejected"]
  /\ Deliver(Head(pendingSubs), "cancelled")
  /\ UNCHANGED <<slot, seen, pendingCqes, cancelRequested, retry, todo,
                 stoppingRequested, quit, ringVars, pc>>

\* ... requests the cancellation of everything in flight ...
DrainRequestCancels ==
  /\ Goto("drainPending", "drainCancel")
  /\ pendingSubs = <<>>
  /\ cancelRequested' = [o \in Ops |-> cancelRequested[o]
                           \/ (place[o] = "inflight" /\ result[o] = "none")]
  /\ todo' = InFlight
  /\ UNCHANGED <<place, slot, seen, pendingCqes, result, resumed, pendingSubs,
                 retry, stoppingRequested, quit, ringVars>>

\* ... submits a cancel for each that is still there ...
DrainCancel(o) ==
  /\ pc = "drainCancel"
  /\ o \in todo
  /\ InFlight # {}
  /\ todo' = todo \ {o}
  /\ \/ /\ place[o] # "inflight"
        /\ UNCHANGED <<slot, pendingCqes>>
     \/ /\ place[o] = "inflight"
        /\ SubmitCancel(o, "drain")
  /\ UNCHANGED <<place, seen, cancelRequested, result, resumed, pendingSubs,
                 retry, stoppingRequested, quit, ringVars, pc>>

\* ... and waits until every CQE has been consumed.
DrainCancelsDone ==
  /\ InFlight # {}
  /\ SqSpaceLeft <= 0 \/ todo = {}
  /\ Goto("drainCancel", "drainSubmit")
  /\ UNCHANGED <<opVars, loopVars, stoppingRequested, quit, ringVars>>

\* Mutant: the drain ends once every cancel is submitted.
DrainDoneEarly ==
  /\ todo = {}
  /\ Goto("drainCancel", "stopped")
  /\ UNCHANGED <<opVars, loopVars, stoppingRequested, quit, ringVars>>

DrainDone ==
  /\ InFlight = {}
  /\ Goto("drainCancel", "stopped")
  /\ UNCHANGED <<opVars, loopVars, stoppingRequested, quit, ringVars>>

----------------------------------------------------------------------------
(* The kernel, and other threads *)

\* An I/O ends by itself; its linked timeout is then cancelled.
KernelIo(o) ==
  /\ slot[o]["io"] \in {"kernel", "running"}
  /\ \E r \in {"bytes", "zero"} \cup IoErrors :
       slot' = [slot EXCEPT ![o]["io"] = r,
                            ![o]["timeout"] = IF @ = "kernel" THEN "doomed"
                                              ELSE @]
  /\ UNCHANGED <<place, seen, pendingCqes, cancelRequested, result, resumed,
                 loopVars, stoppingRequested, quit, ringVars, pc>>

\* A worker starts to execute the I/O and can no longer be stopped.
KernelRun(o) ==
  /\ o \in PuntableOps
  /\ slot[o]["io"] = "kernel"
  /\ slot' = [slot EXCEPT ![o]["io"] = "running"]
  /\ UNCHANGED <<place, seen, pendingCqes, cancelRequested, result, resumed,
                 loopVars, stoppingRequested, quit, ringVars, pc>>

\* The linked timeout fires: it cancels the I/O, or reports that it could not.
KernelTimer(o) ==
  /\ slot[o]["timeout"] = "kernel"
  /\ \/ /\ slot[o]["io"] = "kernel"
        /\ slot' = [slot EXCEPT ![o]["timeout"] = "firing",
                                ![o]["io"] = "doomed"]
     \/ /\ slot[o]["io"] = "running"
        /\ slot' = [slot EXCEPT ![o]["timeout"] = "EALREADY"]
  /\ UNCHANGED <<place, seen, pendingCqes, cancelRequested, result, resumed,
                 loopVars, stoppingRequested, quit, ringVars, pc>>

\* A cancel SQE finds the I/O and takes its timeout down with it, finds it
\* running, or finds nothing.
KernelCancel(o, k) ==
  /\ k \in {"cancel", "drain"}
  /\ slot[o][k] = "kernel"
  /\ \/ /\ slot[o]["io"] = "kernel"
        /\ slot' = [slot EXCEPT ![o][k] = "zero", ![o]["io"] = "doomed",
                                ![o]["timeout"] = IF @ = "kernel" THEN "doomed"
                                                  ELSE @]
     \/ /\ slot[o]["io"] = "running"
        /\ slot' = [slot EXCEPT ![o][k] = "EALREADY"]
     \/ /\ slot[o]["io"] \notin {"kernel", "running"}
        /\ slot' = [slot EXCEPT ![o][k] = "ENOENT"]
  /\ UNCHANGED <<place, seen, pendingCqes, cancelRequested, result, resumed,
                 loopVars, stoppingRequested, quit, ringVars, pc>>

\* The CQE of a request that was cancelled, or of a timer that has fired.
KernelPost(o, k) ==
  /\ slot[o][k] \in {"doomed", "firing"}
  /\ slot' = [slot EXCEPT ![o][k] = IF @ = "firing" THEN "ETIME"
                                    ELSE "ECANCELED"]
  /\ UNCHANGED <<place, seen, pendingCqes, cancelRequested, result, resumed,
                 loopVars, stoppingRequested, quit, ringVars, pc>>

\* The wakeup read completes when the eventfd counter is non-zero.
KernelWakeup ==
  /\ wake = "kernel"
  /\ eventfd
  /\ wake' = "cq"
  /\ eventfd' = FALSE
  /\ UNCHANGED <<opVars, loopVars, stoppingRequested, quit, pc>>

\* Another thread queues a functor, which writes the eventfd.
PostFunctor ==
  /\ ~stoppingRequested
  /\ eventfd' = TRUE
  /\ UNCHANGED <<opVars, loopVars, stoppingRequested, quit, wake, pc>>

\* The loop has stopped, or sleeps in io_uring_wait_cqe.
Idle ==
  /\ pc \in {"stopped", "aborted"} \/ (pc \in {"wait", "drainWait"} /\ CqEmpty)
  /\ UNCHANGED vars

----------------------------------------------------------------------------
UserStep == \E o \in Ops : \/ SubmitOperation(o)
                           \/ SubmitOffLoop(o)
                           \/ CancelPending(o)
                           \/ CancelInFlight(o)

LoopStep ==
  \/ DoControlFunctors
  \/ \E o \in Ops : RetryCancel(o)
  \/ ControlFunctorsDone
  \/ PendingFunctorsDone
  \/ FlushPendingSubmission
  \/ FlushDone
  \/ SubmitRing
  \/ WaitCqe
  \/ \E o \in Ops, k \in Kinds : HandleCompletion(o, k)
  \/ HandleWakeup
  \/ CqesDone
  \/ LeaveLoop
  \/ DrainPending
  \/ DrainRequestCancels
  \/ \E o \in Ops : DrainCancel(o)
  \/ DrainCancelsDone
  \/ DrainDone

KernelStep ==
  \/ \E o \in Ops : KernelIo(o) \/ KernelRun(o) \/ KernelTimer(o)
  \/ \E o \in Ops, k \in Kinds : KernelCancel(o, k) \/ KernelPost(o, k)
  \/ KernelWakeup

OtherStep == RequestStop \/ CommitStop \/ PostFunctor
               \/ WaitInterrupted \/ RingError \/ Idle

Next == UserStep \/ LoopStep \/ KernelStep \/ OtherStep

Spec == Init /\ [][Next]_vars

\* The loop thread is scheduled; a started stop is carried through; the kernel
\* serves timers, cancels, wakeups and work it already executes.  Nothing
\* makes a peer answer: KernelIo of an I/O that only waits has no fairness.
Fairness ==
  /\ WF_vars(LoopStep)
  /\ WF_vars(CommitStop)
  /\ WF_vars(KernelWakeup)
  /\ \A o \in Ops :
       /\ WF_vars(KernelTimer(o))
       /\ WF_vars(slot[o]["io"] = "running" /\ KernelIo(o))
       /\ \A k \in Kinds : WF_vars(KernelCancel(o, k) \/ KernelPost(o, k))

FairSpec == Spec /\ Fairness

----------------------------------------------------------------------------
(* Properties *)

\* The waiter of an operation is given a result exactly once: never a second
\* time however I/O, timeout and cancel CQEs race (onCompletion), and always
\* before the EventLoop forgets the operation (reject, finishRejectedOperation
\* and the last-CQE rule of onCompletion).
ExactlyOnce ==
  \A o \in Ops :
    /\ resumed[o] = (IF result[o] = "none" THEN 0 ELSE 1)
    /\ place[o] \in {"rejected", "drained"} => result[o] # "none"

\* No SQE or CQE outlives the entry of its operation in inFlightOperations_:
\* handleCompletionEvent dereferences the token before it looks the entry up.
OwnedUntilDrained ==
  \A o \in Ops, k \in Kinds : slot[o][k] # "none" => place[o] = "inflight"

\* A timeout is reported when the linked timer has cancelled the I/O, in
\* whichever order the two CQEs come, unless a cancellation was asked for as
\* well; and it is reported only for a timer or a kernel timeout.
TimeoutFidelity ==
  \A o \in Ops :
    /\ seen[o]["timeout"] = "ETIME" /\ ~cancelRequested[o]
          => result[o] = "timedOut"
    /\ result[o] = "timedOut"
          => seen[o]["timeout"] = "ETIME" \/ seen[o]["io"] = "ETIMEDOUT"

\* Bytes the kernel transferred are reported even when a cancel request or a
\* timer raced with them.  (A timer that finds the I/O executing reports
\* EALREADY, which onCompletion turns into a result of its own.)
NoLostBytes ==
  \A o \in Ops :
    seen[o]["io"] \in {"bytes", "zero"} /\ seen[o]["timeout"] # "EALREADY"
      => result[o] \in {"success", "eof"}

\* An operation that reached the ring ends as cancelled only if its
\* cancellation was requested.
CancelledOnlyOnRequest ==
  \A o \in Ops : place[o] \in {"inflight", "drained"} /\ result[o] = "cancelled"
                   => cancelRequested[o]

\* The result tells what happened, in whatever order it became known.
ResultFaithful == TimeoutFidelity /\ NoLostBytes /\ CancelledOnlyOnRequest

\* When the waiter goes on, and may free its buffer, the kernel no longer
\* works on the I/O (unless a worker was executing it beyond recall).
BufferReleased ==
  \A o \in Ops \ PuntableOps :
    result[o] # "none" => slot[o]["io"] \notin {"sq", "kernel"}

\* loop() returns, and closes the ring, only when no operation is queued, in
\* flight or referenced by the ring, and every accepted one has its result.
StoppedClean ==
  pc = "stopped" =>
    /\ pendingSubs = <<>>
    /\ \A o \in Ops : /\ place[o] \in {"fresh", "rejected", "drained"}
                      /\ place[o] # "fresh" => resumed[o] = 1
                      /\ \A k \in Kinds : slot[o][k] = "none"

\* An operation as its waiter sees it.
Stage(o) ==
  IF result[o] # "none" THEN "answered"
  ELSE IF place[o] = "fresh" THEN "fresh" ELSE "waiting"

Contract ==
  INSTANCE OperationContract
    WITH Answers <- Results \ {"none"}, NoAnswer <- "none",
         stage <- [o \in Ops |-> Stage(o)], answer <- result,
         ended <- pc = "stopped"

\* The EventLoop implements the contract of its operations: whatever races,
\* is queued, retried or drained, a waiter sees one answer that never changes,
\* and the loop returns owing none.
ContractKept == Contract!Spec

\* quit() ends with the loop stopped: the wakeup arrives and the drain ends.
QuitStops == quit ~> pc = "stopped"

\* A cancellation that cancelOperation accepted gives the waiter a result, the
\* retry through the control queue included.
CancelCompletes == \A o \in Ops : cancelRequested[o] ~> result[o] # "none"

\* An operation that was submitted with a linked timeout gets a result even if
\* the peer never answers.
DeadlineHolds ==
  \A o \in LinkedOps : place[o] = "inflight" ~> result[o] # "none"

\* What the design promises of every accepted operation, of one that
\* submitOperation had to queue too: it gets on its way to a completion or is
\* cancelled, it does not stay in the pending queue for ever.
AcceptedLeavesQueue ==
  \A o \in Ops : place[o] = "pending" ~> place[o] # "pending"
=============================================================================
