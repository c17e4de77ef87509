---------------------------- MODULE LoopIngress ----------------------------
(***************************************************************************)
(* How work reaches an EventLoop from other threads and from its own, and  *)
(* how that ends: queueInLoop with its reservation counter, the slots of   *)
(* the LockFreeQueue and the high-water mark; queueControlInLoop;          *)
(* runInLoop; quit(); and loop() from its prologue to releaseResources().  *)
(* Every step that another thread can interleave with is an action.        *)
(*                                                                         *)
(* A task is one functor and the call that queues it.  step[t] is where    *)
(* that call is.  Calls of LoopTasks are made on the loop thread, which    *)
(* does nothing else meanwhile; every other task has a thread of its own.  *)
(* The eventfd read is re-armed by every iteration here (what happens when *)
(* the submission ring is full is the subject of IoOperations), and the    *)
(* drain of I/O operations is the one phase "drainOps".                    *)
(***************************************************************************)
EXTENDS Integers, Sequences

CONSTANTS
  Tasks,         \* the functors that will be queued, and the calls doing so
  ControlTasks,  \* those given to queueControlInLoop, the others to queueInLoop
  LoopTasks,     \* those queued by the loop thread itself
  Quitters,      \* the calls of quit()
  LoopQuitters,  \* those made on the loop thread
  Capacity,      \* Options::pendingQueueCapacity
  SlotCount,     \* slots of pendingFunctors_: the next power of two
  HighWaterMark, LowWaterMark, \* Options::pendingQueue{High,Low}WaterMark
  BatchLimit,    \* functors taken by one doPendingFunctors
  RingFaults     \* whether submit and wait may return a fatal error

ASSUME ThreadAssumption ==
  /\ ControlTasks \subseteq Tasks
  /\ LoopTasks \subseteq Tasks
  /\ LoopQuitters \subseteq Quitters
  /\ Tasks \cap Quitters = {}
  /\ "none" \notin Quitters /\ "loop" \notin Quitters
ASSUME SizeAssumption ==
  /\ Capacity \in Nat /\ SlotCount \in Nat /\ Capacity <= SlotCount
  /\ HighWaterMark \in Nat /\ LowWaterMark \in Nat
  /\ BatchLimit \in Nat \ {0}
ASSUME FaultAssumption == RingFaults \in BOOLEAN

VARIABLES
  step,              \* step[t]: where the call queueing t is
  old,               \* old[t]: curQueueSize, the count before the reservation
  mark,              \* mark[t]: the mark read, then the transition it causes
  quitting,          \* quitting[q]: where the call of quit() is
  count,             \* pendingFunctorCount_
  queue, published,  \* pendingFunctors_: claimed slots in order, and those
                     \* whose sequence number says they can be read
  batch,             \* the functors doPendingFunctors holds
  control, controlBatch, \* controlFunctors_ and the deque swapped out of it
  inHighWaterMark,   \* inHighWaterMark_
  ran,               \* history: how often t was executed
  lifecycleState, stoppingRequested, quit,
  owner,             \* exclusive owner of lifecycleMutex_, or "none"
  eventfd,           \* whether the wakeup counter is non-zero
  released,          \* resourcesReleased_: eventfd and ring are closed
  pc                 \* where the loop thread is

callVars == <<step, old, mark>>
queueVars == <<count, queue, published, batch>>
controlVars == <<control, controlBatch>>
lifeVars == <<lifecycleState, stoppingRequested, quit, owner>>
vars == <<callVars, quitting, queueVars, controlVars, inHighWaterMark, ran, lifeVars,
          eventfd, released, pc>>

\* The steps of a call between lock and unlock of the shared lifecycle lock.
LockedSteps == {"reserve", "claim", "publish", "readMark", "writeMark",
                "push", "wake", "unlock"}
Steps == {"new", "lock", "notify", "accepted", "rejected"} \cup LockedSteps
QuitSteps == {"new", "lock", "setQuit", "wake", "unlock", "done"}
LoopPhases == {"control", "runControl", "dequeue", "release", "run", "check",
               "wait", "cqes"}
ExitPhases == {"leave", "leaveLock", "exitControl", "exitRunControl", "exitDrain",
               "exitDequeue", "exitRelease", "exitRun", "drainOps", "stopLock", "close"}
Phases == {"start", "top", "stopped"} \cup LoopPhases \cup ExitPhases
\* Phases in which callbacks and resumed coroutines of the user run.
UserPhases == {"start", "runControl", "run", "cqes", "exitRunControl",
               "exitRun", "drainOps"}

TypeOK ==
  /\ step \in [Tasks -> Steps]
  /\ old \in [Tasks -> Nat]
  /\ mark \in [Tasks -> {"none", "high", "low", "toHigh", "toLow"}]
  /\ quitting \in [Quitters -> QuitSteps]
  /\ count \in Nat
  /\ queue \in Seq(Tasks) /\ batch \in Seq(Tasks)
  /\ published \in SUBSET Tasks
  /\ control \in Seq(Tasks) /\ controlBatch \in Seq(Tasks)
  /\ inHighWaterMark \in BOOLEAN
  /\ ran \in [Tasks -> Nat]
  /\ lifecycleState \in {"initialized", "running", "stopping", "stopped"}
  /\ stoppingRequested \in BOOLEAN /\ quit \in BOOLEAN
  /\ owner \in Quitters \cup {"none", "loop"}
  /\ eventfd \in BOOLEAN /\ released \in BOOLEAN
  /\ pc \in Phases

\* The EventLoop is constructed; loop() has not been called.
Init ==
  /\ step = [t \in Tasks |-> "new"]
  /\ old = [t \in Tasks |-> 0]
  /\ mark = [t \in Tasks |-> "none"]
  /\ quitting = [q \in Quitters |-> "new"]
  /\ count = 0 /\ queue = <<>> /\ published = {} /\ batch = <<>>
  /\ control = <<>> /\ controlBatch = <<>>
  /\ inHighWaterMark = FALSE
  /\ ran = [t \in Tasks |-> 0]
  /\ lifecycleState = "initialized"
  /\ stoppingRequested = FALSE /\ quit = FALSE
  /\ owner = "none"
  /\ eventfd = FALSE /\ released = FALSE
  /\ pc = "start"

----------------------------------------------------------------------------
(* lifecycleMutex_, a shared_mutex *)

Stopping == lifecycleState \in {"stopping", "stopped"}
MayShare == owner = "none"

\* Mutant: the shared lock is given back before the wakeup.
MayOwnEarly ==
  owner = "none" /\ \A t \in Tasks : step[t] \notin LockedSteps \ {"wake", "unlock"}

MayOwn == owner = "none" /\ \A t \in Tasks : step[t] \notin LockedSteps

----------------------------------------------------------------------------
(* queueInLoop and queueControlInLoop *)

To(t, s) == step' = [step EXCEPT ![t] = s]
At(t, s, next) == step[t] = s /\ To(t, next)

\* A call on the loop thread is in progress.
LoopBusy == \/ \E t \in LoopTasks :
                 step[t] \notin {"new", "accepted", "rejected"}
            \/ \E q \in LoopQuitters : quitting[q] \notin {"new", "done"}
LoopMayCall == pc \in UserPhases /\ ~LoopBusy

\* The unlocked check of stoppingRequested_ that both functions start with.
Enter(t) ==
  /\ t \in LoopTasks => LoopMayCall
  /\ At(t, "new", IF stoppingRequested THEN "rejected" ELSE "lock")
  /\ UNCHANGED <<old, mark, quitting, queueVars, controlVars, inHighWaterMark, ran,
                 lifeVars, eventfd, released, pc>>

\* runInLoop on the loop thread executes the functor at once.
RunInLoop(t) ==
  /\ t \in LoopTasks \ ControlTasks
  /\ LoopMayCall
  /\ IF stoppingRequested
     THEN At(t, "new", "rejected") /\ UNCHANGED ran
     ELSE At(t, "new", "accepted") /\ ran' = [ran EXCEPT ![t] = @ + 1]
  /\ UNCHANGED <<old, mark, quitting, queueVars, controlVars, inHighWaterMark,
                 lifeVars, eventfd, released, pc>>

\* The shared lock is taken and the state checked again under it.
Lock(t) ==
  /\ MayShare
  /\ At(t, "lock", IF stoppingRequested \/ Stopping THEN "rejected"
                   ELSE IF t \in ControlTasks THEN "push" ELSE "reserve")
  /\ UNCHANGED <<old, mark, quitting, queueVars, controlVars, inHighWaterMark, ran,
                 lifeVars, eventfd, released, pc>>

\* The compare-exchange loop reserves room, or the queue is full.
Reserve(t) ==
  /\ \/ /\ count >= Capacity
        /\ At(t, "reserve", "rejected")
        /\ UNCHANGED <<count, old>>
     \/ /\ count < Capacity
        /\ At(t, "reserve", "claim")
        /\ count' = count + 1
        /\ old' = [old EXCEPT ![t] = count]
  /\ UNCHANGED <<mark, quitting, queue, published, batch, controlVars, inHighWaterMark,
                 ran, lifeVars, eventfd, released, pc>>

\* Slots not yet given back, the one whose functor is being moved out included.
SlotsUsed == Len(queue) + (IF pc \in {"release", "exitRelease"} THEN 1 ELSE 0)

\* enqueue claims the next slot; its failure branch would drop the functor.
Claim(t) ==
  /\ SlotsUsed < SlotCount
  /\ At(t, "claim", "publish")
  /\ queue' = Append(queue, t)
  /\ UNCHANGED <<old, mark, quitting, count, published, batch, controlVars,
                 inHighWaterMark, ran, lifeVars, eventfd, released, pc>>

\* ... and publishes the functor by storing the slot's sequence number.
Publish(t) ==
  /\ At(t, "publish", "readMark")
  /\ published' = published \cup {t}
  /\ UNCHANGED <<old, mark, quitting, count, queue, batch, controlVars,
                 inHighWaterMark, ran, lifeVars, eventfd, released, pc>>

\* The relaxed load of inHighWaterMark_ ...
ReadMark(t) ==
  /\ At(t, "readMark", "writeMark")
  /\ mark' = [mark EXCEPT ![t] = IF inHighWaterMark THEN "high" ELSE "low"]
  /\ UNCHANGED <<old, quitting, queueVars, controlVars, inHighWaterMark, ran, lifeVars,
                 eventfd, released, pc>>

\* ... and the store it leads to, by the size seen at the reservation.
WriteMark(t) ==
  LET enter == old[t] >= HighWaterMark /\ mark[t] = "low"
      leave == old[t] < HighWaterMark /\ mark[t] = "high"
                 /\ old[t] <= LowWaterMark
  IN /\ At(t, "writeMark", "wake")
     /\ mark' = [mark EXCEPT ![t] = IF enter THEN "toHigh"
                                    ELSE IF leave THEN "toLow" ELSE "none"]
     /\ inHighWaterMark' = (enter \/ (inHighWaterMark /\ ~leave))
     /\ UNCHANGED <<old, quitting, queueVars, controlVars, ran,
                    lifeVars, eventfd, released, pc>>

\* queueControlInLoop appends under controlMutex_.
PushControl(t) ==
  /\ At(t, "push", "wake")
  /\ control' = Append(control, t)
  /\ UNCHANGED <<old, mark, quitting, queueVars, controlBatch, inHighWaterMark, ran,
                 lifeVars, eventfd, released, pc>>

\* Mutant: a call on the loop thread never writes the eventfd.
WakesFromOutside(t) == t \notin LoopTasks

\* callingPendingFunctors_ is set from the first dequeue to the last functor.
CallingPendingFunctors == pc \in {"dequeue", "release", "run", "exitDequeue",
                                  "exitRelease", "exitRun"}
NeedsWakeup(t) ==
  \/ t \notin LoopTasks
  \/ IF t \in ControlTasks THEN lifecycleState = "running"
     ELSE CallingPendingFunctors

Wakeup(t) ==
  /\ At(t, "wake", "unlock")
  /\ eventfd' = (eventfd \/ NeedsWakeup(t))
  /\ UNCHANGED <<old, mark, quitting, queueVars, controlVars, inHighWaterMark, ran,
                 lifeVars, released, pc>>

\* The lock is given back before the callback, which may call quit().
Unlock(t) ==
  /\ At(t, "unlock", IF mark[t] = "none" THEN "accepted" ELSE "notify")
  /\ UNCHANGED <<old, mark, quitting, queueVars, controlVars, inHighWaterMark, ran,
                 lifeVars, eventfd, released, pc>>

\* backpressureCallback_ runs without the lock; what it may do that matters
\* here, a call of quit() or of queueInLoop, is another call of this module.
Notify(t) ==
  /\ At(t, "notify", "accepted")
  /\ UNCHANGED <<old, mark, quitting, queueVars, controlVars, inHighWaterMark,
                 ran, lifeVars, eventfd, released, pc>>

Call(t) == \/ Lock(t) \/ Reserve(t) \/ Claim(t) \/ Publish(t) \/ ReadMark(t)
           \/ WriteMark(t) \/ PushControl(t) \/ Wakeup(t) \/ Unlock(t)
           \/ Notify(t)

----------------------------------------------------------------------------
(* quit(), on another thread or on the loop thread *)

AtQuit(q, s, next) ==
  quitting[q] = s /\ quitting' = [quitting EXCEPT ![q] = next]

\* beginStopping first closes the ingress, without the lock.
RequestStop(q) ==
  /\ q \in LoopQuitters => LoopMayCall
  /\ AtQuit(q, "new", "lock")
  /\ stoppingRequested' = TRUE
  /\ UNCHANGED <<callVars, queueVars, controlVars, inHighWaterMark, ran, lifecycleState,
                 quit, owner, eventfd, released, pc>>

\* With the exclusive lock it finds the loop stopping already, or ...
BeginStopping(q) ==
  /\ MayOwn
  /\ AtQuit(q, "lock", IF Stopping THEN "done" ELSE "setQuit")
  /\ lifecycleState' = IF Stopping THEN lifecycleState ELSE "stopping"
  /\ owner' = IF Stopping THEN "none" ELSE q
  /\ UNCHANGED <<callVars, queueVars, controlVars, inHighWaterMark, ran,
                 stoppingRequested, quit, eventfd, released, pc>>

\* ... stores quit_ ...
SetQuit(q) ==
  /\ AtQuit(q, "setQuit", IF q \in LoopQuitters THEN "unlock" ELSE "wake")
  /\ quit' = TRUE
  /\ UNCHANGED <<callVars, queueVars, controlVars, inHighWaterMark, ran,
                 lifecycleState, stoppingRequested, owner, eventfd, released, pc>>

\* Mutant: the eventfd is not written.
QuitWakeupOmitted(q) ==
  /\ AtQuit(q, "wake", "unlock")
  /\ UNCHANGED <<callVars, queueVars, controlVars, inHighWaterMark, ran, lifeVars,
                 eventfd, released, pc>>

\* ... wakes the loop if this is another thread ...
QuitWakeup(q) ==
  /\ AtQuit(q, "wake", "unlock")
  /\ eventfd' = TRUE
  /\ UNCHANGED <<callVars, queueVars, controlVars, inHighWaterMark, ran, lifeVars,
                 released, pc>>

\* ... and unlocks.
QuitUnlock(q) ==
  /\ AtQuit(q, "unlock", "done")
  /\ owner' = "none"
  /\ UNCHANGED <<callVars, queueVars, controlVars, inHighWaterMark, ran,
                 lifecycleState, stoppingRequested, quit, eventfd, released, pc>>

Quit(q) == BeginStopping(q) \/ SetQuit(q) \/ QuitWakeup(q) \/ QuitUnlock(q)

----------------------------------------------------------------------------
(* loop() *)

Goto(from, to) == ~LoopBusy /\ pc = from /\ pc' = to

\* The prologue: a loop told to stop before it ran does not become running.
StartLoop ==
  /\ Goto("start", "top")
  /\ MayOwn
  /\ lifecycleState' = IF lifecycleState = "initialized" THEN "running"
                       ELSE lifecycleState
  /\ UNCHANGED <<callVars, quitting, queueVars, controlVars, inHighWaterMark, ran,
                 stoppingRequested, quit, owner, eventfd, released>>

TestQuit ==
  /\ \/ Goto("top", IF quit THEN "leave" ELSE "control")
     \/ Goto("check", IF quit THEN "leave" ELSE "wait")
     \/ Goto("cqes", "top")
  /\ UNCHANGED <<callVars, quitting, queueVars, controlVars, inHighWaterMark, ran,
                 lifeVars, eventfd, released>>

\* doControlFunctors swaps the deque under controlMutex_ ...
SwapControl ==
  /\ Goto("control", "runControl") \/ Goto("exitControl", "exitRunControl")
  /\ controlBatch' = control
  /\ control' = <<>>
  /\ UNCHANGED <<callVars, quitting, queueVars, inHighWaterMark, ran, lifeVars,
                 eventfd, released>>

\* ... and runs it.
RunControl ==
  /\ pc \in {"runControl", "exitRunControl"} /\ ~LoopBusy
  /\ controlBatch # <<>>
  /\ controlBatch' = Tail(controlBatch)
  /\ ran' = [ran EXCEPT ![Head(controlBatch)] = @ + 1]
  /\ UNCHANGED <<callVars, quitting, queueVars, control, inHighWaterMark, lifeVars,
                 eventfd, released, pc>>

ControlDone ==
  /\ controlBatch = <<>>
  /\ Goto("runControl", "dequeue") \/ Goto("exitRunControl", "exitDrain")
  /\ UNCHANGED <<callVars, quitting, queueVars, controlVars, inHighWaterMark, ran,
                 lifeVars, eventfd, released>>

Readable == queue # <<>> /\ Head(queue) \in published
MayTakeMore == Readable /\ Len(batch) < BatchLimit

\* doPendingFunctors takes the next slot if its functor is published ...
Dequeue ==
  /\ MayTakeMore
  /\ Goto("dequeue", "release") \/ Goto("exitDequeue", "exitRelease")
  /\ queue' = Tail(queue)
  /\ published' = published \ {Head(queue)}
  /\ batch' = Append(batch, Head(queue))
  /\ UNCHANGED <<callVars, quitting, count, controlVars, inHighWaterMark, ran,
                 lifeVars, eventfd, released>>

\* ... gives the slot back, and the reservation after it.
ReleaseSlot ==
  /\ Goto("release", "dequeue") \/ Goto("exitRelease", "exitDequeue")
  /\ count' = count - 1
  /\ UNCHANGED <<callVars, quitting, queue, published, batch, controlVars,
                 inHighWaterMark, ran, lifeVars, eventfd, released>>

DequeueDone ==
  /\ ~MayTakeMore
  /\ Goto("dequeue", "run") \/ Goto("exitDequeue", "exitRun")
  /\ UNCHANGED <<callVars, quitting, queueVars, controlVars, inHighWaterMark, ran,
                 lifeVars, eventfd, released>>

RunFunctor ==
  /\ pc \in {"run", "exitRun"} /\ ~LoopBusy
  /\ batch # <<>>
  /\ batch' = Tail(batch)
  /\ ran' = [ran EXCEPT ![Head(batch)] = @ + 1]
  /\ UNCHANGED <<callVars, quitting, count, queue, published, controlVars,
                 inHighWaterMark, lifeVars, eventfd, released, pc>>

FunctorsDone ==
  /\ batch = <<>>
  /\ Goto("run", "check") \/ Goto("exitRun", "exitDrain")
  /\ UNCHANGED <<callVars, quitting, queueVars, controlVars, inHighWaterMark, ran,
                 lifeVars, eventfd, released>>

\* io_uring_wait_cqe returns for the eventfd ...
WaitWakeup ==
  /\ eventfd
  /\ Goto("wait", "cqes")
  /\ eventfd' = FALSE
  /\ UNCHANGED <<callVars, quitting, queueVars, controlVars, inHighWaterMark, ran,
                 lifeVars, released>>

\* ... or for some I/O, a signal or a fatal error.
WaitOther ==
  /\ \/ Goto("wait", "cqes")
     \/ Goto("wait", "top")
     \/ RingFaults /\ Goto("wait", "leave")
  /\ UNCHANGED <<callVars, quitting, queueVars, controlVars, inHighWaterMark, ran,
                 lifeVars, eventfd, released>>

\* After the loop: beginStopping(false) closes the ingress ...
LeaveLoop ==
  /\ Goto("leave", "leaveLock")
  /\ stoppingRequested' = TRUE
  /\ UNCHANGED <<callVars, quitting, queueVars, controlVars, inHighWaterMark, ran,
                 lifecycleState, quit, owner, eventfd, released>>

\* Mutant: the exclusive lock is not taken, calls under way are not awaited.
LeaveLockSkipped ==
  /\ Goto("leaveLock", "exitControl")
  /\ lifecycleState' = "stopping"
  /\ quit' = TRUE
  /\ UNCHANGED <<callVars, quitting, queueVars, controlVars, inHighWaterMark, ran,
                 stoppingRequested, owner, eventfd, released>>

\* ... and waits for the calls that hold the lock.
LeaveLock ==
  /\ Goto("leaveLock", "exitControl")
  /\ MayOwn
  /\ lifecycleState' = "stopping"
  /\ quit' = TRUE
  /\ UNCHANGED <<callVars, quitting, queueVars, controlVars, inHighWaterMark, ran,
                 stoppingRequested, owner, eventfd, released>>

\* Functors are drained while a reservation is left; then the operations are.
ExitDrain ==
  /\ Goto("exitDrain", IF count # 0 THEN "exitDequeue" ELSE "drainOps")
       \/ Goto("drainOps", "stopLock")
  /\ UNCHANGED <<callVars, quitting, queueVars, controlVars, inHighWaterMark, ran,
                 lifeVars, eventfd, released>>

StopLock ==
  /\ Goto("stopLock", "close")
  /\ MayOwn
  /\ lifecycleState' = "stopped"
  /\ UNCHANGED <<callVars, quitting, queueVars, controlVars, inHighWaterMark, ran,
                 stoppingRequested, quit, owner, eventfd, released>>

\* releaseResources closes the eventfd and the ring.
ReleaseResources ==
  /\ Goto("close", "stopped")
  /\ released' = TRUE
  /\ UNCHANGED <<callVars, quitting, queueVars, controlVars, inHighWaterMark, ran,
                 lifeVars, eventfd>>

Loop == \/ StartLoop \/ TestQuit \/ SwapControl \/ RunControl \/ ControlDone
        \/ Dequeue \/ ReleaseSlot \/ DequeueDone \/ RunFunctor \/ FunctorsDone
        \/ WaitWakeup \/ LeaveLoop \/ LeaveLock \/ ExitDrain \/ StopLock
        \/ ReleaseResources

\* Every call has returned and the loop has stopped, or sleeps.
Idle ==
  /\ pc \in {"wait", "stopped"}
  /\ \A t \in Tasks : step[t] \in {"new", "accepted", "rejected"}
  /\ \A q \in Quitters : quitting[q] \in {"new", "done"}
  /\ UNCHANGED vars

----------------------------------------------------------------------------
Next ==
  \/ \E t \in Tasks : Enter(t) \/ RunInLoop(t) \/ Call(t)
  \/ \E q \in Quitters : RequestStop(q) \/ Quit(q)
  \/ Loop
  \/ WaitOther
  \/ Idle

Spec == Init /\ [][Next]_vars

\* What the loop thread does, inside the calls made on it too.
LoopThread == \/ Loop
              \/ \E t \in LoopTasks : Call(t)
              \/ \E q \in LoopQuitters : Quit(q)

\* Threads are scheduled: a call under way and the loop thread go on.  Nothing
\* makes anybody call, nor an I/O complete while the loop sleeps.
Fairness ==
  /\ WF_vars(LoopThread)
  /\ \A t \in Tasks \ LoopTasks : WF_vars(Call(t))
  /\ \A q \in Quitters \ LoopQuitters : WF_vars(Quit(q))

FairSpec == Spec /\ Fairness

----------------------------------------------------------------------------
(* Properties *)

\* The ingress boundary: a functor whose call was rejected never runs, an
\* accepted one runs once, and none accepted is left when loop() returns,
\* whichever call or quit() was under way when the loop stopped.
AcceptedRunsOnce ==
  \A t \in Tasks :
    /\ ran[t] <= 1
    /\ step[t] = "rejected" => ran[t] = 0
    /\ pc = "stopped" /\ step[t] = "accepted" => ran[t] = 1

\* Nobody writes the eventfd once releaseResources has closed it.
NoWakeupAfterRelease ==
  released => /\ \A t \in Tasks : step[t] # "wake"
              /\ \A q \in Quitters : quitting[q] # "wake"

\* The state of the loop stays within what the code allows for, its reservations
\* below the capacity whoever gives one back, up to and after the release of
\* its resources.
LifecycleSafe == TypeOK /\ NoWakeupAfterRelease

\* An accepted functor runs: no wakeup is lost between the calls and the sleep
\* of the loop thread, for calls made inside a functor too.
AcceptedRuns == \A t \in Tasks : step[t] = "accepted" ~> ran[t] = 1

\* A quit() by any thread, at any time, ends with the loop stopped and every
\* quit() returned.
QuitStops ==
  stoppingRequested ~>
    pc = "stopped" /\ \A q \in Quitters : quitting[q] \in {"new", "done"}
=============================================================================
