-------------------------- MODULE LoopIngressProofs -------------------------
(***************************************************************************)
(* Proofs about LoopIngress for every set of calls, every queue capacity   *)
(* and every batch limit: a functor runs once or was rejected, none that   *)
(* was accepted is left behind when loop() returns, the reservations of    *)
(* queueInLoop account for the slots of the LockFreeQueue, and nobody uses *)
(* the eventfd after releaseResources().                                   *)
(***************************************************************************)
EXTENDS LoopIngress, FiniteSetTheorems, SequenceTheorems, TLAPS

Held(s, t) == \E i \in 1..Len(s) : s[i] = t
Once(s) == \A i, j \in 1..Len(s) : s[i] = s[j] => i = j

\* Steps of a call before the functor is anywhere, and after it was handed over.
Early == {"new", "lock", "rejected", "reserve", "claim", "push"}
Late == {"readMark", "writeMark", "wake", "unlock", "notify", "accepted"}

\* A functor is in one place at a time, or has run.
TaskOk(t) ==
  /\ ran[t] \in {0, 1}
  /\ step[t] \in {"reserve", "claim", "publish", "readMark", "writeMark"}
       => t \notin ControlTasks
  /\ step[t] = "push" => t \in ControlTasks
  /\ step[t] \in Early => /\ ~Held(queue, t) /\ ~Held(batch, t)
                          /\ ~Held(control, t) /\ ~Held(controlBatch, t)
                          /\ ran[t] = 0
  /\ step[t] = "publish" => Held(queue, t) /\ t \notin published
  /\ step[t] \in Late => \/ ran[t] = 1
                         \/ Held(queue, t) /\ t \in published
                         \/ Held(batch, t) \/ Held(control, t)
                         \/ Held(controlBatch, t)
  /\ t \in published => Held(queue, t)
  /\ Held(queue, t) => t \notin ControlTasks /\ ran[t] = 0 /\ ~Held(batch, t)
  /\ Held(batch, t) => t \notin ControlTasks /\ ran[t] = 0
  /\ Held(control, t) => t \in ControlTasks /\ ran[t] = 0 /\ ~Held(controlBatch, t)
  /\ Held(controlBatch, t) => t \in ControlTasks /\ ran[t] = 0

TaskInv ==
  /\ \A t \in Tasks : TaskOk(t)
  /\ Once(queue) /\ Once(batch) /\ Once(control) /\ Once(controlBatch)

\* The quit() that is past the exclusive lock owns it.
Holding == {"setQuit", "wake", "unlock"}
LockInv == \A q \in Quitters : quitting[q] \in Holding => owner = q

ControlPhases == {"runControl", "exitRunControl"}
FunctorPhases == {"dequeue", "release", "run", "exitDequeue", "exitRelease", "exitRun"}
LastPhases == {"drainOps", "stopLock", "close", "stopped"}
\* After the loop has closed the ingress under the exclusive lock.
ClosedPhases == {"exitControl", "exitRunControl", "exitDrain", "exitDequeue",
                 "exitRelease", "exitRun"} \cup LastPhases

\* What each phase of loop() has already emptied, and who can still be inside.
PhaseInv ==
  /\ pc \notin ControlPhases => controlBatch = <<>>
  /\ pc \notin FunctorPhases => batch = <<>>
  /\ pc \in ClosedPhases => /\ Stopping /\ owner = "none"
                            /\ \A t \in Tasks : step[t] \notin LockedSteps
  /\ pc \in ClosedPhases \ {"exitControl"} => control = <<>>
  /\ pc \in LastPhases => queue = <<>>
  /\ released => pc = "stopped"

\* pendingFunctorCount_ counts the calls between reservation and enqueue, and
\* the slots not yet given back.
Claiming == {t \in Tasks : step[t] = "claim"}
CountInv ==
  /\ IsFiniteSet(Claiming)
  /\ count = Cardinality(Claiming) + SlotsUsed
  /\ count <= Capacity

IndInv == TypeOK /\ TaskInv /\ LockInv /\ PhaseInv /\ CountInv

----------------------------------------------------------------------------
(* Sequences of functors *)

\* A functor added at the end of a queue.
LEMMA HeldAppend ==
  ASSUME NEW s \in Seq(Tasks), NEW t \in Tasks
  PROVE  /\ \A u \in Tasks : Held(Append(s, t), u) <=> Held(s, u) \/ u = t
         /\ Once(s) /\ ~Held(s, t) => Once(Append(s, t))
<1>1. Len(Append(s, t)) = Len(s) + 1 /\ Len(s) \in Nat
  OBVIOUS
<1>2. /\ \A i \in 1..Len(s) : Append(s, t)[i] = s[i]
      /\ Append(s, t)[Len(s) + 1] = t
  OBVIOUS
<1>3. 1..(Len(s) + 1) = 1..Len(s) \cup {Len(s) + 1}
  BY <1>1
<1> QED
  BY <1>1, <1>2, <1>3 DEF Held, Once

\* The first functor taken off a queue.
LEMMA HeldTail ==
  ASSUME NEW s \in Seq(Tasks), s # <<>>
  PROVE  /\ Head(s) \in Tasks /\ Held(s, Head(s)) /\ Tail(s) \in Seq(Tasks)
         /\ Len(Tail(s)) = Len(s) - 1 /\ Len(s) >= 1
         /\ \A u \in Tasks : Held(s, u) <=> Held(Tail(s), u) \/ u = Head(s)
         /\ Once(s) => Once(Tail(s)) /\ ~Held(Tail(s), Head(s))
<1>1. Len(s) \in Nat /\ Len(s) >= 1 /\ Len(Tail(s)) = Len(s) - 1
  OBVIOUS
<1>2. Head(s) = s[1] /\ Head(s) \in Tasks /\ Tail(s) \in Seq(Tasks)
  OBVIOUS
<1>3. \A i \in 1..(Len(s) - 1) : Tail(s)[i] = s[i + 1] /\ i + 1 \in 1..Len(s)
  BY <1>1
<1>4. Held(s, Head(s))
  BY <1>1, <1>2 DEF Held
<1>5. ASSUME NEW u \in Tasks PROVE Held(s, u) <=> Held(Tail(s), u) \/ u = Head(s)
  <2>1. ASSUME Held(s, u), u # Head(s) PROVE Held(Tail(s), u)
    <3>1. PICK i \in 1..Len(s) : s[i] = u
      BY <2>1 DEF Held
    <3>2. i - 1 \in 1..(Len(s) - 1) /\ (i - 1) + 1 = i
      BY <1>1, <1>2, <2>1, <3>1
    <3>3. Tail(s)[i - 1] = u
      BY <1>3, <3>1, <3>2
    <3> QED
      BY <1>1, <3>2, <3>3 DEF Held
  <2>2. ASSUME Held(Tail(s), u) PROVE Held(s, u)
    BY <1>1, <1>3, <2>2 DEF Held
  <2> QED
    BY <1>4, <2>1, <2>2
<1>6. ASSUME Once(s) PROVE Once(Tail(s))
  BY <1>1, <1>3, <1>6 DEF Once
<1>7. ASSUME Once(s), Held(Tail(s), Head(s)) PROVE FALSE
  <2>1. PICK i \in 1..(Len(s) - 1) : Tail(s)[i] = Head(s)
    BY <1>1, <1>7 DEF Held
  <2>2. s[i + 1] = s[1] /\ i + 1 \in 1..Len(s) /\ 1 \in 1..Len(s) /\ i + 1 # 1
    BY <1>1, <1>2, <1>3, <2>1
  <2> QED
    BY <1>7, <2>2 DEF Once
<1> QED
  BY <1>1, <1>2, <1>4, <1>5, <1>6, <1>7

\* Nothing is in an empty queue.
LEMMA HeldEmpty ==
  Once(<<>>) /\ \A u : ~Held(<<>>, u)
  BY DEF Held, Once

----------------------------------------------------------------------------
(* The steps of a call *)

\* The steps of a call that move it on and touch no functor.
Passing(t) == \/ Enter(t) \/ Lock(t) \/ Reserve(t) \/ ReadMark(t)
              \/ WriteMark(t) \/ Wakeup(t) \/ Unlock(t) \/ Notify(t)

\* The steps of quit().
Quitting(q) == RequestStop(q) \/ Quit(q)

\* The steps of loop() that touch no functor.
Turning == \/ StartLoop \/ TestQuit \/ ControlDone \/ ReleaseSlot \/ DequeueDone
           \/ FunctorsDone \/ WaitWakeup \/ WaitOther \/ LeaveLoop \/ LeaveLock
           \/ ExitDrain \/ StopLock \/ ReleaseResources

\* The steps of the system, with those that touch no functor taken together.
LEMMA NextCases ==
  ASSUME [Next]_vars
  PROVE  \/ \E t \in Tasks : \/ Passing(t) \/ RunInLoop(t) \/ Claim(t)
                             \/ Publish(t) \/ PushControl(t)
         \/ \E q \in Quitters : Quitting(q)
         \/ Turning \/ SwapControl \/ RunControl \/ Dequeue \/ RunFunctor
         \/ UNCHANGED vars
  BY DEF Next, Call, Loop, Idle, Passing, Quitting, Turning

\* A passing step: which functors it leaves alone, and where it goes.
LEMMA PassingEffect ==
  ASSUME TypeOK, NEW t \in Tasks, Passing(t)
  PROVE  /\ UNCHANGED <<queue, published, batch, control, controlBatch, ran,
                        quitting, lifeVars, released, pc>>
         /\ \A u \in Tasks \ {t} : step'[u] = step[u]
         /\ step'[t] \in Steps
         /\ \/ step[t] \in Early /\ step'[t] \in Early
            \/ step[t] \in Late /\ step'[t] \in Late
         /\ step'[t] \in {"reserve", "claim", "writeMark"}
              => t \notin ControlTasks
                   \/ step[t] \in {"reserve", "claim", "publish", "readMark", "writeMark"}
         /\ step'[t] = "push" => t \in ControlTasks
         /\ step'[t] \notin {"publish", "readMark"}
         /\ step'[t] \in LockedSteps =>
              step[t] \in LockedSteps \/ (owner = "none" /\ ~Stopping)
         /\ step[t] # "claim"
<1>1. step \in [Tasks -> Steps]
  BY DEF TypeOK
<1> USE DEF Early, Late, LockedSteps, Steps, At, To
<1>2. CASE Enter(t) \/ Lock(t)
  BY <1>1, <1>2 DEF Enter, Lock, MayShare, queueVars, controlVars
<1>3. CASE Reserve(t)
  BY <1>1, <1>3 DEF Reserve, controlVars
<1>4. CASE ReadMark(t) \/ WriteMark(t)
  BY <1>1, <1>4 DEF ReadMark, WriteMark, queueVars, controlVars
<1>5. CASE Wakeup(t) \/ Unlock(t) \/ Notify(t)
  BY <1>1, <1>5 DEF Wakeup, Unlock, Notify, queueVars, controlVars
<1> QED
  BY <1>2, <1>3, <1>4, <1>5 DEF Passing

\* quit() touches no functor and no call.
LEMMA QuittingFrame ==
  ASSUME NEW q \in Quitters, Quitting(q)
  PROVE  UNCHANGED <<callVars, queueVars, controlVars, inHighWaterMark, ran,
                     released, pc>>
  BY DEF Quitting, Quit, RequestStop, BeginStopping, SetQuit, QuitWakeup, QuitUnlock,
     lifeVars

\* A turn of loop() touches no functor and no call.
LEMMA TurningFrame ==
  ASSUME Turning
  PROVE  UNCHANGED <<callVars, quitting, queue, published, batch, controlVars,
                     inHighWaterMark, ran, owner>>
  BY DEF Turning, StartLoop, TestQuit, ControlDone, ReleaseSlot, DequeueDone,
     FunctorsDone, WaitWakeup, WaitOther, LeaveLoop, LeaveLock, ExitDrain, StopLock,
     ReleaseResources, lifeVars, queueVars

----------------------------------------------------------------------------
(* Reservations and slots *)

\* The reservations account for the claims under way and the slots in use.
LEMMA CountStep ==
  ASSUME IndInv, [Next]_vars PROVE CountInv'
<1>type. /\ step \in [Tasks -> Steps] /\ count \in Nat /\ queue \in Seq(Tasks)
         /\ Len(queue) \in Nat /\ Capacity \in Nat
  BY SizeAssumption DEF IndInv, TypeOK
<1>card. IsFiniteSet(Claiming) /\ Cardinality(Claiming) \in Nat
  BY FS_CardinalityType DEF IndInv, CountInv
<1>count. count = Cardinality(Claiming) + SlotsUsed /\ count <= Capacity
  BY DEF IndInv, CountInv
<1>1. ASSUME UNCHANGED <<step, queue, count>>, SlotsUsed' = SlotsUsed
      PROVE  CountInv'
  BY <1>1, <1>card, <1>count DEF CountInv, Claiming
<1>2. ASSUME NEW t \in Tasks, Passing(t) \/ RunInLoop(t) \/ Publish(t) \/ PushControl(t)
      PROVE  CountInv'
  <2>1. CASE Reserve(t) /\ count < Capacity
    <3>1. step[t] = "reserve" /\ step' = [step EXCEPT ![t] = "claim"] /\ count' = count + 1
      BY <2>1, <1>type DEF Reserve, At, To
    <3>2. Claiming' = Claiming \cup {t} /\ t \notin Claiming
      BY <3>1, <1>type DEF Claiming
    <3>3. IsFiniteSet(Claiming') /\ Cardinality(Claiming') = Cardinality(Claiming) + 1
      BY <3>2, <1>card, FS_AddElement
    <3>4. SlotsUsed' = SlotsUsed /\ SlotsUsed \in Nat
      BY <2>1, <1>type DEF Reserve, SlotsUsed
    <3> QED
      BY <2>1, <3>1, <3>3, <3>4, <1>type, <1>card, <1>count DEF CountInv
  <2>2. CASE ~(Reserve(t) /\ count < Capacity)
    <3>1. UNCHANGED <<queue, count, pc>>
      BY <1>2, <2>2, <1>type DEF Passing, Reserve, Enter, Lock, ReadMark, WriteMark, Wakeup,
         Unlock, Notify, RunInLoop, Publish, PushControl, queueVars
    <3>2. \E a \in Steps, b \in Steps : At(t, a, b) /\ a # "claim" /\ b # "claim"
      <4>1. CASE Enter(t) \/ Lock(t) \/ RunInLoop(t)
        BY <4>1 DEF Enter, Lock, RunInLoop, Steps, LockedSteps
      <4>2. CASE Reserve(t)
        BY <2>2, <4>2, <1>type DEF Reserve, Steps, LockedSteps
      <4>3. CASE ReadMark(t) \/ WriteMark(t) \/ Wakeup(t) \/ Unlock(t) \/ Notify(t)
        BY <4>3 DEF ReadMark, WriteMark, Wakeup, Unlock, Notify, Steps, LockedSteps
      <4>4. CASE Publish(t) \/ PushControl(t)
        BY <4>4 DEF Publish, PushControl, Steps, LockedSteps
      <4> QED
        BY <1>2, <4>1, <4>2, <4>3, <4>4 DEF Passing
    <3>3. Claiming' = Claiming
      BY <3>2, <1>type DEF At, To, Claiming
    <3> QED
      BY <3>1, <3>3, <1>card, <1>count DEF CountInv, SlotsUsed
  <2> QED
    BY <2>1, <2>2
<1>3. ASSUME NEW t \in Tasks, Claim(t) PROVE CountInv'
  <2>1. /\ step[t] = "claim" /\ step' = [step EXCEPT ![t] = "publish"]
        /\ queue' = Append(queue, t) /\ UNCHANGED <<count, pc>>
    BY <1>3 DEF Claim, At, To
  <2>2. Claiming' = Claiming \ {t} /\ t \in Claiming
    BY <2>1, <1>type DEF Claiming
  <2>3. IsFiniteSet(Claiming') /\ Cardinality(Claiming') = Cardinality(Claiming) - 1
    BY <2>2, <1>card, FS_RemoveElement
  <2>4. Len(queue') = Len(queue) + 1
    BY <2>1, <1>type
  <2>5. SlotsUsed' = SlotsUsed + 1 /\ SlotsUsed \in Nat
    BY <2>1, <2>4, <1>type DEF SlotsUsed
  <2> QED
    BY <2>1, <2>3, <2>5, <1>type, <1>card, <1>count DEF CountInv
<1>4. CASE Dequeue
  <2>1. /\ queue # <<>> /\ queue' = Tail(queue) /\ UNCHANGED <<count, step>>
        /\ pc \notin {"release", "exitRelease"} /\ pc' \in {"release", "exitRelease"}
    BY <1>4 DEF Dequeue, MayTakeMore, Readable, Goto, callVars
  <2>2. Len(queue') = Len(queue) - 1
    BY <2>1, <1>type
  <2>3. Claiming' = Claiming
    BY <2>1 DEF Claiming
  <2> QED
    BY <2>1, <2>2, <2>3, <1>type, <1>card, <1>count DEF CountInv, SlotsUsed
<1>5. CASE ReleaseSlot
  <2>1. /\ count' = count - 1 /\ UNCHANGED <<queue, step>>
        /\ pc \in {"release", "exitRelease"} /\ pc' \notin {"release", "exitRelease"}
    BY <1>5 DEF ReleaseSlot, Goto, callVars
  <2>2. Claiming' = Claiming
    BY <2>1 DEF Claiming
  <2> QED
    BY <2>1, <2>2, <1>type, <1>card, <1>count DEF CountInv, SlotsUsed
<1>6. CASE \/ SwapControl \/ RunControl \/ RunFunctor \/ UNCHANGED vars
           \/ \E q \in Quitters : Quitting(q)
  <2>1. UNCHANGED <<step, queue, count>>
    BY <1>6, QuittingFrame DEF SwapControl, RunControl, RunFunctor, vars, callVars, queueVars
  <2>2. pc' \in {"release", "exitRelease"} <=> pc \in {"release", "exitRelease"}
    BY <1>6, QuittingFrame DEF SwapControl, RunControl, RunFunctor, vars, Goto
  <2> QED
    BY <1>1, <2>1, <2>2 DEF SlotsUsed
<1>7. CASE Turning /\ ~ReleaseSlot
  <2>1. UNCHANGED <<step, queue, count>>
    BY <1>7 DEF Turning, StartLoop, TestQuit, ControlDone, DequeueDone, FunctorsDone,
       WaitWakeup, WaitOther, LeaveLoop, LeaveLock, ExitDrain, StopLock,
       ReleaseResources, callVars, queueVars
  <2>2. pc' \notin {"release", "exitRelease"} /\ pc \notin {"release", "exitRelease"}
    BY <1>7 DEF Turning, StartLoop, TestQuit, ControlDone, DequeueDone, FunctorsDone,
       WaitWakeup, WaitOther, LeaveLoop, LeaveLock, ExitDrain, StopLock,
       ReleaseResources, Goto
  <2> QED
    BY <1>1, <2>1, <2>2 DEF SlotsUsed
<1> QED
  BY <1>2, <1>3, <1>4, <1>5, <1>6, <1>7, NextCases

\* A slot is given back only while its reservation is counted.
LEMMA ReservationLeft ==
  ASSUME IndInv, ReleaseSlot PROVE count >= 1
<1>1. pc \in {"release", "exitRelease"}
  BY DEF ReleaseSlot, Goto
<1>2. Cardinality(Claiming) \in Nat /\ Len(queue) \in Nat
  BY FS_CardinalityType DEF IndInv, CountInv, TypeOK
<1> QED
  BY <1>1, <1>2 DEF IndInv, CountInv, SlotsUsed

\* Every step keeps every variable in its type.
LEMMA TypeStep ==
  ASSUME IndInv, [Next]_vars PROVE TypeOK'
<1>type. TypeOK
  BY DEF IndInv
<1> USE DEF TypeOK
<1>1. ASSUME NEW t \in Tasks, Passing(t) PROVE TypeOK'
  <2>1. step' \in [Tasks -> Steps]
    <3>1. \E s : step' = [step EXCEPT ![t] = s]
      BY <1>1 DEF Passing, Enter, Lock, Reserve, ReadMark, WriteMark, Wakeup, Unlock,
         Notify, At, To
    <3> QED
      BY <1>1, <1>type, <3>1, PassingEffect
  <2>2. old' \in [Tasks -> Nat] /\ count' \in Nat
    BY <1>1, <1>type, SMTT(30) DEF Passing, Enter, Lock, Reserve, ReadMark, WriteMark, Wakeup, Unlock,
         Notify, queueVars
  <2>3. mark' \in [Tasks -> {"none", "high", "low", "toHigh", "toLow"}]
    BY <1>1, <1>type DEF Passing, Enter, Lock, Reserve, ReadMark, WriteMark, Wakeup, Unlock,
         Notify
  <2>4. inHighWaterMark' \in BOOLEAN /\ eventfd' \in BOOLEAN
    BY <1>1, <1>type DEF Passing, Enter, Lock, Reserve, ReadMark, WriteMark, Wakeup, Unlock,
         Notify
  <2> QED
    BY <1>1, <1>type, <2>1, <2>2, <2>3, <2>4, PassingEffect DEF lifeVars
<1>2. ASSUME NEW t \in Tasks, RunInLoop(t) \/ Claim(t) \/ Publish(t) \/ PushControl(t)
      PROVE TypeOK'
  <2> USE DEF At, To, Steps, LockedSteps
  <2>1. CASE RunInLoop(t)
    <3>1. step' \in [Tasks -> Steps] /\ ran' \in [Tasks -> Nat]
      <4>1. /\ \E s \in Steps : step' = [step EXCEPT ![t] = s]
            /\ ran' = ran \/ ran' = [ran EXCEPT ![t] = @ + 1]
        BY <2>1 DEF RunInLoop
      <4>2. step \in [Tasks -> Steps] /\ ran \in [Tasks -> Nat]
        BY <1>type
      <4> HIDE DEF Steps, TypeOK
      <4>3. ran' \in [Tasks -> Nat]
        BY <4>1, <4>2
      <4> QED
        BY <4>1, <4>2, <4>3
    <3> QED
      BY <2>1, <3>1, <1>type DEF RunInLoop, queueVars, controlVars, lifeVars
  <2>2. CASE Claim(t)
    BY <2>2, <1>type DEF Claim, controlVars, lifeVars
  <2>3. CASE Publish(t)
    BY <2>3, <1>type DEF Publish, controlVars, lifeVars
  <2>4. CASE PushControl(t)
    BY <2>4, <1>type DEF PushControl, queueVars, lifeVars
  <2> QED
    BY <1>2, <2>1, <2>2, <2>3, <2>4
<1>3. ASSUME NEW q \in Quitters, Quitting(q) PROVE TypeOK'
  <2>1. quitting' \in [Quitters -> QuitSteps]
    BY <1>3, <1>type DEF Quitting, Quit, RequestStop, BeginStopping, SetQuit, QuitWakeup,
       QuitUnlock, AtQuit, QuitSteps
  <2>2. /\ lifecycleState' \in {"initialized", "running", "stopping", "stopped"}
        /\ stoppingRequested' \in BOOLEAN /\ quit' \in BOOLEAN
        /\ owner' \in Quitters \cup {"none", "loop"}
        /\ eventfd' \in BOOLEAN
    BY <1>3, <1>type DEF Quitting, Quit, RequestStop, BeginStopping, SetQuit, QuitWakeup,
       QuitUnlock, lifeVars
  <2> QED
    BY <1>3, <1>type, <2>1, <2>2, QuittingFrame DEF callVars, queueVars, controlVars
<1>4. CASE Turning
  <2>1. count' \in Nat
    <3>1. CASE ReleaseSlot
      BY <1>type, <3>1, ReservationLeft DEF ReleaseSlot
    <3>2. CASE ~ReleaseSlot
      BY <1>4, <1>type, <3>2 DEF Turning, StartLoop, TestQuit, ControlDone, DequeueDone,
         FunctorsDone, WaitWakeup, WaitOther, LeaveLoop, LeaveLock, ExitDrain, StopLock,
         ReleaseResources, queueVars
    <3> QED
      BY <3>1, <3>2
  <2>2. pc' \in Phases
    BY <1>4, <1>type DEF Turning, StartLoop, TestQuit, ControlDone, ReleaseSlot,
       DequeueDone, FunctorsDone, WaitWakeup, WaitOther, LeaveLoop, LeaveLock, ExitDrain,
       StopLock, ReleaseResources, Goto, Phases, LoopPhases, ExitPhases
  <2>3. /\ lifecycleState' \in {"initialized", "running", "stopping", "stopped"}
        /\ stoppingRequested' \in BOOLEAN /\ quit' \in BOOLEAN
        /\ eventfd' \in BOOLEAN /\ released' \in BOOLEAN
    BY <1>4, <1>type DEF Turning, StartLoop, TestQuit, ControlDone, ReleaseSlot,
       DequeueDone, FunctorsDone, WaitWakeup, WaitOther, LeaveLoop, LeaveLock, ExitDrain,
       StopLock, ReleaseResources, lifeVars
  <2> QED
    BY <1>4, <1>type, <2>1, <2>2, <2>3, TurningFrame DEF callVars, controlVars
<1>5. CASE SwapControl
  BY <1>5, <1>type DEF SwapControl, Goto, Phases, LoopPhases, ExitPhases, callVars,
     queueVars, lifeVars
<1>6. CASE RunControl
  BY <1>6, <1>type, HeldTail, SMTT(30) DEF RunControl, callVars, queueVars, lifeVars
<1>7. CASE Dequeue
  <2>1. queue # <<>> /\ queue \in Seq(Tasks)
    BY <1>7, <1>type DEF Dequeue, MayTakeMore, Readable
  <2> QED
    BY <1>7, <1>type, <2>1, HeldTail, SMTT(30) DEF Dequeue, Goto, Phases, LoopPhases, ExitPhases,
       callVars, controlVars, lifeVars
<1>8. CASE RunFunctor
  BY <1>8, <1>type, HeldTail, SMTT(30) DEF RunFunctor, callVars, controlVars, lifeVars
<1>9. CASE UNCHANGED vars
  BY <1>9, <1>type DEF vars, callVars, queueVars, controlVars, lifeVars
<1> QED
  BY <1>1, <1>2, <1>3, <1>4, <1>5, <1>6, <1>7, <1>8, <1>9, NextCases

----------------------------------------------------------------------------
(* The lifecycle lock and the phases of loop() *)

\* At most one quit() is past the exclusive lock, the one that owns it.
LEMMA LockStep ==
  ASSUME IndInv, [Next]_vars PROVE LockInv'
<1>type. /\ quitting \in [Quitters -> QuitSteps] /\ LockInv
         /\ "none" \notin Quitters
  BY ThreadAssumption DEF IndInv, TypeOK
<1>1. ASSUME NEW q \in Quitters, Quitting(q) PROVE LockInv'
  BY <1>1, <1>type DEF Quitting, Quit, RequestStop, BeginStopping, SetQuit, QuitWakeup,
     QuitUnlock, AtQuit, MayOwn, LockInv, Holding, lifeVars
<1>2. ASSUME UNCHANGED <<quitting, owner>> PROVE LockInv'
  BY <1>2, <1>type DEF LockInv
<1>3. ASSUME NEW t \in Tasks, \/ Passing(t) \/ RunInLoop(t) \/ Claim(t)
                              \/ Publish(t) \/ PushControl(t)
      PROVE  UNCHANGED <<quitting, owner>>
  BY <1>3, PassingEffect DEF IndInv, RunInLoop, Claim, Publish, PushControl, lifeVars
<1>4. ASSUME Turning \/ SwapControl \/ RunControl \/ Dequeue \/ RunFunctor \/ UNCHANGED vars
      PROVE  UNCHANGED <<quitting, owner>>
  BY <1>4, TurningFrame DEF SwapControl, RunControl, Dequeue, RunFunctor, vars, lifeVars
<1> QED
  BY <1>1, <1>2, <1>3, <1>4, NextCases

\* What a phase has emptied stays empty: no call can get in any more.
LEMMA PhaseStep ==
  ASSUME IndInv, [Next]_vars PROVE PhaseInv'
<1>inv. TypeOK /\ PhaseInv /\ LockInv /\ "none" \notin Quitters
  BY ThreadAssumption DEF IndInv
<1>1. ASSUME NEW t \in Tasks, Passing(t) PROVE PhaseInv'
  <2>1. UNCHANGED <<queue, batch, control, controlBatch, lifeVars, released, pc>>
    BY <1>1, <1>inv, PassingEffect
  <2>2. ASSUME pc \in ClosedPhases, NEW u \in Tasks PROVE step'[u] \notin LockedSteps
    BY <1>1, <1>inv, <2>2, PassingEffect DEF PhaseInv
  <2> QED
    BY <1>inv, <2>1, <2>2 DEF PhaseInv, Stopping, lifeVars
<1>2. ASSUME NEW t \in Tasks, RunInLoop(t) PROVE PhaseInv'
  <2>1. \A u \in Tasks : step'[u] = step[u] \/ step'[u] \notin LockedSteps
    BY <1>2, <1>inv DEF RunInLoop, At, To, TypeOK, LockedSteps
  <2>2. UNCHANGED <<queue, batch, control, controlBatch, lifeVars, released, pc>>
    BY <1>2 DEF RunInLoop, queueVars, controlVars
  <2> QED
    BY <1>inv, <2>1, <2>2 DEF PhaseInv, Stopping, lifeVars
<1>3. ASSUME NEW t \in Tasks, Claim(t) \/ Publish(t) \/ PushControl(t) PROVE PhaseInv'
  <2>1. step[t] \in LockedSteps
    BY <1>3 DEF Claim, Publish, PushControl, At, LockedSteps
  <2>2. pc \notin ClosedPhases
    BY <1>inv, <2>1 DEF PhaseInv
  <2>3. UNCHANGED <<batch, controlBatch, released, pc>>
    BY <1>3 DEF Claim, Publish, PushControl, controlVars, queueVars
  <2> QED
    BY <1>inv, <2>2, <2>3 DEF PhaseInv, ClosedPhases
<1>4. ASSUME NEW q \in Quitters, Quitting(q) PROVE PhaseInv'
  <2>1. UNCHANGED <<step, queue, batch, control, controlBatch, released, pc>>
    BY <1>4, QuittingFrame DEF callVars, queueVars, controlVars
  <2>2. Stopping => Stopping'
    BY <1>4 DEF Quitting, Quit, RequestStop, BeginStopping, SetQuit, QuitWakeup,
       QuitUnlock, Stopping, lifeVars
  <2>3. Stopping /\ owner = "none" => owner' = "none"
    BY <1>4, <1>inv DEF Quitting, Quit, RequestStop, BeginStopping, SetQuit, QuitWakeup,
       QuitUnlock, AtQuit, LockInv, Holding, lifeVars
  <2> QED
    BY <1>inv, <2>1, <2>2, <2>3 DEF PhaseInv
<1>5. CASE Turning
  <2>0. UNCHANGED <<step, queue, batch, control, controlBatch, owner>>
    BY <1>5, TurningFrame DEF callVars, controlVars
  <2>1. CASE StartLoop \/ TestQuit \/ WaitWakeup \/ WaitOther \/ LeaveLoop
    <3>1. pc \notin ClosedPhases \cup ControlPhases \cup FunctorPhases
      BY <2>1 DEF StartLoop, TestQuit, WaitWakeup, WaitOther, LeaveLoop, Goto,
         ClosedPhases, LastPhases, ControlPhases, FunctorPhases
    <3>2. pc' \notin ClosedPhases /\ UNCHANGED released
      BY <2>1 DEF StartLoop, TestQuit, WaitWakeup, WaitOther, LeaveLoop, Goto,
         ClosedPhases, LastPhases
    <3> QED
      BY <1>inv, <2>0, <3>1, <3>2 DEF PhaseInv, ClosedPhases, LastPhases
  <2>2. CASE ControlDone \/ DequeueDone \/ FunctorsDone \/ ReleaseSlot
    <3>1. /\ pc \in ClosedPhases <=> pc' \in ClosedPhases
          /\ pc # "exitControl" /\ pc # "stopped" /\ pc' \notin LastPhases
          /\ pc' \notin ControlPhases
          /\ pc \in ControlPhases => controlBatch = <<>>
          /\ pc' \notin FunctorPhases /\ pc \in FunctorPhases => batch = <<>>
          /\ UNCHANGED <<lifecycleState, released>>
      BY <2>2 DEF ControlDone, DequeueDone, FunctorsDone, ReleaseSlot, Goto, ClosedPhases,
         LastPhases, ControlPhases, FunctorPhases, lifeVars
    <3> QED
      BY <1>inv, <2>0, <3>1 DEF PhaseInv, Stopping
  <2>3. CASE LeaveLock
    BY <1>inv, <2>0, <2>3 DEF LeaveLock, Goto, MayOwn, PhaseInv, Stopping, ClosedPhases,
       LastPhases, ControlPhases, FunctorPhases
  <2>4. CASE ExitDrain /\ pc = "exitDrain"
    <3>1. pc' = (IF count # 0 THEN "exitDequeue" ELSE "drainOps")
          /\ UNCHANGED <<lifecycleState, released>>
      BY <2>4 DEF ExitDrain, Goto, lifeVars
    <3>2. count = 0 => queue = <<>>
      <4>1. Cardinality(Claiming) \in Nat /\ Len(queue) \in Nat /\ queue \in Seq(Tasks)
        BY FS_CardinalityType DEF IndInv, CountInv, TypeOK
      <4>2. count = 0 => Len(queue) = 0
        BY <2>4, <4>1 DEF IndInv, CountInv, SlotsUsed
      <4> QED
        BY <4>1, <4>2
    <3> QED
      BY <1>inv, <2>0, <2>4, <3>1, <3>2 DEF PhaseInv, Stopping, ClosedPhases,
         LastPhases, ControlPhases, FunctorPhases
  <2>5. CASE (ExitDrain /\ pc # "exitDrain") \/ StopLock \/ ReleaseResources
    <3>1. /\ pc \in {"drainOps", "stopLock", "close"}
          /\ pc' \in {"stopLock", "close", "stopped"}
          /\ released' => released \/ pc' = "stopped"
          /\ lifecycleState' \in {lifecycleState, "stopped"}
      BY <2>5 DEF ExitDrain, StopLock, ReleaseResources, Goto, lifeVars
    <3> QED
      BY <1>inv, <2>0, <3>1 DEF PhaseInv, Stopping, ClosedPhases, LastPhases,
         ControlPhases, FunctorPhases
  <2> QED
    BY <1>5, <2>1, <2>2, <2>3, <2>4, <2>5 DEF Turning
<1>6. CASE SwapControl
  BY <1>inv, <1>6 DEF SwapControl, Goto, PhaseInv, Stopping, ClosedPhases, LastPhases,
     ControlPhases, FunctorPhases, callVars, queueVars, lifeVars
<1>7. CASE RunControl
  BY <1>inv, <1>7 DEF RunControl, PhaseInv, Stopping, ClosedPhases, LastPhases,
     ControlPhases, FunctorPhases, callVars, queueVars, lifeVars
<1>8. CASE Dequeue
  BY <1>inv, <1>8 DEF Dequeue, Goto, PhaseInv, Stopping, ClosedPhases, LastPhases,
     ControlPhases, FunctorPhases, callVars, controlVars, lifeVars
<1>9. CASE RunFunctor
  BY <1>inv, <1>9 DEF RunFunctor, PhaseInv, Stopping, ClosedPhases, LastPhases,
     ControlPhases, FunctorPhases, callVars, controlVars, lifeVars
<1>10. CASE UNCHANGED vars
  BY <1>inv, <1>10 DEF vars, PhaseInv, Stopping, callVars, queueVars, controlVars, lifeVars
<1> QED
  BY <1>1, <1>2, <1>3, <1>4, <1>5, <1>6, <1>7, <1>8, <1>9, <1>10, NextCases

----------------------------------------------------------------------------
(* Where a functor is *)

\* A step that leaves a functor where it is.
LEMMA TaskFrame ==
  ASSUME NEW t \in Tasks, TaskOk(t), ran'[t] = ran[t], step'[t] = step[t],
         Held(queue, t)' <=> Held(queue, t), Held(batch, t)' <=> Held(batch, t),
         Held(control, t)' <=> Held(control, t),
         Held(controlBatch, t)' <=> Held(controlBatch, t),
         t \in published' <=> t \in published
  PROVE  TaskOk(t)'
  BY DEF TaskOk

\* Every step keeps every functor in one place, or runs it.
LEMMA TaskStep ==
  ASSUME IndInv, [Next]_vars PROVE TaskInv'
<1>inv. TypeOK /\ TaskInv
  BY DEF IndInv
<1>type. /\ step \in [Tasks -> Steps] /\ ran \in [Tasks -> Nat]
         /\ queue \in Seq(Tasks) /\ batch \in Seq(Tasks)
         /\ control \in Seq(Tasks) /\ controlBatch \in Seq(Tasks)
         /\ published \in SUBSET Tasks
  BY <1>inv DEF TypeOK
<1>0. ASSUME UNCHANGED <<step, queue, published, batch, control, controlBatch, ran>>
      PROVE  TaskInv'
  BY <1>0, <1>inv, TaskFrame DEF TaskInv
<1>1. ASSUME NEW t \in Tasks, Passing(t) PROVE TaskInv'
  <2>1. UNCHANGED <<queue, published, batch, control, controlBatch, ran>>
    BY <1>1, <1>inv, PassingEffect
  <2>2. \A u \in Tasks \ {t} : TaskOk(u)'
    BY <1>1, <1>inv, <2>1, PassingEffect, TaskFrame DEF TaskInv
  <2>3. TaskOk(t)'
    <3>1. TaskOk(t)
      BY <1>inv DEF TaskInv
    <3> QED
      BY <1>1, <1>inv, <2>1, <3>1, PassingEffect DEF TaskOk, Early, Late
  <2> QED
    BY <1>inv, <2>1, <2>2, <2>3 DEF TaskInv
<1>2. ASSUME NEW t \in Tasks, RunInLoop(t) PROVE TaskInv'
  <2>1. UNCHANGED <<queue, published, batch, control, controlBatch>>
        /\ t \notin ControlTasks
    BY <1>2 DEF RunInLoop, queueVars, controlVars
  <2>2. /\ step[t] = "new"
        /\ \A u \in Tasks \ {t} : step'[u] = step[u] /\ ran'[u] = ran[u]
        /\ \/ step'[t] = "rejected" /\ ran'[t] = ran[t]
           \/ step'[t] = "accepted" /\ ran'[t] = ran[t] + 1
    BY <1>2, <1>type DEF RunInLoop, At, To
  <2>3. \A u \in Tasks \ {t} : TaskOk(u)'
    BY <1>inv, <2>1, <2>2, TaskFrame DEF TaskInv
  <2>4. TaskOk(t)'
    <3>1. TaskOk(t)
      BY <1>inv DEF TaskInv
    <3> QED
      BY <2>1, <2>2, <3>1 DEF TaskOk, Early, Late
  <2> QED
    BY <1>inv, <2>1, <2>3, <2>4 DEF TaskInv
<1>3. ASSUME NEW t \in Tasks, Claim(t) PROVE TaskInv'
  <2>1. /\ UNCHANGED <<published, batch, control, controlBatch, ran>>
        /\ queue' = Append(queue, t) /\ step[t] = "claim"
        /\ step' = [step EXCEPT ![t] = "publish"]
    BY <1>3 DEF Claim, controlVars, At, To
  <2>2. TaskOk(t) /\ ~Held(queue, t)
    BY <1>inv, <2>1 DEF TaskInv, TaskOk, Early
  <2>3. /\ \A u \in Tasks : Held(queue, u)' <=> Held(queue, u) \/ u = t
        /\ Once(queue')
    BY <1>inv, <1>type, <2>1, <2>2, HeldAppend DEF TaskInv
  <2>4. \A u \in Tasks \ {t} : TaskOk(u)'
    BY <1>inv, <1>type, <2>1, <2>3, TaskFrame DEF TaskInv
  <2>5. TaskOk(t)'
    BY <1>type, <2>1, <2>2, <2>3 DEF TaskOk, Early, Late
  <2> QED
    BY <1>inv, <2>1, <2>3, <2>4, <2>5 DEF TaskInv
<1>4. ASSUME NEW t \in Tasks, Publish(t) PROVE TaskInv'
  <2>1. /\ UNCHANGED <<queue, batch, control, controlBatch, ran>>
        /\ published' = published \cup {t} /\ step[t] = "publish"
        /\ step' = [step EXCEPT ![t] = "readMark"]
    BY <1>4 DEF Publish, controlVars, At, To
  <2>2. \A u \in Tasks \ {t} : TaskOk(u)'
    BY <1>inv, <1>type, <2>1, TaskFrame DEF TaskInv
  <2>3. TaskOk(t)
    BY <1>inv DEF TaskInv
  <2>4. TaskOk(t)'
    BY <1>type, <2>1, <2>3 DEF TaskOk, Early, Late
  <2> QED
    BY <1>inv, <2>1, <2>2, <2>4 DEF TaskInv
<1>5. ASSUME NEW t \in Tasks, PushControl(t) PROVE TaskInv'
  <2>1. /\ UNCHANGED <<queue, published, batch, controlBatch, ran>>
        /\ control' = Append(control, t) /\ step[t] = "push"
        /\ step' = [step EXCEPT ![t] = "wake"]
    BY <1>5 DEF PushControl, queueVars, At, To
  <2>2. TaskOk(t) /\ ~Held(control, t)
    BY <1>inv, <2>1 DEF TaskInv, TaskOk, Early
  <2>3. /\ \A u \in Tasks : Held(control, u)' <=> Held(control, u) \/ u = t
        /\ Once(control')
    BY <1>inv, <1>type, <2>1, <2>2, HeldAppend DEF TaskInv
  <2>4. \A u \in Tasks \ {t} : TaskOk(u)'
    BY <1>inv, <1>type, <2>1, <2>3, TaskFrame DEF TaskInv
  <2>5. TaskOk(t)'
    BY <1>type, <2>1, <2>2, <2>3 DEF TaskOk, Early, Late
  <2> QED
    BY <1>inv, <2>1, <2>3, <2>4, <2>5 DEF TaskInv
<1>6. CASE SwapControl
  <2>1. /\ controlBatch' = control /\ control' = <<>> /\ controlBatch = <<>>
        /\ UNCHANGED <<step, queue, published, batch, ran>>
    BY <1>6 DEF SwapControl, Goto, IndInv, PhaseInv, ControlPhases, callVars, queueVars
  <2>2. ASSUME NEW u \in Tasks PROVE TaskOk(u)'
    <3>1. TaskOk(u) /\ ~Held(controlBatch, u)
      BY <1>inv, <2>1, HeldEmpty DEF TaskInv
    <3>2. (Held(controlBatch, u)' <=> Held(control, u)) /\ ~Held(control, u)'
      BY <2>1, HeldEmpty
    <3>3. /\ Held(queue, u)' <=> Held(queue, u)
          /\ Held(batch, u)' <=> Held(batch, u)
      BY <2>1
    <3> QED
      BY <2>1, <3>1, <3>2, <3>3 DEF TaskOk
  <2> QED
    BY <1>inv, <2>1, <2>2, HeldEmpty DEF TaskInv
<1>7. CASE RunControl
  <2>h. controlBatch # <<>>
    BY <1>7 DEF RunControl
  <2>0. PICK h \in Tasks : h = Head(controlBatch)
    BY <1>type, <2>h, HeldTail
  <2>1. /\ controlBatch # <<>> /\ controlBatch' = Tail(controlBatch)
        /\ UNCHANGED <<step, queue, published, batch, control>>
        /\ ran' = [ran EXCEPT ![h] = @ + 1]
    BY <1>7, <2>0 DEF RunControl, callVars, queueVars
  <2>2. /\ h \in Tasks /\ Held(controlBatch, h) /\ ~Held(controlBatch, h)'
        /\ Once(controlBatch')
        /\ \A u \in Tasks \ {h} : Held(controlBatch, u)' <=> Held(controlBatch, u)
    BY <1>inv, <1>type, <2>0, <2>1, HeldTail DEF TaskInv
  <2>3. \A u \in Tasks \ {h} : TaskOk(u)'
    BY <1>inv, <1>type, <2>1, <2>2, TaskFrame DEF TaskInv
  <2>4. TaskOk(h)
    BY <1>inv, <2>2 DEF TaskInv
  <2>5. ran[h] = 0 /\ ran'[h] = 1
    BY <1>type, <2>1, <2>2, <2>4 DEF TaskOk
  <2>6. TaskOk(h)'
    BY <2>1, <2>2, <2>4, <2>5 DEF TaskOk
  <2> QED
    BY <1>inv, <2>1, <2>2, <2>3, <2>6 DEF TaskInv
<1>8. CASE Dequeue
  <2>h. queue # <<>>
    BY <1>8 DEF Dequeue, MayTakeMore, Readable
  <2>0. PICK h \in Tasks : h = Head(queue)
    BY <1>type, <2>h, HeldTail
  <2>1. /\ queue # <<>> /\ h \in published /\ queue' = Tail(queue)
        /\ published' = published \ {h} /\ batch' = Append(batch, h)
        /\ UNCHANGED <<step, control, controlBatch, ran>>
    BY <1>8, <2>0 DEF Dequeue, MayTakeMore, Readable, callVars, controlVars
  <2>2. /\ h \in Tasks /\ Held(queue, h) /\ ~Held(queue, h)'
        /\ Once(queue')
        /\ \A u \in Tasks \ {h} : Held(queue, u)' <=> Held(queue, u)
    BY <1>inv, <1>type, <2>0, <2>1, HeldTail DEF TaskInv
  <2>3. TaskOk(h) /\ ~Held(batch, h)
    BY <1>inv, <2>2 DEF TaskInv, TaskOk
  <2>4. /\ \A u \in Tasks : Held(batch, u)' <=> Held(batch, u) \/ u = h
        /\ Once(batch')
    BY <1>inv, <1>type, <2>1, <2>2, <2>3, HeldAppend DEF TaskInv
  <2>5. \A u \in Tasks \ {h} : TaskOk(u)'
    BY <1>inv, <1>type, <2>1, <2>2, <2>4, TaskFrame DEF TaskInv
  <2>6. TaskOk(h)'
    BY <2>1, <2>2, <2>3, <2>4 DEF TaskOk
  <2> QED
    BY <1>inv, <2>1, <2>2, <2>4, <2>5, <2>6 DEF TaskInv
<1>9. CASE RunFunctor
  <2>h. batch # <<>>
    BY <1>9 DEF RunFunctor
  <2>0. PICK h \in Tasks : h = Head(batch)
    BY <1>type, <2>h, HeldTail
  <2>1. /\ batch # <<>> /\ batch' = Tail(batch)
        /\ UNCHANGED <<step, queue, published, control, controlBatch>>
        /\ ran' = [ran EXCEPT ![h] = @ + 1]
    BY <1>9, <2>0 DEF RunFunctor, callVars, controlVars
  <2>2. /\ h \in Tasks /\ Held(batch, h) /\ ~Held(batch, h)'
        /\ Once(batch')
        /\ \A u \in Tasks \ {h} : Held(batch, u)' <=> Held(batch, u)
    BY <1>inv, <1>type, <2>0, <2>1, HeldTail DEF TaskInv
  <2>3. \A u \in Tasks \ {h} : TaskOk(u)'
    BY <1>inv, <1>type, <2>1, <2>2, TaskFrame DEF TaskInv
  <2>4. TaskOk(h)
    BY <1>inv, <2>2 DEF TaskInv
  <2>5. ran[h] = 0 /\ ran'[h] = 1
    BY <1>type, <2>1, <2>2, <2>4 DEF TaskOk
  <2>6. TaskOk(h)'
    BY <2>1, <2>2, <2>4, <2>5 DEF TaskOk
  <2> QED
    BY <1>inv, <2>1, <2>2, <2>3, <2>6 DEF TaskInv
<1>10. ASSUME NEW q \in Quitters, Quitting(q) PROVE TaskInv'
  BY <1>0, <1>10, QuittingFrame DEF callVars, queueVars, controlVars
<1>11. CASE Turning \/ UNCHANGED vars
  BY <1>0, <1>11, TurningFrame DEF callVars, queueVars, controlVars, vars
<1> QED
  BY <1>1, <1>2, <1>3, <1>4, <1>5, <1>6, <1>7, <1>8, <1>9, <1>10, <1>11, NextCases

----------------------------------------------------------------------------
(* The theorems *)

\* The invariant holds when the EventLoop is constructed.
LEMMA InitInv == Init => IndInv
<1> SUFFICES ASSUME Init PROVE IndInv
  OBVIOUS
<1>1. TypeOK
  <2>1. "new" \in Steps /\ "new" \in QuitSteps /\ "start" \in Phases
    BY DEF Steps, QuitSteps, Phases
  <2>2. step \in [Tasks -> Steps] /\ quitting \in [Quitters -> QuitSteps] /\ pc \in Phases
    BY <2>1 DEF Init
  <2>3. /\ old \in [Tasks -> Nat] /\ ran \in [Tasks -> Nat]
        /\ mark \in [Tasks -> {"none", "high", "low", "toHigh", "toLow"}]
    BY DEF Init
  <2>4. /\ queue \in Seq(Tasks) /\ batch \in Seq(Tasks) /\ published \in SUBSET Tasks
        /\ control \in Seq(Tasks) /\ controlBatch \in Seq(Tasks)
    BY DEF Init
  <2>5. /\ count \in Nat /\ inHighWaterMark \in BOOLEAN
        /\ lifecycleState \in {"initialized", "running", "stopping", "stopped"}
        /\ stoppingRequested \in BOOLEAN /\ quit \in BOOLEAN
        /\ owner \in Quitters \cup {"none", "loop"}
        /\ eventfd \in BOOLEAN /\ released \in BOOLEAN
    BY DEF Init
  <2> QED
    BY <2>2, <2>3, <2>4, <2>5 DEF TypeOK
<1>2. TaskInv
  <2>1. ASSUME NEW t \in Tasks PROVE TaskOk(t)
    BY HeldEmpty DEF Init, TaskOk, Late
  <2> QED
    BY <2>1, HeldEmpty DEF Init, TaskInv
<1>3. LockInv /\ PhaseInv
  BY DEF Init, LockInv, PhaseInv, Holding, ClosedPhases, LastPhases
<1>4. CountInv
  <2>1. Claiming = {}
    BY DEF Init, Claiming
  <2> QED
    BY <2>1, FS_EmptySet, SizeAssumption DEF Init, CountInv, SlotsUsed
<1> QED
  BY <1>1, <1>2, <1>3, <1>4 DEF IndInv

\* A functor is in one queue at a time or has run, the reservations count the
\* slots in use, and what a phase of loop() has emptied stays empty.
THEOREM IngressInvariance == Spec => []IndInv
<1>1. IndInv /\ [Next]_vars => IndInv'
  BY TypeStep, TaskStep, LockStep, PhaseStep, CountStep DEF IndInv
<1> QED
  BY <1>1, InitInv, PTL DEF Spec

\* The ingress boundary: a functor whose call was rejected never runs, an
\* accepted one runs once, and none is left when loop() returns.
THEOREM FunctorsRunOnce == Spec => []AcceptedRunsOnce
<1>1. IndInv => AcceptedRunsOnce
  <2> SUFFICES ASSUME IndInv, NEW t \in Tasks
               PROVE  /\ ran[t] <= 1
                      /\ step[t] = "rejected" => ran[t] = 0
                      /\ pc = "stopped" /\ step[t] = "accepted" => ran[t] = 1
    BY DEF AcceptedRunsOnce
  <2>1. TaskOk(t)
    BY DEF IndInv, TaskInv
  <2>2. pc = "stopped" => /\ queue = <<>> /\ batch = <<>>
                          /\ control = <<>> /\ controlBatch = <<>>
    BY DEF IndInv, PhaseInv, ControlPhases, FunctorPhases, ClosedPhases, LastPhases
  <2>3. pc = "stopped" => /\ ~Held(queue, t) /\ ~Held(batch, t)
                          /\ ~Held(control, t) /\ ~Held(controlBatch, t)
    BY <2>2, HeldEmpty
  <2> QED
    BY <2>1, <2>3 DEF TaskOk, Early, Late
<1> QED
  BY <1>1, IngressInvariance, PTL

\* Types, reservations and lifecycle stay sound up to and after the release of
\* the eventfd, which nobody writes once it is closed.
THEOREM LifecycleIsSafe == Spec => []LifecycleSafe
<1>1. IndInv => LifecycleSafe
  <2>1. ASSUME IndInv, released PROVE NoWakeupAfterRelease
    <3>1. pc \in ClosedPhases
      BY <2>1 DEF IndInv, PhaseInv, ClosedPhases, LastPhases
    <3>2. owner = "none" /\ \A t \in Tasks : step[t] \notin LockedSteps
      BY <2>1, <3>1 DEF IndInv, PhaseInv
    <3>3. \A q \in Quitters : quitting[q] # "wake"
      BY <2>1, <3>2, ThreadAssumption DEF IndInv, LockInv, Holding
    <3> QED
      BY <3>2, <3>3 DEF NoWakeupAfterRelease, LockedSteps
  <2> QED
    BY <2>1 DEF IndInv, LifecycleSafe, NoWakeupAfterRelease
<1> QED
  BY <1>1, IngressInvariance, PTL

\* A call that holds a reservation finds a free slot: the branch of queueInLoop
\* in which enqueue fails and the functor is lost is never taken.
ReservedSlotFree ==
  /\ count <= Capacity
  /\ \A t \in Tasks : step[t] = "claim" => SlotsUsed < SlotCount

\* The reservation counter and the slots of the LockFreeQueue, which are
\* released one after the other, never disagree so that enqueue would fail.
THEOREM ReservationSuffices == Spec => []ReservedSlotFree
<1>1. IndInv => ReservedSlotFree
  <2> SUFFICES ASSUME IndInv, NEW t \in Tasks, step[t] = "claim"
               PROVE  SlotsUsed < SlotCount
    BY DEF ReservedSlotFree, IndInv, CountInv
  <2>1. t \in Claiming /\ IsFiniteSet(Claiming)
    BY DEF Claiming, IndInv, CountInv
  <2>2. Cardinality(Claiming) \in Nat /\ Cardinality(Claiming) # 0
    BY <2>1, FS_CardinalityType, FS_EmptySet
  <2>3. Len(queue) \in Nat
    BY DEF IndInv, TypeOK
  <2> QED
    BY <2>2, <2>3, SizeAssumption DEF IndInv, CountInv, SlotsUsed
<1> QED
  BY <1>1, IngressInvariance, PTL

=============================================================================
