------------------------- MODULE IoOperationsProofs -------------------------
(***************************************************************************)
(* Proofs about IoOperations for every set of operations, every ring size  *)
(* and every pending-queue capacity: type correctness, exactly-once        *)
(* delivery, ownership of an operation until its last CQE, and a clean     *)
(* stop, results that say what happened, and the refinement of             *)
(* OperationContract.  The inductive invariant ties pendingCqes_ to the    *)
(* number of SQEs and CQEs that still name the operation.                  *)
(***************************************************************************)
EXTENDS IoOperations, SequenceTheorems, TLAPS

Outstanding(o, k) == IF slot[o][k] = "none" THEN 0 ELSE 1

\* pendingCqes_ counts exactly the SQEs and CQEs that name the operation.
Accounting ==
  \A o \in Ops : pendingCqes[o] = Outstanding(o, "io") + Outstanding(o, "timeout")
                   + Outstanding(o, "cancel") + Outstanding(o, "drain")

\* What each place says about the tokens and the result of an operation.
PlaceInv ==
  \A o \in Ops :
    /\ place[o] # "inflight" => \A k \in Kinds : slot[o][k] = "none"
    /\ place[o] = "inflight" => pendingCqes[o] # 0
    /\ place[o] \in {"fresh", "pending"} => result[o] = "none"
    /\ place[o] \in {"rejected", "drained"} => result[o] # "none"
    /\ resumed[o] = (IF result[o] = "none" THEN 0 ELSE 1)

\* The pending queue holds the pending operations, each once.
QueueInv ==
  /\ \A i \in 1..Len(pendingSubs) : place[pendingSubs[i]] = "pending"
  /\ \A i, j \in 1..Len(pendingSubs) : pendingSubs[i] = pendingSubs[j] => i = j
  /\ \A o \in Ops : place[o] = "pending"
                      => \E i \in 1..Len(pendingSubs) : pendingSubs[i] = o

\* A cancel SQE is there only after a request, and never beside a retry.
CancelInv ==
  \A o \in Ops :
    /\ slot[o]["cancel"] # "none" => cancelRequested[o] /\ retry[o] = "none"
    /\ retry[o] # "none" => cancelRequested[o]

\* The shutdown drain starts from nothing and with the submissions closed.
DrainInv ==
  /\ pc \in LoopPhases \cup ExitPhases => todo = {}
  /\ pc \in LoopPhases \cup ExitPhases
       => \A o \in Ops : slot[o]["drain"] = "none"
  /\ \A o \in todo : slot[o]["drain"] = "none"
  /\ pc \notin LoopPhases \cup {"exit"} => stoppingRequested
  /\ pc \in DrainPhases \cup {"stopped"} => pendingSubs = <<>>
  /\ pc = "stopped" => \A o \in Ops : place[o] # "inflight"

IndInv == TypeOK /\ Accounting /\ PlaceInv /\ QueueInv /\ CancelInv /\ DrainInv

----------------------------------------------------------------------------
(* Type correctness *)

\* errorFromKernelResult always names an error.
LEMMA ErrorType ==
  ASSUME NEW e PROVE ErrorFromKernelResult(e) \in Results \ {"none"}
  BY DEF ErrorFromKernelResult, Results

\* What a CQE selects is a result, or nothing.
LEMMA SelectedType ==
  ASSUME NEW o, NEW k, NEW r PROVE Selected(o, k, r) \in Results
<1>1. ErrorFromKernelResult(r) \in Results
  BY ErrorType
<1> QED
  BY <1>1 DEF Selected, Results

\* onCompletion keeps the CQE count a number and yields a result.
LEMMA CompletionType ==
  ASSUME TypeOK, NEW o \in Ops, NEW k, NEW r
  PROVE  CqesLeft(o) \in Nat /\ OnCompletion(o, k, r) \in Results
<1>1. Selected(o, k, r) \in Results
  BY SelectedType
<1>2. pendingCqes[o] \in Nat /\ "none" \in Results /\ "cancelled" \in Results
  BY DEF TypeOK, Results
<1> QED
  BY <1>1, <1>2 DEF OnCompletion, CqesLeft

\* The values the actions put into a slot.
LEMMA SlotFacts ==
  /\ "none" \in SlotValues /\ "sq" \in SlotValues /\ "kernel" \in SlotValues
  /\ "running" \in SlotValues /\ "doomed" \in SlotValues
  /\ "firing" \in SlotValues /\ "bytes" \in SlotValues /\ "zero" \in SlotValues
  /\ "EALREADY" \in SlotValues /\ "ENOENT" \in SlotValues
  /\ "ETIME" \in SlotValues /\ "ECANCELED" \in SlotValues
  /\ \A r \in IoErrors : r \in SlotValues
  /\ \A r \in CqeResults : r \in SlotValues
  /\ "none" \notin CqeResults
  /\ "io" \in Kinds /\ "timeout" \in Kinds /\ "cancel" \in Kinds /\ "drain" \in Kinds
  BY ErrnoAssumption DEF SlotValues, InKernel, CqeResults, Errnos, Kinds

\* One slot of one operation may be overwritten.
LEMMA SlotUpdate ==
  ASSUME NEW f \in [Ops -> [Kinds -> SlotValues]], NEW o \in Ops,
         NEW k \in Kinds, NEW v \in SlotValues
  PROVE  [f EXCEPT ![o][k] = v] \in [Ops -> [Kinds -> SlotValues]]
  OBVIOUS

\* An SQE of one kind leaves the operation's SQEs of the other kinds alone.
LEMMA OtherKind ==
  ASSUME TypeOK, NEW o \in Ops, NEW k \in Kinds, NEW j \in Kinds, j # k,
         UNCHANGED slot \/ slot' = [slot EXCEPT ![o][k] = "sq"]
  PROVE  \A p \in Ops : slot'[p][j] = slot[p][j]
<1>1. slot \in [Ops -> [Kinds -> SlotValues]]
  BY DEF TypeOK
<1>2. CASE slot' = [slot EXCEPT ![o][k] = "sq"]
  BY <1>1, <1>2
<1> QED
  BY <1>2

\* prepareSubmission fills the I/O and timeout SQEs only.
LEMMA PrepareKinds ==
  ASSUME TypeOK, NEW o \in Ops, PrepareSubmission(o)
  PROVE  \A p \in Ops : /\ slot'[p]["cancel"] = slot[p]["cancel"]
                        /\ slot'[p]["drain"] = slot[p]["drain"]
<1>1. slot \in [Ops -> [Kinds -> SlotValues]]
  BY DEF TypeOK
<1>2. "cancel" \notin SqesOf(o) /\ "drain" \notin SqesOf(o)
  BY DEF SqesOf
<1> QED
  BY <1>1, <1>2, SlotFacts DEF PrepareSubmission

\* Every action keeps every variable in its type.
LEMMA TypeStep == TypeOK /\ [Next]_vars => TypeOK'
<1> SUFFICES ASSUME TypeOK, [Next]_vars PROVE TypeOK'
  OBVIOUS
<1> DEFINE SlotType == [Ops -> [Kinds -> SlotValues]]
<1>slot. slot \in SlotType
  BY DEF TypeOK
<1>cqes. pendingCqes \in [Ops -> Nat]
  BY DEF TypeOK
<1>retry. retry \in [Ops -> {"none", "queued", "batch"}] /\ eventfd \in BOOLEAN
  BY DEF TypeOK
<1>1. ASSUME NEW o \in Ops, SubmitOperation(o) PROVE TypeOK'
  <2>0. UNCHANGED <<stoppingRequested, quit, ringVars, pc>>
    BY <1>1 DEF SubmitOperation
  <2>1. ASSUME NEW r \in Results, Reject(o, r) PROVE TypeOK'
    BY <2>0, <2>1 DEF Reject, Deliver, loopVars, ringVars, Places, TypeOK
  <2>2. CASE /\ PrepareSubmission(o)
             /\ UNCHANGED <<seen, cancelRequested, result, resumed, loopVars>>
    <3>1. slot' \in SlotType
      BY <1>slot, <2>2, SlotFacts DEF PrepareSubmission
    <3> QED
      BY <2>0, <2>2, <3>1 DEF PrepareSubmission, SqeCount, loopVars, ringVars,
         Places, TypeOK
  <2>3. CASE /\ pendingSubs' = Append(pendingSubs, o)
             /\ place' = [place EXCEPT ![o] = "pending"]
             /\ UNCHANGED <<slot, seen, pendingCqes, cancelRequested, result,
                            resumed, retry, todo>>
    BY <2>0, <2>3 DEF ringVars, Places, TypeOK
  <2>4. "cancelled" \in Results /\ "resourceExhausted" \in Results
    BY DEF Results
  <2> QED
    BY <1>1, <2>1, <2>2, <2>3, <2>4 DEF SubmitOperation
<1>2. ASSUME NEW o \in Ops, SubmitOffLoop(o) PROVE TypeOK'
  BY <1>2 DEF SubmitOffLoop, Reject, Deliver, loopVars, ringVars, Results,
     Places, TypeOK
<1>3. ASSUME NEW o \in Ops, CancelPending(o) PROVE TypeOK'
  <2>1. PICK i \in 1..Len(pendingSubs) :
          pendingSubs' = SubSeq(pendingSubs, 1, i - 1)
                           \o SubSeq(pendingSubs, i + 1, Len(pendingSubs))
    BY <1>3 DEF CancelPending
  <2>2. pendingSubs' \in Seq(Ops)
    BY <2>1, SMTT(30) DEF TypeOK
  <2> QED
    BY <1>3, <2>2, SMTT(30) DEF CancelPending, Deliver, ringVars, Results, Places, TypeOK
<1>4. ASSUME NEW o \in Ops, CancelInFlight(o) PROVE TypeOK'
  <2>1. slot' = slot \/ slot' = [slot EXCEPT ![o]["cancel"] = "sq"]
    BY <1>4 DEF CancelInFlight, SubmitCancel
  <2>2. slot' \in SlotType
    BY <1>slot, <2>1, SlotFacts
  <2>3. pendingCqes' \in [Ops -> Nat]
    BY <1>4, <1>cqes DEF CancelInFlight, SubmitCancel
  <2>4. retry' \in [Ops -> {"none", "queued", "batch"}] /\ eventfd' \in BOOLEAN
    BY <1>4, <1>retry DEF CancelInFlight, QueueRetry
  <2> QED
    BY <1>4, <2>2, <2>3, <2>4 DEF CancelInFlight, TypeOK
<1>5. ASSUME NEW o \in Ops, RetryCancel(o) PROVE TypeOK'
  <2>1. slot' = slot \/ slot' = [slot EXCEPT ![o]["cancel"] = "sq"]
    BY <1>5 DEF RetryCancel, SubmitCancel
  <2>2. slot' \in SlotType
    BY <1>slot, <2>1, SlotFacts
  <2>3. pendingCqes' \in [Ops -> Nat]
    BY <1>5, <1>cqes DEF RetryCancel, SubmitCancel
  <2>4. retry' \in [Ops -> {"none", "queued", "batch"}] /\ eventfd' \in BOOLEAN
    BY <1>5, <1>retry DEF RetryCancel, QueueRetry
  <2> QED
    BY <1>5, <2>2, <2>3, <2>4 DEF RetryCancel, TypeOK
<1>6. ASSUME FlushPendingSubmission PROVE TypeOK'
  <2>1. Head(pendingSubs) \in Ops /\ Tail(pendingSubs) \in Seq(Ops)
    BY <1>6 DEF FlushPendingSubmission, HeadFits, TypeOK
  <2>2. slot' \in SlotType
    BY <1>6, <1>slot, <2>1, SlotFacts DEF FlushPendingSubmission, PrepareSubmission
  <2> QED
    BY <1>6, <2>1, <2>2 DEF FlushPendingSubmission, PrepareSubmission, SqeCount,
       ringVars, Places, TypeOK
<1>7. ASSUME NEW o \in Ops, NEW k \in Kinds, HandleCompletion(o, k) PROVE TypeOK'
  <2> DEFINE r == OnCompletion(o, k, slot[o][k])
  <2>1. CqesLeft(o) \in Nat /\ r \in Results
    BY CompletionType
  <2>2. slot' \in SlotType
    BY <1>7, <1>slot, SlotFacts, SlotUpdate DEF HandleCompletion
  <2>3. seen' \in [Ops -> [{"io", "timeout"} -> {"none"} \cup CqeResults]]
    BY <1>7 DEF HandleCompletion, TypeOK
  <2>4. pendingCqes' \in [Ops -> Nat] /\ place' \in [Ops -> Places]
    BY <1>7, <2>1 DEF HandleCompletion, Places, TypeOK
  <2>5. result' \in [Ops -> Results] /\ resumed' \in [Ops -> Nat]
    <3> HIDE DEF r
    <3>1. CASE Deliver(o, r)
      BY <2>1, <3>1 DEF Deliver, TypeOK
    <3>2. CASE UNCHANGED <<result, resumed>>
      BY <3>2 DEF TypeOK
    <3> QED
      BY <1>7, <3>1, <3>2 DEF HandleCompletion, r
  <2> QED
    BY <1>7, <2>2, <2>3, <2>4, <2>5 DEF HandleCompletion, loopVars, ringVars,
       TypeOK
<1>8. ASSUME DrainPending PROVE TypeOK'
  <2>1. Head(pendingSubs) \in Ops /\ Tail(pendingSubs) \in Seq(Ops)
    BY <1>8 DEF DrainPending, TypeOK
  <2> QED
    BY <1>8, <2>1 DEF DrainPending, Deliver, ringVars, Places, Results, TypeOK
<1>9. ASSUME DrainRequestCancels PROVE TypeOK'
  BY <1>9 DEF DrainRequestCancels, InFlight, Goto, ringVars, Phases,
     DrainPhases, TypeOK
<1>10. ASSUME NEW o \in Ops, DrainCancel(o) PROVE TypeOK'
  <2>1. slot' = slot \/ slot' = [slot EXCEPT ![o]["drain"] = "sq"]
    BY <1>10 DEF DrainCancel, SubmitCancel
  <2>2. slot' \in SlotType
    BY <1>slot, <2>1, SlotFacts
  <2>3. pendingCqes' \in [Ops -> Nat]
    BY <1>10, <1>cqes DEF DrainCancel, SubmitCancel
  <2> QED
    BY <1>10, <2>2, <2>3 DEF DrainCancel, ringVars, TypeOK
<1>11. ASSUME DoControlFunctors \/ ControlFunctorsDone \/ PendingFunctorsDone
              \/ FlushDone \/ WaitCqe \/ CqesDone \/ LeaveLoop
              \/ DrainCancelsDone \/ DrainDone \/ WaitInterrupted \/ RingError
       PROVE TypeOK'
  BY <1>11, ZenonT(40) DEF DoControlFunctors, ControlFunctorsDone, PendingFunctorsDone,
     FlushDone, WaitCqe, CqesDone, LeaveLoop, DrainCancelsDone, DrainDone,
     WaitInterrupted, RingError, Goto, SwapControl, opVars, loopVars, ringVars,
     Phases, LoopPhases, ExitPhases, DrainPhases, TypeOK
<1>12. ASSUME SubmitRing \/ HandleWakeup PROVE TypeOK'
  <2>1. slot' \in SlotType
    BY <1>12, <1>slot, SlotFacts DEF SubmitRing, HandleWakeup, opVars
  <2> QED
    BY <1>12, <2>1 DEF SubmitRing, HandleWakeup, Goto, opVars, loopVars,
       ringVars, Phases, LoopPhases, DrainPhases, TypeOK
<1>13. ASSUME NEW o \in Ops, KernelIo(o) \/ KernelRun(o) \/ KernelTimer(o)
       PROVE TypeOK'
  <2>1. slot' \in SlotType
    <3>1. CASE KernelIo(o)
      <4>1. PICK r \in {"bytes", "zero"} \cup IoErrors :
              slot' = [slot EXCEPT ![o]["io"] = r,
                                   ![o]["timeout"] = IF @ = "kernel"
                                                     THEN "doomed" ELSE @]
        BY <3>1 DEF KernelIo
      <4>2. r \in SlotValues
        BY SlotFacts
      <4> QED
        BY <1>slot, <4>1, <4>2, SlotFacts
    <3>2. CASE KernelRun(o)
      BY <1>slot, <3>2, SlotFacts, SlotUpdate DEF KernelRun
    <3>3. CASE KernelTimer(o)
      BY <1>slot, <3>3, SlotFacts DEF KernelTimer
    <3> QED
      BY <1>13, <3>1, <3>2, <3>3
  <2> QED
    BY <1>13, <2>1 DEF KernelIo, KernelRun, KernelTimer, loopVars, ringVars,
       TypeOK
<1>14. ASSUME NEW o \in Ops, NEW k \in Kinds, KernelCancel(o, k) \/ KernelPost(o, k)
       PROVE TypeOK'
  <2>1. slot' \in SlotType
    <3>1. CASE KernelCancel(o, k)
      BY <1>slot, <3>1, SlotFacts DEF KernelCancel
    <3>2. CASE KernelPost(o, k)
      BY <1>slot, <3>2, SlotFacts DEF KernelPost
    <3> QED
      BY <1>14, <3>1, <3>2
  <2> QED
    BY <1>14, <2>1 DEF KernelCancel, KernelPost, loopVars, ringVars, TypeOK
<1>15. ASSUME KernelWakeup \/ RequestStop \/ CommitStop \/ PostFunctor PROVE TypeOK'
  BY <1>15 DEF KernelWakeup, RequestStop, CommitStop, PostFunctor, opVars,
     loopVars, ringVars, TypeOK
<1>16. CASE UNCHANGED vars
  BY <1>16 DEF vars, opVars, loopVars, ringVars, TypeOK
<1> QED
  BY <1>1, <1>2, <1>3, <1>4, <1>5, <1>6, <1>7, <1>8, <1>9, <1>10, <1>11, <1>12,
     <1>13, <1>14, <1>15, <1>16
  DEF Next, UserStep, LoopStep, KernelStep, OtherStep, Idle

\* The state the constructor leaves is well typed.
LEMMA InitType == Init => TypeOK
<1> SUFFICES ASSUME Init PROVE TypeOK
  OBVIOUS
<1>1. "none" \in SlotValues /\ "none" \in Results /\ "fresh" \in Places
      /\ "control" \in Phases
  BY SlotFacts DEF Results, Places, Phases, LoopPhases
<1>2. slot \in [Ops -> [Kinds -> SlotValues]]
  BY <1>1 DEF Init
<1>3. seen \in [Ops -> [{"io", "timeout"} -> {"none"} \cup CqeResults]]
  BY DEF Init
<1>4. place \in [Ops -> Places] /\ result \in [Ops -> Results]
  BY <1>1 DEF Init
<1>5. pendingSubs \in Seq(Ops) /\ todo \in SUBSET Ops /\ pc \in Phases
  BY <1>1 DEF Init
<1>6. /\ pendingCqes \in [Ops -> Nat]
      /\ resumed \in [Ops -> Nat]
      /\ cancelRequested \in [Ops -> BOOLEAN]
      /\ retry \in [Ops -> {"none", "queued", "batch"}]
  BY DEF Init
<1>7. /\ stoppingRequested \in BOOLEAN /\ quit \in BOOLEAN /\ eventfd \in BOOLEAN
      /\ wake \in {"sq", "kernel", "cq", "lost"}
  BY DEF Init
<1> QED
  BY <1>2, <1>3, <1>4, <1>5, <1>6, <1>7 DEF TypeOK

\* The loop, the operations and the ring only ever hold values of their types,
\* whatever the operations, the ring size and the queue capacity.
THEOREM TypeCorrect == Spec => []TypeOK
<1>1. Init => TypeOK
  BY InitType
<1>2. TypeOK /\ [Next]_vars => TypeOK'
  BY TypeStep
<1> QED
  BY <1>1, <1>2, PTL DEF Spec

----------------------------------------------------------------------------
(* The inductive invariant *)

\* Steps that leave the operations, the queue and the drain list alone.
Quiet ==
  \/ DoControlFunctors \/ ControlFunctorsDone \/ PendingFunctorsDone
  \/ FlushDone \/ WaitCqe \/ CqesDone \/ LeaveLoop \/ DrainCancelsDone
  \/ DrainDone \/ WaitInterrupted \/ RingError \/ HandleWakeup \/ KernelWakeup
  \/ RequestStop \/ CommitStop \/ PostFunctor \/ UNCHANGED vars

\* Steps that move SQEs and CQEs along without creating or consuming one.
Moving ==
  \/ SubmitRing
  \/ \E o \in Ops : KernelIo(o) \/ KernelRun(o) \/ KernelTimer(o)
  \/ \E o \in Ops, k \in Kinds : KernelCancel(o, k) \/ KernelPost(o, k)

\* The steps of the system, with those that touch no operation and those that
\* only move tokens along taken together.
LEMMA NextCases ==
  ASSUME [Next]_vars
  PROVE  \/ Quiet \/ Moving \/ FlushPendingSubmission \/ DrainPending
         \/ DrainRequestCancels
         \/ \E o \in Ops : \/ SubmitOperation(o) \/ SubmitOffLoop(o)
                           \/ CancelPending(o) \/ CancelInFlight(o)
                           \/ RetryCancel(o) \/ DrainCancel(o)
         \/ \E o \in Ops, k \in Kinds : HandleCompletion(o, k)
  BY DEF Next, UserStep, LoopStep, KernelStep, OtherStep, Idle, Quiet, Moving

\* A quiet step leaves the operations, the pending queue and their tokens alone.
LEMMA QuietFrame ==
  ASSUME Quiet PROVE UNCHANGED <<opVars, pendingSubs, todo>>
  BY DEF Quiet, DoControlFunctors, ControlFunctorsDone, PendingFunctorsDone,
     FlushDone, WaitCqe, CqesDone, LeaveLoop, DrainCancelsDone, DrainDone,
     WaitInterrupted, RingError, HandleWakeup, KernelWakeup, RequestStop,
     CommitStop, PostFunctor, vars, loopVars

\* A moving step changes slots and nothing else about an operation.
LEMMA MovingFrame ==
  ASSUME Moving
  PROVE  UNCHANGED <<place, pendingCqes, cancelRequested, result, resumed,
                     loopVars, stoppingRequested>>
  BY DEF Moving, SubmitRing, KernelIo, KernelRun, KernelTimer, KernelCancel,
     KernelPost

\* A moving step neither frees a slot nor occupies a free one.
LEMMA MovingTokens ==
  ASSUME TypeOK, Moving
  PROVE  \A o \in Ops, k \in Kinds : slot'[o][k] = "none" <=> slot[o][k] = "none"
<1>slot. slot \in [Ops -> [Kinds -> SlotValues]]
  BY DEF TypeOK
<1>1. CASE SubmitRing
  BY <1>1 DEF SubmitRing
<1>2. ASSUME NEW o \in Ops, KernelIo(o)
      PROVE \A p \in Ops, k \in Kinds : slot'[p][k] = "none" <=> slot[p][k] = "none"
  <2>1. PICK r \in {"bytes", "zero"} \cup IoErrors :
          slot' = [slot EXCEPT ![o]["io"] = r,
                               ![o]["timeout"] = IF @ = "kernel"
                                                 THEN "doomed" ELSE @]
    BY <1>2 DEF KernelIo
  <2>2. r # "none"
    BY ErrnoAssumption DEF Errnos
  <2> QED
    BY <1>2, <1>slot, <2>1, <2>2, SlotFacts DEF KernelIo
<1>3. ASSUME NEW o \in Ops, KernelRun(o) \/ KernelTimer(o)
      PROVE \A p \in Ops, k \in Kinds : slot'[p][k] = "none" <=> slot[p][k] = "none"
  BY <1>3, <1>slot, SlotFacts DEF KernelRun, KernelTimer
<1>4. ASSUME NEW o \in Ops, NEW j \in Kinds, KernelCancel(o, j)
      PROVE \A p \in Ops, k \in Kinds : slot'[p][k] = "none" <=> slot[p][k] = "none"
  BY <1>4, <1>slot, SlotFacts DEF KernelCancel
<1>5. ASSUME NEW o \in Ops, NEW j \in Kinds, KernelPost(o, j)
      PROVE \A p \in Ops, k \in Kinds : slot'[p][k] = "none" <=> slot[p][k] = "none"
  BY <1>5, <1>slot DEF KernelPost
<1> QED
  BY <1>1, <1>2, <1>3, <1>4, <1>5 DEF Moving

\* Preparing a submission occupies as many slots as it arms CQEs.
LEMMA PrepareCounts ==
  ASSUME TypeOK, Accounting, NEW o \in Ops, PrepareSubmission(o),
         \A k \in Kinds : slot[o][k] = "none"
  PROVE  Accounting' /\ pendingCqes'[o] # 0
<1>1. \A p \in Ops \ {o} : slot'[p] = slot[p] /\ pendingCqes'[p] = pendingCqes[p]
  BY DEF PrepareSubmission, TypeOK
<1>2. pendingCqes'[o] = SqeCount(o)
  BY DEF PrepareSubmission, TypeOK
<1>3. /\ slot'[o]["io"] = "sq"
      /\ slot'[o]["timeout"] = IF o \in LinkedOps THEN "sq" ELSE "none"
      /\ slot'[o]["cancel"] = "none"
      /\ slot'[o]["drain"] = "none"
  BY SlotFacts DEF PrepareSubmission, SqesOf, TypeOK
<1> QED
  BY <1>1, <1>2, <1>3 DEF Accounting, Outstanding, SqeCount

\* So does a cancel SQE.
LEMMA CancelCounts ==
  ASSUME TypeOK, Accounting, NEW o \in Ops, NEW k \in {"cancel", "drain"},
         SubmitCancel(o, k), slot[o][k] = "none"
  PROVE  Accounting' /\ pendingCqes'[o] # 0
<1>1. \A p \in Ops \ {o} : slot'[p] = slot[p] /\ pendingCqes'[p] = pendingCqes[p]
  BY DEF SubmitCancel, TypeOK
<1>2. pendingCqes'[o] = pendingCqes[o] + 1 /\ pendingCqes[o] \in Nat
  BY DEF SubmitCancel, TypeOK
<1>3. slot'[o][k] = "sq" /\ \A j \in Kinds \ {k} : slot'[o][j] = slot[o][j]
  BY SlotFacts DEF SubmitCancel, TypeOK
<1>4. CASE k = "cancel"
  BY <1>1, <1>2, <1>3, <1>4, SlotFacts DEF Accounting, Outstanding
<1>5. CASE k = "drain"
  BY <1>1, <1>2, <1>3, <1>5, SlotFacts DEF Accounting, Outstanding
<1> QED
  BY <1>4, <1>5

\* What one completion event does to the operation it names, and to no other.
LEMMA CompletionEffect ==
  ASSUME IndInv, NEW o \in Ops, NEW k \in Kinds, HandleCompletion(o, k)
  PROVE  /\ place[o] = "inflight"
         /\ slot[o][k] # "none"
         /\ slot'[o][k] = "none"
         /\ \A j \in Kinds \ {k} : slot'[o][j] = slot[o][j]
         /\ pendingCqes'[o] = pendingCqes[o] - 1
         /\ place'[o] = IF pendingCqes'[o] = 0 THEN "drained" ELSE "inflight"
         /\ \A p \in Ops \ {o} :
              /\ slot'[p] = slot[p]
              /\ pendingCqes'[p] = pendingCqes[p]
              /\ place'[p] = place[p]
              /\ result'[p] = result[p]
              /\ resumed'[p] = resumed[p]
<1>1. slot[o][k] # "none"
  BY SlotFacts DEF HandleCompletion
<1>2. place[o] = "inflight"
  BY <1>1 DEF IndInv, PlaceInv
<1>3. pendingCqes[o] \in Nat \ {0}
  BY <1>2 DEF IndInv, PlaceInv, TypeOK
<1>4. slot'[o][k] = "none" /\ \A j \in Kinds \ {k} : slot'[o][j] = slot[o][j]
  BY DEF HandleCompletion, IndInv, TypeOK
<1>5. \A p \in Ops \ {o} : slot'[p] = slot[p]
  BY DEF HandleCompletion, IndInv, TypeOK
<1>6. /\ pendingCqes' = [pendingCqes EXCEPT ![o] = CqesLeft(o)]
      /\ place' = [place EXCEPT ![o] = IF CqesLeft(o) = 0 THEN "drained" ELSE @]
  BY <1>2 DEF HandleCompletion
<1>7. CqesLeft(o) = pendingCqes[o] - 1
  BY <1>3 DEF CqesLeft
<1>8. \A p \in Ops \ {o} : result'[p] = result[p] /\ resumed'[p] = resumed[p]
  BY <1>2 DEF HandleCompletion, Deliver, IndInv, TypeOK
<1> QED
  BY <1>1, <1>2, <1>4, <1>5, <1>6, <1>7, <1>8 DEF IndInv, TypeOK

\* A token leaves the ring's hands exactly when its CQE is counted.
LEMMA AccountingStep == IndInv /\ [Next]_vars => Accounting'
<1> SUFFICES ASSUME IndInv, [Next]_vars PROVE Accounting'
  OBVIOUS
<1>t. TypeOK /\ Accounting
  BY DEF IndInv
<1>1. CASE Quiet
  BY <1>1, <1>t, QuietFrame DEF Accounting, Outstanding, opVars
<1>2. CASE Moving
  BY <1>2, <1>t, MovingFrame, MovingTokens, SlotFacts DEF Accounting, Outstanding
<1>3. ASSUME NEW o \in Ops, SubmitOperation(o) PROVE Accounting'
  <2>1. CASE PrepareSubmission(o)
    <3>1. \A k \in Kinds : slot[o][k] = "none"
      BY <1>3 DEF SubmitOperation, UserMaySubmit, IndInv, PlaceInv
    <3> QED
      BY <1>t, <2>1, <3>1, PrepareCounts
  <2>2. CASE UNCHANGED <<slot, pendingCqes>>
    BY <1>t, <2>2 DEF Accounting, Outstanding
  <2> QED
    BY <1>3, <2>1, <2>2 DEF SubmitOperation, Reject
<1>4. ASSUME NEW o \in Ops, CancelInFlight(o) PROVE Accounting'
  <2>1. slot[o]["cancel"] = "none"
    BY <1>4 DEF CancelInFlight, MayRequestCancel, IndInv, CancelInv
  <2>2. CASE SubmitCancel(o, "cancel")
    BY <1>t, <2>1, <2>2, CancelCounts
  <2>3. CASE UNCHANGED <<slot, pendingCqes>>
    BY <1>t, <2>3 DEF Accounting, Outstanding
  <2> QED
    BY <1>4, <2>2, <2>3 DEF CancelInFlight
<1>5. ASSUME NEW o \in Ops, RetryCancel(o) PROVE Accounting'
  <2>1. slot[o]["cancel"] = "none"
    BY <1>5 DEF RetryCancel, IndInv, CancelInv
  <2>2. CASE SubmitCancel(o, "cancel")
    BY <1>t, <2>1, <2>2, CancelCounts
  <2>3. CASE UNCHANGED <<slot, pendingCqes>>
    BY <1>t, <2>3 DEF Accounting, Outstanding
  <2> QED
    BY <1>5, <2>2, <2>3 DEF RetryCancel
<1>6. ASSUME NEW o \in Ops, DrainCancel(o) PROVE Accounting'
  <2>1. slot[o]["drain"] = "none"
    BY <1>6 DEF DrainCancel, IndInv, DrainInv
  <2>2. CASE SubmitCancel(o, "drain")
    BY <1>t, <2>1, <2>2, CancelCounts
  <2>3. CASE UNCHANGED <<slot, pendingCqes>>
    BY <1>t, <2>3 DEF Accounting, Outstanding
  <2> QED
    BY <1>6, <2>2, <2>3 DEF DrainCancel
<1>7. CASE FlushPendingSubmission
  <2> DEFINE o == Head(pendingSubs)
  <2>1. o \in Ops /\ place[o] = "pending"
    BY <1>7, <1>t DEF FlushPendingSubmission, HeadFits, IndInv, QueueInv, TypeOK
  <2>2. \A k \in Kinds : slot[o][k] = "none"
    BY <2>1 DEF IndInv, PlaceInv
  <2> HIDE DEF o
  <2>3. PrepareSubmission(o)
    BY <1>7 DEF FlushPendingSubmission, o
  <2> QED
    BY <1>t, <2>1, <2>2, <2>3, PrepareCounts
<1>8. ASSUME NEW o \in Ops, NEW k \in Kinds, HandleCompletion(o, k)
      PROVE Accounting'
  <2>1. k \in {"io", "timeout", "cancel", "drain"} /\ pendingCqes[o] \in Nat
    BY <1>t DEF Kinds, TypeOK
  <2> QED
    BY <1>8, <1>t, <2>1, CompletionEffect, SlotFacts DEF Accounting, Outstanding
<1>9. ASSUME \/ DrainPending \/ DrainRequestCancels
             \/ \E o \in Ops : SubmitOffLoop(o) \/ CancelPending(o)
      PROVE Accounting'
  BY <1>9, <1>t DEF DrainPending, DrainRequestCancels, SubmitOffLoop, Reject,
     CancelPending, Accounting, Outstanding
<1> QED
  BY <1>1, <1>2, <1>3, <1>4, <1>5, <1>6, <1>7, <1>8, <1>9, NextCases

\* A waiter without a result is resumed for the first time.
LEMMA DeliverOnce ==
  ASSUME TypeOK, PlaceInv, NEW o \in Ops, NEW r, result[o] = "none",
         Deliver(o, r)
  PROVE  /\ result'[o] = r /\ resumed'[o] = 1
         /\ \A p \in Ops \ {o} : result'[p] = result[p] /\ resumed'[p] = resumed[p]
  BY DEF Deliver, TypeOK, PlaceInv

\* An operation that never reached the ring may be turned down.
LEMMA RejectPlace ==
  ASSUME IndInv, NEW o \in Ops, NEW r, r # "none", Deliver(o, r),
         place[o] \in {"fresh", "pending"},
         place' = [place EXCEPT ![o] = "rejected"],
         UNCHANGED <<slot, pendingCqes>>
  PROVE  PlaceInv'
<1>1. TypeOK /\ PlaceInv /\ result[o] = "none"
  BY DEF IndInv, PlaceInv
<1>2. /\ result'[o] = r /\ resumed'[o] = 1
      /\ \A p \in Ops \ {o} : result'[p] = result[p] /\ resumed'[p] = resumed[p]
  BY <1>1, DeliverOnce
<1>3. place'[o] = "rejected" /\ \A p \in Ops \ {o} : place'[p] = place[p]
  BY <1>1 DEF TypeOK
<1> QED
  BY <1>1, <1>2, <1>3 DEF PlaceInv

\* An operation that had no SQE may be handed to the ring.
LEMMA PreparePlace ==
  ASSUME IndInv, NEW o \in Ops, PrepareSubmission(o),
         place[o] \in {"fresh", "pending"}, UNCHANGED <<result, resumed>>
  PROVE  PlaceInv'
<1>1. TypeOK /\ Accounting /\ PlaceInv /\ \A k \in Kinds : slot[o][k] = "none"
  BY DEF IndInv, PlaceInv
<1>2. pendingCqes'[o] # 0
  BY <1>1, PrepareCounts
<1>3. \A p \in Ops \ {o} : /\ slot'[p] = slot[p]
                          /\ pendingCqes'[p] = pendingCqes[p]
                          /\ place'[p] = place[p]
  BY <1>1 DEF PrepareSubmission, TypeOK
<1>4. place'[o] = "inflight"
  BY <1>1 DEF PrepareSubmission, TypeOK
<1> QED
  BY <1>1, <1>2, <1>3, <1>4 DEF PlaceInv

\* A cancel SQE may be added to an operation in flight.
LEMMA CancelPlace ==
  ASSUME IndInv, NEW o \in Ops, NEW k \in {"cancel", "drain"},
         SubmitCancel(o, k), slot[o][k] = "none", place[o] = "inflight",
         UNCHANGED <<place, result, resumed>>
  PROVE  PlaceInv'
<1>1. TypeOK /\ Accounting /\ PlaceInv
  BY DEF IndInv
<1>2. pendingCqes'[o] # 0
  BY <1>1, CancelCounts
<1>3. \A p \in Ops \ {o} : slot'[p] = slot[p] /\ pendingCqes'[p] = pendingCqes[p]
  BY <1>1 DEF SubmitCancel, TypeOK
<1> QED
  BY <1>1, <1>2, <1>3 DEF PlaceInv

\* A completion resumes the waiter at most once, and at the latest with the
\* last CQE.
LEMMA CompletionPlace ==
  ASSUME IndInv, Accounting', NEW o \in Ops, NEW k \in Kinds,
         HandleCompletion(o, k)
  PROVE  PlaceInv'
<1> DEFINE r == OnCompletion(o, k, slot[o][k])
<1>1. TypeOK /\ PlaceInv /\ place[o] = "inflight" /\ pendingCqes[o] \in Nat \ {0}
  BY CompletionEffect DEF IndInv, PlaceInv, TypeOK
<1>2. pendingCqes'[o] = CqesLeft(o)
  BY <1>1, CompletionEffect DEF CqesLeft
<1>3. IF r # "none" THEN Deliver(o, r) ELSE UNCHANGED <<result, resumed>>
  BY <1>1 DEF HandleCompletion
<1>4. r # "none" => result[o] = "none"
  BY DEF OnCompletion
<1>5. CqesLeft(o) = 0 /\ result[o] = "none" => r # "none"
  BY <1>1 DEF OnCompletion
<1> HIDE DEF r
<1>6. resumed'[o] = IF result'[o] = "none" THEN 0 ELSE 1
  BY <1>1, <1>3, <1>4, DeliverOnce DEF PlaceInv
<1>7. pendingCqes'[o] = 0 => result'[o] # "none"
  BY <1>1, <1>2, <1>3, <1>4, <1>5, DeliverOnce
<1>8. pendingCqes'[o] = 0 => \A j \in Kinds : slot'[o][j] = "none"
  BY DEF Accounting, Outstanding, Kinds
<1> QED
  BY <1>1, <1>6, <1>7, <1>8, CompletionEffect DEF PlaceInv

\* Places, tokens and results stay consistent.
LEMMA PlaceStep == IndInv /\ [Next]_vars => PlaceInv'
<1> SUFFICES ASSUME IndInv, [Next]_vars PROVE PlaceInv'
  OBVIOUS
<1>t. TypeOK /\ PlaceInv /\ Accounting'
  BY AccountingStep DEF IndInv
<1>1. CASE Quiet
  BY <1>1, <1>t, QuietFrame DEF PlaceInv, opVars
<1>2. CASE Moving
  BY <1>2, <1>t, MovingFrame, MovingTokens DEF PlaceInv
<1>3. ASSUME NEW o \in Ops, SubmitOperation(o) PROVE PlaceInv'
  <2>0. place[o] = "fresh" /\ result[o] = "none"
    BY <1>3, <1>t DEF SubmitOperation, UserMaySubmit, PlaceInv
  <2>1. CASE PrepareSubmission(o) /\ UNCHANGED <<result, resumed>>
    BY <2>0, <2>1, PreparePlace
  <2>2. ASSUME NEW r \in {"cancelled", "resourceExhausted"}, Reject(o, r)
        PROVE PlaceInv'
    BY <2>0, <2>2, RejectPlace DEF Reject
  <2>3. CASE /\ place' = [place EXCEPT ![o] = "pending"]
             /\ UNCHANGED <<slot, pendingCqes, result, resumed>>
    BY <2>0, <2>3, <1>t DEF PlaceInv, TypeOK
  <2> QED
    BY <1>3, <2>1, <2>2, <2>3 DEF SubmitOperation
<1>4. ASSUME NEW o \in Ops, SubmitOffLoop(o) PROVE PlaceInv'
  BY <1>4, RejectPlace DEF SubmitOffLoop, Reject
<1>5. ASSUME NEW o \in Ops, CancelPending(o) PROVE PlaceInv'
  <2>1. place[o] = "pending"
    BY <1>5 DEF CancelPending, IndInv, QueueInv
  <2> QED
    BY <1>5, <2>1, RejectPlace DEF CancelPending
<1>6. ASSUME NEW o \in Ops, CancelInFlight(o) PROVE PlaceInv'
  <2>1. slot[o]["cancel"] = "none" /\ place[o] = "inflight"
    BY <1>6 DEF CancelInFlight, MayRequestCancel, IndInv, CancelInv
  <2>2. UNCHANGED <<place, result, resumed>>
    BY <1>6 DEF CancelInFlight
  <2>3. CASE SubmitCancel(o, "cancel")
    BY <2>1, <2>2, <2>3, CancelPlace
  <2>4. CASE UNCHANGED <<slot, pendingCqes>>
    BY <1>t, <2>2, <2>4 DEF PlaceInv
  <2> QED
    BY <1>6, <2>3, <2>4 DEF CancelInFlight
<1>7. ASSUME NEW o \in Ops, RetryCancel(o) PROVE PlaceInv'
  <2>1. slot[o]["cancel"] = "none"
    BY <1>7 DEF RetryCancel, IndInv, CancelInv
  <2>2. UNCHANGED <<place, result, resumed>>
    BY <1>7 DEF RetryCancel
  <2>3. CASE SubmitCancel(o, "cancel") /\ place[o] = "inflight"
    BY <2>1, <2>2, <2>3, CancelPlace
  <2>4. CASE UNCHANGED <<slot, pendingCqes>>
    BY <1>t, <2>2, <2>4 DEF PlaceInv
  <2> QED
    BY <1>7, <2>3, <2>4 DEF RetryCancel
<1>8. ASSUME NEW o \in Ops, DrainCancel(o) PROVE PlaceInv'
  <2>1. slot[o]["drain"] = "none"
    BY <1>8 DEF DrainCancel, IndInv, DrainInv
  <2>2. UNCHANGED <<place, result, resumed>>
    BY <1>8 DEF DrainCancel
  <2>3. CASE SubmitCancel(o, "drain") /\ place[o] = "inflight"
    BY <2>1, <2>2, <2>3, CancelPlace
  <2>4. CASE UNCHANGED <<slot, pendingCqes>>
    BY <1>t, <2>2, <2>4 DEF PlaceInv
  <2> QED
    BY <1>8, <2>3, <2>4 DEF DrainCancel
<1>9. CASE FlushPendingSubmission
  <2> DEFINE o == Head(pendingSubs)
  <2>1. o \in Ops /\ place[o] = "pending"
    BY <1>9, <1>t DEF FlushPendingSubmission, HeadFits, IndInv, QueueInv, TypeOK
  <2> HIDE DEF o
  <2>2. PrepareSubmission(o) /\ UNCHANGED <<result, resumed>>
    BY <1>9 DEF FlushPendingSubmission, o
  <2> QED
    BY <2>1, <2>2, PreparePlace
<1>10. CASE DrainPending
  <2> DEFINE o == Head(pendingSubs)
  <2>1. o \in Ops /\ place[o] = "pending"
    BY <1>10, <1>t DEF DrainPending, IndInv, QueueInv, TypeOK
  <2> HIDE DEF o
  <2>2. /\ place' = [place EXCEPT ![o] = "rejected"]
        /\ Deliver(o, "cancelled")
        /\ UNCHANGED <<slot, pendingCqes>>
    BY <1>10 DEF DrainPending, o
  <2> QED
    BY <2>1, <2>2, RejectPlace
<1>11. CASE DrainRequestCancels
  BY <1>11, <1>t DEF DrainRequestCancels, PlaceInv
<1>12. ASSUME NEW o \in Ops, NEW k \in Kinds, HandleCompletion(o, k)
       PROVE PlaceInv'
  BY <1>12, <1>t, CompletionPlace
<1> QED
  BY <1>1, <1>2, <1>3, <1>4, <1>5, <1>6, <1>7, <1>8, <1>9, <1>10, <1>11, <1>12,
     NextCases

\* Cutting one entry out of a sequence.
LEMMA CutEntry ==
  ASSUME NEW S, NEW s \in Seq(S), NEW i \in 1..Len(s)
  PROVE  LET t == SubSeq(s, 1, i - 1) \o SubSeq(s, i + 1, Len(s))
         IN  /\ t \in Seq(S)
             /\ Len(t) = Len(s) - 1
             /\ \A j \in 1..(Len(s) - 1) : t[j] = IF j < i THEN s[j] ELSE s[j + 1]
<1> DEFINE n == Len(s)
           a == SubSeq(s, 1, i - 1)
           b == SubSeq(s, i + 1, n)
<1>1. n \in Nat /\ i \in Nat /\ 1 <= i /\ i <= n
  OBVIOUS
<1>2. \A j \in 1..n : s[j] \in S
  OBVIOUS
<1>3. \A j \in 1..(i - 1) : s[j] \in S
  BY <1>1, <1>2
<1>4. \A j \in (i + 1)..n : s[j] \in S
  BY <1>1, <1>2
<1>5. /\ a \in Seq(S) /\ Len(a) = i - 1
      /\ \A j \in 1..(i - 1) : a[j] = s[j]
  <2>1. /\ a \in Seq(S)
        /\ Len(a) = IF 1 <= i - 1 THEN (i - 1) - 1 + 1 ELSE 0
        /\ \A j \in 1..((i - 1) - 1 + 1) : a[j] = s[1 + j - 1]
    <3> HIDE DEF a
    <3> QED BY <1>1, <1>3, SubSeqProperties DEF a
  <2> HIDE DEF a
  <2> QED
    BY <1>1, <2>1
<1>6. /\ b \in Seq(S) /\ Len(b) = n - i
      /\ \A j \in 1..(n - i) : b[j] = s[i + j]
  <2>1. /\ b \in Seq(S)
        /\ Len(b) = IF i + 1 <= n THEN n - (i + 1) + 1 ELSE 0
        /\ \A j \in 1..(n - (i + 1) + 1) : b[j] = s[(i + 1) + j - 1]
    <3> HIDE DEF b
    <3> QED BY <1>1, <1>4, SubSeqProperties DEF b
  <2> HIDE DEF b
  <2> QED
    BY <1>1, <2>1
<1> HIDE DEF a, b
<1>7. /\ a \o b \in Seq(S)
      /\ Len(a \o b) = Len(a) + Len(b)
      /\ \A j \in 1..(Len(a) + Len(b)) :
           (a \o b)[j] = IF j <= Len(a) THEN a[j] ELSE b[j - Len(a)]
  BY <1>5, <1>6, ConcatProperties
<1>8. \A j \in 1..(n - 1) : (a \o b)[j] = IF j < i THEN s[j] ELSE s[j + 1]
  <2> SUFFICES ASSUME NEW j \in 1..(n - 1)
               PROVE  (a \o b)[j] = IF j < i THEN s[j] ELSE s[j + 1]
    OBVIOUS
  <2>1. (a \o b)[j] = IF j <= i - 1 THEN a[j] ELSE b[j - (i - 1)]
    BY <1>1, <1>5, <1>6, <1>7
  <2>2. CASE j < i
    BY <1>1, <1>5, <2>1, <2>2
  <2>3. CASE ~(j < i)
    <3>1. j - (i - 1) \in 1..(n - i) /\ i + (j - (i - 1)) = j + 1
      BY <1>1, <2>3
    <3>2. b[j - (i - 1)] = s[i + (j - (i - 1))]
      BY <1>6, <3>1
    <3>3. ~(j <= i - 1)
      BY <1>1, <2>3
    <3> QED
      BY <2>1, <2>3, <3>1, <3>2, <3>3
  <2> QED
    BY <2>2, <2>3
<1>9. Len(a \o b) = n - 1
  BY <1>1, <1>5, <1>6, <1>7
<1> HIDE DEF n
<1>10. a \o b = SubSeq(s, 1, i - 1) \o SubSeq(s, i + 1, Len(s))
  BY DEF a, b, n
<1> QED
  BY <1>7, <1>8, <1>9, <1>10 DEF n

\* Taking the entry at position i out of the pending queue while its operation
\* stops being pending.
LEMMA QueueRemoval ==
  ASSUME IndInv, NEW i \in 1..Len(pendingSubs), NEW v, v # "pending",
         place' = [place EXCEPT ![pendingSubs[i]] = v],
         pendingSubs' \in Seq(Ops),
         Len(pendingSubs') = Len(pendingSubs) - 1,
         \A j \in 1..(Len(pendingSubs) - 1) :
           pendingSubs'[j] = IF j < i THEN pendingSubs[j] ELSE pendingSubs[j + 1]
  PROVE  QueueInv'
<1> DEFINE n == Len(pendingSubs)
           At(j) == IF j < i THEN j ELSE j + 1
<1>1. n \in Nat /\ pendingSubs \in Seq(Ops) /\ place \in [Ops -> Places]
  BY DEF IndInv, TypeOK
<1>2. \A j \in 1..n : pendingSubs[j] \in Ops
  BY <1>1
<1>3. place'[pendingSubs[i]] = v
      /\ \A p \in Ops \ {pendingSubs[i]} : place'[p] = place[p]
  BY <1>1, <1>2
<1>4. \A j \in 1..(n - 1) : /\ At(j) \in 1..n /\ At(j) # i
                            /\ pendingSubs'[j] = pendingSubs[At(j)]
  BY <1>1
<1>5. \A j \in 1..(n - 1) : pendingSubs[At(j)] # pendingSubs[i]
  BY <1>4 DEF IndInv, QueueInv
<1>6. \A j \in 1..(n - 1) : place'[pendingSubs'[j]] = "pending"
  BY <1>2, <1>3, <1>4, <1>5, SMTT(30) DEF IndInv, QueueInv
<1>7. \A j, k \in 1..(n - 1) : pendingSubs'[j] = pendingSubs'[k] => j = k
  <2> SUFFICES ASSUME NEW j \in 1..(n - 1), NEW k \in 1..(n - 1),
                      pendingSubs'[j] = pendingSubs'[k]
               PROVE  j = k
    OBVIOUS
  <2>1. At(j) = At(k)
    BY <1>4 DEF IndInv, QueueInv
  <2> QED
    BY <1>1, <2>1
<1>8. ASSUME NEW p \in Ops, place'[p] = "pending"
      PROVE  \E j \in 1..(n - 1) : pendingSubs'[j] = p
  <2>1. p # pendingSubs[i] /\ place[p] = "pending"
    BY <1>3, <1>8
  <2>2. PICK k \in 1..n : pendingSubs[k] = p
    BY <2>1 DEF IndInv, QueueInv
  <2>3. k # i
    BY <2>1, <2>2
  <2>4. CASE k < i
    BY <1>1, <2>2, <2>4
  <2>5. CASE k > i
    <3>1. k - 1 \in 1..(n - 1) /\ ~(k - 1 < i) /\ (k - 1) + 1 = k
      BY <1>1, <2>5
    <3> QED
      BY <2>2, <3>1
  <2> QED
    BY <1>1, <2>3, <2>4, <2>5
<1> QED
  BY <1>6, <1>7, <1>8 DEF QueueInv

\* Taking the head out of the pending queue is such a removal.
LEMMA QueueTail ==
  ASSUME IndInv, pendingSubs # <<>>, pendingSubs' = Tail(pendingSubs),
         NEW v, v # "pending",
         place' = [place EXCEPT ![Head(pendingSubs)] = v]
  PROVE  QueueInv'
<1>1. pendingSubs \in Seq(Ops) /\ Len(pendingSubs) \in Nat \ {0}
  BY DEF IndInv, TypeOK
<1>2. 1 \in 1..Len(pendingSubs) /\ Head(pendingSubs) = pendingSubs[1]
  BY <1>1
<1>3. /\ pendingSubs' \in Seq(Ops)
      /\ Len(pendingSubs') = Len(pendingSubs) - 1
      /\ \A j \in 1..(Len(pendingSubs) - 1) : pendingSubs'[j] = pendingSubs[j + 1]
  BY <1>1
<1>4. \A j \in 1..(Len(pendingSubs) - 1) :
        pendingSubs'[j] = IF j < 1 THEN pendingSubs[j] ELSE pendingSubs[j + 1]
  BY <1>3
<1> QED
  BY <1>2, <1>3, <1>4, QueueRemoval

\* An operation outside the queue moves without becoming pending.
LEMMA QueueKept ==
  ASSUME IndInv, NEW o \in Ops, place[o] # "pending", NEW v, v # "pending",
         place' = [place EXCEPT ![o] = v], UNCHANGED pendingSubs
  PROVE  QueueInv'
<1>1. /\ \A j \in 1..Len(pendingSubs) : pendingSubs[j] \in Ops /\ pendingSubs[j] # o
      /\ place'[o] = v
      /\ \A p \in Ops \ {o} : place'[p] = place[p]
  BY DEF IndInv, TypeOK, QueueInv
<1> QED
  BY <1>1 DEF IndInv, QueueInv

\* The pending queue and the pending operations stay the same.
LEMMA QueueStep == IndInv /\ [Next]_vars => QueueInv'
<1> SUFFICES ASSUME IndInv, [Next]_vars PROVE QueueInv'
  OBVIOUS
<1>t. TypeOK /\ QueueInv
  BY DEF IndInv
<1>0. CASE UNCHANGED <<place, pendingSubs>>
  BY <1>0, <1>t DEF QueueInv
<1>1. CASE Quiet
  BY <1>0, <1>1, QuietFrame DEF opVars
<1>2. CASE Moving
  BY <1>0, <1>2, MovingFrame DEF loopVars
<1>3. ASSUME NEW o \in Ops, SubmitOperation(o) PROVE QueueInv'
  <2>0. place[o] = "fresh"
    BY <1>3 DEF SubmitOperation, UserMaySubmit
  <2>1. CASE /\ pendingSubs' = Append(pendingSubs, o)
             /\ place' = [place EXCEPT ![o] = "pending"]
    <3> DEFINE n == Len(pendingSubs)
    <3>1. n \in Nat /\ pendingSubs \in Seq(Ops)
      BY <1>t DEF TypeOK
    <3>2. /\ Len(pendingSubs') = n + 1
          /\ pendingSubs'[n + 1] = o
          /\ \A j \in 1..n : pendingSubs'[j] = pendingSubs[j] /\ pendingSubs[j] \in Ops
      BY <2>1, <3>1
    <3>3. place'[o] = "pending" /\ \A p \in Ops \ {o} : place'[p] = place[p]
      BY <1>t, <2>1 DEF TypeOK
    <3>4. \A j \in 1..n : pendingSubs[j] # o
      BY <1>t, <2>0 DEF QueueInv
    <3>5. \A j \in 1..(n + 1) : j \in 1..n \/ j = n + 1
      BY <3>1
    <3>6. \A j \in 1..(n + 1) : place'[pendingSubs'[j]] = "pending"
      BY <1>t, <3>2, <3>3, <3>4, <3>5 DEF QueueInv
    <3>7. \A j, k \in 1..(n + 1) : pendingSubs'[j] = pendingSubs'[k] => j = k
      BY <1>t, <3>2, <3>4, <3>5 DEF QueueInv
    <3>8. \A p \in Ops : place'[p] = "pending"
                         => \E j \in 1..(n + 1) : pendingSubs'[j] = p
      <4>1. n + 1 \in 1..(n + 1) /\ \A j \in 1..n : j \in 1..(n + 1)
        BY <3>1
      <4> QED
        BY <1>t, <3>2, <3>3, <4>1 DEF QueueInv
    <3> QED
      BY <3>2, <3>6, <3>7, <3>8 DEF QueueInv
  <2>2. CASE place' = [place EXCEPT ![o] = "inflight"] /\ UNCHANGED pendingSubs
    BY <2>0, <2>2, QueueKept
  <2>3. CASE place' = [place EXCEPT ![o] = "rejected"] /\ UNCHANGED pendingSubs
    BY <2>0, <2>3, QueueKept
  <2> QED
    BY <1>3, <2>1, <2>2, <2>3 DEF SubmitOperation, PrepareSubmission, Reject,
       loopVars
<1>4. ASSUME NEW o \in Ops, SubmitOffLoop(o) PROVE QueueInv'
  BY <1>4, QueueKept DEF SubmitOffLoop, Reject, loopVars
<1>5. ASSUME NEW o \in Ops, CancelPending(o) PROVE QueueInv'
  <2>1. PICK i \in 1..Len(pendingSubs) :
          /\ pendingSubs[i] = o
          /\ pendingSubs' = SubSeq(pendingSubs, 1, i - 1)
                              \o SubSeq(pendingSubs, i + 1, Len(pendingSubs))
    BY <1>5 DEF CancelPending
  <2>2. pendingSubs \in Seq(Ops) /\ Len(pendingSubs) \in Nat
    BY <1>t DEF TypeOK
  <2>3. /\ pendingSubs' \in Seq(Ops)
        /\ Len(pendingSubs') = Len(pendingSubs) - 1
        /\ \A j \in 1..(Len(pendingSubs) - 1) :
             pendingSubs'[j] = IF j < i THEN pendingSubs[j] ELSE pendingSubs[j + 1]
    BY <2>1, <2>2, CutEntry
  <2>4. place' = [place EXCEPT ![pendingSubs[i]] = "rejected"]
    BY <1>5, <2>1 DEF CancelPending
  <2> QED
    BY <2>3, <2>4, QueueRemoval
<1>6. ASSUME NEW o \in Ops,
             CancelInFlight(o) \/ RetryCancel(o) \/ DrainCancel(o)
      PROVE QueueInv'
  BY <1>0, <1>6 DEF CancelInFlight, RetryCancel, DrainCancel
<1>7. CASE FlushPendingSubmission
  BY <1>7, QueueTail DEF FlushPendingSubmission, HeadFits, PrepareSubmission
<1>8. CASE DrainPending
  BY <1>8, QueueTail DEF DrainPending
<1>9. CASE DrainRequestCancels
  BY <1>0, <1>9 DEF DrainRequestCancels
<1>10. ASSUME NEW o \in Ops, NEW k \in Kinds, HandleCompletion(o, k)
       PROVE QueueInv'
  <2>1. place[o] = "inflight"
    BY <1>10, CompletionEffect
  <2>2. UNCHANGED pendingSubs
    BY <1>10 DEF HandleCompletion, loopVars
  <2>3. PICK v : v # "pending" /\ place' = [place EXCEPT ![o] = v]
    BY <1>10, <2>1 DEF HandleCompletion
  <2> QED
    BY <2>1, <2>2, <2>3, QueueKept
<1> QED
  BY <1>1, <1>2, <1>3, <1>4, <1>5, <1>6, <1>7, <1>8, <1>9, <1>10, NextCases

\* A quiet step moves retries between the deque and the batch, no more.
LEMMA QuietRetry ==
  ASSUME TypeOK, Quiet
  PROVE  \A o \in Ops : retry'[o] = "none" <=> retry[o] = "none"
<1>1. CASE SwapControl
  BY <1>1 DEF SwapControl, TypeOK
<1>2. CASE UNCHANGED retry
  BY <1>2
<1> QED
  BY <1>1, <1>2 DEF Quiet, DoControlFunctors, ControlFunctorsDone,
     PendingFunctorsDone, FlushDone, WaitCqe, CqesDone, LeaveLoop,
     DrainCancelsDone, DrainDone, WaitInterrupted, RingError, HandleWakeup,
     KernelWakeup, RequestStop, CommitStop, PostFunctor, vars, loopVars

\* A cancel SQE never meets a pending retry of the same cancellation.
LEMMA CancelStep == IndInv /\ [Next]_vars => CancelInv'
<1> SUFFICES ASSUME IndInv, [Next]_vars PROVE CancelInv'
  OBVIOUS
<1>t. TypeOK /\ CancelInv /\ "cancel" \in Kinds /\ "io" \in Kinds
  BY SlotFacts DEF IndInv
<1>0. CASE /\ UNCHANGED <<cancelRequested, retry>>
           /\ \A o \in Ops : slot'[o]["cancel"] # "none" => slot[o]["cancel"] # "none"
  BY <1>0, <1>t DEF CancelInv
<1>1. CASE Quiet
  BY <1>1, <1>t, QuietFrame, QuietRetry DEF CancelInv, opVars
<1>2. CASE Moving
  BY <1>0, <1>2, <1>t, MovingFrame, MovingTokens DEF loopVars
<1>3. ASSUME NEW o \in Ops, PrepareSubmission(o), UNCHANGED <<cancelRequested, retry>>
      PROVE CancelInv'
  <2>1. \A p \in Ops : slot'[p]["cancel"] = slot[p]["cancel"]
    BY <1>3, <1>t DEF PrepareSubmission, SqesOf, TypeOK
  <2> QED
    BY <1>0, <1>3, <2>1
<1>4. ASSUME NEW o \in Ops, SubmitOperation(o) \/ SubmitOffLoop(o) PROVE CancelInv'
  <2>1. UNCHANGED <<cancelRequested, retry>>
    BY <1>4 DEF SubmitOperation, SubmitOffLoop, Reject, loopVars
  <2>2. PrepareSubmission(o) \/ UNCHANGED slot
    BY <1>4 DEF SubmitOperation, SubmitOffLoop, Reject
  <2> QED
    BY <1>0, <1>3, <2>1, <2>2
<1>5. ASSUME NEW o \in Ops, CancelPending(o) PROVE CancelInv'
  <2>1. UNCHANGED <<slot, retry>> /\ cancelRequested' = [cancelRequested EXCEPT ![o] = TRUE]
    BY <1>5 DEF CancelPending
  <2> QED
    BY <1>t, <2>1 DEF CancelInv, TypeOK
<1>6. ASSUME NEW o \in Ops, CancelInFlight(o) PROVE CancelInv'
  <2>1. cancelRequested'[o] /\ \A p \in Ops \ {o} : cancelRequested'[p] = cancelRequested[p]
    BY <1>6, <1>t DEF CancelInFlight, TypeOK
  <2>2. retry[o] = "none" /\ slot[o]["cancel"] = "none"
    BY <1>6, <1>t DEF CancelInFlight, MayRequestCancel, CancelInv
  <2>3. CASE SubmitCancel(o, "cancel") /\ UNCHANGED retry
    <3>1. \A p \in Ops \ {o} : slot'[p] = slot[p]
      BY <1>t, <2>3 DEF SubmitCancel, TypeOK
    <3> QED
      BY <1>t, <2>1, <2>2, <2>3, <3>1 DEF CancelInv
  <2>4. CASE QueueRetry(o) /\ UNCHANGED slot
    <3>1. \A p \in Ops \ {o} : retry'[p] = retry[p]
      BY <1>t, <2>4 DEF QueueRetry, TypeOK
    <3> QED
      BY <1>t, <2>1, <2>2, <2>4, <3>1 DEF CancelInv
  <2> QED
    BY <1>6, <2>3, <2>4 DEF CancelInFlight
<1>7. ASSUME NEW o \in Ops, RetryCancel(o) PROVE CancelInv'
  <2>1. UNCHANGED cancelRequested
    BY <1>7 DEF RetryCancel
  <2>2. cancelRequested[o] /\ slot[o]["cancel"] = "none"
    BY <1>7, <1>t DEF RetryCancel, CancelInv
  <2>3. CASE /\ retry' = [retry EXCEPT ![o] = "none"]
             /\ UNCHANGED slot \/ SubmitCancel(o, "cancel")
    <3>1. retry'[o] = "none" /\ \A p \in Ops \ {o} : slot'[p] = slot[p] /\ retry'[p] = retry[p]
      BY <1>t, <2>3 DEF SubmitCancel, TypeOK
    <3> QED
      BY <1>t, <2>1, <2>2, <3>1 DEF CancelInv
  <2>4. CASE QueueRetry(o) /\ UNCHANGED slot
    <3>1. \A p \in Ops \ {o} : retry'[p] = retry[p]
      BY <1>t, <2>4 DEF QueueRetry, TypeOK
    <3> QED
      BY <1>t, <2>1, <2>2, <2>4, <3>1 DEF CancelInv
  <2> QED
    BY <1>7, <2>3, <2>4 DEF RetryCancel
<1>8. ASSUME NEW o \in Ops, DrainCancel(o) PROVE CancelInv'
  <2>1. slot' = slot \/ slot' = [slot EXCEPT ![o]["drain"] = "sq"]
    BY <1>8 DEF DrainCancel, SubmitCancel
  <2>2. \A p \in Ops : slot'[p]["cancel"] = slot[p]["cancel"]
    BY <1>t, <2>1, SlotFacts, OtherKind
  <2> QED
    BY <1>0, <1>8, <2>2 DEF DrainCancel
<1>9. CASE FlushPendingSubmission
  <2>1. Head(pendingSubs) \in Ops
    BY <1>9, <1>t DEF FlushPendingSubmission, HeadFits, TypeOK
  <2> QED
    BY <1>3, <1>9, <2>1 DEF FlushPendingSubmission
<1>10. CASE DrainPending
  BY <1>0, <1>10 DEF DrainPending
<1>11. CASE DrainRequestCancels
  BY <1>11, <1>t DEF DrainRequestCancels, CancelInv
<1>12. ASSUME NEW o \in Ops, NEW k \in Kinds, HandleCompletion(o, k)
       PROVE CancelInv'
  <2>1. \A p \in Ops : slot'[p]["cancel"] # "none" => slot[p]["cancel"] # "none"
    BY <1>12, <1>t, CompletionEffect
  <2> QED
    BY <1>0, <1>12, <2>1 DEF HandleCompletion, loopVars
<1> QED
  BY <1>1, <1>2, <1>4, <1>5, <1>6, <1>7, <1>8, <1>9, <1>10, <1>11, <1>12,
     NextCases

\* Where a quiet step takes the loop thread.
LEMMA QuietPhase ==
  ASSUME TypeOK, DrainInv, Quiet
  PROVE  /\ pc' \in LoopPhases \cup ExitPhases => pc \in LoopPhases \cup ExitPhases
         /\ pc' \notin LoopPhases \cup {"exit"} => stoppingRequested'
         /\ pc' \in DrainPhases => pc \in DrainPhases
         /\ pc' = "stopped" => \/ pc = "stopped"
                               \/ pc \in DrainPhases /\ InFlight = {}
<1>s. pc \notin LoopPhases \cup {"exit"} => stoppingRequested
  BY DEF DrainInv
<1> USE DEF LoopPhases, ExitPhases, DrainPhases, Goto
<1>1. CASE DoControlFunctors \/ ControlFunctorsDone \/ PendingFunctorsDone \/ FlushDone
  BY <1>1, <1>s DEF DoControlFunctors, ControlFunctorsDone, PendingFunctorsDone,
     FlushDone
<1>2. CASE WaitCqe \/ CqesDone
  BY <1>2, <1>s DEF WaitCqe, CqesDone
<1>3. CASE LeaveLoop
  BY <1>3 DEF LeaveLoop
<1>4. CASE DrainCancelsDone \/ DrainDone
  BY <1>4, <1>s DEF DrainCancelsDone, DrainDone
<1>5. CASE WaitInterrupted
  BY <1>5, <1>s DEF WaitInterrupted
<1>6. CASE RingError
  BY <1>6, <1>s DEF RingError
<1>7. CASE \/ HandleWakeup \/ KernelWakeup \/ RequestStop \/ CommitStop
           \/ PostFunctor \/ UNCHANGED vars
  <2> HIDE DEF LoopPhases, ExitPhases, DrainPhases, Goto
  <2>1. UNCHANGED pc /\ (stoppingRequested => stoppingRequested')
    BY <1>7 DEF HandleWakeup, KernelWakeup, RequestStop, CommitStop, PostFunctor,
       vars
  <2> QED
    BY <1>s, <2>1
<1> QED
  BY <1>1, <1>2, <1>3, <1>4, <1>5, <1>6, <1>7 DEF Quiet

\* The drain begins with nothing cancelled and ends with nothing in flight.
LEMMA DrainStep == IndInv /\ [Next]_vars => DrainInv'
<1> SUFFICES ASSUME IndInv, [Next]_vars PROVE DrainInv'
  OBVIOUS
<1>t. TypeOK /\ DrainInv /\ "drain" \in Kinds
  BY SlotFacts DEF IndInv
<1>0. ASSUME UNCHANGED <<pc, stoppingRequested, todo>>,
             \A o \in Ops : slot'[o]["drain"] # "none" => slot[o]["drain"] # "none",
             pendingSubs = <<>> => pendingSubs' = <<>>,
             \A o \in Ops : place'[o] = "inflight"
                             => place[o] = "inflight" \/ ~stoppingRequested
      PROVE DrainInv'
  BY <1>0, <1>t DEF DrainInv, LoopPhases, TypeOK
<1>1. CASE Quiet
  <2>1. UNCHANGED <<place, slot, pendingSubs, todo>>
    BY <1>1, QuietFrame DEF opVars
  <2> QED
    BY <1>1, <1>t, <2>1, QuietPhase DEF DrainInv, InFlight
<1>2. CASE Moving
  <2>1. \/ UNCHANGED pc
        \/ pc = "submit" /\ pc' = "wait"
        \/ pc = "drainSubmit" /\ pc' = "drainWait"
    BY <1>2 DEF Moving, SubmitRing, Goto, KernelIo, KernelRun, KernelTimer,
       KernelCancel, KernelPost
  <2>2. UNCHANGED <<place, pendingSubs, todo, stoppingRequested>>
    BY <1>2, MovingFrame DEF loopVars
  <2> QED
    BY <1>2, <1>t, <2>1, <2>2, MovingTokens DEF DrainInv, LoopPhases,
       ExitPhases, DrainPhases, TypeOK
<1>3. ASSUME NEW o \in Ops, SubmitOperation(o) PROVE DrainInv'
  <2>0. PrepareSubmission(o) \/ UNCHANGED slot
    BY <1>3 DEF SubmitOperation, Reject
  <2>1. \A p \in Ops : slot'[p]["drain"] = slot[p]["drain"]
    BY <1>t, <2>0, PrepareKinds
  <2>2. CASE stoppingRequested
    BY <1>0, <1>3, <1>t, <2>1, <2>2 DEF SubmitOperation, Reject, loopVars, TypeOK
  <2>3. CASE ~stoppingRequested
    <3>1. pc \in LoopPhases \cup {"exit"}
      BY <1>t, <2>3 DEF DrainInv
    <3>2. pc \notin DrainPhases \cup {"stopped"}
      BY <3>1 DEF LoopPhases, DrainPhases
    <3>3. UNCHANGED <<pc, stoppingRequested, todo>>
      BY <1>3 DEF SubmitOperation, Reject, loopVars
    <3> QED
      BY <1>t, <2>1, <3>1, <3>2, <3>3 DEF DrainInv, TypeOK
  <2> QED
    BY <2>2, <2>3
<1>4. ASSUME NEW o \in Ops, SubmitOffLoop(o) PROVE DrainInv'
  BY <1>0, <1>4, <1>t DEF SubmitOffLoop, Reject, loopVars, TypeOK
<1>5. ASSUME NEW o \in Ops, CancelPending(o) PROVE DrainInv'
  <2>1. pendingSubs # <<>>
    BY <1>5, <1>t DEF CancelPending, TypeOK
  <2> QED
    BY <1>0, <1>5, <1>t, <2>1 DEF CancelPending, TypeOK
<1>6. ASSUME NEW o \in Ops, CancelInFlight(o) \/ RetryCancel(o) PROVE DrainInv'
  <2>1. slot' = slot \/ slot' = [slot EXCEPT ![o]["cancel"] = "sq"]
    BY <1>6 DEF CancelInFlight, RetryCancel, SubmitCancel
  <2>2. \A p \in Ops : slot'[p]["drain"] = slot[p]["drain"]
    BY <1>t, <2>1, SlotFacts, OtherKind
  <2>3. UNCHANGED <<pc, stoppingRequested, todo, place, pendingSubs>>
    BY <1>6 DEF CancelInFlight, RetryCancel
  <2> QED
    BY <1>0, <2>2, <2>3
<1>7. ASSUME NEW o \in Ops, DrainCancel(o) PROVE DrainInv'
  <2>1. /\ pc = "drainCancel" /\ todo' = todo \ {o}
        /\ UNCHANGED <<pc, stoppingRequested, place, pendingSubs>>
    BY <1>7 DEF DrainCancel
  <2>2. slot' = slot \/ slot' = [slot EXCEPT ![o]["drain"] = "sq"]
    BY <1>7 DEF DrainCancel, SubmitCancel
  <2>3. \A p \in Ops \ {o} : slot'[p] = slot[p]
    BY <1>t, <2>2 DEF TypeOK
  <2>4. todo \subseteq Ops
    BY <1>t DEF TypeOK
  <2> QED
    BY <1>t, <2>1, <2>3, <2>4 DEF DrainInv, LoopPhases, ExitPhases, DrainPhases
<1>8. CASE FlushPendingSubmission
  <2> DEFINE o == Head(pendingSubs)
  <2>1. o \in Ops
    BY <1>8, <1>t DEF FlushPendingSubmission, HeadFits, TypeOK
  <2> HIDE DEF o
  <2>2. PrepareSubmission(o) /\ pc = "flush" /\ UNCHANGED <<pc, stoppingRequested, todo>>
    BY <1>8 DEF FlushPendingSubmission, o
  <2>3. \A p \in Ops : slot'[p]["drain"] = slot[p]["drain"]
    BY <1>t, <2>1, <2>2 DEF PrepareSubmission, SqesOf, TypeOK
  <2> QED
    BY <1>t, <2>2, <2>3 DEF DrainInv, LoopPhases, ExitPhases, DrainPhases, TypeOK
<1>9. CASE DrainPending
  <2>1. pc = "drainPending" /\ UNCHANGED <<pc, stoppingRequested, todo, slot>>
    BY <1>9 DEF DrainPending
  <2> QED
    BY <1>t, <2>1 DEF DrainInv, LoopPhases, ExitPhases, DrainPhases
<1>10. CASE DrainRequestCancels
  <2>1. /\ pc = "drainPending" /\ pc' = "drainCancel" /\ pendingSubs' = <<>>
        /\ todo' \subseteq Ops /\ UNCHANGED <<slot, stoppingRequested>>
    BY <1>10 DEF DrainRequestCancels, Goto, InFlight
  <2> QED
    BY <1>t, <2>1 DEF DrainInv, LoopPhases, ExitPhases, DrainPhases
<1>11. ASSUME NEW o \in Ops, NEW k \in Kinds, HandleCompletion(o, k)
       PROVE DrainInv'
  <2>1. UNCHANGED <<pc, stoppingRequested, todo, pendingSubs>>
    BY <1>11 DEF HandleCompletion, loopVars
  <2>2. \A p \in Ops : place'[p] = "inflight" => place[p] = "inflight"
    BY <1>11, CompletionEffect
  <2>3. \A p \in Ops : slot'[p]["drain"] # "none" => slot[p]["drain"] # "none"
    BY <1>11, <1>t, CompletionEffect
  <2> QED
    BY <1>0, <2>1, <2>2, <2>3
<1> QED
  BY <1>1, <1>2, <1>3, <1>4, <1>5, <1>6, <1>7, <1>8, <1>9, <1>10, <1>11,
     NextCases

----------------------------------------------------------------------------
(* Theorems *)

\* The accounting of tokens, the places, the queue, the cancellations and the
\* drain are consistent in every reachable state.
THEOREM Invariance == Spec => []IndInv
<1>1. Init => IndInv
  <2> SUFFICES ASSUME Init PROVE IndInv
    OBVIOUS
  <2>1. TypeOK
    BY InitType
  <2>2. Accounting /\ PlaceInv /\ CancelInv
    BY SlotFacts DEF Init, Accounting, Outstanding, PlaceInv, CancelInv
  <2>3. QueueInv
    BY DEF Init, QueueInv
  <2>4. DrainInv
    BY SlotFacts DEF Init, DrainInv, LoopPhases, DrainPhases
  <2> QED
    BY <2>1, <2>2, <2>3, <2>4 DEF IndInv
<1>2. IndInv /\ [Next]_vars => IndInv'
  <2> SUFFICES ASSUME IndInv, [Next]_vars PROVE IndInv'
    OBVIOUS
  <2>1. TypeOK'
    BY TypeStep DEF IndInv
  <2> QED
    BY <2>1, AccountingStep, PlaceStep, QueueStep, CancelStep, DrainStep DEF IndInv
<1> QED
  BY <1>1, <1>2, PTL DEF Spec

\* Whatever the I/O, timeout and cancel CQEs do and whenever the loop stops, a
\* waiter is resumed once and with a result (onCompletion, reject).
THEOREM ResumedExactlyOnce == Spec => []ExactlyOnce
<1>1. IndInv => ExactlyOnce
  BY DEF IndInv, PlaceInv, ExactlyOnce
<1> QED
  BY <1>1, Invariance, PTL

\* No CQE reaches handleCompletionEvent for an operation the loop has erased.
THEOREM TokensAreOwned == Spec => []OwnedUntilDrained
<1>1. IndInv => OwnedUntilDrained
  BY DEF IndInv, PlaceInv, OwnedUntilDrained
<1> QED
  BY <1>1, Invariance, PTL

\* loop() closes the ring only when nothing refers to it any more.
THEOREM StopIsClean == Spec => []StoppedClean
<1>1. IndInv => StoppedClean
  <2> SUFFICES ASSUME IndInv, pc = "stopped" PROVE StoppedClean
    BY DEF StoppedClean
  <2>1. pendingSubs = <<>> /\ \A o \in Ops : place[o] # "inflight"
    BY DEF IndInv, DrainInv
  <2>2. \A o \in Ops : place[o] # "pending"
    BY <2>1 DEF IndInv, QueueInv
  <2>3. \A o \in Ops : place[o] \in {"fresh", "rejected", "drained"}
    BY <2>1, <2>2 DEF IndInv, TypeOK, Places
  <2> QED
    BY <2>1, <2>3 DEF IndInv, PlaceInv, StoppedClean
<1> QED
  BY <1>1, Invariance, PTL

----------------------------------------------------------------------------
(* The result of an operation: a timeout, a cancellation and transferred     *)
(* bytes are reported as what they were, in whatever order the CQEs of the   *)
(* I/O, of its linked timeout and of the cancels are consumed, and nobody is *)
(* resumed while the kernel still owns the buffer.                           *)

Fired == {"firing", "ETIME"}
Doomed == {"doomed", "ECANCELED"}
Cancelling == {"none", "sq", "kernel", "zero", "EALREADY", "ENOENT"}

\* The states the SQE of each kind passes through.
SlotsOk(o) ==
  /\ slot[o]["io"] \in {"none", "sq", "kernel", "running", "bytes", "zero"}
                         \cup Doomed \cup IoErrors
  /\ slot[o]["timeout"] \in {"none", "sq", "kernel", "doomed", "ECANCELED",
                             "EALREADY"} \cup Fired
  /\ slot[o]["cancel"] \in Cancelling
  /\ slot[o]["drain"] \in Cancelling
  /\ slot[o]["timeout"] # "none" => o \in LinkedOps
  /\ slot[o]["io"] = "running" \/ slot[o]["timeout"] = "EALREADY"
       => o \in PuntableOps

\* A CQE is consumed once, after the operation was handed to the kernel.
SeenOk(o) ==
  /\ place[o] \in {"fresh", "pending", "rejected"}
       => seen[o]["io"] = "none" /\ seen[o]["timeout"] = "none"
  /\ \A k \in {"io", "timeout"} : seen[o][k] # "none" => slot[o][k] = "none"
  /\ place[o] = "inflight" /\ slot[o]["io"] = "none" => seen[o]["io"] # "none"
  /\ seen[o]["io"] \in {"none", "bytes", "zero", "ECANCELED"} \cup IoErrors
  /\ seen[o]["timeout"] \in {"none", "ETIME", "ECANCELED", "EALREADY"}
  /\ seen[o]["timeout"] # "none" => o \in LinkedOps
  /\ seen[o]["timeout"] = "EALREADY" => o \in PuntableOps

\* What has become of the I/O of a timer that has fired.
TimerOk(o) ==
  /\ slot[o]["timeout"] \in Fired \/ seen[o]["timeout"] = "ETIME"
       => slot[o]["io"] \in Doomed \/ seen[o]["io"] = "ECANCELED"
  /\ slot[o]["timeout"] \in Fired /\ ~cancelRequested[o] => result[o] = "none"
  /\ seen[o]["timeout"] \in {"ETIME", "EALREADY"} => result[o] # "none"

\* Why an I/O is cancelled, and when its waiter may go on without its CQE.
WaiterOk(o) ==
  /\ slot[o]["drain"] # "none" \/ o \in todo
       => cancelRequested[o] \/ result[o] # "none"
  /\ slot[o]["io"] \in Doomed
       => \/ cancelRequested[o] \/ result[o] # "none"
          \/ slot[o]["timeout"] \in Fired
  /\ result[o] # "none" /\ slot[o]["io"] # "none"
       => seen[o]["timeout"] \in {"ETIME", "EALREADY"}
  /\ seen[o]["io"] # "none" /\ result[o] = "none"
       => slot[o]["timeout"] \in Fired

ResultOk(o) ==
  /\ seen[o]["timeout"] = "ETIME" /\ ~cancelRequested[o]
        => result[o] = "timedOut"
  /\ result[o] = "timedOut"
        => seen[o]["timeout"] = "ETIME" \/ seen[o]["io"] = "ETIMEDOUT"
  /\ seen[o]["io"] \in {"bytes", "zero"} /\ seen[o]["timeout"] # "EALREADY"
        => result[o] \in {"success", "eof"}
  /\ place[o] \in {"inflight", "drained"} /\ result[o] = "cancelled"
        => cancelRequested[o]

\* The history of one operation, what of it is still under way, and its result
\* fit together.
OpOk(o) == SlotsOk(o) /\ SeenOk(o) /\ TimerOk(o) /\ WaiterOk(o) /\ ResultOk(o)

ResultInv == \A o \in Ops : OpOk(o)

----------------------------------------------------------------------------
(* The inductive invariant *)

\* OpOk speaks of one operation: a step that leaves it alone keeps it.
LEMMA OpFrame ==
  ASSUME NEW p, OpOk(p), slot'[p] = slot[p], seen'[p] = seen[p],
         place'[p] = place[p], cancelRequested'[p] = cancelRequested[p],
         result'[p] = result[p], p \in todo' => p \in todo
  PROVE  OpOk(p)'
  BY DEF OpOk, SlotsOk, SeenOk, TimerOk, WaiterOk, ResultOk

\* Before anything is submitted there is nothing to report.
LEMMA InitResult == Init => ResultInv
  BY DEF Init, ResultInv, OpOk, SlotsOk, SeenOk, TimerOk, WaiterOk, ResultOk,
     Kinds, Fired, Doomed, Cancelling

\* An operation that is turned down has neither CQEs nor a timeout.
LEMMA RejectOk ==
  ASSUME IndInv, ResultInv, NEW o \in Ops, NEW r \in {"cancelled", "resourceExhausted", "system"},
         place[o] \in {"fresh", "pending"}, place' = [place EXCEPT ![o] = "rejected"],
         Deliver(o, r), UNCHANGED <<slot, seen, todo>>,
         \A p \in Ops \ {o} : cancelRequested'[p] = cancelRequested[p]
  PROVE  ResultInv'
<1>1. \A k \in Kinds : slot[o][k] = "none"
  BY DEF IndInv, PlaceInv
<1>2. place'[o] = "rejected" /\ result'[o] = r
  BY DEF Deliver, IndInv, TypeOK
<1>3. \A p \in Ops \ {o} : OpOk(p)'
  BY OpFrame DEF ResultInv, Deliver, IndInv, TypeOK
<1>4. OpOk(o)'
  BY <1>1, <1>2, SlotFacts DEF ResultInv, OpOk, SlotsOk, SeenOk, TimerOk, WaiterOk,
     ResultOk, Fired, Doomed, Cancelling
<1> QED
  BY <1>3, <1>4 DEF ResultInv

\* An operation whose SQEs are prepared has had no CQE yet.
LEMMA PrepareOk ==
  ASSUME IndInv, ResultInv, NEW o \in Ops, place[o] \in {"fresh", "pending"},
         PrepareSubmission(o), UNCHANGED <<seen, cancelRequested, result, todo>>
  PROVE  ResultInv'
<1>1. \A k \in Kinds : slot[o][k] = "none"
  BY DEF IndInv, PlaceInv
<1>2. place'[o] = "inflight" /\ result[o] = "none"
  BY DEF PrepareSubmission, IndInv, PlaceInv, TypeOK
<1>3. \A p \in Ops \ {o} : OpOk(p)'
  BY OpFrame DEF ResultInv, PrepareSubmission, IndInv, TypeOK
<1>4. /\ slot'[o]["io"] = "sq"
      /\ slot'[o]["timeout"] = IF o \in LinkedOps THEN "sq" ELSE "none"
      /\ slot'[o]["cancel"] = "none"
      /\ slot'[o]["drain"] = "none"
  BY <1>1, SlotFacts DEF PrepareSubmission, SqesOf, IndInv, TypeOK
<1>5. OpOk(o)'
  BY <1>1, <1>2, <1>4 DEF ResultInv, OpOk, SlotsOk, SeenOk, TimerOk, WaiterOk,
     ResultOk, Fired, Doomed, Cancelling
<1> QED
  BY <1>3, <1>5 DEF ResultInv

\* A cancel SQE changes nothing that is known about the I/O.
LEMMA CancelOk ==
  ASSUME IndInv, ResultInv, NEW o \in Ops, NEW k \in {"cancel", "drain"},
         SubmitCancel(o, k) \/ UNCHANGED slot,
         slot' # slot /\ k = "drain" => o \in todo,
         \A p \in Ops \ {o} : cancelRequested'[p] = cancelRequested[p],
         cancelRequested[o] => cancelRequested'[o],
         UNCHANGED <<seen, place, result>>, todo' \subseteq todo
  PROVE  ResultInv'
<1>slot. slot \in [Ops -> [Kinds -> SlotValues]] /\ k \in Kinds
  BY SlotFacts DEF IndInv, TypeOK
<1>1. \A p \in Ops \ {o} : OpOk(p)'
  BY <1>slot, OpFrame DEF ResultInv, SubmitCancel
<1>2. /\ slot'[o]["io"] = slot[o]["io"]
      /\ slot'[o]["timeout"] = slot[o]["timeout"]
      /\ slot'[o]["cancel"] \in {slot[o]["cancel"], "sq"}
      /\ slot'[o]["drain"] \in {slot[o]["drain"], "sq"}
      /\ slot'[o]["drain"] # slot[o]["drain"] => o \in todo
  BY <1>slot, SlotFacts DEF SubmitCancel
<1>3. OpOk(o)'
  BY <1>2 DEF ResultInv, OpOk, SlotsOk, SeenOk, TimerOk, WaiterOk,
     ResultOk, Fired, Doomed, Cancelling
<1> QED
  BY <1>1, <1>3 DEF ResultInv

\* The kernel's steps: what an SQE becomes is justified by the other SQEs.
LEMMA SubmitRingOk ==
  ASSUME IndInv, ResultInv, SubmitRing PROVE ResultInv'
<1> SUFFICES ASSUME NEW o \in Ops PROVE OpOk(o)'
  BY DEF ResultInv
<1>1. \A k \in Kinds : slot'[o][k] = IF slot[o][k] = "sq" THEN "kernel" ELSE slot[o][k]
  BY DEF SubmitRing
<1>2. UNCHANGED <<seen, place, cancelRequested, result, todo>>
  BY DEF SubmitRing, loopVars
<1> QED
  BY <1>1, <1>2, SlotFacts DEF ResultInv, OpOk, SlotsOk, SeenOk, TimerOk, WaiterOk,
     ResultOk, Fired, Doomed, Cancelling

\* A kernel step on one operation leaves the other operations alone.
LEMMA KernelOthers ==
  ASSUME IndInv, ResultInv, NEW o \in Ops, OpOk(o)',
         \/ KernelIo(o) \/ KernelRun(o) \/ KernelTimer(o)
         \/ \E k \in Kinds : KernelCancel(o, k) \/ KernelPost(o, k)
  PROVE  ResultInv'
<1>1. \A p \in Ops \ {o} : slot'[p] = slot[p]
  BY DEF IndInv, TypeOK, KernelIo, KernelRun, KernelTimer, KernelCancel, KernelPost
<1>2. UNCHANGED <<seen, place, cancelRequested, result, todo>>
  BY DEF KernelIo, KernelRun, KernelTimer, KernelCancel, KernelPost, loopVars
<1> QED
  BY <1>1, <1>2, OpFrame DEF ResultInv

\* An I/O ends by itself only while nothing has cancelled it.
LEMMA KernelIoOk ==
  ASSUME IndInv, ResultInv, NEW o \in Ops, KernelIo(o) \/ KernelRun(o)
  PROVE  OpOk(o)'
<1>slot. slot \in [Ops -> [Kinds -> SlotValues]]
  BY DEF IndInv, TypeOK
<1>1. UNCHANGED <<seen, place, cancelRequested, result, todo>>
  BY DEF KernelIo, KernelRun, loopVars
<1>2. /\ slot[o]["io"] \in {"kernel", "running"}
      /\ slot'[o]["io"] \in {"bytes", "zero", "running"} \cup IoErrors
      /\ slot'[o]["io"] = "running" => o \in PuntableOps
      /\ slot'[o]["timeout"] = slot[o]["timeout"]
           \/ (slot[o]["timeout"] = "kernel" /\ slot'[o]["timeout"] = "doomed")
      /\ slot'[o]["cancel"] = slot[o]["cancel"]
      /\ slot'[o]["drain"] = slot[o]["drain"]
  <2>1. CASE KernelIo(o)
    <3>1. PICK r \in {"bytes", "zero"} \cup IoErrors :
            slot' = [slot EXCEPT ![o]["io"] = r,
                                 ![o]["timeout"] = IF @ = "kernel"
                                                   THEN "doomed" ELSE @]
      BY <2>1 DEF KernelIo
    <3>2. r # "running"
      BY ErrnoAssumption DEF Errnos
    <3> QED
      BY <1>slot, <2>1, <3>1, <3>2, SlotFacts DEF KernelIo
  <2>2. CASE KernelRun(o)
    BY <1>slot, <2>2, SlotFacts DEF KernelRun
  <2> QED
    BY <2>1, <2>2
<1>3. IoErrors \cap {"none", "doomed", "ECANCELED"} = {}
  BY ErrnoAssumption DEF Errnos
<1> QED
  BY <1>1, <1>2, <1>3 DEF ResultInv, OpOk, SlotsOk, SeenOk, TimerOk, WaiterOk,
     ResultOk, Fired, Doomed, Cancelling

\* A timer fires on an I/O whose waiter is still waiting.
LEMMA KernelTimerOk ==
  ASSUME IndInv, ResultInv, NEW o \in Ops, KernelTimer(o)
  PROVE  OpOk(o)'
<1>slot. slot \in [Ops -> [Kinds -> SlotValues]]
  BY DEF IndInv, TypeOK
<1>1. UNCHANGED <<seen, place, cancelRequested, result, todo>>
  BY DEF KernelTimer, loopVars
<1>2. /\ slot[o]["timeout"] = "kernel"
      /\ \/ /\ slot[o]["io"] = "kernel"
            /\ slot'[o]["timeout"] = "firing" /\ slot'[o]["io"] = "doomed"
         \/ /\ slot[o]["io"] = "running"
            /\ slot'[o]["timeout"] = "EALREADY" /\ slot'[o]["io"] = "running"
      /\ slot'[o]["cancel"] = slot[o]["cancel"]
      /\ slot'[o]["drain"] = slot[o]["drain"]
  BY <1>slot, SlotFacts DEF KernelTimer
<1> QED
  BY <1>1, <1>2 DEF ResultInv, OpOk, SlotsOk, SeenOk, TimerOk, WaiterOk,
     ResultOk, Fired, Doomed, Cancelling

\* A cancel takes an I/O down only when it was asked for.
LEMMA KernelCancelOk ==
  ASSUME IndInv, ResultInv, NEW o \in Ops, NEW k \in Kinds,
         KernelCancel(o, k) \/ KernelPost(o, k)
  PROVE  OpOk(o)'
<1>slot. slot \in [Ops -> [Kinds -> SlotValues]]
  BY DEF IndInv, TypeOK
<1>1. UNCHANGED <<seen, place, cancelRequested, result, todo>>
  BY DEF KernelCancel, KernelPost, loopVars
<1>2. CASE KernelCancel(o, k)
  <2>1. slot[o]["cancel"] # "none" => cancelRequested[o]
    BY DEF IndInv, CancelInv
  <2>2. /\ k \in {"cancel", "drain"} /\ slot[o][k] = "kernel"
        /\ \/ /\ slot[o]["io"] = "kernel" /\ slot'[o]["io"] = "doomed"
              /\ slot'[o]["timeout"] = slot[o]["timeout"]
                   \/ (slot[o]["timeout"] = "kernel" /\ slot'[o]["timeout"] = "doomed")
           \/ /\ slot'[o]["io"] = slot[o]["io"]
              /\ slot'[o]["timeout"] = slot[o]["timeout"]
        /\ slot'[o][k] \in {"zero", "EALREADY", "ENOENT"}
        /\ \A j \in {"cancel", "drain"} \ {k} : slot'[o][j] = slot[o][j]
    BY <1>2, <1>slot, SlotFacts DEF KernelCancel
  <2> QED
    BY <1>1, <2>1, <2>2 DEF ResultInv, OpOk, SlotsOk, SeenOk, TimerOk, WaiterOk,
       ResultOk, Fired, Doomed, Cancelling
<1>3. CASE KernelPost(o, k)
  <2>1. /\ slot[o][k] \in {"doomed", "firing"}
        /\ slot'[o][k] = IF slot[o][k] = "firing" THEN "ETIME" ELSE "ECANCELED"
        /\ \A j \in Kinds \ {k} : slot'[o][j] = slot[o][j]
    BY <1>3, <1>slot DEF KernelPost
  <2>2. IoErrors \cap {"doomed", "firing"} = {}
    BY ErrnoAssumption DEF Errnos
  <2>3. k \in {"io", "timeout"}
    BY <2>1, <2>2 DEF ResultInv, OpOk, SlotsOk, Kinds, Cancelling
  <2>4. CASE k = "io"
    BY <1>1, <2>1, <2>2, <2>4, SlotFacts DEF ResultInv, OpOk, SlotsOk, SeenOk, TimerOk,
       WaiterOk, ResultOk, Fired, Doomed, Cancelling
  <2>5. CASE k = "timeout"
    BY <1>1, <2>1, <2>2, <2>5, SlotFacts DEF ResultInv, OpOk, SlotsOk, SeenOk, TimerOk,
       WaiterOk, ResultOk, Fired, Doomed, Cancelling
  <2> QED
    BY <2>3, <2>4, <2>5
<1> QED
  BY <1>2, <1>3

\* What handleCompletionEvent does to the operation whose CQE it consumes.
LEMMA Consumed ==
  ASSUME IndInv, NEW o \in Ops, NEW k \in Kinds, HandleCompletion(o, k)
  PROVE  /\ place[o] = "inflight" /\ place'[o] \in {"inflight", "drained"}
         /\ slot'[o][k] = "none" /\ slot[o][k] \in CqeResults
         /\ \A j \in Kinds \ {k} : slot'[o][j] = slot[o][j]
         /\ k \in {"io", "timeout"} => seen'[o][k] = slot[o][k]
         /\ \A j \in {"io", "timeout"} \ {k} : seen'[o][j] = seen[o][j]
         /\ result[o] # "none" => result'[o] = result[o]
         /\ result[o] = "none" =>
              \/ result'[o] = Selected(o, k, slot[o][k])
              \/ /\ Selected(o, k, slot[o][k]) = "none" /\ result'[o] = "cancelled"
                 /\ \A j \in Kinds : slot'[o][j] = "none"
         /\ result[o] = "none" /\ Selected(o, k, slot[o][k]) = "none"
              => \/ result'[o] = "none" /\ place'[o] = "inflight"
                 \/ \A j \in Kinds : slot'[o][j] = "none"
         /\ \A p \in Ops \ {o} : slot'[p] = slot[p] /\ seen'[p] = seen[p]
               /\ place'[p] = place[p] /\ result'[p] = result[p]
         /\ UNCHANGED <<cancelRequested, todo>>
<1>type. TypeOK
  BY DEF IndInv
<1>slot. slot \in [Ops -> [Kinds -> SlotValues]] /\ slot[o][k] \in CqeResults
  BY DEF HandleCompletion, IndInv, TypeOK
<1>1. place[o] = "inflight"
  BY <1>slot, SlotFacts DEF IndInv, PlaceInv
<1>2. slot' = [slot EXCEPT ![o][k] = "none"]
  BY DEF HandleCompletion
<1>3. /\ slot'[o][k] = "none"
      /\ \A j \in Kinds \ {k} : slot'[o][j] = slot[o][j]
      /\ \A p \in Ops \ {o} : slot'[p] = slot[p]
  BY <1>2, <1>slot
<1>4. /\ k \in {"io", "timeout"} => seen'[o][k] = slot[o][k]
      /\ \A j \in {"io", "timeout"} \ {k} : seen'[o][j] = seen[o][j]
      /\ \A p \in Ops \ {o} : seen'[p] = seen[p]
  BY <1>type DEF HandleCompletion, TypeOK
<1>5. place' = [place EXCEPT ![o] = IF CqesLeft(o) = 0 THEN "drained" ELSE @]
  BY <1>1 DEF HandleCompletion
<1>6. /\ place'[o] = IF CqesLeft(o) = 0 THEN "drained" ELSE "inflight"
      /\ \A p \in Ops \ {o} : place'[p] = place[p]
  BY <1>1, <1>5, <1>type DEF TypeOK
<1> DEFINE r == OnCompletion(o, k, slot[o][k])
<1>7. r # "none" => Deliver(o, r)
  BY <1>1 DEF HandleCompletion
<1>8. r = "none" => UNCHANGED result
  BY <1>1 DEF HandleCompletion
<1>9. /\ result'[o] = IF r = "none" THEN result[o] ELSE r
      /\ \A p \in Ops \ {o} : result'[p] = result[p]
  <2> HIDE DEF r
  <2> QED
    BY <1>7, <1>8, <1>type DEF Deliver, TypeOK
<1>10. CqesLeft(o) = 0 => \A j \in Kinds : slot'[o][j] = "none"
  <2>1. Accounting /\ pendingCqes[o] \in Nat
    BY <1>type DEF IndInv, TypeOK
  <2>2. \A j \in Kinds : Outstanding(o, j) \in {0, 1}
    BY DEF Outstanding
  <2>3. Outstanding(o, k) = 1
    BY <1>slot, SlotFacts DEF Outstanding
  <2>4. pendingCqes[o] = Outstanding(o, "io") + Outstanding(o, "timeout")
                           + Outstanding(o, "cancel") + Outstanding(o, "drain")
    BY <2>1 DEF Accounting
  <2>5. CqesLeft(o) = 0 => \A j \in Kinds \ {k} : Outstanding(o, j) = 0
    BY <2>1, <2>2, <2>3, <2>4, SlotFacts DEF CqesLeft, Kinds
  <2> QED
    BY <2>5, <1>3 DEF Outstanding
<1>11. pendingCqes[o] # 0
  BY <1>1 DEF IndInv, PlaceInv
<1>12. result[o] # "none" => r = "none"
  BY DEF OnCompletion
<1>13. result[o] = "none" =>
         r = IF Selected(o, k, slot[o][k]) = "none" /\ CqesLeft(o) = 0
             THEN "cancelled" ELSE Selected(o, k, slot[o][k])
  BY <1>11 DEF OnCompletion
<1>14. UNCHANGED <<cancelRequested, todo>>
  BY DEF HandleCompletion, loopVars
<1>15. result[o] # "none" => result'[o] = result[o]
  BY <1>9, <1>12
<1>16. result[o] = "none" =>
              \/ result'[o] = Selected(o, k, slot[o][k])
              \/ /\ Selected(o, k, slot[o][k]) = "none" /\ result'[o] = "cancelled"
                 /\ \A j \in Kinds : slot'[o][j] = "none"
  <2> HIDE DEF r
  <2> QED
    BY <1>9, <1>10, <1>13
<1>17. result[o] = "none" /\ Selected(o, k, slot[o][k]) = "none"
              => \/ result'[o] = "none" /\ place'[o] = "inflight"
                 \/ \A j \in Kinds : slot'[o][j] = "none"
  <2> HIDE DEF r
  <2> QED
    BY <1>6, <1>9, <1>10, <1>13
<1> QED
  BY <1>slot, <1>1, <1>3, <1>4, <1>6, <1>9, <1>14, <1>15, <1>16, <1>17

\* errorFromKernelResult reports a timeout and a cancellation for those errors
\* only.
LEMMA ErrorFaithful ==
  ASSUME NEW e
  PROVE  /\ ErrorFromKernelResult(e) = "timedOut" <=> e \in {"ETIME", "ETIMEDOUT"}
         /\ ErrorFromKernelResult(e) = "cancelled" <=> e = "ECANCELED"
         /\ ErrorFromKernelResult(e) \notin {"none", "success", "eof"}
  BY DEF ErrorFromKernelResult

\* Consuming the CQE of the I/O.
LEMMA IoCqeOk ==
  ASSUME IndInv, ResultInv, NEW o \in Ops, HandleCompletion(o, "io")
  PROVE  OpOk(o)'
<1>0. "io" \in Kinds
  BY SlotFacts
<1>1. OpOk(o)
  BY DEF ResultInv
<1> DEFINE r == slot[o]["io"]
<1>2. r \in {"bytes", "zero", "ECANCELED"} \cup IoErrors
  BY <1>0, <1>1, Consumed DEF OpOk, SlotsOk, CqeResults, Errnos, Doomed
<1>3. seen[o]["io"] = "none" /\ r # "none"
  BY <1>1, <1>2, ErrnoAssumption DEF OpOk, SeenOk, Errnos
<1>4. /\ Selected(o, "io", r) \in {"success", "eof"} <=> r \in {"bytes", "zero"}
      /\ Selected(o, "io", r) = "none" =>
           r = "ECANCELED" /\ o \in LinkedOps /\ ~cancelRequested[o]
      /\ Selected(o, "io", r) = "timedOut" => r = "ETIMEDOUT"
      /\ Selected(o, "io", r) = "cancelled" =>
           cancelRequested[o] \/ (r = "ECANCELED" /\ o \notin LinkedOps)
  BY <1>2, ErrorFaithful, ErrnoAssumption DEF Selected, Errnos
<1>5. /\ place[o] = "inflight" /\ place'[o] \in {"inflight", "drained"}
      /\ slot'[o]["io"] = "none" /\ slot'[o]["timeout"] = slot[o]["timeout"]
      /\ slot'[o]["cancel"] = slot[o]["cancel"] /\ slot'[o]["drain"] = slot[o]["drain"]
      /\ seen'[o]["io"] = r /\ seen'[o]["timeout"] = seen[o]["timeout"]
      /\ UNCHANGED <<cancelRequested, todo>>
  BY <1>0, Consumed, SlotFacts
<1>6. result[o] # "none" => result'[o] = result[o]
  BY <1>0, Consumed
<1>7. Selected(o, "io", r) = "none" =>
        slot[o]["timeout"] \in Fired \/ result[o] # "none"
  BY <1>1, <1>4 DEF OpOk, WaiterOk, Doomed
<1>8. result[o] = "none" => result'[o] = Selected(o, "io", r)
  BY <1>0, <1>5, <1>7, Consumed, SlotFacts DEF Fired
<1>9. r = "ECANCELED" /\ result[o] = "none" =>
        cancelRequested[o] \/ slot[o]["timeout"] \in Fired
  BY <1>1 DEF OpOk, WaiterOk, Doomed
<1>10. slot[o]["timeout"] \in Fired => r = "ECANCELED" /\ o \in LinkedOps
  BY <1>1, <1>2, <1>3, ErrnoAssumption DEF OpOk, SlotsOk, TimerOk, Doomed, Fired, Errnos
<1>11. seen[o]["timeout"] = "ETIME" => r = "ECANCELED"
  BY <1>1, <1>2, <1>3, ErrnoAssumption DEF OpOk, TimerOk, Doomed, Errnos
<1> HIDE DEF r
<1>12. (SlotsOk(o) /\ SeenOk(o))'
  BY <1>1, <1>2, <1>3, <1>5 DEF OpOk, SlotsOk, SeenOk
<1>13. TimerOk(o)'
  <2>1. slot[o]["timeout"] \in Fired /\ ~cancelRequested[o] => Selected(o, "io", r) = "none"
    BY <1>10, <1>3 DEF Selected
  <2> QED
    BY <1>1, <1>5, <1>6, <1>8, <1>10, <1>11, <2>1 DEF OpOk, TimerOk
<1>14. WaiterOk(o)'
  BY <1>1, <1>5, <1>6, <1>7, <1>8, <1>3 DEF OpOk, WaiterOk, Doomed
<1>15. ResultOk(o)'
  <2>1. result[o] # "none" => seen[o]["timeout"] \in {"ETIME", "EALREADY"}
    BY <1>1, <1>3 DEF OpOk, WaiterOk, r
  <2>2. seen[o]["timeout"] = "ETIME" => result[o] # "none"
    BY <1>1 DEF OpOk, TimerOk
  <2>3. result[o] = "none" /\ Selected(o, "io", r) = "cancelled" => cancelRequested[o]
    BY <1>4, <1>9, <1>10
  <2> QED
    BY <1>1, <1>3, <1>4, <1>5, <1>6, <1>8, <1>11, <2>1, <2>2, <2>3 DEF OpOk, ResultOk
<1> QED
  BY <1>12, <1>13, <1>14, <1>15 DEF OpOk

\* Consuming the CQE of the linked timeout.
LEMMA TimeoutCqeOk ==
  ASSUME IndInv, ResultInv, NEW o \in Ops, HandleCompletion(o, "timeout")
  PROVE  OpOk(o)'
<1>0. "timeout" \in Kinds
  BY SlotFacts
<1>1. OpOk(o)
  BY DEF ResultInv
<1> DEFINE r == slot[o]["timeout"]
<1>2. r \in {"ETIME", "ECANCELED", "EALREADY"}
  BY <1>0, <1>1, Consumed DEF OpOk, SlotsOk, CqeResults, Errnos, Fired
<1>3. seen[o]["timeout"] = "none"
  BY <1>1, <1>2 DEF OpOk, SeenOk
<1>4. Selected(o, "timeout", r) = CASE r = "ETIME" -> "timedOut"
                                    [] r = "ECANCELED" -> "none"
                                    [] r = "EALREADY" -> "system"
  BY <1>2 DEF Selected, ErrorFromKernelResult
<1> QED
  BY <1>0, <1>1, <1>2, <1>3, <1>4, Consumed, SlotFacts
  DEF OpOk, SlotsOk, SeenOk, TimerOk, WaiterOk, ResultOk, Fired, Doomed, Cancelling

\* Consuming the CQE of a cancel.
LEMMA CancelCqeOk ==
  ASSUME IndInv, ResultInv, NEW o \in Ops, NEW k \in {"cancel", "drain"},
         HandleCompletion(o, k)
  PROVE  OpOk(o)'
<1>0. k \in Kinds /\ "io" \in Kinds \ {k} /\ "timeout" \in Kinds \ {k}
  BY SlotFacts
<1>1. OpOk(o)
  BY DEF ResultInv
<1>2. Selected(o, k, slot[o][k]) = "none"
  BY DEF Selected
<1>3. /\ slot'[o]["io"] = slot[o]["io"] /\ slot'[o]["timeout"] = slot[o]["timeout"]
      /\ seen'[o]["io"] = seen[o]["io"] /\ seen'[o]["timeout"] = seen[o]["timeout"]
      /\ slot'[o]["cancel"] \in {"none", slot[o]["cancel"]}
      /\ slot'[o]["drain"] \in {"none", slot[o]["drain"]}
  BY <1>0, Consumed, SlotFacts
<1>4. result'[o] = result[o]
  BY <1>0, <1>1, <1>2, <1>3, Consumed DEF OpOk, SeenOk, WaiterOk, Fired
<1>5. place[o] = "inflight" /\ place'[o] \in {"inflight", "drained"}
      /\ UNCHANGED <<cancelRequested, todo>>
  BY <1>0, Consumed
<1> QED
  BY <1>1, <1>3, <1>4, <1>5
  DEF OpOk, SlotsOk, SeenOk, TimerOk, WaiterOk, ResultOk, Fired, Doomed, Cancelling

\* The shutdown drain asks for every cancellation before it submits one.
LEMMA DrainRequestOk ==
  ASSUME IndInv, ResultInv, DrainRequestCancels PROVE ResultInv'
<1> SUFFICES ASSUME NEW o \in Ops PROVE OpOk(o)'
  BY DEF ResultInv
<1>1. UNCHANGED <<slot, seen, place, result>>
  BY DEF DrainRequestCancels
<1>2. cancelRequested[o] => cancelRequested'[o]
  BY DEF DrainRequestCancels
<1>3. o \in todo' => cancelRequested'[o] \/ result[o] # "none"
  BY DEF DrainRequestCancels, InFlight
<1> QED
  BY <1>1, <1>2, <1>3 DEF ResultInv, OpOk, SlotsOk, SeenOk, TimerOk, WaiterOk, ResultOk

\* Every step keeps what is known about every operation.
LEMMA ResultStep ==
  ASSUME IndInv, ResultInv, [Next]_vars PROVE ResultInv'
<1>type. TypeOK /\ todo \in SUBSET Ops
  BY DEF IndInv, TypeOK
<1>1. CASE Quiet
  BY <1>1, QuietFrame, OpFrame DEF opVars, ResultInv
<1>2. CASE Moving
  <2>1. ASSUME NEW o \in Ops, KernelIo(o) \/ KernelRun(o) \/ KernelTimer(o)
        PROVE ResultInv'
    BY <2>1, KernelIoOk, KernelTimerOk, KernelOthers
  <2>2. ASSUME NEW o \in Ops, NEW k \in Kinds, KernelCancel(o, k) \/ KernelPost(o, k)
        PROVE ResultInv'
    BY <2>2, KernelCancelOk, KernelOthers
  <2> QED
    BY <1>2, <2>1, <2>2, SubmitRingOk DEF Moving
<1>3. CASE FlushPendingSubmission
  <2>1. /\ pendingSubs # <<>>
        /\ PrepareSubmission(Head(pendingSubs))
        /\ UNCHANGED <<seen, cancelRequested, result, todo>>
    BY <1>3 DEF FlushPendingSubmission, HeadFits
  <2>2. Head(pendingSubs) \in Ops /\ place[Head(pendingSubs)] = "pending"
    BY <2>1 DEF IndInv, QueueInv, TypeOK
  <2> QED
    BY <2>1, <2>2, PrepareOk
<1>4. CASE DrainPending
  <2>1. /\ pendingSubs # <<>>
        /\ place' = [place EXCEPT ![Head(pendingSubs)] = "rejected"]
        /\ Deliver(Head(pendingSubs), "cancelled")
        /\ UNCHANGED <<slot, seen, cancelRequested, todo>>
    BY <1>4 DEF DrainPending
  <2>2. Head(pendingSubs) \in Ops /\ place[Head(pendingSubs)] = "pending"
    BY <2>1 DEF IndInv, QueueInv, TypeOK
  <2> QED
    BY <2>1, <2>2, RejectOk
<1>5. CASE DrainRequestCancels
  BY <1>5, DrainRequestOk
<1>6. ASSUME NEW o \in Ops, SubmitOperation(o) \/ SubmitOffLoop(o) PROVE ResultInv'
  <2>1. place[o] = "fresh"
    BY <1>6 DEF SubmitOperation, SubmitOffLoop, UserMaySubmit
  <2>2. ASSUME NEW r \in {"cancelled", "resourceExhausted", "system"}, Reject(o, r)
        PROVE ResultInv'
    BY <2>1, <2>2, RejectOk DEF Reject, loopVars
  <2>3. CASE /\ PrepareSubmission(o)
             /\ UNCHANGED <<seen, cancelRequested, result, resumed, loopVars>>
    BY <2>1, <2>3, PrepareOk DEF loopVars
  <2>4. CASE /\ place' = [place EXCEPT ![o] = "pending"]
             /\ UNCHANGED <<slot, seen, pendingCqes, cancelRequested, result,
                            resumed, retry, todo>>
    <3>1. \A p \in Ops \ {o} : OpOk(p)'
      BY <1>type, <2>4, OpFrame DEF ResultInv, TypeOK
    <3>2. OpOk(o) /\ place'[o] = "pending" /\ result[o] = "none"
      BY <1>type, <2>1, <2>4 DEF ResultInv, TypeOK, IndInv, PlaceInv
    <3>3. OpOk(o)'
      BY <2>1, <2>4, <3>2 DEF OpOk, SlotsOk, SeenOk, TimerOk, WaiterOk, ResultOk
    <3> QED
      BY <3>1, <3>3 DEF ResultInv
  <2> QED
    BY <1>6, <2>2, <2>3, <2>4 DEF SubmitOperation, SubmitOffLoop
<1>7. ASSUME NEW o \in Ops, CancelPending(o) PROVE ResultInv'
  <2>1. place[o] = "pending"
    BY <1>7 DEF CancelPending, IndInv, QueueInv
  <2>2. \A p \in Ops \ {o} : cancelRequested'[p] = cancelRequested[p]
    BY <1>type, <1>7 DEF CancelPending, TypeOK
  <2> QED
    BY <1>7, <2>1, <2>2, RejectOk DEF CancelPending
<1>8. ASSUME NEW o \in Ops, CancelInFlight(o) \/ RetryCancel(o) PROVE ResultInv'
  <2>1. SubmitCancel(o, "cancel") \/ UNCHANGED slot
    BY <1>8 DEF CancelInFlight, RetryCancel
  <2>2. /\ \A p \in Ops \ {o} : cancelRequested'[p] = cancelRequested[p]
        /\ cancelRequested[o] => cancelRequested'[o]
    BY <1>type, <1>8 DEF CancelInFlight, RetryCancel, TypeOK
  <2>3. UNCHANGED <<seen, place, result, todo>>
    BY <1>8 DEF CancelInFlight, RetryCancel
  <2> QED
    BY <2>1, <2>2, <2>3, CancelOk
<1>9. ASSUME NEW o \in Ops, DrainCancel(o) PROVE ResultInv'
  <2>1. SubmitCancel(o, "drain") \/ UNCHANGED slot
    BY <1>9 DEF DrainCancel
  <2>2. UNCHANGED <<seen, place, result, cancelRequested>> /\ todo' \subseteq todo
        /\ o \in todo
    BY <1>9 DEF DrainCancel
  <2> QED
    BY <2>1, <2>2, CancelOk
<1>10. ASSUME NEW o \in Ops, NEW k \in Kinds, HandleCompletion(o, k)
       PROVE ResultInv'
  <2>1. \A p \in Ops \ {o} : OpOk(p)'
    BY <1>10, Consumed, OpFrame DEF ResultInv
  <2>2. OpOk(o)'
    BY <1>10, IoCqeOk, TimeoutCqeOk, CancelCqeOk DEF Kinds
  <2> QED
    BY <2>1, <2>2 DEF ResultInv
<1> QED
  BY <1>1, <1>2, <1>3, <1>4, <1>5, <1>6, <1>7, <1>8, <1>9, <1>10, NextCases

----------------------------------------------------------------------------
(* The theorems *)

\* The invariant of IoOperationsProofs and this module's hold together.
LEMMA ResultInvariant == Spec => []ResultInv
<1>1. Init => ResultInv
  BY InitResult
<1>2. IndInv /\ ResultInv /\ [Next]_vars => ResultInv'
  BY ResultStep
<1> QED
  BY <1>1, <1>2, Invariance, PTL DEF Spec

\* A timeout, a cancellation and transferred bytes are reported as what they
\* were, in whatever order onCompletion sees the CQEs.
THEOREM ResultIsFaithful == Spec => []ResultFaithful
<1>1. ResultInv => ResultFaithful
  BY DEF ResultInv, OpOk, ResultOk, ResultFaithful, TimeoutFidelity, NoLostBytes,
     CancelledOnlyOnRequest
<1> QED
  BY <1>1, ResultInvariant, PTL

\* A waiter is resumed, and may free its buffer, only when the I/O is no longer
\* prepared or with the kernel, unless a worker executes it beyond recall.
THEOREM BufferIsReleased == Spec => []BufferReleased
<1>1. ResultInv => BufferReleased
  <2> SUFFICES ASSUME ResultInv, NEW o \in Ops \ PuntableOps, result[o] # "none"
               PROVE  slot[o]["io"] \notin {"sq", "kernel"}
    BY DEF BufferReleased
  <2>1. OpOk(o)
    BY DEF ResultInv
  <2>2. IoErrors \cap {"sq", "kernel"} = {}
    BY ErrnoAssumption DEF Errnos
  <2> QED
    BY <2>1, <2>2 DEF OpOk, SeenOk, TimerOk, WaiterOk, Doomed
<1> QED
  BY <1>1, ResultInvariant, PTL

----------------------------------------------------------------------------
(* IoOperations implements OperationContract: the EventLoop with its ring,   *)
(* its pending queue, its cancellations and its drain looks to the waiters   *)
(* like the contract.                                                        *)

\* What a step does to one operation, as its waiter sees it.
StageKept(o) == Stage(o)' = Stage(o) /\ result'[o] = result[o]

\* The instance's view of a step that changes operation o and no other.
LEMMA OneStage ==
  ASSUME TypeOK, TypeOK', NEW o \in Ops, \A p \in Ops \ {o} : StageKept(p)
  PROVE  /\ [p \in Ops |-> Stage(p)]' = [[p \in Ops |-> Stage(p)] EXCEPT ![o] = Stage(o)']
         /\ result' = [result EXCEPT ![o] = result'[o]]
<1>1. result \in [Ops -> Results] /\ result' \in [Ops -> Results]
  BY DEF TypeOK
<1>2. \A p \in Ops \ {o} : result'[p] = result[p] /\ Stage(p)' = Stage(p)
  BY DEF StageKept
<1> QED
  BY <1>1, <1>2

\* A step in which no waiter sees anything and loop() does not return.
LEMMA Unseen ==
  ASSUME TypeOK, TypeOK', \A p \in Ops : StageKept(p),
         (pc = "stopped") <=> (pc' = "stopped")
  PROVE  UNCHANGED Contract!vars
<1>1. result' = result
  BY DEF TypeOK, StageKept
<1>2. [p \in Ops |-> Stage(p)]' = [p \in Ops |-> Stage(p)]
  BY DEF StageKept
<1>3. (pc = "stopped")' = (pc = "stopped")
  OBVIOUS
<1> QED
  BY <1>1, <1>2, <1>3 DEF Contract!vars

\* An operation that is answered, before it was accepted or after.
LEMMA Answered ==
  ASSUME TypeOK, TypeOK', NEW o \in Ops, \A p \in Ops \ {o} : StageKept(p),
         result[o] = "none", result'[o] # "none",
         \/ place[o] = "fresh" /\ (pc' = "stopped" <=> pc = "stopped")
         \/ place[o] # "fresh" /\ pc # "stopped" /\ pc' # "stopped"
  PROVE  Contract!Next
<1>1. Stage(o)' = "answered"
  BY DEF Stage
<1>2. /\ [p \in Ops |-> Stage(p)]' = [[p \in Ops |-> Stage(p)] EXCEPT ![o] = "answered"]
      /\ result' = [result EXCEPT ![o] = result'[o]]
  BY <1>1, OneStage
<1>3. result'[o] \in Results \ {"none"}
  BY DEF TypeOK
<1>4. (pc = "stopped")' = (pc = "stopped")
  OBVIOUS
<1>5. Contract!Settle(o)
  BY <1>2, <1>3, <1>4 DEF Contract!Settle
<1>6. CASE place[o] = "fresh"
  BY <1>5, <1>6 DEF Stage, Contract!Refuse, Contract!Next
<1>7. CASE place[o] # "fresh" /\ pc # "stopped"
  BY <1>5, <1>7 DEF Stage, Contract!Answer, Contract!Next
<1> QED
  BY <1>6, <1>7

\* An operation that is accepted while loop() runs.
LEMMA Accepted ==
  ASSUME TypeOK, TypeOK', NEW o \in Ops, \A p \in Ops \ {o} : StageKept(p),
         result[o] = "none", result'[o] = "none",
         place[o] = "fresh", place'[o] # "fresh", pc # "stopped", UNCHANGED pc
  PROVE  Contract!Next
<1>1. Stage(o)' = "waiting" /\ Stage(o) = "fresh"
  BY DEF Stage
<1>2. /\ [p \in Ops |-> Stage(p)]' = [[p \in Ops |-> Stage(p)] EXCEPT ![o] = "waiting"]
      /\ result' = [result EXCEPT ![o] = result'[o]]
  BY <1>1, OneStage
<1>3. result' = result
  BY <1>2 DEF TypeOK
<1>4. (pc = "stopped")' = (pc = "stopped")
  OBVIOUS
<1> QED
  BY <1>1, <1>2, <1>3, <1>4 DEF Contract!Accept, Contract!Next

\* The stage of an operation depends on its place and its result only.
LEMMA SameStage ==
  ASSUME NEW p \in Ops, place'[p] = place[p], result'[p] = result[p]
  PROVE  StageKept(p)
  BY DEF StageKept, Stage

\* A quiet step returns from loop() or is seen by nobody.
LEMMA QuietSimulates ==
  ASSUME IndInv, TypeOK', Quiet
  PROVE  Contract!Next \/ UNCHANGED Contract!vars
<1>1. UNCHANGED <<place, result>>
  BY QuietFrame DEF opVars
<1>2. \A p \in Ops : StageKept(p)
  BY <1>1, SameStage
<1>3. pc = "stopped" => pc' = "stopped"
  BY DEF Quiet, Goto, DoControlFunctors, ControlFunctorsDone, PendingFunctorsDone,
     FlushDone, WaitCqe, CqesDone, LeaveLoop, DrainCancelsDone, DrainDone,
     WaitInterrupted, RingError, HandleWakeup, KernelWakeup, RequestStop,
     CommitStop, PostFunctor, vars
<1>4. CASE pc # "stopped" /\ pc' = "stopped"
  <2>1. pc \in DrainPhases /\ InFlight = {}
    BY <1>4, QuietPhase DEF IndInv
  <2>2. pendingSubs = <<>>
    BY <2>1 DEF IndInv, DrainInv
  <2>3. \A o \in Ops : place[o] \notin {"pending", "inflight"}
    BY <2>1, <2>2 DEF IndInv, QueueInv, InFlight
  <2>4. \A o \in Ops : Stage(o) # "waiting"
    <3> SUFFICES ASSUME NEW o \in Ops PROVE Stage(o) # "waiting"
      OBVIOUS
    <3>1. place[o] \in {"fresh", "rejected", "drained"}
      BY <2>3 DEF IndInv, TypeOK, Places
    <3> QED
      BY <3>1 DEF IndInv, PlaceInv, Stage
  <2>5. [p \in Ops |-> Stage(p)]' = [p \in Ops |-> Stage(p)] /\ result' = result
    BY <1>1, <1>2 DEF StageKept
  <2> QED
    BY <1>4, <2>4, <2>5 DEF Contract!End, Contract!Next
<1>5. CASE pc = "stopped" <=> pc' = "stopped"
  BY <1>2, <1>5, Unseen DEF IndInv
<1> QED
  BY <1>3, <1>4, <1>5

\* Giving a result to operation o leaves the others as they are.
LEMMA DeliverOthers ==
  ASSUME TypeOK, NEW o \in Ops, NEW r, Deliver(o, r), NEW q,
         place' = [place EXCEPT ![o] = q]
  PROVE  result'[o] = r /\ \A p \in Ops \ {o} : StageKept(p)
<1>1. \A p \in Ops \ {o} : place'[p] = place[p] /\ result'[p] = result[p]
  BY DEF TypeOK, Deliver
<1> QED
  BY <1>1, SameStage DEF TypeOK, Deliver

\* The initial state of the loop is that of the contract.
LEMMA InitSimulates == Init => Contract!Init
<1> SUFFICES ASSUME Init PROVE Contract!Init
  OBVIOUS
<1>1. \A o \in Ops : Stage(o) = "fresh"
  BY DEF Init, Stage
<1> QED
  BY <1>1 DEF Init, Contract!Init

\* Every step of the system is a step of the contract or invisible to it.
LEMMA StepSimulates ==
  ASSUME IndInv, IndInv', [Next]_vars
  PROVE  Contract!Next \/ UNCHANGED Contract!vars
<1>t. TypeOK /\ TypeOK' /\ PlaceInv
  BY DEF IndInv
<1>0. ASSUME UNCHANGED <<place, result>>, pc = "stopped" <=> pc' = "stopped"
      PROVE  UNCHANGED Contract!vars
  BY <1>0, <1>t, SameStage, Unseen
<1>1. CASE Quiet
  BY <1>1, <1>t, QuietSimulates
<1>2. CASE Moving
  <2>1. UNCHANGED <<place, result>>
    BY <1>2, MovingFrame
  <2>2. UNCHANGED pc \/ (pc \in {"submit", "drainSubmit"} /\ pc' \in {"wait", "drainWait"})
    BY <1>2 DEF Moving, SubmitRing, Goto, KernelIo, KernelRun, KernelTimer,
       KernelCancel, KernelPost
  <2> QED
    BY <1>0, <2>1, <2>2
<1>3. ASSUME NEW o \in Ops, NEW r, Reject(o, r), r # "none", place[o] = "fresh",
             UNCHANGED pc
      PROVE  Contract!Next
  <2>1. result'[o] = r /\ \A p \in Ops \ {o} : StageKept(p)
    BY <1>3, <1>t, DeliverOthers DEF Reject
  <2>2. result[o] = "none"
    BY <1>3, <1>t DEF PlaceInv
  <2> QED
    BY <1>3, <1>t, <2>1, <2>2, Answered
<1>4. ASSUME NEW o \in Ops, SubmitOperation(o) PROVE Contract!Next
  <2>1. place[o] = "fresh" /\ UNCHANGED pc /\ result[o] = "none"
    BY <1>4, <1>t DEF SubmitOperation, UserMaySubmit, PlaceInv
  <2>2. CASE Reject(o, "cancelled") \/ Reject(o, "resourceExhausted")
    BY <1>3, <2>1, <2>2
  <2>3. ASSUME ~stoppingRequested, NEW q \in {"inflight", "pending"},
               place' = [place EXCEPT ![o] = q], UNCHANGED result
        PROVE  Contract!Next
    <3>1. pc # "stopped"
      BY <2>3 DEF IndInv, DrainInv, LoopPhases
    <3>2. place'[o] # "fresh" /\ \A p \in Ops \ {o} : place'[p] = place[p]
      BY <1>t, <2>3 DEF TypeOK
    <3>3. \A p \in Ops \ {o} : StageKept(p)
      BY <2>3, <3>2, SameStage
    <3> QED
      BY <1>t, <2>1, <2>3, <3>1, <3>2, <3>3, Accepted
  <2> QED
    BY <1>4, <2>2, <2>3 DEF SubmitOperation, PrepareSubmission
<1>5. ASSUME NEW o \in Ops, SubmitOffLoop(o) PROVE Contract!Next
  BY <1>3, <1>5 DEF SubmitOffLoop
<1>6. ASSUME NEW o \in Ops, place[o] = "pending", Deliver(o, "cancelled"),
             place' = [place EXCEPT ![o] = "rejected"], UNCHANGED pc, pc # "stopped"
      PROVE  Contract!Next
  <2>1. result'[o] = "cancelled" /\ \A p \in Ops \ {o} : StageKept(p)
    BY <1>6, <1>t, DeliverOthers
  <2>2. result[o] = "none"
    BY <1>6, <1>t DEF PlaceInv
  <2> QED
    BY <1>6, <1>t, <2>1, <2>2, Answered
<1>7. ASSUME NEW o \in Ops, CancelPending(o) PROVE Contract!Next
  <2>1. place[o] = "pending" /\ pc # "stopped"
    BY <1>7 DEF CancelPending, IndInv, QueueInv, UserPhases
  <2> QED
    BY <1>6, <1>7, <2>1 DEF CancelPending
<1>8. CASE DrainPending
  <2>1. Head(pendingSubs) \in Ops /\ place[Head(pendingSubs)] = "pending"
    BY <1>8, <1>t DEF DrainPending, IndInv, QueueInv, TypeOK
  <2> QED
    BY <1>6, <1>8, <2>1 DEF DrainPending
<1>9. ASSUME NEW o \in Ops, CancelInFlight(o) \/ RetryCancel(o) \/ DrainCancel(o)
      PROVE  UNCHANGED Contract!vars
  BY <1>0, <1>9 DEF CancelInFlight, RetryCancel, DrainCancel
<1>10. CASE DrainRequestCancels
  BY <1>0, <1>10 DEF DrainRequestCancels, Goto
<1>11. CASE FlushPendingSubmission
  <2> DEFINE o == Head(pendingSubs)
  <2>1. o \in Ops /\ place[o] = "pending"
    BY <1>11, <1>t DEF FlushPendingSubmission, HeadFits, IndInv, QueueInv, TypeOK
  <2> HIDE DEF o
  <2>2. place' = [place EXCEPT ![o] = "inflight"] /\ UNCHANGED <<result, pc>>
    BY <1>11 DEF FlushPendingSubmission, PrepareSubmission, o
  <2>3. \A p \in Ops : StageKept(p)
    BY <1>t, <2>1, <2>2 DEF StageKept, Stage, TypeOK
  <2> QED
    BY <1>t, <2>2, <2>3, Unseen
<1>12. ASSUME NEW o \in Ops, NEW k \in Kinds, HandleCompletion(o, k)
       PROVE  Contract!Next \/ UNCHANGED Contract!vars
  <2> DEFINE r == OnCompletion(o, k, slot[o][k])
  <2>1. /\ place[o] = "inflight" /\ place'[o] \in {"inflight", "drained"}
        /\ \A p \in Ops \ {o} : place'[p] = place[p] /\ result'[p] = result[p]
    BY <1>12, CompletionEffect
  <2>2. \A p \in Ops \ {o} : StageKept(p)
    BY <2>1, SameStage
  <2>3. UNCHANGED pc /\ pc # "stopped"
    BY <1>12 DEF HandleCompletion
  <2>4. IF r # "none" THEN Deliver(o, r) ELSE UNCHANGED <<result, resumed>>
    BY <1>12, <2>1 DEF HandleCompletion
  <2>5. r # "none" => result[o] = "none"
    BY DEF OnCompletion
  <2> HIDE DEF r
  <2>6. CASE r # "none"
    <3>1. result'[o] = r
      BY <1>t, <2>4, <2>6 DEF Deliver, TypeOK
    <3> QED
      BY <1>t, <2>1, <2>2, <2>3, <2>5, <2>6, <3>1, Answered
  <2>7. CASE r = "none"
    <3>1. StageKept(o)
      BY <1>t, <2>1, <2>4, <2>7 DEF StageKept, Stage
    <3> QED
      BY <1>t, <2>2, <2>3, <3>1, Unseen
  <2> QED
    BY <2>6, <2>7
<1> QED
  BY <1>1, <1>2, <1>4, <1>5, <1>7, <1>8, <1>9, <1>10, <1>11, <1>12, NextCases

\* The EventLoop implements the contract of its operations: a waiter sees one
\* answer that never changes, and loop() returns owing none (submitOperation,
\* cancelOperation, handleCompletionEvent, drainOperationsForShutdown).
THEOREM ContractImplemented == Spec => ContractKept
<1>1. Init => Contract!Init
  BY InitSimulates
<1>2. IndInv /\ IndInv' /\ [Next]_vars => [Contract!Next]_(Contract!vars)
  BY StepSimulates
<1> QED
  BY <1>1, <1>2, Invariance, PTL DEF Spec, ContractKept, Contract!Spec
=============================================================================
