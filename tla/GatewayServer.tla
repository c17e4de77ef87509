---------------------------- MODULE GatewayServer ----------------------------
(***************************************************************************)
(* Accepting, serving and stopping: GatewayServer over TcpServer, Acceptor, *)
(* the worker loops of EventLoopThreadPool and the life of a TcpConnection.*)
(* Three kinds of thread share the state: the base loop (0), which accepts *)
(* and owns connections_; the worker loops (1..WorkerCount), which run the *)
(* connections and their sessions; the callers of stop().                  *)
(*                                                                         *)
(* A loop has two queues of functors, and a functor the one refuses goes   *)
(* to the other, so an inbox is a set: any of its functors may be next.    *)
(* LoopIngress shows that what an inbox has accepted is run, ProxySession  *)
(* that a cancelled session ends and IoOperations that a cancelled         *)
(* operation completes; here a session and its peer-close monitor are one  *)
(* operation each.                                                         *)
(***************************************************************************)
EXTENDS Naturals, FiniteSets

CONSTANTS
  Clients,      \* those who connect, one connection each
  WorkerCount,  \* worker_count
  Callers,      \* threads that call GatewayServer::stop after another has
  MaxRejected,  \* how many accept submissions the base loop rejects, a bound
  None          \* nobody

ASSUME WorkerAssumption == WorkerCount \in Nat \ {0}
ASSUME RejectAssumption == MaxRejected \in Nat
ASSUME NoneAssumption == None \notin Clients

Base == 0
Workers == 1..WorkerCount
Loops == {Base} \cup Workers

VARIABLES
  loop,              \* state of each EventLoop and its thread
  inbox,             \* functors queued to it
  started,           \* TcpServer::start has returned
  listening,         \* Acceptor: listening, and the open listening socket
  stopRequested,     \* Acceptor: stopRequested
  acceptOp,          \* Acceptor: acceptOperation, as the kernel has it
  rejected,          \* accept submissions rejected so far
  taken,             \* clients whose connection was accepted
  next,              \* next_ of the thread pool
  home,              \* loop of a connection
  connections,       \* connections_ of TcpServer
  state,             \* TcpConnection: state_
  closeCallbackInvoked, closes, \* its flag, and how often its fd was closed
  busy, step,        \* connection a worker is starting a session for, and how far
  session,           \* ProxySession
  monitors,          \* connections whose peer-close operation is in the kernel
  acceptingSessions, \* acceptingSessions_
  phase,             \* where the first caller of stop() is
  others,            \* where later callers are
  complete           \* loops that have done what the phase asks of them

acceptorVars == <<listening, stopRequested, acceptOp, rejected>>
connVars == <<state, closeCallbackInvoked, closes>>
busyVars == <<busy, step>>
sessionVars == <<session, monitors>>
serverVars == <<taken, next, home, connections>>
stopVars == <<acceptingSessions, phase, others>>
vars == <<loop, inbox, started, acceptorVars, connVars, busyVars, sessionVars,
          serverVars, stopVars, complete>>

Phases == {"stopAccepting", "stopAcquiring", "grace", "cancel", "cancelWait",
           "forceClose", "closing", "closeIdle", "drain", "drainBase"}
ConnFunctors == {"establish", "close", "destroy", "publish"}
Functor == [do : {"listen", "accept"} \cup Phases, conn : {None}]
             \cup [do : ConnFunctors, conn : Clients]
Do(f) == [do |-> f, conn |-> None]
For(f, c) == [do |-> f, conn |-> c]

TypeOK ==
  /\ loop \in [Loops -> {"none", "starting", "running", "quitting", "exited"}]
  /\ inbox \in [Loops -> SUBSET Functor]
  /\ {started, listening, stopRequested, acceptingSessions} \subseteq BOOLEAN
  /\ acceptOp \in {"none", "flight", "cancelling"} /\ rejected \in 0..MaxRejected
  /\ next \in Workers /\ home \in [Clients -> Loops]
  /\ taken \subseteq Clients /\ connections \subseteq Clients
  /\ monitors \subseteq Clients
  /\ state \in [Clients -> {"none", "connecting", "connected",
                            "disconnecting", "disconnected"}]
  /\ closeCallbackInvoked \subseteq Clients /\ closes \in [Clients -> 0..1]
  /\ busy \in [Workers -> Clients \cup {None}]
  /\ step \in [Workers -> {"callback", "turnAway", "admit"}]
  /\ session \in [Clients -> {"none", "active", "cancelled", "done"}]
  /\ phase \in {"new", "done"} \cup Phases
  /\ others \in [Callers -> {"new", "waiting", "done"}]
  /\ complete \subseteq Loops

Init ==
  /\ loop = [l \in Loops |-> IF l = Base THEN "running" ELSE "none"]
  /\ inbox = [l \in Loops |-> {}] /\ started = FALSE
  /\ listening = FALSE /\ stopRequested = FALSE /\ acceptOp = "none"
  /\ rejected = 0 /\ next = 1
  /\ taken = {} /\ home = [c \in Clients |-> Base]
  /\ connections = {} /\ state = [c \in Clients |-> "none"]
  /\ closeCallbackInvoked = {} /\ closes = [c \in Clients |-> 0]
  /\ busy = [w \in Workers |-> None] /\ step = [w \in Workers |-> "callback"]
  /\ session = [c \in Clients |-> "none"] /\ monitors = {}
  /\ acceptingSessions = TRUE /\ phase = "new" /\ others = [t \in Callers |-> "new"]
  /\ complete = {}

----------------------------------------------------------------------------
(* Queues *)

\* The inboxes with what queueControlInLoop adds to each loop; a loop that was
\* asked to quit refuses it.
Queued(box, added) ==
  [l \in Loops |-> IF loop[l] = "running" THEN box[l] \cup added[l] ELSE box[l]]

Only(l, fs) == [k \in Loops |-> IF k = l THEN fs ELSE {}]

\* The inboxes once loop l has taken f.
Taken(l, f) == [inbox EXCEPT ![l] = @ \ {f}]

\* Loop l can run functor f now.
Runs(l, f) ==
  /\ f \in inbox[l] /\ loop[l] \in {"running", "quitting"}
  /\ l \in Workers => busy[l] = None

\* forceClose of the connections C, which may be called by any thread: the
\* compare-exchange of the state, then the functor that handles the close.
ForceClose(C, box) ==
  LET hit == {c \in C : state[c] = "connected"} IN
  /\ state' = [c \in Clients |-> IF c \in hit THEN "disconnecting" ELSE state[c]]
  /\ inbox' = Queued(box, [l \in Loops |->
                       {For("close", c) : c \in {d \in hit : home[d] = l}}])

----------------------------------------------------------------------------
(* Starting: EventLoopThreadPool::start waits for each thread in turn *)

StartLoop(w) ==
  /\ loop[w] = "none" /\ \A v \in 1..w - 1 : loop[v] = "running"
  /\ loop' = [loop EXCEPT ![w] = "starting"]
  /\ UNCHANGED <<inbox, started, acceptorVars, connVars, busyVars, sessionVars,
                 serverVars, stopVars, complete>>

ThreadFunc(w) ==
  /\ loop[w] = "starting"
  /\ loop' = [loop EXCEPT ![w] = "running"]
  /\ UNCHANGED <<inbox, started, acceptorVars, connVars, busyVars, sessionVars,
                 serverVars, stopVars, complete>>

StartServer ==
  /\ ~started /\ \A w \in Workers : loop[w] = "running"
  /\ started' = TRUE
  /\ inbox' = Queued(inbox, Only(Base, {Do("listen")}))
  /\ UNCHANGED <<loop, acceptorVars, connVars, busyVars, sessionVars,
                 serverVars, stopVars, complete>>

----------------------------------------------------------------------------
(* Acceptor and TcpServer, on the base loop *)

\* Mutant: a rejected submission is not tried again.
SubmitAcceptOnce(box) ==
  \/ acceptOp' = "flight" /\ inbox' = box /\ UNCHANGED rejected
  \/ /\ rejected < MaxRejected
     /\ acceptOp' = "none" /\ inbox' = box /\ rejected' = rejected + 1

\* asyncAccept: a rejected submission is tried again by a functor.
SubmitAccept(box) ==
  \/ acceptOp' = "flight" /\ inbox' = box /\ UNCHANGED rejected
  \/ /\ rejected < MaxRejected
     /\ acceptOp' = "none" /\ rejected' = rejected + 1
     /\ inbox' = Queued(box, Only(Base, {Do("accept")}))

Listen ==
  /\ Runs(Base, Do("listen"))
  /\ IF stopRequested
     THEN inbox' = Taken(Base, Do("listen")) /\ UNCHANGED acceptorVars
     ELSE /\ listening' = TRUE
          /\ SubmitAccept(Taken(Base, Do("listen")))
          /\ UNCHANGED stopRequested
  /\ UNCHANGED <<loop, started, connVars, busyVars, sessionVars, serverVars,
                 stopVars, complete>>

RetryAccept ==
  /\ Runs(Base, Do("accept"))
  /\ IF ~listening
     THEN inbox' = Taken(Base, Do("accept")) /\ UNCHANGED acceptorVars
     ELSE /\ SubmitAccept(Taken(Base, Do("accept")))
          /\ UNCHANGED <<listening, stopRequested>>
  /\ UNCHANGED <<loop, started, connVars, busyVars, sessionVars, serverVars,
                 stopVars, complete>>

\* getNextLoop: the workers in turn.
LoopAfter(w) == IF w = WorkerCount THEN 1 ELSE w + 1

\* Mutant: a descriptor that arrives late is forgotten.
TurnedAwayLeaky(c) == UNCHANGED closes

\* A descriptor that arrives when nobody listens any more is closed.
TurnedAway(c) == closes' = [closes EXCEPT ![c] = @ + 1]

\* newConnection registers the connection and has its worker establish it.
NewConnection(c) ==
  /\ home' = [home EXCEPT ![c] = next]
  /\ next' = LoopAfter(next)
  /\ connections' = connections \cup {c}
  /\ state' = [state EXCEPT ![c] = "connecting"]

\* handleRead with a connection.  The loop of accept4 calls that follows takes
\* one connection after another in the same way; here each is an operation.
Accepted(c) ==
  /\ loop[Base] = "running" /\ acceptOp # "none" /\ c \notin taken
  /\ taken' = taken \cup {c}
  /\ IF listening
     THEN /\ NewConnection(c)
          /\ SubmitAccept(Queued(inbox, Only(next, {For("establish", c)})))
          /\ UNCHANGED closes
     ELSE /\ acceptOp' = "none"
          /\ TurnedAway(c)
          /\ UNCHANGED <<inbox, rejected, home, next, connections, state>>
  /\ UNCHANGED <<loop, started, listening, stopRequested, closeCallbackInvoked,
                 busyVars, sessionVars, stopVars, complete>>

\* The accept fails, which handleRead answers with the next one, or its
\* cancellation arrives.
AcceptFailed ==
  /\ loop[Base] = "running" /\ acceptOp # "none"
  /\ IF listening THEN SubmitAccept(inbox)
     ELSE acceptOp' = "none" /\ UNCHANGED <<inbox, rejected>>
  /\ UNCHANGED <<loop, started, listening, stopRequested, connVars, busyVars,
                 sessionVars, serverVars, stopVars, complete>>

\* Acceptor::stop in its loop: the accept is cancelled, the socket closed.
StopInLoop ==
  /\ stopRequested' = TRUE /\ listening' = FALSE
  /\ acceptOp' = IF acceptOp = "none" THEN "none" ELSE "cancelling"

StopAccepting ==
  /\ Runs(Base, Do("stopAccepting"))
  /\ StopInLoop
  /\ inbox' = Taken(Base, Do("stopAccepting"))
  /\ complete' = complete \cup {Base}
  /\ UNCHANGED <<loop, started, rejected, connVars, busyVars, sessionVars,
                 serverVars, stopVars>>

\* forEachConnection over what connections_ has now.
ForceCloseAll ==
  /\ Runs(Base, Do("forceClose"))
  /\ ForceClose(connections, Taken(Base, Do("forceClose")))
  /\ complete' = complete \cup {Base}
  /\ UNCHANGED <<loop, started, acceptorVars, closeCallbackInvoked, closes,
                 busyVars, sessionVars, serverVars, stopVars>>

\* publishDestroyed: the connection leaves connections_ and the count.
Publish(c) ==
  /\ Runs(Base, For("publish", c))
  /\ inbox' = Taken(Base, For("publish", c))
  /\ connections' = connections \ {c}
  /\ UNCHANGED <<loop, started, acceptorVars, connVars, busyVars, sessionVars,
                 taken, next, home, stopVars, complete>>

----------------------------------------------------------------------------
(* TcpConnection and the sessions, on a worker *)

\* connectEstablished, up to its connection callback.
Establish(c) ==
  /\ Runs(home[c], For("establish", c))
  /\ inbox' = Taken(home[c], For("establish", c))
  /\ state' = [state EXCEPT ![c] = "connected"]
  /\ busy' = [busy EXCEPT ![home[c]] = c]
  /\ step' = [step EXCEPT ![home[c]] = "callback"]
  /\ UNCHANGED <<loop, started, acceptorVars, closeCallbackInvoked, closes,
                 sessionVars, serverVars, stopVars, complete>>

\* startSession reads acceptingSessions_ ...
StartSession(w) ==
  /\ busy[w] # None /\ step[w] = "callback"
  /\ step' = [step EXCEPT ![w] = IF acceptingSessions THEN "admit" ELSE "turnAway"]
  /\ UNCHANGED <<loop, inbox, started, acceptorVars, connVars, busy,
                 sessionVars, serverVars, stopVars, complete>>

\* ... and counts and runs the session, or closes the connection.
Admit(w) ==
  /\ busy[w] # None /\ step[w] = "admit"
  /\ session' = [session EXCEPT ![busy[w]] = "active"]
  /\ monitors' = monitors \cup {busy[w]}
  /\ busy' = [busy EXCEPT ![w] = None]
  /\ step' = [step EXCEPT ![w] = "callback"]
  /\ UNCHANGED <<loop, inbox, started, acceptorVars, connVars, serverVars,
                 stopVars, complete>>

TurnAway(w) ==
  /\ busy[w] # None /\ step[w] = "turnAway"
  /\ ForceClose({busy[w]}, inbox)
  /\ busy' = [busy EXCEPT ![w] = None]
  /\ step' = [step EXCEPT ![w] = "callback"]
  /\ UNCHANGED <<loop, started, acceptorVars, closeCallbackInvoked, closes,
                 sessionVars, serverVars, stopVars, complete>>

\* A session ends: its connection is closed unless it was before (a cancelled
\* session may find it closed, destroyed or gone), and it is counted out.
SessionEnds(c) ==
  /\ session[c] \in {"active", "cancelled"} /\ busy[home[c]] = None
  /\ session' = [session EXCEPT ![c] = "done"]
  /\ ForceClose({c}, inbox)
  /\ UNCHANGED <<loop, started, acceptorVars, closeCallbackInvoked, closes,
                 busyVars, monitors, serverVars, stopVars, complete>>

\* cancelInLoop of the sessions C, on their worker: one that is not cancelled yet
\* is, and its connection is closed while it goes on to its end.
CancelInLoop(C, box) ==
  LET hit == {c \in C : session[c] = "active"} IN
  /\ session' = [c \in Clients |-> IF c \in hit THEN "cancelled" ELSE session[c]]
  /\ ForceClose(hit, box)

\* The peer-close operation completes: the client has closed, which cancels its
\* session, or the session was cancelled or has ended.
MonitorDone(c) ==
  /\ c \in monitors /\ busy[home[c]] = None
  /\ monitors' = monitors \ {c}
  /\ CancelInLoop({c}, inbox)
  /\ UNCHANGED <<loop, started, acceptorVars, closeCallbackInvoked, closes,
                 busyVars, serverVars, stopVars, complete>>

\* handleClose: the close callback is invoked once and has the connection
\* destroyed; the operations of the connection were cancelled before.
HandleClose(c) ==
  /\ Runs(home[c], For("close", c))
  /\ LET first == state[c] # "disconnected" /\ c \notin closeCallbackInvoked IN
     /\ inbox' = Queued(Taken(home[c], For("close", c)),
                        Only(home[c], IF first THEN {For("destroy", c)} ELSE {}))
     /\ closeCallbackInvoked' = closeCallbackInvoked \cup {c}
  /\ UNCHANGED <<loop, started, acceptorVars, state, closes, busyVars,
                 sessionVars, serverVars, stopVars, complete>>

ConnectDestroyed(c) ==
  /\ Runs(home[c], For("destroy", c))
  /\ inbox' = Queued(Taken(home[c], For("destroy", c)),
                     Only(Base, {For("publish", c)}))
  /\ state' = [state EXCEPT ![c] = "disconnected"]
  /\ closes' = [closes EXCEPT ![c] = @ + 1]
  /\ UNCHANGED <<loop, started, acceptorVars, closeCallbackInvoked, busyVars,
                 sessionVars, serverVars, stopVars, complete>>

----------------------------------------------------------------------------
(* What stop() has the workers do *)

ActiveSessions == {c \in Clients : session[c] \in {"active", "cancelled"}}

\* Mutant: cancelling reaches the connects of the pool only.
CancelledNone(w) == {}

\* Those cancelSessions cancels on worker w.
CancelledOn(w) == {c \in ActiveSessions : home[c] = w}

OnWorker(w, f) ==
  /\ Runs(w, Do(f)) /\ f \in {"stopAcquiring", "cancel", "closeIdle"}
  /\ IF f = "cancel" THEN CancelInLoop(CancelledOn(w), Taken(w, Do(f)))
     ELSE inbox' = Taken(w, Do(f)) /\ UNCHANGED <<session, state>>
  /\ complete' = complete \cup {w}
  /\ UNCHANGED <<loop, started, acceptorVars, closeCallbackInvoked, closes,
                 busyVars, monitors, serverVars, stopVars>>

\* inFlightOperationCount.
InFlight(l) ==
  IF l = Base THEN acceptOp # "none"
  ELSE \E c \in Clients : home[c] = l /\ (c \in monitors \/ c \in ActiveSessions)

\* The poll of an operation drain posts itself again while there are any.
Drained(l, f) ==
  /\ Runs(l, Do(f)) /\ f \in {"drain", "drainBase"}
  /\ ~InFlight(l)
  /\ inbox' = Taken(l, Do(f))
  /\ complete' = complete \cup {l}
  /\ UNCHANGED <<loop, started, acceptorVars, connVars, busyVars, sessionVars,
                 serverVars, stopVars>>

\* loop() returns once all it has accepted was run, and its thread ends.
LoopExits(l) ==
  /\ loop[l] = "quitting" /\ inbox[l] = {}
  /\ l \in Workers => busy[l] = None
  /\ loop' = [loop EXCEPT ![l] = "exited"]
  /\ UNCHANGED <<inbox, started, acceptorVars, connVars, busyVars, sessionVars,
                 serverVars, stopVars, complete>>

----------------------------------------------------------------------------
(* GatewayServer::stop *)

Targets(p) ==
  CASE p \in {"stopAccepting", "forceClose", "drainBase"} -> {Base}
    [] p \in {"stopAcquiring", "cancel", "closeIdle", "drain"} -> Workers
    [] OTHER -> {}

\* stopping_ and stopped_.
stopping == phase # "new"
stopped == phase = "done"

\* postBaseAndWait and runOnWorkersAndWait: ask, then wait for the last one.
Enter(p) ==
  /\ phase' = p
  /\ complete' = {}
  /\ inbox' = Queued(inbox, [l \in Loops |-> IF l \in Targets(p) THEN {Do(p)}
                                             ELSE {}])

\* Mutant: sessions are turned away only by the pool that stops acquiring.
StillAccepting == acceptingSessions

\* What stop() leaves in acceptingSessions_ before it does anything else.
NoLongerAccepting == FALSE

StopBegins ==
  /\ started /\ phase = "new"
  /\ acceptingSessions' = NoLongerAccepting
  /\ Enter("stopAccepting")
  /\ UNCHANGED <<loop, started, acceptorVars, connVars, busyVars, sessionVars,
                 serverVars, others>>

\* Mutant: the second caller does not wait for the first.
JoinsAs == "done"

\* Where a caller is that finds stopping_ set.
JoinedAs == "waiting"

\* Another caller waits for the first to be through, or finds it is.
StopJoins(t) ==
  /\ \/ others[t] = "new" /\ stopping /\ ~stopped
          /\ others' = [others EXCEPT ![t] = JoinedAs]
     \/ others[t] \in {"new", "waiting"} /\ stopped
          /\ others' = [others EXCEPT ![t] = "done"]
  /\ UNCHANGED <<loop, inbox, started, acceptorVars, connVars, busyVars,
                 sessionVars, serverVars, acceptingSessions, phase, complete>>

\* The phase after p, as far as the counters let stop() see.
After(p) ==
  CASE p = "stopAccepting" -> {"stopAcquiring"}
    [] p = "stopAcquiring" -> {"grace"}
    [] p = "grace" -> {IF ActiveSessions = {} THEN "forceClose" ELSE "cancel"}
    [] p = "cancel" -> {"cancelWait"}
    [] p = "cancelWait" -> {q \in {"forceClose"} : ActiveSessions = {}}
    [] p = "forceClose" -> {"closing"}
    [] p = "closing" -> {q \in {"closeIdle"} : connections = {}}
    [] p = "closeIdle" -> {"drain"}
    [] OTHER -> {}

\* The grace period may end with sessions active; the waits after it may not.
StopProceeds ==
  /\ phase \in Phases /\ Targets(phase) \subseteq complete
  /\ \E p \in After(phase) : Enter(p)
  /\ UNCHANGED <<loop, started, acceptorVars, connVars, busyVars, sessionVars,
                 serverVars, acceptingSessions, others>>

QuitWorkers ==
  /\ phase = "drain" /\ Workers \subseteq complete
  /\ loop' = [l \in Loops |-> IF l \in Workers THEN "quitting" ELSE loop[l]]
  /\ Enter("drainBase")
  /\ UNCHANGED <<started, acceptorVars, connVars, busyVars, sessionVars,
                 serverVars, acceptingSessions, others>>

StopEnds ==
  /\ phase = "drainBase" /\ Base \in complete
  /\ loop' = [loop EXCEPT ![Base] = "quitting"]
  /\ phase' = "done"
  /\ UNCHANGED <<inbox, started, acceptorVars, connVars, busyVars, sessionVars,
                 serverVars, acceptingSessions, others, complete>>

----------------------------------------------------------------------------
Boot == StartServer \/ \E w \in Workers : StartLoop(w)

BaseStep ==
  \/ Listen \/ RetryAccept \/ AcceptFailed \/ StopAccepting \/ ForceCloseAll
  \/ \E c \in Clients : Publish(c)
  \/ Drained(Base, "drainBase") \/ LoopExits(Base)

WorkerStep(w) ==
  \/ ThreadFunc(w) \/ StartSession(w) \/ Admit(w) \/ TurnAway(w)
  \/ \E c \in Clients : home[c] = w /\ (\/ Establish(c) \/ HandleClose(c)
                                        \/ ConnectDestroyed(c))
  \/ \E f \in {"stopAcquiring", "cancel", "closeIdle"} : OnWorker(w, f)
  \/ Drained(w, "drain") \/ LoopExits(w)

StopStep ==
  \/ StopProceeds \/ QuitWorkers \/ StopEnds
  \/ \E t \in Callers : StopJoins(t)

Ended ==
  /\ stopped /\ \A l \in Loops : loop[l] = "exited"
  /\ \A t \in Callers : others[t] = "done"
  /\ UNCHANGED vars

Next ==
  \/ Boot \/ BaseStep
  \/ \E w \in Workers : WorkerStep(w)
  \/ \E c \in Clients : Accepted(c) \/ SessionEnds(c) \/ MonitorDone(c)
  \/ StopBegins \/ StopStep
  \/ Ended

Spec == Init /\ [][Next]_vars

\* Threads go on, and what a worker has cancelled ends: a cancelled session, the
\* operation of one that has ended.  Nobody has to call stop(), to connect or to
\* end a session.
Progress(w) ==
  \/ WorkerStep(w)
  \/ \E c \in Clients : /\ home[c] = w
                        /\ \/ session[c] = "cancelled" /\ SessionEnds(c)
                           \/ session[c] # "active" /\ MonitorDone(c)

Fairness ==
  /\ WF_vars(Boot) /\ WF_vars(BaseStep)
  /\ \A w \in Workers : WF_vars(Progress(w))
  /\ WF_vars(StopStep)

FairSpec == Spec /\ Fairness

----------------------------------------------------------------------------
(* Properties *)

\* The chain of accepts never breaks: while the server listens, an accept is
\* with the kernel or a functor is queued that submits the next one, whatever
\* was rejected or failed (asyncAccept, handleRead).
AcceptArmed ==
  listening => acceptOp # "none" \/ Do("accept") \in inbox[Base]

\* The queues of the loops hold functors of live objects for loops that exist,
\* and the listener goes on accepting until it is told to stop.
ListenerSound == TypeOK /\ AcceptArmed

\* Every descriptor accept returned is closed exactly once or still belongs to
\* a registered connection that will close it: none is lost in the hand-over
\* from the base loop to a worker, and no close callback runs twice although
\* cancelInLoop, the end of the session and stop() each close the connection.
DescriptorsOwned ==
  \A c \in Clients :
    /\ closes[c] <= 1
    /\ c \in taken => closes[c] = 1 \/ c \in connections
    /\ Cardinality({l \in Loops : For("destroy", c) \in inbox[l]}) + closes[c] <= 1

\* Once the workers have stopped acquiring, no session is admitted any more:
\* one that saw acceptingSessions_ set was counted before stop() looks at the
\* count, so what stop() waits for only shrinks.
AdmissionClosed ==
  [][(phase \in Phases \ {"stopAccepting", "stopAcquiring"}) =>
        ActiveSessions' \subseteq ActiveSessions]_vars

\* stop() returns to nobody before everything is down: no session, connection,
\* open descriptor or operation is left and no loop accepts a functor.
StoppedClean ==
  phase = "done" \/ (\E t \in Callers : others[t] = "done") =>
    /\ ActiveSessions = {} /\ connections = {}
    /\ \A l \in Loops : loop[l] \in {"quitting", "exited"} /\ ~InFlight(l)
    /\ \A c \in Clients : c \in taken => closes[c] = 1

\* Every caller of stop() returns: what each phase waits for comes about (the
\* code gives it five seconds and aborts the process after them), and the last
\* phase releases the callers that wait for the first one.
StopReturns ==
  stopping ~> phase = "done" /\ \A t \in Callers : others[t] # "waiting"
=============================================================================
