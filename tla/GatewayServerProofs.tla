------------------------- MODULE GatewayServerProofs -------------------------
(***************************************************************************)
(* Proofs about GatewayServer for every set of clients and of callers of   *)
(* stop() and every number of workers: the chain of accepts, the hand-over *)
(* of a descriptor from the base loop to a worker and back, and what each  *)
(* phase of stop() has made sure of when the next one begins.              *)
(***************************************************************************)
EXTENDS GatewayServer, FiniteSetTheorems, TLAPS

\* Phases once the workers have stopped acquiring, once no session is active,
\* once connections_ is empty, and once the workers were asked to quit.
Quieted == {"grace", "cancel", "cancelWait", "forceClose", "closing", "closeIdle",
            "drain", "drainBase", "done"}
Sessionless == {"forceClose", "closing", "closeIdle", "drain", "drainBase", "done"}
Emptied == {"closeIdle", "drain", "drainBase", "done"}
Quit == {"drainBase", "done"}

\* The loops run while there is something to hand over between them.
LoopInv ==
  /\ loop[Base] # "running" <=> phase = "done"
  /\ loop[Base] \in {"running", "quitting", "exited"}
  /\ \A w \in Workers : loop[w] \in {"quitting", "exited"} <=> phase \in Quit
  /\ started => \A w \in Workers : loop[w] \notin {"none", "starting"}
  /\ \/ phase # "new" \/ listening \/ acceptOp # "none" \/ taken # {}
     \/ Do("listen") \in inbox[Base]
     => started

\* stop() asks one thing at a time.
AskInv ==
  \A l \in Loops : \A q \in Phases :
    Do(q) \in inbox[l] => q = phase /\ l \in Targets(phase) /\ l \notin complete

\* The acceptor is stopped first and stays so.
ListenInv ==
  /\ AcceptArmed
  /\ stopRequested => ~listening
  /\ phase \in {"stopAcquiring"} \cup Quieted => stopRequested
  /\ phase = "stopAccepting" /\ Base \in complete => stopRequested
  /\ phase = "done" \/ (phase = "drainBase" /\ Base \in complete) => acceptOp = "none"

Admitting(w) == busy[w] # None /\ step[w] = "admit"

\* A worker that has read acceptingSessions_ counts its session before it runs
\* the functor that stops its pool.
SessionInv ==
  /\ phase # "new" => ~acceptingSessions
  /\ \A w \in Workers : Admitting(w) =>
       phase \in {"new", "stopAccepting"} \/ (phase = "stopAcquiring" /\ w \notin complete)
  /\ phase \in Sessionless => ActiveSessions = {}
  /\ phase \in Emptied => connections = {}
  /\ phase = "drain" => \A c \in monitors : home[c] \notin complete
  /\ phase \in Quit => \A c \in monitors : home[c] \notin Workers
  /\ \A t \in Callers : others[t] = "done" => phase = "done"

\* A queued functor says where its connection is ...
QueueOk(c) ==
  \A l \in Loops :
    /\ For("establish", c) \in inbox[l] => l = home[c] /\ state[c] = "connecting"
    /\ For("close", c) \in inbox[l] =>
         l = home[c] /\ state[c] = "disconnecting" /\ c \notin closeCallbackInvoked
    /\ For("destroy", c) \in inbox[l] =>
         l = home[c] /\ state[c] = "disconnecting" /\ c \in closeCallbackInvoked
    /\ For("publish", c) \in inbox[l] => l = Base /\ state[c] = "disconnected"

\* ... its state what became of its descriptor ...
StateOk(c) ==
  /\ c \notin taken => state[c] = "none" /\ closes[c] = 0
  /\ state[c] = "none" => c \notin connections /\ (c \in taken => closes[c] = 1)
  /\ state[c] # "none" => home[c] \in Workers
  /\ state[c] \in {"connecting", "connected", "disconnecting"} =>
       c \in connections /\ closes[c] = 0
  /\ state[c] = "disconnected" => closes[c] = 1
  /\ state[c] \in {"none", "connecting", "connected"} => c \notin closeCallbackInvoked

\* ... and somebody is going to move it on.
MovesOn(c) ==
  /\ state[c] = "connecting" => For("establish", c) \in inbox[home[c]]
  /\ state[c] = "connected" => busy[home[c]] = c \/ c \in ActiveSessions
  /\ state[c] = "disconnecting" =>
       For("close", c) \in inbox[home[c]] \/ For("destroy", c) \in inbox[home[c]]
  /\ state[c] = "disconnected" /\ c \in connections => For("publish", c) \in inbox[Base]

ConnInv == \A c \in Clients : QueueOk(c) /\ StateOk(c) /\ MovesOn(c)

IndInv == TypeOK /\ LoopInv /\ AskInv /\ ListenInv /\ SessionInv /\ ConnInv

----------------------------------------------------------------------------
(* Functors and queues *)

LEMMA FunctorFacts ==
  /\ \A x, y : Do(x) = Do(y) => x = y
  /\ \A x, y : \A c \in Clients : Do(x) # For(y, c)
  /\ \A x, y, c, d : For(x, c) = For(y, d) => x = y /\ c = d
<1>1. \A x, y : Do(x) = Do(y) => x = y
  BY DEF Do
<1>2. \A x, y : \A c \in Clients : Do(x) # For(y, c)
  <2> SUFFICES ASSUME NEW x, NEW y, NEW c \in Clients, Do(x) = For(y, c) PROVE FALSE
    OBVIOUS
  <2>1. Do(x).conn = None /\ For(y, c).conn = c
    BY DEF Do, For
  <2> QED
    BY <2>1, NoneAssumption
<1>3. \A x, y, c, d : For(x, c) = For(y, d) => x = y /\ c = d
  <2> SUFFICES ASSUME NEW x, NEW y, NEW c, NEW d, For(x, c) = For(y, d)
               PROVE  x = y /\ c = d
    OBVIOUS
  <2>1. For(x, c).do = x /\ For(y, d).do = y /\ For(x, c).conn = c /\ For(y, d).conn = d
    BY DEF For
  <2> QED
    BY <2>1
<1> QED
  BY <1>1, <1>2, <1>3

LEMMA FunctorTypes ==
  /\ \A f \in {"listen", "accept"} \cup Phases : Do(f) \in Functor
  /\ \A f \in ConnFunctors : \A c \in Clients : For(f, c) \in Functor
BY DEF Do, For, Functor

\* What an inbox holds after queueControlInLoop.
LEMMA QueuedIn ==
  ASSUME NEW box, NEW added, NEW l \in Loops, NEW f
  PROVE  f \in Queued(box, added)[l] <=>
           f \in box[l] \/ (loop[l] = "running" /\ f \in added[l])
BY DEF Queued

LEMMA OnlyIn ==
  ASSUME NEW k \in Loops, NEW fs, NEW l \in Loops, NEW f
  PROVE  f \in Only(k, fs)[l] <=> l = k /\ f \in fs
BY DEF Only

LEMMA TakenIn ==
  ASSUME TypeOK, NEW k \in Loops, NEW g, NEW l \in Loops, NEW f
  PROVE  f \in Taken(k, g)[l] <=> f \in inbox[l] /\ ~(l = k /\ f = g)
BY DEF Taken, TypeOK

LEMMA BoxTypes ==
  /\ \A box \in [Loops -> SUBSET Functor] : \A added \in [Loops -> SUBSET Functor] :
       Queued(box, added) \in [Loops -> SUBSET Functor]
  /\ \A k \in Loops : \A fs \in SUBSET Functor : Only(k, fs) \in [Loops -> SUBSET Functor]
  /\ TypeOK => \A k \in Loops : \A g : Taken(k, g) \in [Loops -> SUBSET Functor]
<1>1. ASSUME NEW box \in [Loops -> SUBSET Functor], NEW added \in [Loops -> SUBSET Functor]
      PROVE  Queued(box, added) \in [Loops -> SUBSET Functor]
  BY DEF Queued
<1>2. ASSUME NEW k \in Loops, NEW fs \in SUBSET Functor
      PROVE  Only(k, fs) \in [Loops -> SUBSET Functor]
  BY DEF Only
<1>3. ASSUME TypeOK, NEW k \in Loops, NEW g PROVE Taken(k, g) \in [Loops -> SUBSET Functor]
  BY <1>3 DEF Taken, TypeOK
<1> QED
  BY <1>1, <1>2, <1>3

LEMMA LoopFacts == Base \in Loops /\ Base \notin Workers /\ Workers \subseteq Loops
BY WorkerAssumption DEF Loops, Base, Workers

----------------------------------------------------------------------------
(* What a step leaves alone *)

LEMMA LoopSame ==
  ASSUME LoopInv, UNCHANGED <<loop, phase, started>>,
         listening' => listening \/ started,
         acceptOp' # "none" => acceptOp # "none" \/ started,
         taken' # {} => taken # {} \/ started,
         Do("listen") \in inbox'[Base] => Do("listen") \in inbox[Base]
  PROVE  LoopInv'
BY DEF LoopInv

LEMMA AskFewer ==
  ASSUME AskInv, UNCHANGED phase,
         \A l \in Loops : \A q \in Phases :
           Do(q) \in inbox'[l] => Do(q) \in inbox[l] /\ (l \in complete' => l \in complete)
  PROVE  AskInv'
BY DEF AskInv

LEMMA ListenSame ==
  ASSUME ListenInv, UNCHANGED <<listening, stopRequested, acceptOp, phase>>,
         Do("accept") \in inbox[Base] => Do("accept") \in inbox'[Base],
         Base \in complete' => Base \in complete
  PROVE  ListenInv'
BY DEF ListenInv, AcceptArmed

LEMMA SessionSame ==
  ASSUME SessionInv, UNCHANGED <<phase, others, acceptingSessions>>,
         \A w \in Workers : Admitting(w)' => Admitting(w) /\ (w \in complete' => w \in complete),
         phase \in Sessionless => ActiveSessions' \subseteq ActiveSessions,
         phase \in Emptied => connections' \subseteq connections,
         phase \in Emptied => \A c \in monitors' : c \in monitors /\ home'[c] = home[c],
         phase = "drain" => complete' \subseteq complete
  PROVE  SessionInv'
<1>1. Quit \subseteq Emptied /\ "drain" \in Emptied /\ "drain" \notin Quit
  BY DEF Quit, Emptied
<1>2. \A w \in Workers : Admitting(w)' =>
        phase' \in {"new", "stopAccepting"} \/ (phase' = "stopAcquiring" /\ w \notin complete')
  BY DEF SessionInv
<1>3. phase' \in Sessionless => ActiveSessions' = {}
  BY DEF SessionInv
<1>4. phase' \in Emptied => connections' = {}
  BY DEF SessionInv
<1>5. phase' = "drain" => \A c \in monitors' : home'[c] \notin complete'
  BY <1>1 DEF SessionInv
<1>6. phase' \in Quit => \A c \in monitors' : home'[c] \notin Workers
  BY <1>1 DEF SessionInv
<1> QED
  BY <1>2, <1>3, <1>4, <1>5, <1>6 DEF SessionInv

LEMMA ConnSame ==
  ASSUME ConnInv, UNCHANGED <<state, closeCallbackInvoked, closes, taken, home, connections>>,
         \A d \in Clients : \A l \in Loops : \A f \in ConnFunctors :
           For(f, d) \in inbox'[l] <=> For(f, d) \in inbox[l],
         \A d \in Clients : busy[home[d]] = d \/ d \in ActiveSessions =>
                              busy'[home[d]] = d \/ d \in ActiveSessions'
  PROVE  ConnInv'
<1> SUFFICES ASSUME NEW d \in Clients PROVE QueueOk(d)' /\ StateOk(d)' /\ MovesOn(d)'
  BY DEF ConnInv
<1>1. QueueOk(d) /\ StateOk(d) /\ MovesOn(d)
  BY DEF ConnInv
<1>2. \A l \in Loops : /\ For("establish", d) \in inbox'[l] <=> For("establish", d) \in inbox[l]
                       /\ For("close", d) \in inbox'[l] <=> For("close", d) \in inbox[l]
                       /\ For("destroy", d) \in inbox'[l] <=> For("destroy", d) \in inbox[l]
                       /\ For("publish", d) \in inbox'[l] <=> For("publish", d) \in inbox[l]
  BY DEF ConnFunctors
<1>3. QueueOk(d)'
  BY <1>1, <1>2 DEF QueueOk
<1>4. StateOk(d)'
  BY <1>1 DEF StateOk
<1>5. MovesOn(d)'
  <2>1. state[d] # "none" => home[d] \in Loops
    BY <1>1, LoopFacts DEF StateOk
  <2> QED
    BY <1>1, <1>2, <2>1, LoopFacts DEF MovesOn
<1> QED
  BY <1>3, <1>4, <1>5

\* While a connection is registered, its worker runs and takes functors.
LEMMA WorkerRuns ==
  ASSUME TypeOK, LoopInv, SessionInv, NEW c \in Clients, StateOk(c),
         state[c] # "none", c \in connections
  PROVE  home[c] \in Workers /\ loop[home[c]] = "running"
<1>1. home[c] \in Workers
  BY DEF StateOk
<1>2. phase \notin Quit
  BY DEF SessionInv, Emptied, Quit
<1>3. started
  BY DEF LoopInv, StateOk
<1>4. loop[home[c]] \in {"none", "starting", "running", "quitting", "exited"}
  BY <1>1, LoopFacts DEF TypeOK
<1> QED
  BY <1>1, <1>2, <1>3, <1>4 DEF LoopInv

----------------------------------------------------------------------------
(* One lemma per action: starting *)

LEMMA StartLoopInv ==
  ASSUME IndInv, NEW w \in Workers, StartLoop(w) \/ ThreadFunc(w)
  PROVE  IndInv'
<1> USE DEF acceptorVars, connVars, busyVars, sessionVars, serverVars, stopVars
<1>0. TypeOK /\ LoopInv /\ AskInv /\ ListenInv /\ SessionInv /\ ConnInv
  BY DEF IndInv
<1>1. /\ UNCHANGED <<inbox, started, acceptorVars, connVars, busyVars, sessionVars,
                     serverVars, stopVars, complete>>
      /\ \/ loop[w] = "none" /\ loop' = [loop EXCEPT ![w] = "starting"]
         \/ loop[w] = "starting" /\ loop' = [loop EXCEPT ![w] = "running"]
  BY DEF StartLoop, ThreadFunc
<1>2. w \in Loops /\ w # Base
  BY LoopFacts
<1>3. TypeOK'
  BY <1>0, <1>1, <1>2 DEF TypeOK
<1>4. LoopInv'
  <2>1. loop'[Base] = loop[Base] /\ \A v \in Workers \ {w} : loop'[v] = loop[v]
    BY <1>0, <1>1, <1>2, LoopFacts DEF TypeOK
  <2>2. loop'[w] \in {"starting", "running"} /\ ~started /\ phase \notin Quit
    BY <1>0, <1>1, <1>2 DEF TypeOK, LoopInv, Quit
  <2>3. \A v \in Workers : loop'[v] \in {"quitting", "exited"} <=> phase' \in Quit
    BY <1>0, <1>1, <2>1, <2>2 DEF LoopInv
  <2> QED
    BY <1>0, <1>1, <2>1, <2>2, <2>3 DEF LoopInv
<1>5. AskInv' /\ ListenInv'
  BY <1>0, <1>1, AskFewer, ListenSame
<1>6. SessionInv'
  BY <1>0, <1>1, SessionSame DEF Admitting, ActiveSessions
<1>7. ConnInv'
  BY <1>0, <1>1, ConnSame DEF ActiveSessions
<1> QED
  BY <1>3, <1>4, <1>5, <1>6, <1>7 DEF IndInv

LEMMA StartServerInv ==
  ASSUME IndInv, StartServer
  PROVE  IndInv'
<1> USE DEF acceptorVars, connVars, busyVars, sessionVars, serverVars, stopVars
<1>0. TypeOK /\ LoopInv /\ AskInv /\ ListenInv /\ SessionInv /\ ConnInv
  BY DEF IndInv
<1>1. /\ ~started /\ started' = TRUE /\ \A w \in Workers : loop[w] = "running"
      /\ inbox' = Queued(inbox, Only(Base, {Do("listen")}))
      /\ UNCHANGED <<loop, acceptorVars, connVars, busyVars, sessionVars,
                     serverVars, stopVars, complete>>
  BY DEF StartServer
<1>2. \A l \in Loops : \A f : f # Do("listen") => (f \in inbox'[l] <=> f \in inbox[l])
  BY <1>1, QueuedIn, OnlyIn, LoopFacts
<1>3. TypeOK'
  <2>1. {Do("listen")} \in SUBSET Functor
    BY FunctorTypes
  <2>2. inbox' \in [Loops -> SUBSET Functor]
    BY <1>0, <1>1, <2>1, BoxTypes, LoopFacts DEF TypeOK
  <2> QED
    BY <1>0, <1>1, <2>2 DEF TypeOK
<1>4. LoopInv'
  BY <1>0, <1>1 DEF LoopInv
<1>5. AskInv'
  <2>1. \A q \in Phases : Do(q) # Do("listen")
    BY FunctorFacts DEF Phases
  <2> QED
    BY <1>0, <1>1, <1>2, <2>1, AskFewer
<1>6. ListenInv'
  <2>1. Do("accept") # Do("listen")
    BY FunctorFacts
  <2> QED
    BY <1>0, <1>1, <1>2, <2>1, ListenSame, LoopFacts
<1>7. SessionInv'
  BY <1>0, <1>1, SessionSame DEF Admitting, ActiveSessions
<1>8. ConnInv'
  <2>1. \A f : \A d \in Clients : For(f, d) # Do("listen")
    BY FunctorFacts
  <2> QED
    BY <1>0, <1>1, <1>2, <2>1, ConnSame DEF ActiveSessions
<1> QED
  BY <1>3, <1>4, <1>5, <1>6, <1>7, <1>8 DEF IndInv

----------------------------------------------------------------------------
(* Accepting *)

\* A submission for the next accept, or the functor that tries again: box may
\* have lost functors of the acceptor only.
LEMMA SubmitAcceptFacts ==
  ASSUME IndInv, NEW box \in [Loops -> SUBSET Functor], SubmitAccept(box),
         loop[Base] = "running"
  PROVE  /\ acceptOp' # "none" \/ Do("accept") \in inbox'[Base]
         /\ acceptOp' \in {"none", "flight"} /\ rejected' \in 0..MaxRejected
         /\ inbox' \in [Loops -> SUBSET Functor]
         /\ \A l \in Loops : \A f : f # Do("accept") => (f \in inbox'[l] <=> f \in box[l])
<1>0. TypeOK
  BY DEF IndInv
<1>1. CASE acceptOp' = "flight" /\ inbox' = box /\ UNCHANGED rejected
  BY <1>0, <1>1 DEF TypeOK
<1>2. CASE /\ rejected < MaxRejected /\ acceptOp' = "none" /\ rejected' = rejected + 1
           /\ inbox' = Queued(box, Only(Base, {Do("accept")}))
  <2>1. rejected' \in 0..MaxRejected
    BY <1>0, <1>2, RejectAssumption DEF TypeOK
  <2>2. {Do("accept")} \in SUBSET Functor
    BY FunctorTypes
  <2>3. inbox' \in [Loops -> SUBSET Functor]
    BY <1>2, <2>2, BoxTypes, LoopFacts
  <2>4. \A l \in Loops : \A f :
          f \in inbox'[l] <=> f \in box[l] \/ (l = Base /\ f = Do("accept"))
    BY <1>2, QueuedIn, OnlyIn, LoopFacts
  <2> QED
    BY <1>2, <2>1, <2>3, <2>4, LoopFacts
<1> QED
  BY <1>1, <1>2 DEF SubmitAccept

\* The acceptor's functors leave everything else alone.
LEMMA AcceptorStep ==
  ASSUME IndInv, UNCHANGED <<loop, started, connVars, busyVars, sessionVars, serverVars,
                             stopVars, complete>>,
         inbox' \in [Loops -> SUBSET Functor],
         \A l \in Loops : \A f : f \notin {Do("listen"), Do("accept")} =>
                                   (f \in inbox'[l] <=> f \in inbox[l]),
         Do("listen") \in inbox'[Base] => Do("listen") \in inbox[Base],
         UNCHANGED stopRequested, listening' \in BOOLEAN,
         acceptOp' \in {"none", "flight", "cancelling"}, rejected' \in 0..MaxRejected,
         listening' => listening \/ (started /\ ~stopRequested),
         acceptOp' # "none" => acceptOp # "none" \/ (started /\ ~stopRequested),
         listening' => acceptOp' # "none" \/ Do("accept") \in inbox'[Base]
  PROVE  IndInv'
<1> USE DEF connVars, busyVars, sessionVars, serverVars, stopVars
<1>0. TypeOK /\ LoopInv /\ AskInv /\ ListenInv /\ SessionInv /\ ConnInv
  BY DEF IndInv
<1>1. TypeOK'
  BY <1>0 DEF TypeOK
<1>2. LoopInv'
  BY <1>0, LoopSame
<1>3. AskInv'
  <2>1. \A q \in Phases : Do(q) \notin {Do("listen"), Do("accept")}
    BY FunctorFacts DEF Phases
  <2> QED
    BY <1>0, <2>1, AskFewer
<1>4. ListenInv'
  <2>1. phase = "done" => phase \in {"stopAcquiring"} \cup Quieted
    BY DEF Quieted
  <2>2. phase = "drainBase" => phase \in {"stopAcquiring"} \cup Quieted
    BY DEF Quieted
  <2> QED
    BY <1>0, <2>1, <2>2 DEF ListenInv, AcceptArmed
<1>5. SessionInv'
  BY <1>0, SessionSame DEF Admitting, ActiveSessions
<1>6. ConnInv'
  <2>1. \A f : \A d \in Clients : For(f, d) \notin {Do("listen"), Do("accept")}
    BY FunctorFacts
  <2> QED
    BY <1>0, <2>1, ConnSame DEF ActiveSessions
<1> QED
  BY <1>1, <1>2, <1>3, <1>4, <1>5, <1>6 DEF IndInv

\* While the acceptor listens the base loop runs.
LEMMA BaseRuns ==
  ASSUME IndInv, listening \/ ~stopRequested
  PROVE  loop[Base] = "running"
BY DEF IndInv, LoopInv, ListenInv, Quieted

LEMMA ListenInvariant ==
  ASSUME IndInv, Listen
  PROVE  IndInv'
<1> USE DEF acceptorVars
<1>0. TypeOK /\ LoopInv /\ ListenInv
  BY DEF IndInv
<1>1. /\ Do("listen") \in inbox[Base]
      /\ UNCHANGED <<loop, started, connVars, busyVars, sessionVars, serverVars,
                     stopVars, complete>>
      /\ UNCHANGED stopRequested
  BY DEF Listen, Runs
<1>2. started
  BY <1>0, <1>1 DEF LoopInv
<1> DEFINE box == Taken(Base, Do("listen"))
<1>3. /\ box \in [Loops -> SUBSET Functor]
      /\ \A l \in Loops : \A f : f \in box[l] <=> f \in inbox[l] /\ ~(l = Base /\ f = Do("listen"))
  BY <1>0, TakenIn, BoxTypes, LoopFacts
<1>4. Do("accept") # Do("listen")
  BY FunctorFacts
<1> HIDE DEF box
<1>5. CASE stopRequested
  <2>1. inbox' = box /\ UNCHANGED <<listening, acceptOp, rejected>>
    BY <1>5 DEF Listen, box
  <2>2. listening => acceptOp # "none" \/ Do("accept") \in inbox'[Base]
    BY <1>0, <1>3, <1>4, <2>1, LoopFacts DEF ListenInv, AcceptArmed
  <2> QED
    BY <1>0, <1>1, <1>3, <2>1, <2>2, AcceptorStep, LoopFacts DEF TypeOK
<1>6. CASE ~stopRequested
  <2>1. SubmitAccept(box) /\ listening' = TRUE
    BY <1>6 DEF Listen, box
  <2>2. loop[Base] = "running"
    BY <1>6, BaseRuns
  <2>3. /\ acceptOp' # "none" \/ Do("accept") \in inbox'[Base]
        /\ acceptOp' \in {"none", "flight"} /\ rejected' \in 0..MaxRejected
        /\ inbox' \in [Loops -> SUBSET Functor]
        /\ \A l \in Loops : \A f : f # Do("accept") => (f \in inbox'[l] <=> f \in box[l])
    BY <1>3, <2>1, <2>2, SubmitAcceptFacts
  <2> QED
    BY <1>1, <1>2, <1>3, <1>4, <1>6, <2>1, <2>3, AcceptorStep, LoopFacts
<1> QED
  BY <1>5, <1>6

LEMMA RetryAcceptInv ==
  ASSUME IndInv, RetryAccept
  PROVE  IndInv'
<1> USE DEF acceptorVars
<1>0. TypeOK /\ LoopInv /\ ListenInv
  BY DEF IndInv
<1>1. /\ UNCHANGED <<loop, started, connVars, busyVars, sessionVars, serverVars,
                     stopVars, complete>>
      /\ UNCHANGED <<listening, stopRequested>>
  BY DEF RetryAccept
<1> DEFINE box == Taken(Base, Do("accept"))
<1>2. /\ box \in [Loops -> SUBSET Functor]
      /\ \A l \in Loops : \A f : f \in box[l] <=> f \in inbox[l] /\ ~(l = Base /\ f = Do("accept"))
  BY <1>0, TakenIn, BoxTypes, LoopFacts
<1>3. Do("accept") # Do("listen")
  BY FunctorFacts
<1> HIDE DEF box
<1>4. CASE ~listening
  <2>1. inbox' = box /\ UNCHANGED <<acceptOp, rejected>>
    BY <1>4 DEF RetryAccept, box
  <2> QED
    BY <1>0, <1>1, <1>2, <1>4, <2>1, AcceptorStep, LoopFacts DEF TypeOK
<1>5. CASE listening
  <2>1. SubmitAccept(box)
    BY <1>5 DEF RetryAccept, box
  <2>2. loop[Base] = "running" /\ started /\ ~stopRequested
    BY <1>0, <1>5, BaseRuns DEF LoopInv, ListenInv
  <2>3. /\ acceptOp' # "none" \/ Do("accept") \in inbox'[Base]
        /\ acceptOp' \in {"none", "flight"} /\ rejected' \in 0..MaxRejected
        /\ inbox' \in [Loops -> SUBSET Functor]
        /\ \A l \in Loops : \A f : f # Do("accept") => (f \in inbox'[l] <=> f \in box[l])
    BY <1>2, <2>1, <2>2, SubmitAcceptFacts
  <2> QED
    BY <1>0, <1>1, <1>2, <1>3, <1>5, <2>2, <2>3, AcceptorStep, LoopFacts DEF TypeOK
<1> QED
  BY <1>4, <1>5

LEMMA AcceptFailedInv ==
  ASSUME IndInv, AcceptFailed
  PROVE  IndInv'
<1>0. TypeOK /\ LoopInv /\ ListenInv
  BY DEF IndInv
<1>1. /\ loop[Base] = "running" /\ acceptOp # "none"
      /\ UNCHANGED <<loop, started, connVars, busyVars, sessionVars, serverVars,
                     stopVars, complete>>
      /\ UNCHANGED <<listening, stopRequested>>
  BY DEF AcceptFailed
<1>2. CASE ~listening
  <2>1. acceptOp' = "none" /\ UNCHANGED <<inbox, rejected>>
    BY <1>2 DEF AcceptFailed
  <2> QED
    BY <1>0, <1>1, <1>2, <2>1, AcceptorStep DEF TypeOK
<1>3. CASE listening
  <2>1. SubmitAccept(inbox) /\ inbox \in [Loops -> SUBSET Functor]
    BY <1>0, <1>3 DEF AcceptFailed, TypeOK
  <2>2. started /\ ~stopRequested
    BY <1>0, <1>3 DEF LoopInv, ListenInv
  <2>3. /\ acceptOp' # "none" \/ Do("accept") \in inbox'[Base]
        /\ acceptOp' \in {"none", "flight"} /\ rejected' \in 0..MaxRejected
        /\ inbox' \in [Loops -> SUBSET Functor]
        /\ \A l \in Loops : \A f : f # Do("accept") => (f \in inbox'[l] <=> f \in inbox[l])
    BY <1>1, <2>1, SubmitAcceptFacts
  <2>4. Do("accept") # Do("listen")
    BY FunctorFacts
  <2> QED
    BY <1>0, <1>1, <1>3, <2>2, <2>3, <2>4, AcceptorStep, LoopFacts DEF TypeOK
<1> QED
  BY <1>2, <1>3

\* A step that concerns connection c alone.
LEMMA ConnOne ==
  ASSUME ConnInv, NEW c \in Clients,
         \A d \in Clients \ {c} :
           /\ state'[d] = state[d] /\ closes'[d] = closes[d] /\ home'[d] = home[d]
           /\ d \in closeCallbackInvoked' <=> d \in closeCallbackInvoked
           /\ d \in taken' <=> d \in taken
           /\ d \in connections' <=> d \in connections
           /\ \A l \in Loops : \A f \in ConnFunctors :
                For(f, d) \in inbox'[l] <=> For(f, d) \in inbox[l]
           /\ busy[home[d]] = d \/ d \in ActiveSessions =>
                busy'[home[d]] = d \/ d \in ActiveSessions',
         QueueOk(c)' /\ StateOk(c)' /\ MovesOn(c)'
  PROVE  ConnInv'
<1> SUFFICES ASSUME NEW d \in Clients \ {c} PROVE QueueOk(d)' /\ StateOk(d)' /\ MovesOn(d)'
  BY DEF ConnInv
<1>1. QueueOk(d) /\ StateOk(d) /\ MovesOn(d)
  BY DEF ConnInv
<1>2. \A l \in Loops : /\ For("establish", d) \in inbox'[l] <=> For("establish", d) \in inbox[l]
                       /\ For("close", d) \in inbox'[l] <=> For("close", d) \in inbox[l]
                       /\ For("destroy", d) \in inbox'[l] <=> For("destroy", d) \in inbox[l]
                       /\ For("publish", d) \in inbox'[l] <=> For("publish", d) \in inbox[l]
  BY DEF ConnFunctors
<1>3. QueueOk(d)'
  BY <1>1, <1>2 DEF QueueOk
<1>4. StateOk(d)'
  BY <1>1 DEF StateOk
<1>5. MovesOn(d)'
  <2>1. state[d] # "none" => home[d] \in Loops
    BY <1>1, LoopFacts DEF StateOk
  <2> QED
    BY <1>1, <1>2, <2>1, LoopFacts DEF MovesOn
<1> QED
  BY <1>3, <1>4, <1>5

LEMMA AcceptedInv ==
  ASSUME IndInv, NEW c \in Clients, Accepted(c)
  PROVE  IndInv'
<1> USE DEF busyVars, sessionVars, stopVars
<1>0. TypeOK /\ LoopInv /\ AskInv /\ ListenInv /\ SessionInv /\ ConnInv
  BY DEF IndInv
<1>1. /\ loop[Base] = "running" /\ acceptOp # "none" /\ c \notin taken
      /\ taken' = taken \cup {c}
      /\ UNCHANGED <<loop, started, listening, stopRequested, closeCallbackInvoked,
                     busyVars, sessionVars, stopVars, complete>>
  BY DEF Accepted
<1>2. started
  BY <1>0, <1>1 DEF LoopInv
<1>3. QueueOk(c) /\ StateOk(c)
  BY <1>0 DEF ConnInv
<1>4. /\ state[c] = "none" /\ closes[c] = 0 /\ c \notin connections
      /\ c \notin closeCallbackInvoked
      /\ \A l \in Loops : \A f \in ConnFunctors : For(f, c) \notin inbox[l]
  BY <1>1, <1>3 DEF QueueOk, StateOk, ConnFunctors
<1>5. CASE ~listening
  <2>1. /\ acceptOp' = "none" /\ closes' = [closes EXCEPT ![c] = @ + 1]
        /\ UNCHANGED <<inbox, rejected, home, next, connections, state>>
    BY <1>5 DEF Accepted, TurnedAway
  <2>2. closes'[c] = 1 /\ (\A d \in Clients \ {c} : closes'[d] = closes[d])
        /\ closes' \in [Clients -> 0..1]
    BY <1>0, <1>4, <2>1 DEF TypeOK
  <2>3. TypeOK'
    BY <1>0, <1>1, <2>1, <2>2 DEF TypeOK
  <2>4. LoopInv' /\ AskInv'
    BY <1>0, <1>1, <1>2, <2>1, LoopSame, AskFewer
  <2>5. ListenInv'
    BY <1>0, <1>1, <1>5, <2>1 DEF ListenInv, AcceptArmed
  <2>6. SessionInv'
    BY <1>0, <1>1, <2>1, SessionSame DEF Admitting, ActiveSessions
  <2>7. QueueOk(c)' /\ StateOk(c)' /\ MovesOn(c)'
    BY <1>1, <1>3, <1>4, <2>1, <2>2 DEF QueueOk, StateOk, MovesOn
  <2>8. ConnInv'
    BY <1>0, <1>1, <2>1, <2>2, <2>7, ConnOne DEF ActiveSessions
  <2> QED
    BY <2>3, <2>4, <2>5, <2>6, <2>8 DEF IndInv
<1>6. CASE listening
  <2> DEFINE F == For("establish", c)
             box == Queued(inbox, Only(next, {F}))
  <2>1. /\ home' = [home EXCEPT ![c] = next] /\ next' = LoopAfter(next)
        /\ connections' = connections \cup {c}
        /\ state' = [state EXCEPT ![c] = "connecting"]
        /\ SubmitAccept(box) /\ UNCHANGED closes
    BY <1>6 DEF Accepted, NewConnection
  <2>2. phase \in {"new", "stopAccepting"} /\ ~stopRequested
    <3>1. phase \in {"new", "done"} \cup Phases
      BY <1>0 DEF TypeOK
    <3> QED
      BY <1>0, <1>6, <3>1 DEF ListenInv, Quieted, Phases
  <2>3. next \in Workers /\ next \in Loops /\ next # Base
    BY <1>0, LoopFacts DEF TypeOK
  <2>4. loop[next] = "running"
    <3>1. loop[next] \in {"none", "starting", "running", "quitting", "exited"}
      BY <1>0, <2>3 DEF TypeOK
    <3> QED
      BY <1>0, <1>2, <2>2, <2>3, <3>1 DEF LoopInv, Quit
  <2>5. /\ box \in [Loops -> SUBSET Functor]
        /\ \A l \in Loops : \A f : f \in box[l] <=> f \in inbox[l] \/ (l = next /\ f = F)
    <3>1. {F} \in SUBSET Functor
      BY FunctorTypes DEF ConnFunctors
    <3> HIDE DEF F
    <3>2. box \in [Loops -> SUBSET Functor]
      BY <1>0, <2>3, <3>1, BoxTypes DEF TypeOK
    <3>3. \A l \in Loops : \A f : f \in box[l] <=> f \in inbox[l] \/ (l = next /\ f = F)
      BY <2>3, <2>4, QueuedIn, OnlyIn
    <3> QED
      BY <3>2, <3>3
  <2> HIDE DEF box
  <2>6. /\ acceptOp' # "none" \/ Do("accept") \in inbox'[Base]
        /\ acceptOp' \in {"none", "flight"} /\ rejected' \in 0..MaxRejected
        /\ inbox' \in [Loops -> SUBSET Functor]
        /\ \A l \in Loops : \A f : f # Do("accept") => (f \in inbox'[l] <=> f \in box[l])
    BY <1>1, <2>1, <2>5, SubmitAcceptFacts
  <2>7. \A l \in Loops : /\ \A q \in Phases \cup {"listen"} : Do(q) \in inbox'[l] => Do(q) \in inbox[l]
                         /\ \A d \in Clients \ {c} : \A f \in ConnFunctors :
                              For(f, d) \in inbox'[l] <=> For(f, d) \in inbox[l]
                         /\ \A f \in ConnFunctors :
                              For(f, c) \in inbox'[l] <=> f = "establish" /\ l = next
    <3>1. \A q \in Phases \cup {"listen"} : Do(q) # Do("accept") /\ Do(q) # F
      BY FunctorFacts DEF Phases
    <3>2. \A d \in Clients : \A f : For(f, d) # Do("accept")
      BY FunctorFacts
    <3>3. \A d \in Clients \ {c} : \A f : For(f, d) # F
      BY FunctorFacts
    <3>4. \A f : For(f, c) = F <=> f = "establish"
      BY FunctorFacts
    <3> HIDE DEF F
    <3> QED
      BY <1>4, <2>5, <2>6, <3>1, <3>2, <3>3, <3>4
  <2>8. /\ home'[c] = next /\ state'[c] = "connecting"
        /\ \A d \in Clients \ {c} : home'[d] = home[d] /\ state'[d] = state[d]
    BY <1>0, <2>1 DEF TypeOK
  <2>9. TypeOK'
    <3>1. next' \in Workers
      BY <1>0, <2>1, WorkerAssumption DEF TypeOK, LoopAfter, Workers
    <3>2. home' \in [Clients -> Loops]
      BY <1>0, <2>1, <2>3 DEF TypeOK
    <3>3. state' \in [Clients -> {"none", "connecting", "connected",
                                  "disconnecting", "disconnected"}]
      BY <1>0, <2>1 DEF TypeOK
    <3> QED
      BY <1>0, <1>1, <2>1, <2>6, <3>1, <3>2, <3>3 DEF TypeOK
  <2>10. LoopInv'
    BY <1>0, <1>1, <1>2, <2>6, <2>7, LoopSame, LoopFacts
  <2>11. AskInv'
    BY <1>0, <1>1, <2>7, AskFewer
  <2>12. ListenInv'
    BY <1>1, <2>2, <2>6, <1>0 DEF ListenInv, AcceptArmed
  <2>13. SessionInv'
    BY <1>0, <1>1, <2>2, SessionSame DEF Admitting, ActiveSessions, Emptied
  <2>14. QueueOk(c)' /\ StateOk(c)' /\ MovesOn(c)'
    <3>1. QueueOk(c)'
      BY <2>7, <2>8 DEF QueueOk, ConnFunctors
    <3>2. StateOk(c)'
      BY <1>1, <1>4, <2>1, <2>3, <2>8 DEF StateOk
    <3>3. MovesOn(c)'
      BY <2>3, <2>7, <2>8 DEF MovesOn, ConnFunctors
    <3> QED
      BY <3>1, <3>2, <3>3
  <2>15. ConnInv'
    BY <1>0, <1>1, <2>1, <2>7, <2>8, <2>14, ConnOne DEF ActiveSessions
  <2> QED
    BY <2>9, <2>10, <2>11, <2>12, <2>13, <2>15 DEF IndInv
<1> QED
  BY <1>5, <1>6

\* What stop() asks of a loop is in its inbox only while that phase lasts.
LEMMA AskedNow ==
  ASSUME AskInv, NEW l \in Loops, NEW q \in Phases, Do(q) \in inbox[l]
  PROVE  phase = q /\ l \in Targets(q) /\ l \notin complete
BY DEF AskInv

\* The loop that runs what stop() asked for is done with it.
LEMMA AskTaken ==
  ASSUME IndInv, NEW l \in Loops, NEW q \in Phases, Do(q) \in inbox[l],
         inbox' = Taken(l, Do(q)), complete' = complete \cup {l}, UNCHANGED phase
  PROVE  /\ inbox' \in [Loops -> SUBSET Functor] /\ complete' \subseteq Loops
         /\ AskInv'
         /\ \A k \in Loops : \A f \in {"listen", "accept"} : Do(f) \in inbox'[k] <=> Do(f) \in inbox[k]
         /\ \A k \in Loops : \A d \in Clients : \A f \in ConnFunctors :
              For(f, d) \in inbox'[k] <=> For(f, d) \in inbox[k]
<1>0. TypeOK /\ AskInv
  BY DEF IndInv
<1>1. \A k \in Loops : \A f : f \in inbox'[k] <=> f \in inbox[k] /\ ~(k = l /\ f = Do(q))
  BY <1>0, TakenIn
<1>2. inbox' \in [Loops -> SUBSET Functor] /\ complete' \subseteq Loops
  BY <1>0, BoxTypes DEF TypeOK
<1>3. AskInv'
  <2>1. phase = q
    BY <1>0, AskedNow
  <2>2. ASSUME NEW k \in Loops, NEW p \in Phases, Do(p) \in inbox'[k]
        PROVE  Do(p) \in inbox[k] /\ (k \in complete' => k \in complete)
    <3>1. Do(p) \in inbox[k] /\ ~(k = l /\ Do(p) = Do(q))
      BY <1>1, <2>2
    <3>2. p = phase
      BY <1>0, <3>1 DEF AskInv
    <3> QED
      BY <2>1, <3>1, <3>2
  <2> QED
    BY <1>0, <2>2, AskFewer
<1>4. \A f \in {"listen", "accept"} : Do(f) # Do(q)
  BY FunctorFacts DEF Phases
<1>5. \A d \in Clients : \A f : For(f, d) # Do(q)
  BY FunctorFacts
<1> QED
  BY <1>1, <1>2, <1>3, <1>4, <1>5

LEMMA StopAcceptingInv ==
  ASSUME IndInv, StopAccepting
  PROVE  IndInv'
<1> USE DEF connVars, busyVars, sessionVars, serverVars, stopVars
<1> DEFINE q == "stopAccepting"
<1>0. TypeOK /\ LoopInv /\ AskInv /\ ListenInv /\ SessionInv /\ ConnInv
  BY DEF IndInv
<1>1. /\ Do(q) \in inbox[Base] /\ inbox' = Taken(Base, Do(q))
      /\ complete' = complete \cup {Base}
      /\ stopRequested' = TRUE /\ listening' = FALSE
      /\ acceptOp' = (IF acceptOp = "none" THEN "none" ELSE "cancelling")
      /\ UNCHANGED <<loop, started, rejected, connVars, busyVars, sessionVars,
                     serverVars, stopVars>>
  BY DEF StopAccepting, StopInLoop, Runs
<1>2. q \in Phases /\ Base \in Loops
  BY LoopFacts DEF Phases
<1>3. phase = q
  BY <1>0, <1>1, <1>2, AskedNow
<1>4. /\ inbox' \in [Loops -> SUBSET Functor] /\ complete' \subseteq Loops /\ AskInv'
      /\ \A k \in Loops : \A f \in {"listen", "accept"} : Do(f) \in inbox'[k] <=> Do(f) \in inbox[k]
      /\ \A k \in Loops : \A d \in Clients : \A f \in ConnFunctors :
           For(f, d) \in inbox'[k] <=> For(f, d) \in inbox[k]
  BY <1>1, <1>2, AskTaken
<1>5. TypeOK'
  BY <1>0, <1>1, <1>4 DEF TypeOK
<1>6. LoopInv'
  BY <1>0, <1>1, <1>2, <1>4, LoopSame
<1>7. ListenInv'
  BY <1>0, <1>1, <1>3 DEF ListenInv, AcceptArmed
<1>8. SessionInv'
  BY <1>0, <1>1, <1>3, SessionSame, LoopFacts DEF Admitting, ActiveSessions
<1>9. ConnInv'
  BY <1>0, <1>1, <1>4, ConnSame DEF ActiveSessions
<1> QED
  BY <1>4, <1>5, <1>6, <1>7, <1>8, <1>9 DEF IndInv

----------------------------------------------------------------------------
(* Connections and sessions *)

\* forceClose: the connections that were connected have their close queued, for
\* their worker still takes functors; box has the same functors of connections.
LEMMA ForceCloseFacts ==
  ASSUME IndInv, NEW C \in SUBSET Clients, NEW box \in [Loops -> SUBSET Functor],
         ForceClose(C, box),
         \A k \in Loops : \A d \in Clients : \A f \in ConnFunctors :
           For(f, d) \in box[k] <=> For(f, d) \in inbox[k],
         UNCHANGED <<closeCallbackInvoked, closes, taken, home, connections>>,
         \A d \in Clients \ C : busy[home[d]] = d \/ d \in ActiveSessions =>
                                  busy'[home[d]] = d \/ d \in ActiveSessions'
  PROVE  /\ state' \in [Clients -> {"none", "connecting", "connected",
                                    "disconnecting", "disconnected"}]
         /\ inbox' \in [Loops -> SUBSET Functor]
         /\ \A k \in Loops : \A q : Do(q) \in inbox'[k] <=> Do(q) \in box[k]
         /\ ConnInv'
<1> DEFINE hit == {c \in C : state[c] = "connected"}
           added == [l \in Loops |-> {For("close", c) : c \in {d \in hit : home[d] = l}}]
<1>0. TypeOK /\ LoopInv /\ SessionInv /\ ConnInv
  BY DEF IndInv
<1>1. /\ state' = [c \in Clients |-> IF c \in hit THEN "disconnecting" ELSE state[c]]
      /\ inbox' = Queued(box, added)
  BY DEF ForceClose
<1>2. \A l \in Loops : \A f : f \in added[l] <=> \E c \in hit : home[c] = l /\ f = For("close", c)
  OBVIOUS
<1>3. added \in [Loops -> SUBSET Functor]
  <2>1. \A c \in hit : For("close", c) \in Functor
    BY FunctorTypes DEF ConnFunctors
  <2> QED
    BY <2>1
<1>4. \A c \in hit : c \in Clients /\ state[c] = "connected"
  OBVIOUS
<1>5. \A c \in Clients : c \in hit <=> c \in C /\ state[c] = "connected"
  OBVIOUS
<1> HIDE DEF hit, added
<1>6. state' \in [Clients -> {"none", "connecting", "connected",
                              "disconnecting", "disconnected"}]
  BY <1>0, <1>1 DEF TypeOK
<1>7. inbox' \in [Loops -> SUBSET Functor]
  BY <1>1, <1>3, BoxTypes
<1>8. \A k \in Loops : \A q : Do(q) \in inbox'[k] <=> Do(q) \in box[k]
  BY <1>1, <1>2, <1>4, QueuedIn, FunctorFacts
<1>9. ASSUME NEW d \in Clients PROVE QueueOk(d)' /\ StateOk(d)' /\ MovesOn(d)'
  <2>0. QueueOk(d) /\ StateOk(d) /\ MovesOn(d)
    BY <1>0 DEF ConnInv
  <2>1. \A k \in Loops : \A f \in ConnFunctors :
          For(f, d) \in inbox'[k] <=>
            \/ For(f, d) \in inbox[k]
            \/ d \in hit /\ home[d] = k /\ f = "close" /\ loop[k] = "running"
    <3> SUFFICES ASSUME NEW k \in Loops, NEW f \in ConnFunctors
                 PROVE  For(f, d) \in inbox'[k] <=>
                          \/ For(f, d) \in inbox[k]
                          \/ d \in hit /\ home[d] = k /\ f = "close" /\ loop[k] = "running"
      OBVIOUS
    <3>1. For(f, d) \in inbox'[k] <=>
            For(f, d) \in box[k] \/ (loop[k] = "running" /\ For(f, d) \in added[k])
      BY <1>1, QueuedIn
    <3>2. For(f, d) \in added[k] <=> d \in hit /\ home[d] = k /\ f = "close"
      BY <1>2, FunctorFacts
    <3> QED
      BY <3>1, <3>2
  <2>2. \A k \in Loops :
          /\ For("establish", d) \in inbox'[k] <=> For("establish", d) \in inbox[k]
          /\ For("destroy", d) \in inbox'[k] <=> For("destroy", d) \in inbox[k]
          /\ For("publish", d) \in inbox'[k] <=> For("publish", d) \in inbox[k]
          /\ For("close", d) \in inbox'[k] <=>
               \/ For("close", d) \in inbox[k]
               \/ d \in hit /\ home[d] = k /\ loop[k] = "running"
    BY <2>1 DEF ConnFunctors
  <2>3. CASE d \in hit
    <3>1. state[d] = "connected" /\ state'[d] = "disconnecting"
      BY <1>1, <1>4, <2>3
    <3>2. home[d] \in Workers /\ home[d] \in Loops /\ loop[home[d]] = "running"
      BY <1>0, <2>0, <3>1, WorkerRuns, LoopFacts DEF StateOk
    <3>3. QueueOk(d)'
      BY <2>0, <2>2, <3>1, <3>2 DEF QueueOk, StateOk
    <3>4. StateOk(d)'
      BY <2>0, <3>1 DEF StateOk
    <3>5. MovesOn(d)'
      BY <2>2, <2>3, <3>1, <3>2 DEF MovesOn
    <3> QED
      BY <3>3, <3>4, <3>5
  <2>4. CASE d \notin hit
    <3>1. state'[d] = state[d]
      BY <1>1, <2>4
    <3>2. QueueOk(d)'
      BY <2>0, <2>2, <2>4, <3>1 DEF QueueOk
    <3>3. StateOk(d)'
      BY <2>0, <3>1 DEF StateOk
    <3>4. MovesOn(d)'
      <4>1. state[d] # "none" => home[d] \in Loops
        BY <2>0, LoopFacts DEF StateOk
      <4>2. state[d] = "connected" => d \notin C
        BY <1>5, <2>4
      <4> QED
        BY <2>0, <2>2, <3>1, <4>1, <4>2, LoopFacts DEF MovesOn
    <3> QED
      BY <3>2, <3>3, <3>4
  <2> QED
    BY <2>3, <2>4
<1>10. ConnInv'
  BY <1>9 DEF ConnInv
<1> QED
  BY <1>6, <1>7, <1>8, <1>10

\* cancelInLoop closes the connections of the sessions it cancels and leaves
\* them counted.
LEMMA CancelInLoopFacts ==
  ASSUME IndInv, NEW C \in SUBSET Clients, NEW box \in [Loops -> SUBSET Functor],
         CancelInLoop(C, box),
         \A k \in Loops : \A d \in Clients : \A f \in ConnFunctors :
           For(f, d) \in box[k] <=> For(f, d) \in inbox[k],
         UNCHANGED <<closeCallbackInvoked, closes, taken, home, connections, busy>>
  PROVE  /\ session' \in [Clients -> {"none", "active", "cancelled", "done"}]
         /\ ActiveSessions' = ActiveSessions
         /\ state' \in [Clients -> {"none", "connecting", "connected",
                                    "disconnecting", "disconnected"}]
         /\ inbox' \in [Loops -> SUBSET Functor]
         /\ \A k \in Loops : \A q : Do(q) \in inbox'[k] <=> Do(q) \in box[k]
         /\ ConnInv'
<1> DEFINE hit == {c \in C : session[c] = "active"}
<1>1. hit \in SUBSET Clients
  OBVIOUS
<1>2. /\ session' = [c \in Clients |-> IF c \in hit THEN "cancelled" ELSE session[c]]
      /\ ForceClose(hit, box)
  BY DEF CancelInLoop
<1>3. \A c \in hit : session[c] = "active"
  OBVIOUS
<1> HIDE DEF hit
<1>4. session \in [Clients -> {"none", "active", "cancelled", "done"}]
  BY DEF IndInv, TypeOK
<1>5. session' \in [Clients -> {"none", "active", "cancelled", "done"}]
  BY <1>2, <1>4
<1>6. ActiveSessions' = ActiveSessions
  BY <1>2, <1>3, <1>4 DEF ActiveSessions
<1>7. \A d \in Clients \ hit : busy[home[d]] = d \/ d \in ActiveSessions =>
                                busy'[home[d]] = d \/ d \in ActiveSessions'
  BY <1>6
<1> QED
  BY <1>1, <1>2, <1>5, <1>6, <1>7, ForceCloseFacts

LEMMA ForceCloseAllInv ==
  ASSUME IndInv, ForceCloseAll
  PROVE  IndInv'
<1> USE DEF acceptorVars, busyVars, sessionVars, serverVars, stopVars
<1> DEFINE q == "forceClose"
           box == Taken(Base, Do(q))
<1>0. TypeOK /\ LoopInv /\ AskInv /\ ListenInv /\ SessionInv /\ ConnInv
  BY DEF IndInv
<1>1. /\ Do(q) \in inbox[Base] /\ ForceClose(connections, box)
      /\ complete' = complete \cup {Base}
      /\ UNCHANGED <<loop, started, acceptorVars, closeCallbackInvoked, closes,
                     busyVars, sessionVars, serverVars, stopVars>>
  BY DEF ForceCloseAll, Runs
<1>2. q \in Phases /\ Base \in Loops
  BY LoopFacts DEF Phases
<1>3. phase = q
  BY <1>0, <1>1, <1>2, AskedNow
<1>4. /\ box \in [Loops -> SUBSET Functor]
      /\ \A k \in Loops : \A f : f \in box[k] <=> f \in inbox[k] /\ ~(k = Base /\ f = Do(q))
  BY <1>0, <1>2, TakenIn, BoxTypes
<1>5. \A d \in Clients : \A f : For(f, d) # Do(q)
  BY FunctorFacts
<1> HIDE DEF box
<1>6. /\ state' \in [Clients -> {"none", "connecting", "connected",
                                 "disconnecting", "disconnected"}]
      /\ inbox' \in [Loops -> SUBSET Functor]
      /\ \A k \in Loops : \A p : Do(p) \in inbox'[k] <=> Do(p) \in box[k]
      /\ ConnInv'
  <2>1. connections \in SUBSET Clients
    BY <1>0 DEF TypeOK
  <2>2. \A k \in Loops : \A d \in Clients : \A f \in ConnFunctors :
          For(f, d) \in box[k] <=> For(f, d) \in inbox[k]
    BY <1>4, <1>5
  <2> QED
    BY <1>1, <1>4, <2>1, <2>2, ForceCloseFacts DEF ActiveSessions
<1>7. \A k \in Loops : \A p : Do(p) \in inbox'[k] <=> Do(p) \in inbox[k] /\ ~(k = Base /\ p = q)
  BY <1>4, <1>6, FunctorFacts
<1>8. TypeOK'
  BY <1>0, <1>1, <1>2, <1>6 DEF TypeOK
<1>9. LoopInv'
  BY <1>0, <1>1, <1>2, <1>7, LoopSame
<1>10. AskInv'
  BY <1>0, <1>1, <1>3, <1>7 DEF AskInv
<1>11. ListenInv'
  <2>1. Do("accept") \in inbox[Base] => Do("accept") \in inbox'[Base]
    BY <1>2, <1>7
  <2> QED
    BY <1>0, <1>1, <1>3, <2>1 DEF ListenInv, AcceptArmed
<1>12. SessionInv'
  BY <1>0, <1>1, <1>3, SessionSame, LoopFacts DEF Admitting, ActiveSessions
<1> QED
  BY <1>6, <1>8, <1>9, <1>10, <1>11, <1>12 DEF IndInv

LEMMA TurnAwayInv ==
  ASSUME IndInv, NEW w \in Workers, TurnAway(w)
  PROVE  IndInv'
<1> USE DEF acceptorVars, busyVars, sessionVars, serverVars, stopVars
<1>0. TypeOK /\ LoopInv /\ AskInv /\ ListenInv /\ SessionInv /\ ConnInv
  BY DEF IndInv
<1>1. /\ busy[w] # None /\ ForceClose({busy[w]}, inbox)
      /\ busy' = [busy EXCEPT ![w] = None] /\ step' = [step EXCEPT ![w] = "callback"]
      /\ UNCHANGED <<loop, started, acceptorVars, closeCallbackInvoked, closes,
                     sessionVars, serverVars, stopVars, complete>>
  BY DEF TurnAway
<1>2. {busy[w]} \in SUBSET Clients /\ inbox \in [Loops -> SUBSET Functor]
  BY <1>0, <1>1 DEF TypeOK
<1>3. \A v \in Workers : busy'[v] = IF v = w THEN None ELSE busy[v]
  BY <1>0, <1>1 DEF TypeOK
<1>4. /\ state' \in [Clients -> {"none", "connecting", "connected",
                                 "disconnecting", "disconnected"}]
      /\ inbox' \in [Loops -> SUBSET Functor]
      /\ \A k \in Loops : \A q : Do(q) \in inbox'[k] <=> Do(q) \in inbox[k]
      /\ ConnInv'
  <2>1. ASSUME NEW d \in Clients \ {busy[w]}, busy[home[d]] = d PROVE busy'[home[d]] = d
    <3>1. home[d] # w
      BY <2>1
    <3> QED
      BY <1>0, <1>1, <2>1, <3>1 DEF TypeOK
  <2>2. \A d \in Clients \ {busy[w]} : busy[home[d]] = d \/ d \in ActiveSessions =>
                                  busy'[home[d]] = d \/ d \in ActiveSessions'
    BY <1>1, <2>1 DEF ActiveSessions
  <2> QED
    BY <1>1, <1>2, <2>2, ForceCloseFacts
<1>5. TypeOK'
  BY <1>0, <1>1, <1>4 DEF TypeOK
<1>6. LoopInv' /\ AskInv' /\ ListenInv'
  BY <1>0, <1>1, <1>4, LoopSame, AskFewer, ListenSame, LoopFacts
<1>7. SessionInv'
  <2>1. \A v \in Workers : Admitting(v)' => Admitting(v)
    BY <1>0, <1>1, <1>3 DEF Admitting, TypeOK
  <2> QED
    BY <1>0, <1>1, <2>1, SessionSame DEF ActiveSessions
<1> QED
  BY <1>4, <1>5, <1>6, <1>7 DEF IndInv

LEMMA SessionEndsInv ==
  ASSUME IndInv, NEW c \in Clients, SessionEnds(c)
  PROVE  IndInv'
<1> USE DEF acceptorVars, busyVars, sessionVars, serverVars, stopVars
<1>0. TypeOK /\ LoopInv /\ AskInv /\ ListenInv /\ SessionInv /\ ConnInv
  BY DEF IndInv
<1>1. /\ session' = [session EXCEPT ![c] = "done"] /\ ForceClose({c}, inbox)
      /\ UNCHANGED <<loop, started, acceptorVars, closeCallbackInvoked, closes,
                     busyVars, monitors, serverVars, stopVars, complete>>
  BY DEF SessionEnds
<1>2. inbox \in [Loops -> SUBSET Functor]
  BY <1>0 DEF TypeOK
<1>3. ActiveSessions' = ActiveSessions \ {c}
  BY <1>0, <1>1 DEF ActiveSessions, TypeOK
<1>4. /\ state' \in [Clients -> {"none", "connecting", "connected",
                                 "disconnecting", "disconnected"}]
      /\ inbox' \in [Loops -> SUBSET Functor]
      /\ \A k \in Loops : \A q : Do(q) \in inbox'[k] <=> Do(q) \in inbox[k]
      /\ ConnInv'
  <2>1. {c} \in SUBSET Clients
    OBVIOUS
  <2>2. \A d \in Clients \ {c} : busy[home[d]] = d \/ d \in ActiveSessions =>
                                  busy'[home[d]] = d \/ d \in ActiveSessions'
    BY <1>1, <1>3
  <2> QED
    BY <1>1, <1>2, <2>1, <2>2, ForceCloseFacts
<1>5. TypeOK'
  BY <1>0, <1>1, <1>4 DEF TypeOK
<1>6. LoopInv' /\ AskInv' /\ ListenInv'
  BY <1>0, <1>1, <1>4, LoopSame, AskFewer, ListenSame, LoopFacts
<1>7. SessionInv'
  BY <1>0, <1>1, <1>3, SessionSame DEF Admitting
<1> QED
  BY <1>4, <1>5, <1>6, <1>7 DEF IndInv

LEMMA StartSessionInv ==
  ASSUME IndInv, NEW w \in Workers, StartSession(w)
  PROVE  IndInv'
<1> USE DEF acceptorVars, connVars, sessionVars, serverVars, stopVars
<1>0. TypeOK /\ LoopInv /\ AskInv /\ ListenInv /\ SessionInv /\ ConnInv
  BY DEF IndInv
<1>1. /\ step' = [step EXCEPT ![w] = IF acceptingSessions THEN "admit" ELSE "turnAway"]
      /\ UNCHANGED <<loop, inbox, started, acceptorVars, connVars, busy,
                     sessionVars, serverVars, stopVars, complete>>
  BY DEF StartSession
<1>2. TypeOK'
  BY <1>0, <1>1 DEF TypeOK
<1>3. LoopInv' /\ AskInv' /\ ListenInv'
  BY <1>0, <1>1, LoopSame, AskFewer, ListenSame
<1>4. SessionInv'
  <2>1. \A v \in Workers : v # w => step'[v] = step[v]
    BY <1>0, <1>1 DEF TypeOK
  <2>2. step'[w] = "admit" => acceptingSessions
    BY <1>0, <1>1 DEF TypeOK
  <2>3. \A v \in Workers : Admitting(v)' => Admitting(v) \/ phase = "new"
    BY <1>0, <1>1, <2>1, <2>2 DEF Admitting, SessionInv
  <2> QED
    BY <1>0, <1>1, <2>3 DEF SessionInv, ActiveSessions
<1>5. ConnInv'
  BY <1>0, <1>1, ConnSame DEF ActiveSessions
<1> QED
  BY <1>2, <1>3, <1>4, <1>5 DEF IndInv

LEMMA AdmitInv ==
  ASSUME IndInv, NEW w \in Workers, Admit(w)
  PROVE  IndInv'
<1> USE DEF acceptorVars, connVars, serverVars, stopVars
<1>0. TypeOK /\ LoopInv /\ AskInv /\ ListenInv /\ SessionInv /\ ConnInv
  BY DEF IndInv
<1>1. /\ Admitting(w) /\ session' = [session EXCEPT ![busy[w]] = "active"]
      /\ monitors' = monitors \cup {busy[w]}
      /\ busy' = [busy EXCEPT ![w] = None] /\ step' = [step EXCEPT ![w] = "callback"]
      /\ UNCHANGED <<loop, inbox, started, acceptorVars, connVars, serverVars,
                     stopVars, complete>>
  BY DEF Admit, Admitting
<1>2. busy[w] \in Clients
  BY <1>0, <1>1 DEF TypeOK, Admitting
<1>3. phase \notin Sessionless /\ phase \notin Emptied /\ phase # "drain"
  BY <1>0, <1>1 DEF SessionInv, Sessionless, Emptied
<1>4. TypeOK'
  BY <1>0, <1>1, <1>2 DEF TypeOK
<1>5. LoopInv' /\ AskInv' /\ ListenInv'
  BY <1>0, <1>1, LoopSame, AskFewer, ListenSame
<1>6. SessionInv'
  <2>1. \A v \in Workers : Admitting(v)' => Admitting(v)
    BY <1>0, <1>1 DEF Admitting, TypeOK
  <2> QED
    BY <1>0, <1>1, <1>3, <2>1, SessionSame
<1>7. ConnInv'
  <2>1. \A d \in Clients : d \in ActiveSessions \/ d = busy[w] => d \in ActiveSessions'
    BY <1>0, <1>1, <1>2 DEF ActiveSessions, TypeOK
  <2>2. ASSUME NEW d \in Clients, busy[home[d]] = d, d # busy[w] PROVE busy'[home[d]] = d
    <3>1. home[d] # w
      BY <2>2
    <3> QED
      BY <1>0, <1>1, <2>2, <3>1 DEF TypeOK
  <2> QED
    BY <1>0, <1>1, <2>1, <2>2, ConnSame
<1> QED
  BY <1>4, <1>5, <1>6, <1>7 DEF IndInv

LEMMA MonitorDoneInv ==
  ASSUME IndInv, NEW c \in Clients, MonitorDone(c)
  PROVE  IndInv'
<1> USE DEF acceptorVars, busyVars, serverVars, stopVars
<1>0. TypeOK /\ LoopInv /\ AskInv /\ ListenInv /\ SessionInv /\ ConnInv
  BY DEF IndInv
<1>1. /\ monitors' = monitors \ {c} /\ CancelInLoop({c}, inbox)
      /\ UNCHANGED <<loop, started, acceptorVars, closeCallbackInvoked, closes,
                     busyVars, serverVars, stopVars, complete>>
  BY DEF MonitorDone
<1>2. inbox \in [Loops -> SUBSET Functor] /\ {c} \in SUBSET Clients
  BY <1>0 DEF TypeOK
<1>3. /\ session' \in [Clients -> {"none", "active", "cancelled", "done"}]
      /\ ActiveSessions' = ActiveSessions
      /\ state' \in [Clients -> {"none", "connecting", "connected",
                                 "disconnecting", "disconnected"}]
      /\ inbox' \in [Loops -> SUBSET Functor]
      /\ \A k \in Loops : \A q : Do(q) \in inbox'[k] <=> Do(q) \in inbox[k]
      /\ ConnInv'
  BY <1>1, <1>2, CancelInLoopFacts
<1>4. TypeOK'
  BY <1>0, <1>1, <1>3 DEF TypeOK
<1>5. LoopInv' /\ AskInv' /\ ListenInv'
  BY <1>0, <1>1, <1>3, LoopSame, AskFewer, ListenSame, LoopFacts
<1>6. SessionInv'
  BY <1>0, <1>1, <1>3, SessionSame DEF Admitting
<1> QED
  BY <1>3, <1>4, <1>5, <1>6 DEF IndInv

\* A functor of connection c runs.
LEMMA ConnStep ==
  ASSUME IndInv, NEW c \in Clients,
         UNCHANGED <<loop, started, acceptorVars, sessionVars, taken, next, home,
                     stopVars, complete>>,
         TypeOK', connections' \subseteq connections,
         \A k \in Loops : \A q : Do(q) \in inbox'[k] <=> Do(q) \in inbox[k],
         \A w \in Workers : Admitting(w)' => Admitting(w),
         \A d \in Clients \ {c} :
           /\ state'[d] = state[d] /\ closes'[d] = closes[d]
           /\ d \in closeCallbackInvoked' <=> d \in closeCallbackInvoked
           /\ d \in connections' <=> d \in connections
           /\ \A l \in Loops : \A f \in ConnFunctors :
                For(f, d) \in inbox'[l] <=> For(f, d) \in inbox[l]
           /\ busy[home[d]] = d => busy'[home[d]] = d,
         QueueOk(c)' /\ StateOk(c)' /\ MovesOn(c)'
  PROVE  IndInv'
<1> USE DEF acceptorVars, sessionVars, stopVars
<1>0. TypeOK /\ LoopInv /\ AskInv /\ ListenInv /\ SessionInv /\ ConnInv
  BY DEF IndInv
<1>1. LoopInv' /\ AskInv' /\ ListenInv'
  BY <1>0, LoopSame, AskFewer, ListenSame, LoopFacts
<1>2. ActiveSessions' = ActiveSessions
  BY DEF ActiveSessions
<1>3. SessionInv'
  BY <1>0, <1>2, SessionSame
<1>4. ConnInv'
  BY <1>0, <1>2, ConnOne
<1> QED
  BY <1>1, <1>3, <1>4 DEF IndInv

\* The functors of c are told apart from those of the others.
LEMMA ConnFunctorsDiffer ==
  ASSUME NEW c \in Clients, NEW g
  PROVE  /\ \A q : Do(q) # For(g, c)
         /\ \A d \in Clients \ {c} : \A f : For(f, d) # For(g, c)
         /\ \A f : For(f, c) = For(g, c) <=> f = g
BY FunctorFacts

\* A functor of c is taken.
LEMMA ConnBoxTaken ==
  ASSUME TypeOK, NEW c \in Clients, NEW l \in Loops, NEW g \in ConnFunctors,
         inbox' = Taken(l, For(g, c))
  PROVE  /\ inbox' \in [Loops -> SUBSET Functor]
         /\ \A k \in Loops : \A q : Do(q) \in inbox'[k] <=> Do(q) \in inbox[k]
         /\ \A d \in Clients \ {c} : \A k \in Loops : \A f \in ConnFunctors :
              For(f, d) \in inbox'[k] <=> For(f, d) \in inbox[k]
         /\ \A k \in Loops : \A f \in ConnFunctors :
              For(f, c) \in inbox'[k] <=> For(f, c) \in inbox[k] /\ ~(k = l /\ f = g)
<1>1. inbox' \in [Loops -> SUBSET Functor]
  BY BoxTypes
<1>2. \A k \in Loops : \A x : x \in inbox'[k] <=> x \in inbox[k] /\ ~(k = l /\ x = For(g, c))
  BY TakenIn
<1>3. \A q : Do(q) # For(g, c)
  BY FunctorFacts
<1>4. \A d \in Clients \ {c} : \A f : For(f, d) # For(g, c)
  BY FunctorFacts
<1>5. \A f : For(f, c) = For(g, c) <=> f = g
  BY FunctorFacts
<1> QED
  BY <1>1, <1>2, <1>3, <1>4, <1>5

LEMMA PublishInv ==
  ASSUME IndInv, NEW c \in Clients, Publish(c)
  PROVE  IndInv'
<1>0. TypeOK /\ LoopInv /\ SessionInv /\ ConnInv
  BY DEF IndInv
<1>1. /\ For("publish", c) \in inbox[Base] /\ inbox' = Taken(Base, For("publish", c))
      /\ connections' = connections \ {c}
      /\ UNCHANGED <<loop, started, acceptorVars, connVars, busyVars, sessionVars,
                     taken, next, home, stopVars, complete>>
  BY DEF Publish, Runs
<1>2. QueueOk(c) /\ StateOk(c)
  BY <1>0 DEF ConnInv
<1>3. state[c] = "disconnected"
  BY <1>1, <1>2, LoopFacts DEF QueueOk
<1>4. "publish" \in ConnFunctors
  BY DEF ConnFunctors
<1>5. /\ inbox' \in [Loops -> SUBSET Functor]
      /\ \A k \in Loops : \A q : Do(q) \in inbox'[k] <=> Do(q) \in inbox[k]
      /\ \A d \in Clients \ {c} : \A k \in Loops : \A f \in ConnFunctors :
           For(f, d) \in inbox'[k] <=> For(f, d) \in inbox[k]
      /\ \A k \in Loops : \A f \in ConnFunctors :
           For(f, c) \in inbox'[k] <=> For(f, c) \in inbox[k] /\ ~(k = Base /\ f = "publish")
  BY <1>0, <1>1, <1>4, ConnBoxTaken, LoopFacts
<1>6. TypeOK'
  BY <1>0, <1>1, <1>5
     DEF TypeOK, acceptorVars, connVars, busyVars, sessionVars, stopVars
<1>7. QueueOk(c)' /\ StateOk(c)' /\ MovesOn(c)'
  BY <1>1, <1>2, <1>3, <1>5 DEF QueueOk, StateOk, MovesOn, connVars, ConnFunctors
<1>8. connections' \subseteq connections /\ \A w \in Workers : Admitting(w)' => Admitting(w)
  BY <1>1 DEF Admitting, busyVars
<1>9. \A d \in Clients \ {c} :
           /\ state'[d] = state[d] /\ closes'[d] = closes[d]
           /\ d \in closeCallbackInvoked' <=> d \in closeCallbackInvoked
           /\ d \in connections' <=> d \in connections
           /\ busy[home[d]] = d => busy'[home[d]] = d
  BY <1>1 DEF connVars, busyVars
<1> QED
  BY <1>1, <1>5, <1>6, <1>7, <1>8, <1>9, ConnStep

LEMMA EstablishInv ==
  ASSUME IndInv, NEW c \in Clients, home[c] \in Workers, Establish(c)
  PROVE  IndInv'
<1> DEFINE h == home[c]
<1>0. TypeOK /\ LoopInv /\ SessionInv /\ ConnInv
  BY DEF IndInv
<1>1. /\ For("establish", c) \in inbox[h] /\ inbox' = Taken(h, For("establish", c))
      /\ busy[h] = None
      /\ state' = [state EXCEPT ![c] = "connected"]
      /\ busy' = [busy EXCEPT ![h] = c] /\ step' = [step EXCEPT ![h] = "callback"]
      /\ UNCHANGED <<loop, started, acceptorVars, closeCallbackInvoked, closes,
                     sessionVars, serverVars, stopVars, complete>>
  BY DEF Establish, Runs
<1>2. QueueOk(c) /\ StateOk(c) /\ h \in Loops
  BY <1>0, LoopFacts DEF ConnInv
<1>3. state[c] = "connecting"
  BY <1>1, <1>2 DEF QueueOk
<1>4. "establish" \in ConnFunctors
  BY DEF ConnFunctors
<1>5. /\ inbox' \in [Loops -> SUBSET Functor]
      /\ \A k \in Loops : \A q : Do(q) \in inbox'[k] <=> Do(q) \in inbox[k]
      /\ \A d \in Clients \ {c} : \A k \in Loops : \A f \in ConnFunctors :
           For(f, d) \in inbox'[k] <=> For(f, d) \in inbox[k]
      /\ \A k \in Loops : \A f \in ConnFunctors :
           For(f, c) \in inbox'[k] <=> For(f, c) \in inbox[k] /\ ~(k = h /\ f = "establish")
  BY <1>0, <1>1, <1>2, <1>4, ConnBoxTaken
<1>6. /\ state'[c] = "connected" /\ busy'[h] = c /\ step'[h] = "callback"
      /\ \A d \in Clients \ {c} : state'[d] = state[d]
      /\ \A w \in Workers \ {h} : busy'[w] = busy[w] /\ step'[w] = step[w]
  BY <1>0, <1>1 DEF TypeOK
<1>7. TypeOK'
  <2>1. state' \in [Clients -> {"none", "connecting", "connected",
                                "disconnecting", "disconnected"}]
    BY <1>0, <1>1 DEF TypeOK
  <2>2. busy' \in [Workers -> Clients \cup {None}]
        /\ step' \in [Workers -> {"callback", "turnAway", "admit"}]
    BY <1>0, <1>1 DEF TypeOK
  <2> QED
    BY <1>0, <1>1, <1>5, <2>1, <2>2
       DEF TypeOK, acceptorVars, sessionVars, serverVars, stopVars
<1>8. QueueOk(c)'
  BY <1>1, <1>2, <1>3, <1>5 DEF QueueOk, serverVars, ConnFunctors
<1>9. StateOk(c)'
  BY <1>1, <1>2, <1>3, <1>6 DEF StateOk, serverVars
<1>10. MovesOn(c)'
  BY <1>1, <1>6 DEF MovesOn, serverVars
<1>11. \A w \in Workers : Admitting(w)' => Admitting(w)
  BY <1>6 DEF Admitting
<1>12. \A d \in Clients \ {c} : busy[home[d]] = d => busy'[home[d]] = d
  <2> SUFFICES ASSUME NEW d \in Clients \ {c}, busy[home[d]] = d PROVE busy'[home[d]] = d
    OBVIOUS
  <2>1. home[d] # h
    BY <1>1, NoneAssumption
  <2> QED
    BY <1>0, <1>1, <2>1 DEF TypeOK
<1>13. UNCHANGED <<loop, started, acceptorVars, sessionVars, taken, next, home,
                   stopVars, complete, connections, closes, closeCallbackInvoked>>
  BY <1>1 DEF serverVars
<1> QED
  BY <1>5, <1>6, <1>7, <1>8, <1>9, <1>10, <1>11, <1>12, <1>13, ConnStep

LEMMA HandleCloseInv ==
  ASSUME IndInv, NEW c \in Clients, HandleClose(c)
  PROVE  IndInv'
<1> DEFINE h == home[c]
<1>0. TypeOK /\ LoopInv /\ SessionInv /\ ConnInv
  BY DEF IndInv
<1>1. h \in Loops /\ For("close", c) \in inbox[h]
  BY <1>0 DEF HandleClose, Runs, TypeOK
<1>2. QueueOk(c) /\ StateOk(c) /\ MovesOn(c)
  BY <1>0 DEF ConnInv
<1>3. state[c] = "disconnecting" /\ c \notin closeCallbackInvoked
  BY <1>1, <1>2 DEF QueueOk
<1>4. h \in Workers /\ loop[h] = "running"
  BY <1>0, <1>2, <1>3, WorkerRuns DEF StateOk
<1>5. /\ inbox' = Queued(Taken(h, For("close", c)), Only(h, {For("destroy", c)}))
      /\ closeCallbackInvoked' = closeCallbackInvoked \cup {c}
      /\ UNCHANGED <<loop, started, acceptorVars, state, closes, busyVars,
                     sessionVars, serverVars, stopVars, complete>>
  BY <1>3 DEF HandleClose
<1>6. "close" \in ConnFunctors /\ "destroy" \in ConnFunctors
  BY DEF ConnFunctors
<1>7. /\ inbox' \in [Loops -> SUBSET Functor]
      /\ \A k \in Loops : \A q : Do(q) \in inbox'[k] <=> Do(q) \in inbox[k]
      /\ \A d \in Clients \ {c} : \A k \in Loops : \A f \in ConnFunctors :
           For(f, d) \in inbox'[k] <=> For(f, d) \in inbox[k]
      /\ \A k \in Loops : \A f \in ConnFunctors :
           For(f, c) \in inbox'[k] <=>
             (For(f, c) \in inbox[k] /\ ~(k = h /\ f = "close")) \/ (k = h /\ f = "destroy")
  <2>1. TypeOK /\ h \in Loops /\ loop[h] = "running"
    BY <1>0, <1>1, <1>4
  <2>2. {For("destroy", c)} \in SUBSET Functor
    BY <1>6, FunctorTypes
  <2>3. /\ Taken(h, For("close", c)) \in [Loops -> SUBSET Functor]
        /\ Only(h, {For("destroy", c)}) \in [Loops -> SUBSET Functor]
    BY <2>1, <2>2, BoxTypes
  <2>4. inbox' \in [Loops -> SUBSET Functor]
    BY <1>5, <2>3, BoxTypes
  <2>5. \A k \in Loops : \A x : x \in inbox'[k] <=>
          (x \in inbox[k] /\ ~(k = h /\ x = For("close", c))) \/ (k = h /\ x = For("destroy", c))
    BY <1>5, <2>1, QueuedIn, OnlyIn, TakenIn
  <2>6. \A q : Do(q) # For("close", c) /\ Do(q) # For("destroy", c)
    BY ConnFunctorsDiffer
  <2>7. \A d \in Clients \ {c} : \A f : For(f, d) # For("close", c) /\ For(f, d) # For("destroy", c)
    BY ConnFunctorsDiffer
  <2>8. \A f : (For(f, c) = For("close", c) <=> f = "close") /\ (For(f, c) = For("destroy", c) <=> f = "destroy")
    BY ConnFunctorsDiffer
  <2> HIDE DEF h
  <2> QED
    BY <2>4, <2>5, <2>6, <2>7, <2>8
<1>8. TypeOK'
  BY <1>0, <1>5, <1>7 DEF TypeOK, acceptorVars, busyVars, sessionVars, serverVars, stopVars
<1>9. QueueOk(c)'
  BY <1>1, <1>2, <1>3, <1>5, <1>7 DEF QueueOk, serverVars, ConnFunctors
<1>10. StateOk(c)'
  BY <1>2, <1>3, <1>5 DEF StateOk, serverVars
<1>11. MovesOn(c)'
  BY <1>1, <1>3, <1>5, <1>7 DEF MovesOn, serverVars, ConnFunctors
<1>12. \A w \in Workers : Admitting(w)' => Admitting(w)
  BY <1>5 DEF Admitting, busyVars
<1>13. UNCHANGED <<loop, started, acceptorVars, sessionVars, taken, next, home,
                   stopVars, complete, connections, closes, state, busy>>
  BY <1>5 DEF serverVars, busyVars
<1> QED
  BY <1>5, <1>7, <1>8, <1>9, <1>10, <1>11, <1>12, <1>13, ConnStep

LEMMA ConnectDestroyedInv ==
  ASSUME IndInv, NEW c \in Clients, ConnectDestroyed(c)
  PROVE  IndInv'
<1> DEFINE h == home[c]
<1>0. TypeOK /\ LoopInv /\ SessionInv /\ ConnInv
  BY DEF IndInv
<1>1. /\ h \in Loops /\ For("destroy", c) \in inbox[h]
      /\ state' = [state EXCEPT ![c] = "disconnected"]
      /\ closes' = [closes EXCEPT ![c] = @ + 1]
      /\ UNCHANGED <<loop, started, acceptorVars, closeCallbackInvoked, busyVars,
                     sessionVars, serverVars, stopVars, complete>>
  BY <1>0 DEF ConnectDestroyed, Runs, TypeOK
<1>2. QueueOk(c) /\ StateOk(c) /\ MovesOn(c)
  BY <1>0 DEF ConnInv
<1>3. state[c] = "disconnecting" /\ closes[c] = 0
  BY <1>1, <1>2 DEF QueueOk, StateOk
<1>4. h \in Workers /\ h # Base /\ loop[Base] = "running"
  <2>1. phase # "done"
    BY <1>0, <1>2, <1>3 DEF SessionInv, Emptied, StateOk
  <2> QED
    BY <1>0, <1>2, <1>3, <2>1, LoopFacts DEF StateOk, LoopInv
<1>5. inbox' = Queued(Taken(h, For("destroy", c)), Only(Base, {For("publish", c)}))
  BY DEF ConnectDestroyed
<1>6. "destroy" \in ConnFunctors /\ "publish" \in ConnFunctors
  BY DEF ConnFunctors
<1>7. /\ inbox' \in [Loops -> SUBSET Functor]
      /\ \A k \in Loops : \A q : Do(q) \in inbox'[k] <=> Do(q) \in inbox[k]
      /\ \A d \in Clients \ {c} : \A k \in Loops : \A f \in ConnFunctors :
           For(f, d) \in inbox'[k] <=> For(f, d) \in inbox[k]
      /\ \A k \in Loops : \A f \in ConnFunctors :
           For(f, c) \in inbox'[k] <=>
             (For(f, c) \in inbox[k] /\ ~(k = h /\ f = "destroy")) \/ (k = Base /\ f = "publish")
  <2>1. TypeOK /\ h \in Loops /\ Base \in Loops /\ loop[Base] = "running"
    BY <1>0, <1>1, <1>4, LoopFacts
  <2>2. {For("publish", c)} \in SUBSET Functor
    BY <1>6, FunctorTypes
  <2>3. /\ Taken(h, For("destroy", c)) \in [Loops -> SUBSET Functor]
        /\ Only(Base, {For("publish", c)}) \in [Loops -> SUBSET Functor]
    BY <2>1, <2>2, BoxTypes
  <2>4. inbox' \in [Loops -> SUBSET Functor]
    BY <1>5, <2>3, BoxTypes
  <2>5. \A k \in Loops : \A x : x \in inbox'[k] <=>
          (x \in inbox[k] /\ ~(k = h /\ x = For("destroy", c))) \/ (k = Base /\ x = For("publish", c))
    BY <1>5, <2>1, QueuedIn, OnlyIn, TakenIn
  <2>6. \A q : Do(q) # For("destroy", c) /\ Do(q) # For("publish", c)
    BY ConnFunctorsDiffer
  <2>7. \A d \in Clients \ {c} : \A f : For(f, d) # For("destroy", c) /\ For(f, d) # For("publish", c)
    BY ConnFunctorsDiffer
  <2>8. \A f : (For(f, c) = For("destroy", c) <=> f = "destroy") /\ (For(f, c) = For("publish", c) <=> f = "publish")
    BY ConnFunctorsDiffer
  <2> HIDE DEF h
  <2> QED
    BY <2>4, <2>5, <2>6, <2>7, <2>8
<1>8. /\ state'[c] = "disconnected" /\ closes'[c] = 1
      /\ \A d \in Clients \ {c} : state'[d] = state[d] /\ closes'[d] = closes[d]
      /\ closes' \in [Clients -> 0..1]
  BY <1>0, <1>1, <1>3 DEF TypeOK
<1>9. TypeOK'
  <2>1. state' \in [Clients -> {"none", "connecting", "connected",
                                "disconnecting", "disconnected"}]
    BY <1>0, <1>1 DEF TypeOK
  <2> QED
    BY <1>0, <1>1, <1>7, <1>8, <2>1
       DEF TypeOK, acceptorVars, busyVars, sessionVars, serverVars, stopVars
<1>10. QueueOk(c)'
  <2>1. \A k \in Loops : For("close", c) \notin inbox[k]
    BY <1>1, <1>2 DEF QueueOk
  <2> QED
    BY <1>2, <1>3, <1>4, <1>7, <1>8, <2>1 DEF QueueOk, ConnFunctors
<1>11. StateOk(c)'
  BY <1>1, <1>2, <1>3, <1>8 DEF StateOk, serverVars
<1>12. MovesOn(c)'
  BY <1>7, <1>8, LoopFacts DEF MovesOn, ConnFunctors
<1>13. \A w \in Workers : Admitting(w)' => Admitting(w)
  BY <1>1 DEF Admitting, busyVars
<1>14. UNCHANGED <<loop, started, acceptorVars, sessionVars, taken, next, home,
                   stopVars, complete, connections, closeCallbackInvoked, busy>>
  BY <1>1 DEF serverVars, busyVars
<1> QED
  BY <1>7, <1>8, <1>9, <1>10, <1>11, <1>12, <1>13, <1>14, ConnStep

----------------------------------------------------------------------------
(* What stop() has the loops do *)

LEMMA OnWorkerInv ==
  ASSUME IndInv, NEW w \in Workers, NEW f, OnWorker(w, f)
  PROVE  IndInv'
<1> USE DEF acceptorVars, busyVars, serverVars, stopVars
<1> DEFINE box == Taken(w, Do(f))
<1>0. TypeOK /\ LoopInv /\ AskInv /\ ListenInv /\ SessionInv /\ ConnInv
  BY DEF IndInv
<1>1. /\ Do(f) \in inbox[w] /\ busy[w] = None /\ f \in {"stopAcquiring", "cancel", "closeIdle"}
      /\ IF f = "cancel" THEN CancelInLoop(CancelledOn(w), box)
         ELSE inbox' = box /\ UNCHANGED <<session, state>>
      /\ complete' = complete \cup {w}
      /\ UNCHANGED <<loop, started, acceptorVars, closeCallbackInvoked, closes,
                     busyVars, monitors, serverVars, stopVars>>
  BY DEF OnWorker, Runs
<1>2. f \in Phases /\ w \in Loops /\ w # Base
  BY <1>1, LoopFacts DEF Phases
<1>3. phase = f
  BY <1>0, <1>1, <1>2, AskedNow
<1>4. /\ box \in [Loops -> SUBSET Functor]
      /\ \A k \in Loops : \A g : g \in box[k] <=> g \in inbox[k] /\ ~(k = w /\ g = Do(f))
  BY <1>0, <1>2, TakenIn, BoxTypes
<1>5. \A k \in Loops : \A d \in Clients : \A g \in ConnFunctors :
        For(g, d) \in box[k] <=> For(g, d) \in inbox[k]
  BY <1>4, FunctorFacts
<1> HIDE DEF box
<1>6. /\ session' \in [Clients -> {"none", "active", "cancelled", "done"}]
      /\ ActiveSessions' = ActiveSessions
      /\ state' \in [Clients -> {"none", "connecting", "connected",
                                 "disconnecting", "disconnected"}]
      /\ inbox' \in [Loops -> SUBSET Functor]
      /\ \A k \in Loops : \A q : Do(q) \in inbox'[k] <=> Do(q) \in box[k]
      /\ ConnInv'
  <2>1. CASE f = "cancel"
    <3>1. CancelledOn(w) \in SUBSET Clients
      BY DEF CancelledOn, ActiveSessions
    <3> QED
      BY <1>1, <1>4, <1>5, <2>1, <3>1, CancelInLoopFacts
  <2>2. CASE f # "cancel"
    <3>1. inbox' = box /\ UNCHANGED <<session, state>>
      BY <1>1, <2>2
    <3>2. ActiveSessions' = ActiveSessions
      BY <3>1 DEF ActiveSessions
    <3>3. ConnInv'
      BY <1>0, <1>1, <1>5, <3>1, <3>2, ConnSame
    <3> QED
      BY <1>0, <1>4, <3>1, <3>2, <3>3 DEF TypeOK
  <2> QED
    BY <2>1, <2>2
<1>7. \A k \in Loops : \A q : Do(q) \in inbox'[k] <=> Do(q) \in inbox[k] /\ ~(k = w /\ q = f)
  BY <1>4, <1>6, FunctorFacts
<1>8. TypeOK'
  BY <1>0, <1>1, <1>2, <1>6 DEF TypeOK
<1>9. LoopInv' /\ ListenInv'
  BY <1>0, <1>1, <1>2, <1>7, LoopSame, ListenSame, LoopFacts
<1>10. AskInv'
  BY <1>0, <1>1, <1>3, <1>7 DEF AskInv
<1>11. SessionInv'
  <2>1. \A v \in Workers :
          Admitting(v)' => Admitting(v) /\ (v \in complete' => v \in complete)
    BY <1>1 DEF Admitting
  <2> QED
    BY <1>0, <1>1, <1>3, <1>6, <2>1, SessionSame
<1> QED
  BY <1>6, <1>8, <1>9, <1>10, <1>11 DEF IndInv

\* The poll of the drain sees no operation of its loop: for a worker no monitor
\* is left there, for the base loop no accept.
LEMMA DrainedInv ==
  ASSUME IndInv, NEW l \in Loops, NEW f, Drained(l, f)
  PROVE  IndInv'
<1> USE DEF acceptorVars, connVars, busyVars, sessionVars, serverVars, stopVars
<1>0. TypeOK /\ LoopInv /\ AskInv /\ ListenInv /\ SessionInv /\ ConnInv
  BY DEF IndInv
<1>1. /\ Do(f) \in inbox[l] /\ f \in {"drain", "drainBase"} /\ ~InFlight(l)
      /\ inbox' = Taken(l, Do(f)) /\ complete' = complete \cup {l}
      /\ UNCHANGED <<loop, started, acceptorVars, connVars, busyVars, sessionVars,
                     serverVars, stopVars>>
  BY DEF Drained, Runs
<1>2. f \in Phases
  BY <1>1 DEF Phases
<1>3. phase = f /\ l \in Targets(f)
  BY <1>0, <1>1, <1>2, AskedNow
<1>4. (f = "drain" => l \in Workers /\ l # Base) /\ (f = "drainBase" => l = Base)
  BY <1>3, LoopFacts DEF Targets
<1>5. /\ inbox' \in [Loops -> SUBSET Functor] /\ complete' \subseteq Loops /\ AskInv'
      /\ \A k \in Loops : \A g \in {"listen", "accept"} : Do(g) \in inbox'[k] <=> Do(g) \in inbox[k]
      /\ \A k \in Loops : \A d \in Clients : \A g \in ConnFunctors :
           For(g, d) \in inbox'[k] <=> For(g, d) \in inbox[k]
  BY <1>1, <1>2, AskTaken
<1>6. TypeOK'
  BY <1>0, <1>1, <1>5 DEF TypeOK
<1>7. LoopInv'
  BY <1>0, <1>1, <1>5, LoopSame, LoopFacts
<1>8. ListenInv'
  <2>1. l = Base => acceptOp = "none"
    BY <1>1 DEF InFlight
  <2> QED
    BY <1>0, <1>1, <1>3, <1>4, <1>5, <2>1, LoopFacts DEF ListenInv, AcceptArmed
<1>9. SessionInv'
  <2>1. f = "drain" => \A c \in monitors : home[c] # l
    BY <1>0, <1>1, <1>4 DEF InFlight, TypeOK
  <2>2. \A v \in Workers : ~Admitting(v)
    BY <1>0, <1>1, <1>3 DEF SessionInv
  <2>3. \A v \in Workers : ~Admitting(v)'
    BY <1>1, <2>2 DEF Admitting
  <2> QED
    BY <1>0, <1>1, <1>3, <1>4, <2>1, <2>3 DEF SessionInv, ActiveSessions
<1>10. ConnInv'
  BY <1>0, <1>1, <1>5, ConnSame DEF ActiveSessions
<1> QED
  BY <1>5, <1>6, <1>7, <1>8, <1>9, <1>10 DEF IndInv

LEMMA LoopExitsInv ==
  ASSUME IndInv, NEW l \in Loops, LoopExits(l)
  PROVE  IndInv'
<1> USE DEF acceptorVars, connVars, busyVars, sessionVars, serverVars, stopVars
<1>0. TypeOK /\ LoopInv /\ AskInv /\ ListenInv /\ SessionInv /\ ConnInv
  BY DEF IndInv
<1>1. /\ loop[l] = "quitting" /\ loop' = [loop EXCEPT ![l] = "exited"]
      /\ UNCHANGED <<inbox, started, acceptorVars, connVars, busyVars, sessionVars,
                     serverVars, stopVars, complete>>
  BY DEF LoopExits
<1>2. TypeOK'
  BY <1>0, <1>1 DEF TypeOK
<1>3. LoopInv'
  <2>1. loop'[l] = "exited" /\ \A k \in Loops \ {l} : loop'[k] = loop[k]
    BY <1>0, <1>1 DEF TypeOK
  <2>2. \A w \in Workers : /\ loop'[w] \in {"quitting", "exited"} <=> phase' \in Quit
                           /\ started' => loop'[w] \notin {"none", "starting"}
    BY <1>0, <1>1, <2>1, LoopFacts DEF LoopInv
  <2>3. (loop'[Base] # "running" <=> phase' = "done")
        /\ loop'[Base] \in {"running", "quitting", "exited"}
    BY <1>0, <1>1, <2>1, LoopFacts DEF LoopInv
  <2> QED
    BY <1>0, <1>1, <2>2, <2>3 DEF LoopInv
<1>4. AskInv' /\ ListenInv'
  BY <1>0, <1>1, AskFewer, ListenSame
<1>5. SessionInv'
  BY <1>0, <1>1, SessionSame DEF Admitting, ActiveSessions
<1>6. ConnInv'
  BY <1>0, <1>1, ConnSame DEF ActiveSessions
<1> QED
  BY <1>2, <1>3, <1>4, <1>5, <1>6 DEF IndInv

----------------------------------------------------------------------------
(* stop() goes from phase to phase *)

\* When stop() goes on, no loop holds anything it asked for before.
LEMMA NothingAsked ==
  ASSUME AskInv, phase \in {"new", "done"} \/ Targets(phase) \subseteq complete
  PROVE  \A l \in Loops : \A q \in Phases : Do(q) \notin inbox[l]
<1>1. "new" \notin Phases /\ "done" \notin Phases
  BY DEF Phases
<1> QED
  BY <1>1 DEF AskInv

\* What asking adds to the inboxes.
LEMMA EnterFacts ==
  ASSUME IndInv, NEW p \in Phases, Enter(p),
         \A l \in Loops : \A q \in Phases : Do(q) \notin inbox[l]
  PROVE  /\ phase' = p /\ complete' = {} /\ inbox' \in [Loops -> SUBSET Functor] /\ AskInv'
         /\ \A k \in Loops : \A f \in {"listen", "accept"} : Do(f) \in inbox'[k] <=> Do(f) \in inbox[k]
         /\ \A k \in Loops : \A d \in Clients : \A f \in ConnFunctors :
              For(f, d) \in inbox'[k] <=> For(f, d) \in inbox[k]
<1> DEFINE added == [l \in Loops |-> IF l \in Targets(p) THEN {Do(p)} ELSE {}]
<1>0. TypeOK
  BY DEF IndInv
<1>1. phase' = p /\ complete' = {} /\ inbox' = Queued(inbox, added)
  BY DEF Enter
<1>2. added \in [Loops -> SUBSET Functor]
  BY FunctorTypes
<1>3. inbox' \in [Loops -> SUBSET Functor]
  <2> HIDE DEF added
  <2> QED
    BY <1>0, <1>1, <1>2, BoxTypes DEF TypeOK
<1>4. \A l \in Loops : \A x : x \in added[l] <=> l \in Targets(p) /\ x = Do(p)
  OBVIOUS
<1>5. \A l \in Loops : \A x :
        /\ x \in inbox'[l] => x \in inbox[l] \/ (l \in Targets(p) /\ x = Do(p))
        /\ x \in inbox[l] => x \in inbox'[l]
  <2> HIDE DEF added
  <2> QED
    BY <1>1, <1>4, QueuedIn
<1>6. AskInv'
  <2>1. \A q : Do(q) = Do(p) => q = p
    BY FunctorFacts
  <2> QED
    BY <1>1, <1>5, <2>1 DEF AskInv
<1>7. \A f \in {"listen", "accept"} : Do(f) # Do(p)
  BY FunctorFacts DEF Phases
<1>8. \A d \in Clients : \A f : For(f, d) # Do(p)
  BY FunctorFacts
<1> QED
  BY <1>1, <1>3, <1>5, <1>6, <1>7, <1>8

LEMMA StopBeginsInv ==
  ASSUME IndInv, StopBegins
  PROVE  IndInv'
<1> USE DEF acceptorVars, connVars, busyVars, sessionVars, serverVars, stopVars
<1>0. TypeOK /\ LoopInv /\ AskInv /\ ListenInv /\ SessionInv /\ ConnInv
  BY DEF IndInv
<1>1. /\ started /\ phase = "new" /\ acceptingSessions' = FALSE /\ Enter("stopAccepting")
      /\ UNCHANGED <<loop, started, acceptorVars, connVars, busyVars, sessionVars,
                     serverVars, others>>
  BY DEF StopBegins, NoLongerAccepting
<1>2. "stopAccepting" \in Phases
  BY DEF Phases
<1>3. /\ phase' = "stopAccepting" /\ complete' = {}
      /\ inbox' \in [Loops -> SUBSET Functor] /\ AskInv'
      /\ \A k \in Loops : \A f \in {"listen", "accept"} : Do(f) \in inbox'[k] <=> Do(f) \in inbox[k]
      /\ \A k \in Loops : \A d \in Clients : \A f \in ConnFunctors :
           For(f, d) \in inbox'[k] <=> For(f, d) \in inbox[k]
  BY <1>0, <1>1, <1>2, NothingAsked, EnterFacts
<1>4. TypeOK'
  BY <1>0, <1>1, <1>2, <1>3 DEF TypeOK
<1>5. LoopInv'
  BY <1>0, <1>1, <1>3 DEF LoopInv, Quit
<1>6. ListenInv'
  BY <1>0, <1>1, <1>3, LoopFacts DEF ListenInv, AcceptArmed, Quieted
<1>7. SessionInv'
  <2>1. \A t \in Callers : others[t] # "done"
    BY <1>0, <1>1 DEF SessionInv
  <2> QED
    BY <1>1, <1>3, <2>1 DEF SessionInv, Sessionless, Emptied, Quit
<1>8. ConnInv'
  BY <1>0, <1>1, <1>3, ConnSame DEF ActiveSessions
<1> QED
  BY <1>3, <1>4, <1>5, <1>6, <1>7, <1>8 DEF IndInv

LEMMA StopJoinsInv ==
  ASSUME IndInv, NEW t \in Callers, StopJoins(t)
  PROVE  IndInv'
<1> USE DEF acceptorVars, connVars, busyVars, sessionVars, serverVars
<1>0. TypeOK /\ LoopInv /\ AskInv /\ ListenInv /\ SessionInv /\ ConnInv
  BY DEF IndInv
<1>1. /\ \/ others' = [others EXCEPT ![t] = "waiting"]
         \/ phase = "done" /\ others' = [others EXCEPT ![t] = "done"]
      /\ UNCHANGED <<loop, inbox, started, acceptorVars, connVars, busyVars,
                     sessionVars, serverVars, acceptingSessions, phase, complete>>
  BY DEF StopJoins, JoinedAs, stopped
<1>2. others' \in [Callers -> {"new", "waiting", "done"}]
  BY <1>0, <1>1 DEF TypeOK
<1>3. TypeOK'
  BY <1>0, <1>1, <1>2 DEF TypeOK
<1>4. LoopInv' /\ AskInv' /\ ListenInv'
  BY <1>0, <1>1, LoopSame, AskFewer, ListenSame
<1>5. \A u \in Callers : others'[u] = "done" => phase = "done"
  <2> SUFFICES ASSUME NEW u \in Callers, others'[u] = "done" PROVE phase = "done"
    OBVIOUS
  <2>1. CASE phase = "done"
    BY <2>1
  <2>2. CASE others' = [others EXCEPT ![t] = "waiting"]
    BY <1>0, <2>2 DEF TypeOK, SessionInv
  <2> QED
    BY <1>1, <2>1, <2>2
<1>6. SessionInv'
  BY <1>0, <1>1, <1>5 DEF SessionInv, Admitting, ActiveSessions
<1>7. ConnInv'
  BY <1>0, <1>1, ConnSame DEF ActiveSessions
<1> QED
  BY <1>3, <1>4, <1>6, <1>7 DEF IndInv

\* The order of the phases, and what stop() has seen when it goes on.
LEMMA AfterFacts ==
  ASSUME phase \in Phases, NEW p \in After(phase)
  PROVE  \/ phase = "stopAccepting" /\ p = "stopAcquiring"
         \/ phase = "stopAcquiring" /\ p = "grace"
         \/ phase = "grace" /\ p = "cancel"
         \/ phase \in {"grace", "cancelWait"} /\ p = "forceClose" /\ ActiveSessions = {}
         \/ phase = "cancel" /\ p = "cancelWait"
         \/ phase = "forceClose" /\ p = "closing"
         \/ phase = "closing" /\ p = "closeIdle" /\ connections = {}
         \/ phase = "closeIdle" /\ p = "drain"
<1>1. CASE phase = "stopAccepting"
  BY <1>1 DEF After
<1>2. CASE phase = "stopAcquiring"
  BY <1>2 DEF After
<1>3. CASE phase = "grace"
  BY <1>3 DEF After
<1>4. CASE phase = "cancel"
  BY <1>4 DEF After
<1>5. CASE phase = "cancelWait"
  BY <1>5 DEF After
<1>6. CASE phase = "forceClose"
  BY <1>6 DEF After
<1>7. CASE phase = "closing"
  BY <1>7 DEF After
<1>8. CASE phase = "closeIdle"
  BY <1>8 DEF After
<1>9. CASE phase \in {"drain", "drainBase"}
  BY <1>9 DEF After
<1> QED
  BY <1>1, <1>2, <1>3, <1>4, <1>5, <1>6, <1>7, <1>8, <1>9 DEF Phases

LEMMA StopProceedsInv ==
  ASSUME IndInv, StopProceeds
  PROVE  IndInv'
<1> USE DEF acceptorVars, connVars, busyVars, sessionVars, serverVars
<1>0. TypeOK /\ LoopInv /\ AskInv /\ ListenInv /\ SessionInv /\ ConnInv
  BY DEF IndInv
<1>1. /\ phase \in Phases /\ Targets(phase) \subseteq complete
      /\ UNCHANGED <<loop, started, acceptorVars, connVars, busyVars, sessionVars,
                     serverVars, acceptingSessions, others>>
  BY DEF StopProceeds
<1>2. PICK p \in After(phase) : Enter(p)
  BY DEF StopProceeds
<1>3. \/ phase = "stopAccepting" /\ p = "stopAcquiring"
      \/ phase = "stopAcquiring" /\ p = "grace"
      \/ phase = "grace" /\ p = "cancel"
      \/ phase \in {"grace", "cancelWait"} /\ p = "forceClose" /\ ActiveSessions = {}
      \/ phase = "cancel" /\ p = "cancelWait"
      \/ phase = "forceClose" /\ p = "closing"
      \/ phase = "closing" /\ p = "closeIdle" /\ connections = {}
      \/ phase = "closeIdle" /\ p = "drain"
  BY <1>1, AfterFacts
<1>4. p \in Phases /\ p \notin Quit /\ phase \notin Quit /\ phase \notin {"new", "done"}
  BY <1>3 DEF Phases, Quit
<1>5. /\ phase' = p /\ complete' = {}
      /\ inbox' \in [Loops -> SUBSET Functor] /\ AskInv'
      /\ \A k \in Loops : \A f \in {"listen", "accept"} : Do(f) \in inbox'[k] <=> Do(f) \in inbox[k]
      /\ \A k \in Loops : \A d \in Clients : \A f \in ConnFunctors :
           For(f, d) \in inbox'[k] <=> For(f, d) \in inbox[k]
  BY <1>0, <1>1, <1>2, <1>4, NothingAsked, EnterFacts
<1>6. TypeOK'
  BY <1>0, <1>1, <1>4, <1>5 DEF TypeOK
<1>7. LoopInv'
  <2>1. phase' # "done" /\ phase' # "new" /\ phase # "done" /\ phase # "new"
    BY <1>3, <1>5
  <2>2. started
    BY <1>0, <2>1 DEF LoopInv
  <2> QED
    BY <1>0, <1>1, <1>4, <1>5, <2>1, <2>2 DEF LoopInv
<1>8. ListenInv'
  <2>1. phase = "stopAccepting" => Base \in complete
    BY <1>1 DEF Targets
  <2>2. phase = "stopAccepting" \/ phase \in {"stopAcquiring"} \cup Quieted
    BY <1>3 DEF Quieted
  <2>3. stopRequested
    BY <1>0, <2>1, <2>2 DEF ListenInv
  <2>4. phase' # "done" /\ phase' # "drainBase"
    BY <1>3, <1>5
  <2> QED
    BY <1>0, <1>1, <1>5, <2>3, <2>4, LoopFacts DEF ListenInv, AcceptArmed
<1>9. SessionInv'
  <2>1. ~acceptingSessions'
    BY <1>0, <1>1, <1>4 DEF SessionInv
  <2>2. ASSUME NEW w \in Workers, Admitting(w)'
        PROVE  phase' = "stopAcquiring" /\ w \notin complete'
    <3>1. Admitting(w)
      BY <1>1, <2>2 DEF Admitting
    <3>2. phase = "stopAccepting" \/ (phase = "stopAcquiring" /\ w \notin complete)
      BY <1>0, <1>4, <3>1 DEF SessionInv
    <3>3. phase = "stopAcquiring" => w \in complete
      BY <1>1 DEF Targets
    <3> QED
      BY <1>3, <1>5, <3>2, <3>3
  <2>3. phase' \in Sessionless => ActiveSessions' = {}
    <3>1. phase' \in Sessionless => phase \in Sessionless \/ ActiveSessions = {}
      BY <1>3, <1>5 DEF Sessionless
    <3> QED
      BY <1>0, <1>1, <3>1 DEF SessionInv, ActiveSessions
  <2>4. phase' \in Emptied => connections' = {}
    <3>1. phase' \in Emptied => phase \in Emptied \/ connections = {}
      BY <1>3, <1>5 DEF Emptied
    <3> QED
      BY <1>0, <1>1, <3>1 DEF SessionInv
  <2>5. \A t \in Callers : others'[t] # "done"
    BY <1>0, <1>1, <1>4 DEF SessionInv
  <2> QED
    BY <1>4, <1>5, <2>1, <2>2, <2>3, <2>4, <2>5 DEF SessionInv
<1>10. ConnInv'
  BY <1>0, <1>1, <1>5, ConnSame DEF ActiveSessions
<1> QED
  BY <1>5, <1>6, <1>7, <1>8, <1>9, <1>10 DEF IndInv

LEMMA QuitWorkersInv ==
  ASSUME IndInv, QuitWorkers
  PROVE  IndInv'
<1> USE DEF acceptorVars, connVars, busyVars, sessionVars, serverVars
<1>0. TypeOK /\ LoopInv /\ AskInv /\ ListenInv /\ SessionInv /\ ConnInv
  BY DEF IndInv
<1>1. /\ phase = "drain" /\ Workers \subseteq complete /\ Enter("drainBase")
      /\ loop' = [l \in Loops |-> IF l \in Workers THEN "quitting" ELSE loop[l]]
      /\ UNCHANGED <<started, acceptorVars, connVars, busyVars, sessionVars,
                     serverVars, acceptingSessions, others>>
  BY DEF QuitWorkers
<1>2. "drainBase" \in Phases /\ Targets(phase) \subseteq complete
  BY <1>1 DEF Phases, Targets
<1>3. /\ phase' = "drainBase" /\ complete' = {}
      /\ inbox' \in [Loops -> SUBSET Functor] /\ AskInv'
      /\ \A k \in Loops : \A f \in {"listen", "accept"} : Do(f) \in inbox'[k] <=> Do(f) \in inbox[k]
      /\ \A k \in Loops : \A d \in Clients : \A f \in ConnFunctors :
           For(f, d) \in inbox'[k] <=> For(f, d) \in inbox[k]
  BY <1>0, <1>1, <1>2, NothingAsked, EnterFacts
<1>4. TypeOK'
  <2>1. loop' \in [Loops -> {"none", "starting", "running", "quitting", "exited"}]
    BY <1>0, <1>1 DEF TypeOK
  <2> QED
    BY <1>0, <1>1, <1>2, <1>3, <2>1 DEF TypeOK
<1>5. LoopInv'
  <2>1. loop'[Base] = loop[Base] /\ \A w \in Workers : loop'[w] = "quitting"
    BY <1>1, LoopFacts
  <2>2. started
    BY <1>0, <1>1 DEF LoopInv
  <2> QED
    BY <1>0, <1>1, <1>3, <2>1, <2>2 DEF LoopInv, Quit
<1>6. ListenInv'
  BY <1>0, <1>1, <1>3, LoopFacts DEF ListenInv, AcceptArmed, Quieted
<1>7. SessionInv'
  <2>1. \A w \in Workers : ~Admitting(w)'
    BY <1>0, <1>1 DEF SessionInv, Admitting
  <2>2. ~acceptingSessions' /\ ActiveSessions' = {} /\ connections' = {}
    BY <1>0, <1>1 DEF SessionInv, ActiveSessions, Sessionless, Emptied
  <2>3. \A c \in monitors' : home'[c] \notin Workers
    BY <1>0, <1>1 DEF SessionInv
  <2>4. \A t \in Callers : others'[t] # "done"
    BY <1>0, <1>1 DEF SessionInv
  <2> QED
    BY <1>3, <2>1, <2>2, <2>3, <2>4 DEF SessionInv
<1>8. ConnInv'
  BY <1>0, <1>1, <1>3, ConnSame DEF ActiveSessions
<1> QED
  BY <1>3, <1>4, <1>5, <1>6, <1>7, <1>8 DEF IndInv

LEMMA StopEndsInv ==
  ASSUME IndInv, StopEnds
  PROVE  IndInv'
<1> USE DEF acceptorVars, connVars, busyVars, sessionVars, serverVars
<1>0. TypeOK /\ LoopInv /\ AskInv /\ ListenInv /\ SessionInv /\ ConnInv
  BY DEF IndInv
<1>1. /\ phase = "drainBase" /\ Base \in complete /\ phase' = "done"
      /\ loop' = [loop EXCEPT ![Base] = "quitting"]
      /\ UNCHANGED <<inbox, started, acceptorVars, connVars, busyVars, sessionVars,
                     serverVars, acceptingSessions, others, complete>>
  BY DEF StopEnds
<1>2. TypeOK'
  BY <1>0, <1>1 DEF TypeOK
<1>3. LoopInv'
  <2>1. loop'[Base] = "quitting" /\ \A w \in Workers : loop'[w] = loop[w]
    BY <1>0, <1>1, LoopFacts DEF TypeOK
  <2>2. started
    BY <1>0, <1>1 DEF LoopInv
  <2> QED
    BY <1>0, <1>1, <2>1, <2>2 DEF LoopInv, Quit
<1>4. AskInv'
  <2>1. Targets(phase) \subseteq complete
    BY <1>1 DEF Targets
  <2>2. \A l \in Loops : \A q \in Phases : Do(q) \notin inbox[l]
    BY <1>0, <2>1, NothingAsked
  <2> QED
    BY <1>1, <2>2 DEF AskInv
<1>5. ListenInv'
  BY <1>0, <1>1 DEF ListenInv, AcceptArmed, Quieted
<1>6. SessionInv'
  BY <1>0, <1>1 DEF SessionInv, Admitting, ActiveSessions, Sessionless, Emptied, Quit
<1>7. ConnInv'
  BY <1>0, <1>1, ConnSame DEF ActiveSessions
<1> QED
  BY <1>2, <1>3, <1>4, <1>5, <1>6, <1>7 DEF IndInv

----------------------------------------------------------------------------
(* Theorems *)

LEMMA InitInv == Init => IndInv
<1> SUFFICES ASSUME Init PROVE IndInv
  OBVIOUS
<1>1. \A l \in Loops : inbox[l] = {}
  BY DEF Init
<1>2. TypeOK
  <2>1. 1 \in Workers
    BY WorkerAssumption DEF Workers
  <2>2. 0 \in 0..MaxRejected
    BY RejectAssumption
  <2>3. /\ loop \in [Loops -> {"none", "starting", "running", "quitting", "exited"}]
        /\ inbox \in [Loops -> SUBSET Functor] /\ home \in [Clients -> Loops]
    BY LoopFacts DEF Init
  <2>4. closes \in [Clients -> 0..1] /\ others \in [Callers -> {"new", "waiting", "done"}]
    BY DEF Init
  <2>5. /\ state \in [Clients -> {"none", "connecting", "connected",
                                  "disconnecting", "disconnected"}]
        /\ session \in [Clients -> {"none", "active", "cancelled", "done"}]
    BY DEF Init
  <2>6. /\ busy \in [Workers -> Clients \cup {None}]
        /\ step \in [Workers -> {"callback", "turnAway", "admit"}]
    BY DEF Init
  <2> QED
    BY <2>1, <2>2, <2>3, <2>4, <2>5, <2>6 DEF Init, TypeOK
<1>3. LoopInv
  <2>1. loop[Base] = "running" /\ \A w \in Workers : loop[w] = "none"
    BY LoopFacts DEF Init
  <2> QED
    BY <1>1, <2>1, LoopFacts DEF Init, LoopInv, Quit
<1>4. AskInv /\ ListenInv
  BY <1>1 DEF Init, AskInv, ListenInv, AcceptArmed, Quieted
<1>5. SessionInv
  BY DEF Init, SessionInv, Admitting, Sessionless, Emptied, Quit
<1>6. ConnInv
  BY <1>1 DEF Init, ConnInv, QueueOk, StateOk, MovesOn
<1> QED
  BY <1>2, <1>3, <1>4, <1>5, <1>6 DEF IndInv

LEMMA StutterInv ==
  ASSUME IndInv, UNCHANGED vars
  PROVE  IndInv'
<1> USE DEF vars, acceptorVars, connVars, busyVars, sessionVars, serverVars, stopVars
<1>0. TypeOK /\ LoopInv /\ AskInv /\ ListenInv /\ SessionInv /\ ConnInv
  BY DEF IndInv
<1>1. TypeOK'
  BY <1>0 DEF TypeOK
<1>2. LoopInv' /\ AskInv' /\ ListenInv'
  BY <1>0, LoopSame, AskFewer, ListenSame
<1>3. SessionInv' /\ ConnInv'
  BY <1>0, SessionSame, ConnSame DEF Admitting, ActiveSessions
<1> QED
  BY <1>1, <1>2, <1>3 DEF IndInv

LEMMA StepInv == IndInv /\ [Next]_vars => IndInv'
<1> SUFFICES ASSUME IndInv, [Next]_vars PROVE IndInv'
  OBVIOUS
<1>1. CASE Boot
  BY <1>1, StartServerInv, StartLoopInv DEF Boot
<1>2. CASE BaseStep
  BY <1>2, ListenInvariant, RetryAcceptInv, AcceptFailedInv, StopAcceptingInv,
     ForceCloseAllInv, PublishInv, DrainedInv, LoopExitsInv, LoopFacts DEF BaseStep
<1>3. ASSUME NEW w \in Workers, WorkerStep(w) PROVE IndInv'
  <2>1. w \in Loops
    BY LoopFacts
  <2>2. CASE ThreadFunc(w) \/ StartSession(w) \/ Admit(w) \/ TurnAway(w)
    BY <2>2, StartLoopInv, StartSessionInv, AdmitInv, TurnAwayInv
  <2>3. CASE \E c \in Clients : home[c] = w /\ (\/ Establish(c) \/ HandleClose(c)
                                                \/ ConnectDestroyed(c))
    BY <2>3, EstablishInv, HandleCloseInv, ConnectDestroyedInv
  <2>4. CASE \E f \in {"stopAcquiring", "cancel", "closeIdle"} : OnWorker(w, f)
    BY <2>4, OnWorkerInv
  <2>5. CASE Drained(w, "drain") \/ LoopExits(w)
    BY <2>1, <2>5, DrainedInv, LoopExitsInv
  <2> QED
    BY <1>3, <2>2, <2>3, <2>4, <2>5 DEF WorkerStep
<1>4. CASE \E c \in Clients : Accepted(c) \/ SessionEnds(c) \/ MonitorDone(c)
  BY <1>4, AcceptedInv, SessionEndsInv, MonitorDoneInv
<1>5. CASE StopBegins \/ StopStep
  BY <1>5, StopBeginsInv, StopProceedsInv, QuitWorkersInv, StopEndsInv, StopJoinsInv
     DEF StopStep
<1>6. CASE Ended \/ UNCHANGED vars
  BY <1>6, StutterInv DEF Ended
<1> QED
  BY <1>1, <1>2, <1>3, <1>4, <1>5, <1>6 DEF Next

\* The invariant that the theorems below rest on holds in every behaviour.
THEOREM ServerInvariance == Spec => []IndInv
BY InitInv, StepInv, PTL DEF Spec

\* For every number of workers and of rejected submissions the listener is never
\* left without an accept or a functor that submits one (asyncAccept, handleRead),
\* and no inbox holds a functor of an object its loop does not have.
THEOREM ListenerIsSound == Spec => []ListenerSound
<1>1. IndInv => ListenerSound
  BY DEF IndInv, ListenInv, ListenerSound
<1> QED
  BY <1>1, ServerInvariance, PTL

\* A queue of destroy functors and a closed descriptor are never two for one
\* connection.
LEMMA OneDestroy ==
  ASSUME IndInv, NEW c \in Clients
  PROVE  Cardinality({l \in Loops : For("destroy", c) \in inbox[l]}) + closes[c] <= 1
<1> DEFINE D == {l \in Loops : For("destroy", c) \in inbox[l]}
<1>1. TypeOK /\ QueueOk(c) /\ StateOk(c)
  BY DEF IndInv, ConnInv
<1>2. closes[c] \in 0..1
  BY <1>1 DEF TypeOK
<1>3. Cardinality(D) = 0 \/ (Cardinality(D) = 1 /\ closes[c] = 0)
  <2>1. CASE D = {}
    BY <2>1, FS_EmptySet
  <2>2. CASE D # {}
    <3>1. state[c] = "disconnecting" /\ D = {home[c]}
      BY <1>1, <2>2 DEF QueueOk
    <3>2. closes[c] = 0
      BY <1>1, <3>1 DEF StateOk
    <3>3. Cardinality({home[c]}) = 1
      BY FS_Singleton
    <3> QED
      BY <3>1, <3>2, <3>3
  <2> QED
    BY <2>1, <2>2
<1> HIDE DEF D
<1>4. Cardinality(D) + closes[c] <= 1
  BY <1>2, <1>3
<1> QED
  BY <1>4 DEF D

\* No descriptor that accept returned is lost between the base loop and a worker
\* and none is closed twice, however connections close, sessions end and stop()
\* closes what is left (newConnection, handleClose, connectDestroyed).
THEOREM DescriptorsAreOwned == Spec => []DescriptorsOwned
<1>1. ASSUME IndInv PROVE DescriptorsOwned
  <2> SUFFICES ASSUME NEW c \in Clients
               PROVE  /\ closes[c] <= 1
                      /\ c \in taken => closes[c] = 1 \/ c \in connections
                      /\ Cardinality({l \in Loops : For("destroy", c) \in inbox[l]})
                           + closes[c] <= 1
    BY DEF DescriptorsOwned
  <2>1. TypeOK /\ StateOk(c)
    BY <1>1 DEF IndInv, ConnInv
  <2>2. closes[c] <= 1
    BY <2>1 DEF TypeOK
  <2>3. c \in taken => closes[c] = 1 \/ c \in connections
    BY <2>1 DEF TypeOK, StateOk
  <2> QED
    BY <1>1, <2>2, <2>3, OneDestroy
<1> QED
  BY <1>1, ServerInvariance, PTL

\* A registered connection always has what moves it on: the functor of its next
\* step in the inbox of the loop that runs it, or a session or session start on
\* its worker that will close it.
HandedOver == \A c \in Clients : QueueOk(c) /\ MovesOn(c)

\* A connection is never stranded between two loops, for every number of workers:
\* the loops that hold one take functors until it has left connections_
\* (connectEstablished, forceClose, handleClose, connectDestroyed, publishDestroyed).
THEOREM NoneIsStranded == Spec => []HandedOver
<1>1. IndInv => HandedOver
  BY DEF IndInv, ConnInv, HandedOver
<1> QED
  BY <1>1, ServerInvariance, PTL

\* GatewayServer::stop returns, to its first caller or to another one, only when
\* no session, connection, descriptor or operation is left and no loop takes
\* functors any more.
THEOREM StopIsClean == Spec => []StoppedClean
<1>1. ASSUME IndInv PROVE StoppedClean
  <2>0. TypeOK /\ LoopInv /\ ListenInv /\ SessionInv /\ ConnInv
    BY <1>1 DEF IndInv
  <2> SUFFICES ASSUME phase = "done"
               PROVE  /\ ActiveSessions = {} /\ connections = {}
                      /\ \A l \in Loops : loop[l] \in {"quitting", "exited"} /\ ~InFlight(l)
                      /\ \A c \in Clients : c \in taken => closes[c] = 1
    BY <2>0 DEF StoppedClean, SessionInv
  <2>1. phase \in Sessionless /\ phase \in Emptied /\ phase \in Quit
    BY DEF Sessionless, Emptied, Quit
  <2>2. ActiveSessions = {} /\ connections = {}
    BY <2>0, <2>1 DEF SessionInv
  <2>3. ASSUME NEW l \in Loops PROVE loop[l] \in {"quitting", "exited"} /\ ~InFlight(l)
    <3>1. CASE l = Base
      BY <2>0, <3>1 DEF LoopInv, ListenInv, InFlight
    <3>2. CASE l \in Workers
      <4>1. l # Base
        BY <3>2, LoopFacts
      <4>2. loop[l] \in {"quitting", "exited"}
        BY <2>0, <2>1, <3>2 DEF LoopInv
      <4>3. \A c \in monitors : home[c] # l
        BY <2>0, <2>1, <3>2 DEF SessionInv
      <4> QED
        BY <2>2, <4>1, <4>2, <4>3 DEF InFlight
    <3> QED
      BY <3>1, <3>2 DEF Loops
  <2>4. \A c \in Clients : c \in taken => closes[c] = 1
    BY <2>0, <2>2 DEF ConnInv, StateOk, TypeOK
  <2> QED
    BY <2>2, <2>3, <2>4
<1> QED
  BY <1>1, ServerInvariance, PTL

\* A session is only ever counted in by a worker that has read acceptingSessions_
\* before the functor that stops its pool.
LEMMA OnlyAdmitAdds ==
  ASSUME IndInv, [Next]_vars, \A w \in Workers : ~Admitting(w)
  PROVE  ActiveSessions' \subseteq ActiveSessions
<1> USE DEF sessionVars, ActiveSessions
<1>1. CASE Boot
  BY <1>1 DEF Boot, StartServer, StartLoop
<1>2. CASE BaseStep
  BY <1>2 DEF BaseStep, Listen, RetryAccept, AcceptFailed, StopAccepting, ForceCloseAll,
              Publish, Drained, LoopExits
<1>3. ASSUME NEW w \in Workers, WorkerStep(w) PROVE ActiveSessions' \subseteq ActiveSessions
  <2>0. session \in [Clients -> {"none", "active", "cancelled", "done"}]
    BY DEF IndInv, TypeOK
  <2>1. CASE \E f \in {"stopAcquiring", "cancel", "closeIdle"} : OnWorker(w, f)
    <3>1. PICK f \in {"stopAcquiring", "cancel", "closeIdle"} : OnWorker(w, f)
      BY <2>1
    <3> QED
      BY <2>0, <3>1 DEF OnWorker, CancelInLoop
  <2>2. CASE Admit(w)
    BY <2>2 DEF Admit, Admitting
  <2>3. CASE ThreadFunc(w) \/ StartSession(w) \/ TurnAway(w) \/ Drained(w, "drain") \/ LoopExits(w)
    BY <2>3 DEF ThreadFunc, StartSession, TurnAway, Drained, LoopExits
  <2>4. CASE \E c \in Clients : Establish(c) \/ HandleClose(c) \/ ConnectDestroyed(c)
    BY <2>4 DEF Establish, HandleClose, ConnectDestroyed
  <2> QED
    BY <1>3, <2>1, <2>2, <2>3, <2>4 DEF WorkerStep
<1>4. ASSUME NEW c \in Clients, Accepted(c) \/ SessionEnds(c) \/ MonitorDone(c)
      PROVE  ActiveSessions' \subseteq ActiveSessions
  <2>0. session \in [Clients -> {"none", "active", "cancelled", "done"}]
    BY DEF IndInv, TypeOK
  <2>1. CASE Accepted(c)
    BY <2>1 DEF Accepted
  <2>2. CASE SessionEnds(c)
    BY <2>0, <2>2 DEF SessionEnds
  <2>3. CASE MonitorDone(c)
    BY <2>0, <2>3 DEF MonitorDone, CancelInLoop
  <2> QED
    BY <1>4, <2>1, <2>2, <2>3
<1>5. CASE StopBegins \/ StopStep
  BY <1>5 DEF StopBegins, StopStep, StopProceeds, QuitWorkers, StopEnds, StopJoins
<1>6. CASE Ended \/ UNCHANGED vars
  BY <1>6 DEF Ended, vars
<1> QED
  BY <1>1, <1>2, <1>3, <1>4, <1>5, <1>6 DEF Next

\* After every worker has stopped its pool, the sessions stop() waits for only
\* become fewer, so the count it reads cannot be overtaken by a late admission
\* (startSession reads acceptingSessions_ and counts in two steps).
THEOREM AdmissionCloses == Spec => AdmissionClosed
<1>1. ASSUME IndInv, [Next]_vars, phase \in Phases \ {"stopAccepting", "stopAcquiring"}
      PROVE  ActiveSessions' \subseteq ActiveSessions
  <2>1. phase \notin {"new", "stopAccepting", "stopAcquiring"}
    BY <1>1 DEF Phases
  <2>2. \A w \in Workers : ~Admitting(w)
    BY <1>1, <2>1 DEF IndInv, SessionInv
  <2> QED
    BY <1>1, <2>2, OnlyAdmitAdds
<1>2. IndInv /\ [Next]_vars =>
        [(phase \in Phases \ {"stopAccepting", "stopAcquiring"}) =>
           ActiveSessions' \subseteq ActiveSessions]_vars
  BY <1>1
<1> QED
  BY <1>2, ServerInvariance, PTL DEF Spec, AdmissionClosed
=============================================================================
