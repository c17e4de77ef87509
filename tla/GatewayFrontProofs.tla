------------------------- MODULE GatewayFrontProofs -------------------------
(***************************************************************************)
(* What holds of a gateway's front for every configuration file, stream and *)
(* cut of it into reads: the configuration it serves under, the routes of   *)
(* requests, the bytes of its buffers.                                      *)
(***************************************************************************)
EXTENDS FrontOperatorProofs

(* The configuration *)

JobInv == job \in Jobs /\ stream = Sent(job)

LoadedFile == LoadFromString(job.lines)

\* The reader serves under what its file gave, and under nothing before.
ConfigInv ==
  /\ config \in {<<>>, <<From(LoadedFile.values)>>}
  /\ config # <<>> => LoadedFile.ok /\ Valid(LoadedFile.values)
  /\ phase \in {"parse", "read", "stream", "send"} => config # <<>>
  /\ phase = "load" => config = <<>>

LEMMA ConfigInit == Init => JobInv /\ ConfigInv
BY DEF Init, JobInv, ConfigInv

LEMMA ConfigStep ==
  ASSUME JobInv, ConfigInv, [Next]_vars
  PROVE  JobInv' /\ ConfigInv'
<1>1. JobInv' /\ job' = job
  BY DEF JobInv, Next, vars, input, Load, NeedsMore, Refuses, Completes, ReadSome,
         StreamBuffered, StreamRead, NextMessage, ServiceAnswers, WriteEnds,
         ServiceReadFails, HandleClose, Ended
<1>2. LoadedFile' = LoadedFile
  BY <1>1 DEF LoadedFile
<1>3. CASE Load
  BY <1>1, <1>3 DEF Load, ConfigInv, LoadedFile
<1>4. ASSUME config' = config, phase' \in {"parse", "read", "stream", "send"} => config # <<>>,
             phase' = "load" => phase = "load"
      PROVE  ConfigInv'
  BY <1>2, <1>4 DEF ConfigInv
<1>5. CASE UNCHANGED vars
  BY <1>1, <1>4, <1>5 DEF vars, ConfigInv
<1>6. CASE NeedsMore \/ Refuses \/ ReadSome
  BY <1>1, <1>4, <1>6 DEF NeedsMore, Refuses, ReadSome, ConfigInv
<1>7. CASE StreamBuffered \/ StreamRead \/ NextMessage
  BY <1>1, <1>4, <1>7 DEF StreamBuffered, StreamRead, NextMessage, ConfigInv
<1>8. CASE Completes
  BY <1>1, <1>4, <1>8 DEF Completes, Routed, ConfigInv
<1>9. CASE ServiceAnswers \/ ServiceReadFails \/ HandleClose \/ Ended
  BY <1>1, <1>4, <1>9 DEF ServiceAnswers, ServiceReadFails, HandleClose, Ended, vars, ConfigInv
<1>10. CASE WriteEnds
  BY <1>1, <1>4, <1>10 DEF WriteEnds, ServiceResumes, ConfigInv
<1> QED
  BY <1>1, <1>3, <1>5, <1>6, <1>7, <1>8, <1>9, <1>10 DEF Next

\* What is known of the configuration, once there is one.
LEMMA ConfigIs ==
  ASSUME JobInv, ConfigInv, config # <<>>
  PROVE  /\ FileOk(job.lines) /\ config = <<From(LoadedFile.values)>>
         /\ config[1] = From(LoadedFile.values)
         /\ LoadedFile.ok /\ Valid(LoadedFile.values) /\ ValuesOk(LoadedFile.values)
         /\ RoutesOk(config[1].routes)
<1>1. FileOk(job.lines)
  BY JobsAssumption DEF JobInv
<1>2. config = <<From(LoadedFile.values)>> /\ LoadedFile.ok /\ Valid(LoadedFile.values)
  BY DEF ConfigInv
<1>3. ValuesOk(LoadedFile.values)
  BY <1>1, <1>2, ValuesAre DEF LoadedFile
<1>4. config[1] = From(LoadedFile.values)
  BY <1>2
<1>5. RoutesOk(From(LoadedFile.values).routes)
  BY <1>2, <1>3, RoutesAre
<1> QED
  BY <1>1, <1>2, <1>3, <1>4, <1>5

\* An accepted configuration has what the gateway takes for granted: limits, sizes
\* and a port that are not zero, routes with upstreams, and for every setting the
\* last line about it (loadFromString, from).
THEOREM ConfigurationsAreSound == Spec => []ConfigSound
<1>1. Init => JobInv /\ ConfigInv
  BY ConfigInit
<1>2. JobInv /\ ConfigInv /\ [Next]_vars => JobInv' /\ ConfigInv'
  BY ConfigStep
<1>3. ASSUME JobInv, ConfigInv PROVE ConfigSound
  <2> SUFFICES ASSUME config # <<>> PROVE ConfigSound
    BY DEF ConfigSound
  <2> DEFINE values == LoadedFile.values
             c == config[1]
  <2>1. /\ FileOk(job.lines) /\ c = From(values) /\ LoadedFile.ok /\ Valid(values)
        /\ ValuesOk(values)
    BY <1>3, ConfigIs
  <2> HIDE DEF c, values
  <2>2. \A n \in {"listen_port", "workers", "header_limit", "body_limit", "ring_entries",
                  "pending_queue_capacity", "pending_submission_capacity",
                  "registered_buffer_size", "graceful_shutdown_ms"} : c.settings[n] > 0
    BY <2>1, SettingsPositive
  <2>3. \A r \in Range(c.routes) :
          r.upstreams # <<>> /\ r.maxConnections > 0 /\ r.maxIdle <= r.maxConnections
    BY <2>1, RoutesAre
  <2>4. \A s \in Settings :
          Setters(job.lines, <<s.section, s.name>>) # {} =>
            c.settings[s.name] = job.lines[Max(Setters(job.lines, <<s.section, s.name>>))].value.num
    BY <2>1, LastLineCounts DEF values, LoadedFile
  <2> QED
    BY <2>2, <2>3, <2>4 DEF ConfigSound, c
<1> QED
  BY <1>1, <1>2, <1>3, PTL DEF Spec

----------------------------------------------------------------------------
(* Routes *)

\* One choice for each request the decoder has seen, and none before there are any.
PickInv ==
  /\ IsSeq(out) /\ IsSeq(picked)
  /\ Decoder = "request" => Len(picked) = Len(out)
  /\ Decoder # "request" => picked = <<>>
  /\ phase = "load" => out = <<>> /\ picked = <<>> /\ cursors = <<>>
  /\ DOMAIN cursors \subseteq Nat /\ \A n \in DOMAIN cursors : cursors[n] \in Nat

\* The requests that went to an upstream u of the route with a name.
TurnSet(p, name, u) ==
  {i \in DOMAIN p : p[i].status = 200 /\ p[i].route = name /\ p[i].upstream = u}

CursorIn(c, name) == IF name \in DOMAIN c THEN c[name] ELSE 0

\* Those before the cursor have had one turn more than the others.
InTurn(p, c, r) ==
  /\ CursorIn(c, r.name) \in 0..(Len(r.upstreams) - 1)
  /\ \E k \in Nat : \A u \in 0..(Len(r.upstreams) - 1) :
       Cardinality(TurnSet(p, r.name, u)) = IF u < CursorIn(c, r.name) THEN k + 1 ELSE k

TurnInv ==
  config # <<>> => \A r \in Range(config[1].routes) : InTurn(picked, cursors, r)

RouteInv == PickInv /\ TurnInv /\ RoutedByLongestPrefix

\* One more choice is one more turn, for the one that was chosen.
LEMMA TurnSetStep ==
  ASSUME NEW p, IsSeq(p), NEW x, NEW name, NEW u
  PROVE  /\ Cardinality(TurnSet(p, name, u)) \in Nat
         /\ Cardinality(TurnSet(Append(p, x), name, u)) =
              IF x.status = 200 /\ x.route = name /\ x.upstream = u
              THEN Cardinality(TurnSet(p, name, u)) + 1 ELSE Cardinality(TurnSet(p, name, u))
<1> DEFINE n == Len(p)
           q == Append(p, x)
           S == TurnSet(p, name, u)
<1>1. /\ Len(q) = n + 1 /\ DOMAIN p = 1..n /\ n \in Nat /\ DOMAIN q = 1..(n + 1)
      /\ \A i \in 1..n : q[i] = p[i]
      /\ q[n + 1] = x
  BY AppendAny
<1>2. IsFiniteSet(S) /\ n + 1 \notin S /\ Cardinality(S) \in Nat
  <2>1. IsFiniteSet(1..n) /\ S \subseteq 1..n
    BY <1>1, FS_Interval DEF TurnSet
  <2> QED
    BY <1>1, <2>1, FS_Subset, FS_CardinalityType
<1> HIDE DEF n, q
<1>3. TurnSet(q, name, u) =
        IF x.status = 200 /\ x.route = name /\ x.upstream = u THEN S \cup {n + 1} ELSE S
  <2>1. \A i : i \in 1..(n + 1) <=> i \in 1..n \/ i = n + 1
    BY <1>1
  <2> QED
    BY <1>1, <2>1 DEF TurnSet
<1> HIDE DEF S
<1>4. Cardinality(S \cup {n + 1}) = Cardinality(S) + 1
  BY <1>2, FS_AddElement
<1> QED
  BY <1>2, <1>3, <1>4 DEF S, q

\* A turn of the route itself.
LEMMA OwnTurn ==
  ASSUME NEW p, IsSeq(p), NEW c, NEW r, r.name \in Nat, Len(r.upstreams) \in Nat \ {0},
         InTurn(p, c, r), NEW x,
         x = [status |-> 200, route |-> r.name, upstream |-> Selected(r, CursorIn(c, r.name))]
  PROVE  InTurn(Append(p, x), Assigned(c, r.name, Advanced(r, CursorIn(c, r.name))), r)
<1> DEFINE n == Len(r.upstreams)
           a == CursorIn(c, r.name)
           d == Assigned(c, r.name, Advanced(r, a))
           b == CursorIn(d, r.name)
           turns(q, u) == Cardinality(TurnSet(q, r.name, u))
           q == Append(p, x)
<1>1. n \in Nat /\ n > 0 /\ a \in 0..(n - 1)
  BY DEF InTurn
<1>2. PICK k \in Nat : \A u \in 0..(n - 1) : turns(p, u) = IF u < a THEN k + 1 ELSE k
  BY DEF InTurn
<1> HIDE DEF n, a
<1>3. a % n = a
  BY <1>1
<1>4. x.status = 200 /\ x.route = r.name /\ x.upstream = a
  BY <1>3 DEF Selected, n, a
<1>5. b = (a + 1) % n
  <2>1. b = Advanced(r, a)
    BY DEF CursorIn, Assigned
  <2> QED
    BY <1>3, <2>1 DEF Advanced, Selected, n
<1>6. ASSUME NEW u \in 0..(n - 1)
      PROVE  turns(q, u) = IF u <= a THEN k + 1 ELSE k
  <2>1. turns(q, u) = IF u = a THEN turns(p, u) + 1 ELSE turns(p, u)
    BY <1>4, TurnSetStep
  <2>2. turns(p, u) = IF u < a THEN k + 1 ELSE k
    BY <1>2
  <2> HIDE DEF turns
  <2> QED
    BY <1>1, <2>1, <2>2
<1> HIDE DEF b, turns, q
<1>7. CASE a + 1 < n
  <2>1. b = a + 1 /\ b \in 0..(n - 1)
    BY <1>1, <1>5, <1>7
  <2>2. \A u \in 0..(n - 1) : turns(q, u) = IF u < b THEN k + 1 ELSE k
    BY <1>1, <1>6, <2>1
  <2> QED
    BY <2>1, <2>2 DEF InTurn, b, d, a, q, n, turns
<1>8. CASE ~(a + 1 < n)
  <2>1. a + 1 = n /\ b = 0 /\ b \in 0..(n - 1)
    BY <1>1, <1>5, <1>8
  <2>2. \A u \in 0..(n - 1) : turns(q, u) = IF u < b THEN (k + 1) + 1 ELSE k + 1
    BY <1>1, <1>6, <2>1
  <2>3. k + 1 \in Nat
    OBVIOUS
  <2> QED
    BY <2>1, <2>2, <2>3, ZenonT(40) DEF InTurn, b, d, a, q, n, turns
<1> QED
  BY <1>7, <1>8

\* A turn of another route, or a refusal.
LEMMA OtherTurn ==
  ASSUME NEW p, IsSeq(p), NEW c, NEW d, NEW r, InTurn(p, c, r), NEW x,
         x.status = 200 => x.route # r.name,
         CursorIn(d, r.name) = CursorIn(c, r.name)
  PROVE  InTurn(Append(p, x), d, r)
<1>1. \A u : TurnSet(Append(p, x), r.name, u) = TurnSet(p, r.name, u)
  <2>1. /\ DOMAIN p = 1..Len(p) /\ Len(p) \in Nat /\ DOMAIN Append(p, x) = 1..(Len(p) + 1)
        /\ \A i \in 1..Len(p) : Append(p, x)[i] = p[i]
        /\ Append(p, x)[Len(p) + 1] = x
    BY AppendAny
  <2>2. \A i : i \in 1..(Len(p) + 1) <=> i \in 1..Len(p) \/ i = Len(p) + 1
    BY <2>1
  <2> QED
    BY <2>1, <2>2 DEF TurnSet
<1> QED
  BY <1>1 DEF InTurn

LEMMA RouteInit == Init => RouteInv
<1> SUFFICES ASSUME Init PROVE RouteInv
  OBVIOUS
<1>1. out = <<>> /\ picked = <<>> /\ cursors = <<>> /\ config = <<>>
  BY DEF Init
<1>2. IsSeq(<<>>) /\ DOMAIN <<>> = {}
  BY DEF IsSeq
<1> QED
  BY <1>1, <1>2 DEF RouteInv, PickInv, TurnInv, RoutedByLongestPrefix

\* The choice for a request with a result r, added to those before.
RightChoice(routes, r, x) ==
  r.status = "complete" =>
    LET fits == {s \in Range(routes) : IsPrefix(s.prefix, r.head.path)}
    IN IF x.status = 404 THEN fits = {}
       ELSE \E s \in fits : /\ s.name = x.route
                            /\ \A t \in fits : Len(t.prefix) <= Len(s.prefix)

LEMMA ChoiceAdded ==
  ASSUME PickInv, RoutedByLongestPrefix, Decoder = "request", NEW r, NEW x,
         out' = Append(out, r), picked' = Append(picked, x), config' = config,
         RightChoice(config[1].routes, r, x)
  PROVE  RoutedByLongestPrefix'
<1> DEFINE n == Len(out)
<1>1. /\ n \in Nat /\ Len(picked) = n /\ DOMAIN picked = 1..n /\ DOMAIN picked' = 1..(n + 1)
      /\ \A i \in 1..n : picked'[i] = picked[i] /\ out'[i] = out[i]
      /\ picked'[n + 1] = x /\ out'[n + 1] = r
  <2>1. IsSeq(out) /\ IsSeq(picked) /\ Len(picked) = n
    BY DEF PickInv
  <2> QED
    BY <2>1, AppendAny
<1>2. RoutedByLongestPrefix <=>
        \A i \in DOMAIN picked : RightChoice(config[1].routes, out[i], picked[i])
  BY DEF RoutedByLongestPrefix, RightChoice
<1>3. RoutedByLongestPrefix' <=>
        \A i \in DOMAIN picked' : RightChoice(config[1].routes, out'[i], picked'[i])
  BY DEF RoutedByLongestPrefix, RightChoice
<1> HIDE DEF n
<1>4. ASSUME NEW i \in 1..(n + 1) PROVE RightChoice(config[1].routes, out'[i], picked'[i])
  <2>1. i \in 1..n \/ i = n + 1
    BY <1>1
  <2> QED
    BY <1>1, <1>2, <2>1
<1> QED
  BY <1>1, <1>3, <1>4

\* A request that the decoder has taken goes to its route.
LEMMA RoutedStep ==
  ASSUME JobInv, ConfigInv, RouteInv, config # <<>>, NEW r, r.status = "complete",
         Decoder = "request", out' = Append(out, r), Routed(r.head),
         config' = config, job' = job
  PROVE  RouteInv'
<1> DEFINE routes == config[1].routes
           found == Match(routes, r.head.path)
           fits == {s \in Range(routes) : IsPrefix(s.prefix, r.head.path)}
<1>0. RoutesOk(routes)
  BY ConfigIs
<1>1. /\ found = {} => fits = {}
      /\ found # {} => \E s \in fits : /\ found = {s}
                                       /\ \A t \in fits : Len(t.prefix) <= Len(s.prefix)
  BY <1>0, MatchIs
<1>2. PickInv /\ TurnInv /\ RoutedByLongestPrefix /\ Decoder' = "request"
  BY DEF RouteInv, Decoder
<1>3. \A s \in Range(routes) : InTurn(picked, cursors, s)
  BY <1>2 DEF TurnInv
<1>4. IsSeq(out) /\ IsSeq(picked) /\ Len(picked) = Len(out) /\ DOMAIN cursors \subseteq Nat
      /\ \A n \in DOMAIN cursors : cursors[n] \in Nat
  BY <1>2 DEF PickInv
<1>5. \A s \in Range(routes) : s.name \in Nat /\ Len(s.upstreams) \in Nat \ {0}
  BY <1>0 DEF RoutesOk, Range
<1>6. \A s, t \in Range(routes) : s.name = t.name => s = t
  BY <1>0 DEF RoutesOk, Range
<1>7. ASSUME NEW x, picked' = Append(picked, x) PROVE
        IsSeq(out') /\ IsSeq(picked') /\ Len(picked') = Len(out')
  BY <1>4, <1>7, AppendAny
<1>8. CASE found = {}
  <2> DEFINE x == [status |-> 404]
  <2>1. picked' = Append(picked, x) /\ phase' = "closed" /\ cursors' = cursors
    BY <1>8 DEF Routed
  <2>2. RightChoice(routes, r, x)
    BY <1>1, <1>8 DEF RightChoice
  <2>3. RoutedByLongestPrefix'
    BY <1>2, <2>1, <2>2, ChoiceAdded
  <2>4. \A s \in Range(routes) : InTurn(picked', cursors', s)
    BY <1>3, <1>4, <2>1, OtherTurn
  <2>5. TurnInv'
    BY <2>4 DEF TurnInv
  <2>6. PickInv'
    BY <1>2, <1>4, <1>7, <2>1 DEF PickInv
  <2> QED
    BY <2>3, <2>5, <2>6 DEF RouteInv
<1>9. CASE found # {}
  <2>1. PICK s \in fits : found = {s} /\ \A t \in fits : Len(t.prefix) <= Len(s.prefix)
    BY <1>1, <1>9
  <2> DEFINE a == CursorIn(cursors, s.name)
             x == [status |-> 200, route |-> s.name, upstream |-> Selected(s, a)]
             d == Assigned(cursors, s.name, Advanced(s, a))
  <2>2. (CHOOSE t \in found : TRUE) = s
    BY <2>1
  <2>3. picked' = Append(picked, x) /\ cursors' = d /\ phase' = "stream"
    <3>1. CursorOf(s) = a
      BY DEF CursorOf, CursorIn
    <3> QED
      BY <1>9, <2>2, <3>1 DEF Routed
  <2>4. RightChoice(routes, r, x)
    <3>1. x.status = 200 /\ x.route = s.name
      OBVIOUS
    <3>2. ~(x.status = 404)
      BY <3>1
    <3> HIDE DEF x
    <3> QED
      BY <2>1, <3>1, <3>2 DEF RightChoice
  <2>5. RoutedByLongestPrefix'
    BY <1>2, <2>3, <2>4, ChoiceAdded
  <2>6. ASSUME NEW t \in Range(routes) PROVE InTurn(picked', cursors', t)
    <3>1. CASE t = s
      BY <1>3, <1>4, <1>5, <2>3, <3>1, OwnTurn
    <3>2. CASE t # s
      <4>1. t.name # s.name
        BY <1>6, <3>2
      <4>2. x.route = s.name
        OBVIOUS
      <4>3. CursorIn(d, t.name) = CursorIn(cursors, t.name)
        BY <4>1 DEF CursorIn, Assigned
      <4> QED
        BY <1>3, <1>4, <2>3, <4>1, <4>2, <4>3, OtherTurn
    <3> QED
      BY <3>1, <3>2
  <2>7. TurnInv'
    BY <2>6 DEF TurnInv
  <2>8. DOMAIN d \subseteq Nat /\ \A n \in DOMAIN d : d[n] \in Nat
    <3>1. s.name \in Nat /\ Len(s.upstreams) \in Nat \ {0}
      BY <1>5
    <3>2. a \in 0..(Len(s.upstreams) - 1)
      BY <1>3 DEF InTurn
    <3>3. a \in Nat
      BY <3>1, <3>2
    <3>4. Advanced(s, a) \in Nat
      BY <3>1, <3>3 DEF Advanced, Selected
    <3> QED
      BY <1>4, <3>1, <3>4 DEF Assigned
  <2>9. PickInv'
    BY <1>2, <1>4, <1>7, <2>3, <2>8 DEF PickInv
  <2> QED
    BY <2>5, <2>7, <2>9 DEF RouteInv
<1> QED
  BY <1>8, <1>9

LEMMA RouteStep ==
  ASSUME JobInv, ConfigInv, RouteInv, [Next]_vars
  PROVE  RouteInv'
<1>0. job' = job /\ Decoder' = Decoder
  BY DEF Next, vars, input, Load, NeedsMore, Refuses, Completes, ReadSome,
         StreamBuffered, StreamRead, NextMessage, ServiceAnswers, WriteEnds,
         ServiceReadFails, HandleClose, Ended, Decoder
<1>1. ASSUME UNCHANGED <<config, out, cursors, picked>>, phase' = "load" => phase = "load"
      PROVE  RouteInv'
  BY <1>0, <1>1 DEF RouteInv, PickInv, TurnInv, RoutedByLongestPrefix
<1>2. CASE UNCHANGED vars
  BY <1>1, <1>2 DEF vars
<1>3. CASE NeedsMore \/ ReadSome
  BY <1>1, <1>3 DEF NeedsMore, ReadSome
<1>4. CASE StreamBuffered \/ StreamRead \/ NextMessage
  BY <1>1, <1>4 DEF StreamBuffered, StreamRead, NextMessage
<1>5. CASE ServiceReadFails \/ HandleClose \/ Ended
  BY <1>1, <1>5 DEF ServiceReadFails, HandleClose, Ended, vars
<1>6. CASE WriteEnds
  BY <1>1, <1>6 DEF WriteEnds, ServiceResumes
<1>7. CASE Load
  <2>1. out' = <<>> /\ picked' = <<>> /\ cursors' = <<>>
    BY <1>7 DEF Load, RouteInv, PickInv
  <2>2. IsSeq(<<>>) /\ DOMAIN <<>> = {}
    BY DEF IsSeq
  <2>3. PickInv' /\ RoutedByLongestPrefix'
    BY <1>0, <2>1, <2>2 DEF PickInv, RoutedByLongestPrefix
  <2>4. TurnInv'
    <3> SUFFICES ASSUME config' # <<>>, NEW r \in Range(config'[1].routes)
                 PROVE  InTurn(<<>>, <<>>, r)
      BY <2>1 DEF TurnInv
    <3>1. JobInv' /\ ConfigInv'
      BY ConfigStep
    <3>2. RoutesOk(config'[1].routes)
      <4>1. FileOk(job'.lines) /\ config' = <<From(LoadedFile'.values)>> /\ LoadedFile'.ok
            /\ Valid(LoadedFile'.values)
        BY <3>1, JobsAssumption DEF JobInv, ConfigInv
      <4>2. ValuesOk(LoadedFile'.values)
        BY <4>1, ValuesAre DEF LoadedFile
      <4>3. config'[1] = From(LoadedFile'.values)
        BY <4>1
      <4> QED
        BY <4>1, <4>2, <4>3, RoutesAre
    <3>3. Len(r.upstreams) \in Nat \ {0}
      BY <3>2 DEF RoutesOk, Range
    <3>4. CursorIn(<<>>, r.name) = 0
      BY <2>2 DEF CursorIn
    <3>5. \A u : TurnSet(<<>>, r.name, u) = {}
      BY <2>2 DEF TurnSet
    <3>6. Cardinality({}) = 0
      BY FS_EmptySet
    <3>7. 0 \in 0..(Len(r.upstreams) - 1)
      BY <3>3
    <3>8. \A u \in 0..(Len(r.upstreams) - 1) :
            Cardinality(TurnSet(<<>>, r.name, u)) = IF u < 0 THEN 0 + 1 ELSE 0
      <4>1. \A u \in 0..(Len(r.upstreams) - 1) : ~(u < 0)
        BY <3>3
      <4> QED
        BY <3>5, <3>6, <4>1
    <3>9. 0 \in Nat
      OBVIOUS
    <3> QED
      BY <3>4, <3>7, <3>8, <3>9 DEF InTurn
  <2> QED
    BY <2>3, <2>4 DEF RouteInv
<1>8. CASE Refuses
  <2> DEFINE r == Decoded(Readable(buffer))
             x == [status |-> RequestErrorStatus(r.error)]
  <2>1. /\ r.status = "error" /\ out' = Append(out, r) /\ phase' = "closed" /\ config' = config
        /\ cursors' = cursors /\ config # <<>>
        /\ picked' = IF Decoder = "request" THEN Append(picked, x) ELSE picked
    BY <1>8 DEF Refuses, ConfigInv
  <2>2. PickInv /\ TurnInv /\ RoutedByLongestPrefix
    BY DEF RouteInv
  <2> HIDE DEF r
  <2>3. IsSeq(out') /\ Len(out') = Len(out) + 1
    BY <2>1, <2>2, AppendAny DEF PickInv
  <2>4. CASE Decoder = "request"
    <3>1. picked' = Append(picked, x) /\ IsSeq(picked)
      BY <2>1, <2>2, <2>4 DEF PickInv
    <3>2. IsSeq(picked') /\ Len(picked') = Len(picked) + 1
      BY <3>1, AppendAny
    <3>3. PickInv'
      BY <1>0, <2>1, <2>2, <2>3, <2>4, <3>2 DEF PickInv
    <3>4. RightChoice(config[1].routes, r, x)
      BY <2>1 DEF RightChoice
    <3>5. RoutedByLongestPrefix'
      BY <2>1, <2>2, <2>4, <3>1, <3>4, ChoiceAdded
    <3>6. x.status # 200
      BY DEF RequestErrorStatus
    <3>7. \A s \in Range(config[1].routes) : InTurn(picked', cursors', s)
      <4>1. \A s \in Range(config[1].routes) : InTurn(picked, cursors, s)
        BY <2>1, <2>2 DEF TurnInv
      <4> HIDE DEF x
      <4> QED
        BY <2>1, <3>1, <3>6, <4>1, OtherTurn
    <3>8. TurnInv'
      BY <2>1, <3>7 DEF TurnInv
    <3> QED
      BY <3>3, <3>5, <3>8 DEF RouteInv
  <2>5. CASE Decoder # "request"
    <3>1. picked' = <<>> /\ picked = <<>> /\ DOMAIN picked' = {}
      BY <2>1, <2>2, <2>5 DEF PickInv
    <3>2. PickInv'
      BY <1>0, <2>1, <2>2, <2>3, <2>5, <3>1 DEF PickInv
    <3>3. TurnInv' /\ RoutedByLongestPrefix'
      BY <2>1, <2>2, <3>1 DEF TurnInv, RoutedByLongestPrefix
    <3> QED
      BY <3>2, <3>3 DEF RouteInv
  <2> QED
    BY <2>4, <2>5
<1>9. CASE Completes /\ Decoder = "request"
  <2> DEFINE r == Decoded(Readable(buffer))
  <2>1. r.status = "complete" /\ out' = Append(out, r) /\ Routed(r.head) /\ config' = config
        /\ config # <<>>
    BY <1>9 DEF Completes, ConfigInv
  <2> QED
    BY <1>0, <1>9, <2>1, RoutedStep
<1>10. CASE (Completes \/ ServiceAnswers) /\ Decoder # "request"
  <2>1. \E r : out' = Append(out, r)
    BY <1>10 DEF Completes, ServiceAnswers
  <2>2. config' = config /\ cursors' = cursors /\ picked' = picked /\ phase' # "load"
        /\ config # <<>>
    BY <1>10 DEF Completes, ServiceAnswers, ConfigInv
  <2>3. PickInv /\ TurnInv /\ RoutedByLongestPrefix
    BY DEF RouteInv
  <2>4. IsSeq(out')
    BY <2>1, <2>3, AppendAny DEF PickInv
  <2>5. picked' = <<>> /\ picked = <<>> /\ DOMAIN picked' = {}
    BY <1>10, <2>2, <2>3 DEF PickInv
  <2>6. PickInv'
    BY <1>0, <1>10, <2>2, <2>3, <2>4, <2>5 DEF PickInv
  <2>7. TurnInv' /\ RoutedByLongestPrefix'
    BY <2>2, <2>3, <2>5 DEF TurnInv, RoutedByLongestPrefix
  <2> QED
    BY <2>6, <2>7 DEF RouteInv
<1>11. ServiceAnswers => Decoder # "request"
  BY DEF ServiceAnswers
<1> QED
  BY <1>2, <1>3, <1>4, <1>5, <1>6, <1>7, <1>8, <1>9, <1>10, <1>11 DEF Next

\* Upstreams that are in turn have had their turns evenly.
LEMMA EvenTurns ==
  ASSUME NEW p, NEW c, NEW r, InTurn(p, c, r), Len(r.upstreams) \in Nat,
         NEW u \in 0..(Len(r.upstreams) - 1), NEW v \in 0..(Len(r.upstreams) - 1)
  PROVE  Cardinality(TurnSet(p, r.name, u)) - Cardinality(TurnSet(p, r.name, v)) \in -1..1
<1> DEFINE a == CursorIn(c, r.name)
           x == Cardinality(TurnSet(p, r.name, u))
           y == Cardinality(TurnSet(p, r.name, v))
<1>1. PICK k \in Nat : /\ x = IF u < a THEN k + 1 ELSE k
                       /\ y = IF v < a THEN k + 1 ELSE k
  BY DEF InTurn
<1> HIDE DEF x, y, a
<1>2. x \in {k, k + 1} /\ y \in {k, k + 1}
  BY <1>1
<1>3. x - y \in -1..1
  BY <1>2
<1> QED
  BY <1>3 DEF x, y

\* A request goes to the longest prefix that matches, and the upstreams of a route
\* take turns, for any routes and any paths (RouteTable, RoundRobinBalancer).
THEOREM RequestsAreWellRouted == Spec => []WellRouted
<1> DEFINE Inv == JobInv /\ ConfigInv /\ RouteInv
<1>1. Init => Inv
  BY ConfigInit, RouteInit
<1>2. Inv /\ [Next]_vars => Inv'
  BY ConfigStep, RouteStep
<1>3. ASSUME Inv PROVE WellRouted
  <2>1. RoutedByLongestPrefix
    BY <1>3 DEF RouteInv
  <2>2. ASSUME config # <<>>, NEW r \in Range(config[1].routes),
               NEW u \in 0..Len(r.upstreams) - 1, NEW v \in 0..Len(r.upstreams) - 1
        PROVE  Cardinality(TurnSet(picked, r.name, u)) - Cardinality(TurnSet(picked, r.name, v))
                 \in -1..1
    <3>1. InTurn(picked, cursors, r)
      BY <1>3, <2>2 DEF RouteInv, TurnInv
    <3>2. Len(r.upstreams) \in Nat
      BY <1>3, <2>2, ConfigIs DEF RoutesOk, Range
    <3> QED
      BY <3>1, <3>2, EvenTurns
  <2>3. SpreadEvenly
    BY <2>2 DEF SpreadEvenly, TurnSet
  <2> QED
    BY <2>1, <2>3 DEF WellRouted
<1> QED
  BY <1>1, <1>2, <1>3, PTL DEF Spec

----------------------------------------------------------------------------
(* The bytes on their way in *)

Cells == ByteSet(job) \cup {Unset}

LEMMA JobIs ==
  ASSUME JobInv
  PROVE  /\ JobOk(job) /\ StreamIs(job, stream) /\ job.decoder \in Decoders
         /\ \A n \in job.pieces \cup job.chunks : n \in Nat /\ n > 0
         /\ stream \in Seq(Cells) /\ Len(stream) \in Nat
<1>1. JobOk(job) /\ \A n \in job.pieces \cup job.chunks : n \in Nat /\ n > 0
  BY JobsAssumption DEF JobInv, JobOk, Decoders
<1>2. StreamIs(job, stream)
  BY <1>1, SentIs DEF JobInv
<1>3. stream \in Seq(ByteSet(job)) /\ Len(stream) \in Nat
  BY <1>2 DEF StreamIs
<1>4. stream \in Seq(Cells)
  <2>1. ByteSet(job) \subseteq Cells
    BY DEF Cells
  <2> HIDE DEF Cells
  <2> QED
    BY <1>3, <2>1
<1> QED
  BY <1>1, <1>2, <1>3, <1>4 DEF JobOk

\* The buffer holds what has come and has not been used up, between indices that
\* are in order.
Window ==
  /\ taken \in Nat /\ received \in Nat /\ taken <= received /\ received <= Len(stream)
  /\ BufferOk(buffer, Cells) /\ BufferHolds

\* What is in the buffer are bytes of the stream.
LEMMA WindowIs ==
  ASSUME JobInv, Window
  PROVE  /\ Readable(buffer) \in Seq(ByteSet(job)) /\ Readable(buffer) \in Seq(Cells)
         /\ Len(Readable(buffer)) = received - taken
         /\ Len(Readable(buffer)) \in Nat
<1>1. stream \in Seq(ByteSet(job)) /\ stream \in Seq(Cells)
  BY JobIs DEF StreamIs
<1>2. /\ taken \in Nat /\ received \in Nat /\ taken <= received /\ received <= Len(stream)
      /\ Readable(buffer) = SubSeq(stream, taken + 1, received)
  BY DEF Window, BufferHolds
<1> HIDE DEF Cells
<1>3. Readable(buffer) \in Seq(ByteSet(job)) /\ Len(Readable(buffer)) = received - taken
  BY <1>1, <1>2, Part
<1>4. Readable(buffer) \in Seq(Cells)
  BY <1>1, <1>2, Part
<1> QED
  BY <1>2, <1>3, <1>4

\* A read puts what comes next behind it.
LEMMA WindowGrows ==
  ASSUME JobInv, Window, NEW n \in Nat, received + n <= Len(stream),
         buffer' = AppendBytes(buffer, SubSeq(stream, received + 1, received + n)),
         received' = received + n, UNCHANGED <<job, stream, taken>>
  PROVE  Window'
<1> DEFINE piece == SubSeq(stream, received + 1, received + n)
<1>1. stream \in Seq(Cells) /\ Len(stream) \in Nat /\ Unset \in Cells /\ Cells' = Cells
  BY JobIs DEF Cells
<1>2. /\ taken \in Nat /\ received \in Nat /\ taken <= received /\ received <= Len(stream)
      /\ BufferOk(buffer, Cells) /\ Readable(buffer) = SubSeq(stream, taken + 1, received)
  BY DEF Window, BufferHolds
<1> HIDE DEF Cells
<1> DEFINE e == received + n
<1>3. e \in Nat /\ received <= e /\ e <= Len(stream) /\ taken <= e
  BY <1>1, <1>2
<1>4. piece \in Seq(Cells)
  <2> HIDE DEF e
  <2>1. SubSeq(stream, received + 1, e) \in Seq(Cells)
    BY <1>1, <1>2, <1>3, Part
  <2> QED
    BY <2>1 DEF e
<1>5. BufferOk(buffer', Cells) /\ Readable(buffer') = Readable(buffer) \o piece
  <2> HIDE DEF piece
  <2> QED
    BY <1>1, <1>2, <1>4, AppendIs DEF piece
<1>6. Readable(buffer) \o piece = SubSeq(stream, taken + 1, e)
  <2> HIDE DEF e
  <2>1. SubSeq(stream, taken + 1, received) \o SubSeq(stream, received + 1, e)
          = SubSeq(stream, taken + 1, e)
    BY <1>1, <1>2, <1>3, Joined
  <2> QED
    BY <1>2, <2>1 DEF e
<1> QED
  BY <1>1, <1>2, <1>3, <1>5, <1>6 DEF Window, BufferHolds

\* What is used up leaves it at the front.
LEMMA WindowShrinks ==
  ASSUME JobInv, Window, NEW n \in Nat, n <= Len(Readable(buffer)),
         buffer' = Retrieve(buffer, n), taken' = taken + n, UNCHANGED <<job, stream, received>>
  PROVE  Window'
<1>1. stream \in Seq(Cells) /\ Len(stream) \in Nat /\ Cells' = Cells
  BY JobIs DEF Cells
<1>2. /\ taken \in Nat /\ received \in Nat /\ taken <= received /\ received <= Len(stream)
      /\ BufferOk(buffer, Cells) /\ Readable(buffer) = SubSeq(stream, taken + 1, received)
  BY DEF Window, BufferHolds
<1>3. Len(Readable(buffer)) = received - taken
  BY WindowIs
<1> HIDE DEF Cells
<1>4. n <= received - taken
  BY <1>3
<1>5. BufferOk(buffer', Cells)
      /\ Readable(buffer') = SubSeq(Readable(buffer), n + 1, Len(Readable(buffer)))
  BY <1>2, RetrieveIs
<1>6. SubSeq(SubSeq(stream, taken + 1, received), n + 1, received - taken)
        = SubSeq(stream, taken + n + 1, received)
  BY <1>1, <1>2, <1>4, PartOfPart
<1>7. Readable(buffer') = SubSeq(stream, taken' + 1, received')
  <2>1. Readable(buffer') = SubSeq(SubSeq(stream, taken + 1, received), n + 1, received - taken)
    BY <1>2, <1>3, <1>5
  <2> QED
    BY <1>6, <2>1
<1>8. taken' \in Nat /\ taken' <= received'
  BY <1>2, <1>4
<1> QED
  BY <1>1, <1>2, <1>5, <1>7, <1>8 DEF Window, BufferHolds

\* What is passed on past an empty buffer is used up as it comes.
LEMMA WindowPasses ==
  ASSUME JobInv, Window, Readable(buffer) = <<>>, NEW n \in Nat, received + n <= Len(stream),
         received' = received + n, taken' = taken + n, UNCHANGED <<job, stream, buffer>>
  PROVE  Window'
<1>1. stream \in Seq(Cells) /\ Len(stream) \in Nat /\ Cells' = Cells
  BY JobIs DEF Cells
<1>2. /\ taken \in Nat /\ received \in Nat /\ taken <= received /\ received <= Len(stream)
      /\ BufferOk(buffer, Cells)
  BY DEF Window, BufferHolds
<1>3. Len(Readable(buffer)) = received - taken
  BY WindowIs
<1>4. received = taken
  <2>1. Len(<<>>) = 0
    OBVIOUS
  <2> QED
    BY <1>2, <1>3, <2>1
<1>5. taken' = received' /\ taken' \in Nat /\ taken' <= Len(stream)
  BY <1>1, <1>2, <1>4
<1> HIDE DEF Cells
<1> DEFINE a == taken'
<1>6. SubSeq(stream, a + 1, a) \in Seq(Cells) /\ Len(SubSeq(stream, a + 1, a)) = a - a
  <2> HIDE DEF a
  <2>1. a \in Nat /\ a <= Len(stream)
    BY <1>5 DEF a
  <2> QED
    BY <1>1, <2>1, Part
<1>7. SubSeq(stream, a + 1, a) = <<>>
  <2> DEFINE q == SubSeq(stream, a + 1, a)
  <2>1. a - a = 0
    BY <1>5
  <2> HIDE DEF q, a
  <2>2. q \in Seq(Cells) /\ Len(q) = 0
    BY <1>6, <2>1 DEF q
  <2> QED
    BY <2>2, EmptySeq DEF q
<1>8. Readable(buffer') = SubSeq(stream, taken' + 1, received')
  BY <1>5, <1>7
<1> QED
  BY <1>1, <1>2, <1>5, <1>8 DEF Window, BufferHolds

\* What a read of at most limit bytes brings.
LEMMA PieceIs ==
  ASSUME JobInv, Window, received < Len(stream), NEW limit \in Nat, NEW n \in Pieces(limit)
  PROVE  n \in Nat /\ n <= limit /\ received + n <= Len(stream) /\ (limit > 0 => n > 0)
<1>1. PICK p \in job.pieces : n = Min({p, limit, Len(stream) - received})
  BY DEF Pieces
<1>2. p \in Nat /\ p > 0 /\ Len(stream) \in Nat /\ received \in Nat
  BY JobIs DEF Window
<1> DEFINE rest == Len(stream) - received
<1>3. rest \in Nat /\ rest > 0
  BY <1>2
<1>4. {p, limit, rest} \in SUBSET Nat /\ {p, limit, rest} # {}
  BY <1>2, <1>3
<1>5. n \in {p, limit, rest} /\ \A x \in {p, limit, rest} : n <= x
  <2> HIDE DEF rest
  <2> DEFINE T == {p, limit, rest}
  <2>1. n = Min(T) /\ T \in SUBSET Nat /\ T # {}
    BY <1>1, <1>4 DEF rest
  <2>2. limit \in T /\ rest \in T
    OBVIOUS
  <2> HIDE DEF T
  <2>3. n \in T /\ \A x \in T : n <= x
    BY <2>1, MinIs
  <2> QED
    BY <2>3 DEF T
<1>6. n \in Nat /\ n <= limit /\ n <= rest /\ (limit > 0 => n > 0)
  BY <1>2, <1>3, <1>5
<1> QED
  BY <1>2, <1>6

Phases == {"load", "parse", "read", "stream", "send", "stuck", "gone", "closed"}

\* The reader of an RPC stream is between two messages; a service that waits for its
\* write has the request still in its buffer; a framer reads on below its limit only.
ByteInv ==
  /\ Window /\ body \in Nat /\ phase \in Phases
  /\ ~Framer => body = 0
  /\ \A i \in DOMAIN out : out[i].status \in {"complete", "error"}
  /\ phase = "load" => out = <<>> /\ taken = 0
  /\ phase = "send" => /\ Decoder = "service" /\ Len(out) \in Nat \ {0}
                       /\ out[Len(out)].used \in Nat
                       /\ out[Len(out)].used <= Len(Readable(buffer))
  /\ phase = "read" /\ Framer => Len(Readable(buffer)) < Limits.header
  /\ Decoder = "rpc" /\ phase \in {"load", "parse", "read", "stream"} =>
       Len(out) \in 0..Count(job) /\ taken = Off(job, Len(out))

\* What a decoder finds in the buffer.
LEMMA DecodedIs ==
  ASSUME JobInv, ByteInv, phase = "parse"
  PROVE  LET r == Decoded(Readable(buffer)) IN
         /\ ResultOk(r, Readable(buffer), Framer)
         /\ Framer /\ r.status = "needMore" => Len(Readable(buffer)) < Limits.header
         /\ Decoder = "service" =>
              r.status # "error" /\ (r.status = "complete" => r.head.keepAlive \in BOOLEAN)
         /\ Decoder = "rpc" /\ r.status = "complete" =>
              Len(out) + 1 \in 0..Count(job) /\ taken + r.used = Off(job, Len(out) + 1)
<1> DEFINE bytes == Readable(buffer)
           r == Decoded(bytes)
           U == ByteSet(job)
<1>1. bytes \in Seq(U)
  BY WindowIs DEF ByteInv
<1>2. StreamIs(job, stream) /\ JobOk(job) /\ Decoder \in Decoders /\ stream = Sent(job)
  BY JobIs DEF Decoder, JobInv
<1>3. Decoder # "rpc" => \A b \in U : HeaderOk(b)
  BY <1>2 DEF StreamIs, Decoder
<1> HIDE DEF U, bytes
<1>4. CASE Decoder = "request"
  <2>1. r = ParseRequestHead(bytes, Limits) /\ Framer
    BY <1>4 DEF Decoded, Framer
  <2>2. ResultOk(r, bytes, TRUE) /\ (r.status = "needMore" => Len(bytes) < Limits.header)
    BY <1>1, <1>3, <1>4, <2>1, RequestHeadIs
  <2> QED
    BY <1>4, <2>1, <2>2 DEF bytes
<1>5. CASE Decoder = "response"
  <2>1. r = ParseResponseHead(bytes, Limits) /\ Framer
    BY <1>5 DEF Decoded, Framer
  <2>2. ResultOk(r, bytes, TRUE) /\ (r.status = "needMore" => Len(bytes) < Limits.header)
    BY <1>1, <1>3, <1>5, <2>1, ResponseHeadIs
  <2> QED
    BY <1>5, <2>1, <2>2 DEF bytes
<1>6. CASE Decoder = "http"
  <2>1. r = HttpDecode(bytes) /\ Framer = FALSE
    BY <1>6 DEF Decoded, Framer
  <2>2. ResultOk(r, bytes, FALSE)
    BY <1>1, <1>3, <1>6, <2>1, HttpDecodeIs
  <2> QED
    BY <1>6, <2>1, <2>2 DEF bytes
<1>7. CASE Decoder = "service"
  <2>1. r = ServiceParse(bytes) /\ Framer = FALSE
    BY <1>7 DEF Decoded, Framer
  <2>2. ResultOk(r, bytes, FALSE) /\ r.status # "error"
        /\ (r.status = "complete" => r.head.keepAlive \in BOOLEAN)
    BY <1>1, <1>3, <1>7, <2>1, ServiceParseIs
  <2> QED
    BY <1>7, <2>1, <2>2 DEF bytes
<1>8. CASE Decoder = "rpc"
  <2> DEFINE k == Len(out)
  <2>1. r = RpcDecode(bytes) /\ Framer = FALSE
    BY <1>8 DEF Decoded, Framer
  <2>2. k \in 0..Count(job) /\ taken = Off(job, k) /\ job.decoder = "rpc"
    BY <1>8 DEF ByteInv, Decoder
  <2>3. received \in Off(job, k)..Len(stream) /\ bytes = SubSeq(stream, Off(job, k) + 1, received)
    <3>1. /\ taken \in Nat /\ received \in Nat /\ taken <= received /\ received <= Len(stream)
          /\ bytes = SubSeq(stream, taken + 1, received) /\ Len(stream) \in Nat
      BY JobIs DEF ByteInv, Window, BufferHolds, bytes
    <3> QED
      BY <2>2, <3>1
  <2> HIDE DEF k, bytes
  <2>4. /\ ResultOk(r, bytes, FALSE)
        /\ r.status = "complete" => k < Count(job) /\ r.used = Len(MessageOf(job, k + 1))
    <3> DEFINE b == SubSeq(stream, Off(job, k) + 1, received)
    <3>1. /\ ResultOk(RpcDecode(b), b, FALSE)
          /\ RpcDecode(b).status = "complete" =>
               k < Count(job) /\ RpcDecode(b).used = Len(MessageOf(job, k + 1))
      BY <1>2, <2>2, <2>3, RpcDecodeIs, Zenon
    <3> HIDE DEF b
    <3> QED
      BY <2>1, <2>3, <3>1 DEF b
  <2>5. ASSUME k < Count(job) PROVE k + 1 \in 0..Count(job)
          /\ Off(job, k + 1) = Off(job, k) + Len(MessageOf(job, k + 1))
    <3>1. k + 1 \in 1..Count(job) /\ (k + 1) - 1 = k /\ Count(job) \in Nat
      BY <1>2, <2>2, <2>5 DEF StreamIs
    <3>2. Off(job, k + 1) = Off(job, (k + 1) - 1) + Len(MessageOf(job, k + 1))
      BY <1>2, <3>1 DEF StreamIs
    <3> QED
      BY <3>1, <3>2
  <2>6. r.status = "complete" => k + 1 \in 0..Count(job) /\ taken + r.used = Off(job, k + 1)
    BY <2>2, <2>4, <2>5
  <2> HIDE DEF r
  <2> QED
    BY <1>8, <2>1, <2>4, <2>6 DEF bytes, k, r
<1> QED
  BY <1>2, <1>4, <1>5, <1>6, <1>7, <1>8 DEF Decoders

LEMMA ByteInit ==
  ASSUME Init
  PROVE  ByteInv
<1>1. JobInv
  BY ConfigInit
<1>2. /\ received = 0 /\ taken = 0 /\ buffer = NewBuffer /\ body = 0 /\ out = <<>>
      /\ phase = "load"
  BY DEF Init
<1>3. BufferOk(buffer, Cells) /\ Readable(buffer) = <<>>
  <2>1. Unset \in Cells
    BY DEF Cells
  <2> HIDE DEF Cells
  <2> QED
    BY <1>2, <2>1, NewBufferIs
<1>4. stream \in Seq(Cells) /\ Len(stream) \in Nat /\ StreamIs(job, stream)
  BY <1>1, JobIs
<1>5. SubSeq(stream, taken + 1, received) = <<>>
  <2> HIDE DEF Cells
  <2>1. SubSeq(stream, taken + 1, received) \in Seq(Cells)
        /\ Len(SubSeq(stream, taken + 1, received)) = 0 - 0
    BY <1>2, <1>4, Part
  <2> DEFINE q == SubSeq(stream, taken + 1, received)
  <2> HIDE DEF q
  <2> QED
    BY <2>1, EmptySeq DEF q
<1>6. Window
  BY <1>2, <1>3, <1>4, <1>5 DEF Window, BufferHolds
<1>7. Len(out) = 0 /\ DOMAIN out = {}
  BY <1>2
<1>8. Len(out) \in 0..Count(job) /\ taken = Off(job, Len(out))
  BY <1>2, <1>4, <1>7 DEF StreamIs
<1> QED
  BY <1>2, <1>6, <1>7, <1>8 DEF ByteInv, Phases

\* A result that the decoder has given is one of two kinds.
LEMMA StatusAdded ==
  ASSUME IsSeq(out), \A i \in DOMAIN out : out[i].status \in {"complete", "error"},
         NEW r, r.status \in {"complete", "error"}, out' = Append(out, r)
  PROVE  /\ \A i \in DOMAIN out' : out'[i].status \in {"complete", "error"}
         /\ Len(out') = Len(out) + 1 /\ Len(out) \in Nat /\ out'[Len(out')] = r
<1>1. /\ Len(out') = Len(out) + 1 /\ DOMAIN out = 1..Len(out) /\ Len(out) \in Nat
      /\ DOMAIN out' = 1..(Len(out) + 1) /\ out'[Len(out) + 1] = r
      /\ \A i \in 1..Len(out) : out'[i] = out[i]
  BY AppendAny
<1>2. \A i \in 1..(Len(out) + 1) : i \in 1..Len(out) \/ i = Len(out) + 1
  BY <1>1
<1> QED
  BY <1>1, <1>2

\* A service that goes on takes the request it has answered off its buffer.
LEMMA ServiceByteStep ==
  ASSUME JobInv, PickInv, ByteInv, phase = "send", NEW o, NEW n, ServiceResumes(o, n),
         UNCHANGED <<job, stream, received, out, body, config>>
  PROVE  ByteInv'
<1>1. /\ Decoder = "service" /\ Decoder' = "service" /\ out[Len(out)].used \in Nat
      /\ out[Len(out)].used <= Len(Readable(buffer)) /\ Window
  BY DEF ByteInv, Decoder
<1>2. phase' \in {"gone", "parse", "closed"}
  BY DEF ServiceResumes
<1>3. Window'
  <2>1. CASE n < 0
    BY <1>1, <2>1 DEF ServiceResumes, Window, BufferHolds, Cells
  <2>2. CASE ~(n < 0)
    BY <1>1, <2>2, WindowShrinks DEF ServiceResumes
  <2> QED
    BY <2>1, <2>2
<1> QED
  BY <1>1, <1>2, <1>3 DEF ByteInv, Phases, Framer

LEMMA ByteStep ==
  ASSUME JobInv, ConfigInv, PickInv, ByteInv, [Next]_vars
  PROVE  ByteInv'
<1>1. job' = job /\ stream' = stream /\ Decoder' = Decoder /\ Framer' = Framer
  BY DEF Next, vars, input, Load, NeedsMore, Refuses, Completes, ReadSome,
         StreamBuffered, StreamRead, NextMessage, ServiceAnswers, WriteEnds,
         ServiceReadFails, HandleClose, Ended, Decoder, Framer
<1>2. UNCHANGED <<buffer, taken, received>> => Window'
  BY <1>1 DEF ByteInv, Window, BufferHolds, Cells
<1>3. Window /\ IsSeq(out) /\ Len(Readable(buffer)) \in Nat
  BY WindowIs DEF ByteInv, PickInv
<1>4. ASSUME UNCHANGED <<buffer, taken, received, body, out, config>>,
             phase' \in Phases \ {"load", "read"}, phase' = "send" => phase = "send",
             phase' \in {"parse", "stream"} => phase \in {"load", "parse", "read", "stream"}
      PROVE  ByteInv'
  BY <1>1, <1>2, <1>4 DEF ByteInv, Phases
<1>5. CASE UNCHANGED vars
  BY <1>1, <1>2, <1>5 DEF vars, ByteInv, Limits
<1>6. CASE Load
  <2>1. UNCHANGED <<buffer, taken, received, body, out>> /\ phase = "load"
        /\ phase' \in {"parse", "closed"}
    BY <1>6 DEF Load
  <2> QED
    BY <1>1, <1>2, <2>1 DEF ByteInv, Phases
<1>7. CASE NeedsMore
  <2> DEFINE r == Decoded(Readable(buffer))
  <2>1. /\ UNCHANGED <<buffer, taken, received, body, out, config>> /\ phase = "parse"
        /\ phase' \in {"read", "stuck"} /\ r.status = "needMore"
    BY <1>7 DEF NeedsMore
  <2>2. Framer => Len(Readable(buffer)) < Limits.header
    BY <2>1, DecodedIs
  <2> QED
    BY <1>1, <1>2, <2>1, <2>2 DEF ByteInv, Phases, Limits
<1>8. CASE Refuses
  <2> DEFINE r == Decoded(Readable(buffer))
  <2>1. /\ UNCHANGED <<buffer, taken, received, body>>
        /\ phase' = "closed" /\ r.status = "error" /\ out' = Append(out, r)
    BY <1>8 DEF Refuses
  <2> HIDE DEF r
  <2>2. \A i \in DOMAIN out' : out'[i].status \in {"complete", "error"}
    <3>1. \A i \in DOMAIN out : out[i].status \in {"complete", "error"}
      BY DEF ByteInv
    <3> QED
      BY <1>3, <2>1, <3>1, StatusAdded
  <2> QED
    BY <1>1, <1>2, <2>1, <2>2 DEF ByteInv, Phases
<1>9. CASE Completes
  <2> DEFINE r == Decoded(Readable(buffer))
  <2>1. /\ phase = "parse" /\ r.status = "complete" /\ out' = Append(out, r)
        /\ buffer' = Retrieve(buffer, r.used) /\ taken' = taken + r.used
        /\ body' = (IF Framer THEN r.head.length ELSE 0)
        /\ received' = received /\ phase' \in {"closed", "stream"}
    BY <1>9 DEF Completes, Routed
  <2>2. /\ r.used \in Nat /\ r.used <= Len(Readable(buffer)) /\ (Framer => r.head.length \in Nat)
        /\ Decoder = "rpc" =>
             Len(out) + 1 \in 0..Count(job) /\ taken + r.used = Off(job, Len(out) + 1)
    BY <2>1, DecodedIs DEF ResultOk
  <2> HIDE DEF r
  <2>3. /\ \A i \in DOMAIN out' : out'[i].status \in {"complete", "error"}
        /\ Len(out') = Len(out) + 1
    <3>1. \A i \in DOMAIN out : out[i].status \in {"complete", "error"}
      BY DEF ByteInv
    <3> QED
      BY <1>3, <2>1, <3>1, StatusAdded
  <2>4. Window'
    BY <1>1, <1>3, <2>1, <2>2, WindowShrinks
  <2>5. body' \in Nat /\ (~Framer => body' = 0)
    BY <2>1, <2>2
  <2>6. Decoder = "rpc" => Len(out') \in 0..Count(job) /\ taken' = Off(job, Len(out'))
    BY <2>1, <2>2, <2>3
  <2> QED
    BY <1>1, <2>1, <2>3, <2>4, <2>5, <2>6 DEF ByteInv, Phases
<1>10. CASE ReadSome
  <2> DEFINE limit == IF Framer THEN Limits.header - Len(Readable(buffer)) ELSE Len(stream)
  <2>1. PICK n \in Pieces(limit) :
          /\ buffer' = AppendBytes(buffer, SubSeq(stream, received + 1, received + n))
          /\ received' = received + n
    BY <1>10 DEF ReadSome
  <2>2. phase = "read" /\ received < Len(stream) /\ phase' = "parse"
        /\ UNCHANGED <<taken, body, out>>
    BY <1>10 DEF ReadSome
  <2>3. Framer => Limits.header \in Nat
    <3>1. config # <<>>
      BY <2>2 DEF ConfigInv
    <3>2. ValuesOk(LoadedFile.values) /\ Valid(LoadedFile.values)
          /\ config[1] = From(LoadedFile.values)
      BY <3>1, ConfigIs
    <3>3. From(LoadedFile.values).settings["header_limit"] \in Nat
      BY <3>2, SettingsPositive
    <3> QED
      BY <3>2, <3>3 DEF Limits
  <2>4. limit \in Nat
    <3>1. Len(stream) \in Nat
      BY JobIs
    <3>2. Framer => Len(Readable(buffer)) < Limits.header
      BY <2>2 DEF ByteInv
    <3> QED
      BY <1>3, <2>3, <3>1, <3>2
  <2> HIDE DEF limit
  <2>5. n \in Nat /\ received + n <= Len(stream)
    BY <1>3, <2>2, <2>4, PieceIs
  <2>6. Window'
    BY <1>1, <1>3, <2>1, <2>2, <2>5, WindowGrows
  <2> QED
    BY <1>1, <2>2, <2>6 DEF ByteInv, Phases
<1>11. CASE StreamBuffered
  <2> DEFINE n == FromBuffer(body)
  <2>1. /\ phase = "stream" /\ phase' = "stream" /\ body > 0
        /\ buffer' = Retrieve(buffer, n) /\ taken' = taken + n
        /\ body' = (IF n < body THEN body - n ELSE 0)
        /\ UNCHANGED <<received, out>>
    BY <1>11 DEF StreamBuffered
  <2>2. body \in Nat /\ (~Framer => body = 0)
    BY DEF ByteInv
  <2>3. n \in Nat /\ n <= Len(Readable(buffer)) /\ Framer
    BY <1>3, <2>1, <2>2 DEF FromBuffer
  <2> HIDE DEF n
  <2>4. body' \in Nat
    BY <2>1, <2>2, <2>3
  <2>5. Window'
    BY <1>1, <1>3, <2>1, <2>3, WindowShrinks
  <2>6. Decoder # "rpc"
    BY <2>3 DEF Framer
  <2> QED
    BY <1>1, <2>1, <2>3, <2>4, <2>5, <2>6 DEF ByteInv, Phases
<1>12. CASE StreamRead
  <2>1. PICK n \in Pieces(body) :
          received' = received + n /\ taken' = taken + n /\ body' = body - n
    BY <1>12 DEF StreamRead
  <2>2. /\ phase = "stream" /\ phase' = "stream" /\ body > 0 /\ Readable(buffer) = <<>>
        /\ received < Len(stream) /\ UNCHANGED <<buffer, out>>
    BY <1>12 DEF StreamRead
  <2>3. body \in Nat /\ (~Framer => body = 0)
    BY DEF ByteInv
  <2>4. n \in Nat /\ n <= body /\ received + n <= Len(stream)
    BY <1>3, <2>2, <2>3, PieceIs
  <2>5. Window'
    BY <1>1, <1>3, <2>1, <2>2, <2>4, WindowPasses
  <2>6. body' \in Nat /\ Framer /\ Decoder # "rpc"
    BY <2>1, <2>2, <2>3, <2>4 DEF Framer
  <2> QED
    BY <1>1, <2>2, <2>5, <2>6 DEF ByteInv, Phases
<1>13. CASE NextMessage
  <2>1. UNCHANGED <<buffer, taken, received, body, out, config>> /\ phase = "stream"
        /\ phase' \in {"closed", "parse"}
    BY <1>13 DEF NextMessage
  <2> QED
    BY <1>4, <2>1 DEF Phases
<1>14. CASE ServiceAnswers
  <2> DEFINE r == Decoded(Readable(buffer))
  <2>1. /\ phase = "parse" /\ r.status = "complete" /\ out' = Append(out, r)
        /\ UNCHANGED <<buffer, taken, received, body>> /\ Decoder = "service"
        /\ phase' = "send"
    BY <1>14 DEF ServiceAnswers
  <2>2. r.used \in Nat /\ r.used <= Len(Readable(buffer))
    BY <2>1, DecodedIs DEF ResultOk
  <2> HIDE DEF r
  <2>3. /\ \A i \in DOMAIN out' : out'[i].status \in {"complete", "error"}
        /\ Len(out') \in Nat \ {0} /\ out'[Len(out')] = r
    <3>1. \A i \in DOMAIN out : out[i].status \in {"complete", "error"}
      BY DEF ByteInv
    <3>2. /\ \A i \in DOMAIN out' : out'[i].status \in {"complete", "error"}
          /\ Len(out') = Len(out) + 1 /\ Len(out) \in Nat /\ out'[Len(out')] = r
      BY <1>3, <2>1, <3>1, StatusAdded
    <3> QED
      BY <3>2
  <2> QED
    BY <1>1, <1>2, <2>1, <2>2, <2>3 DEF ByteInv, Phases
<1>15. CASE WriteEnds
  <2>1. phase = "send" /\ UNCHANGED <<config, received, body, out>>
    BY <1>15 DEF WriteEnds
  <2>2. CASE UNCHANGED <<phase, buffer, taken>>
    BY <1>4, <2>1, <2>2 DEF Phases
  <2>3. CASE \E o, n : ServiceResumes(o, n)
    BY <1>1, <2>1, <2>3, ServiceByteStep
  <2> QED
    BY <1>15, <2>2, <2>3 DEF WriteEnds
<1>16. CASE ServiceReadFails
  BY <1>4, <1>16 DEF ServiceReadFails, Phases
<1>17. CASE HandleClose \/ Ended
  BY <1>1, <1>2, <1>17 DEF HandleClose, Ended, vars, ByteInv, Limits
<1> QED
  BY <1>5, <1>6, <1>7, <1>8, <1>9, <1>10, <1>11, <1>12, <1>13, <1>14, <1>15, <1>16, <1>17
  DEF Next

----------------------------------------------------------------------------
(* The bytes on their way out *)

OutCells == AnswerSet \cup {Unset}

Replies(q) == [i \in DOMAIN q |-> Answer(q[i].head)]

\* Who does not wait for a write has none, and below the high mark nobody blocks.
OutInv ==
  Decoder = "service" =>
    /\ OutputOk(output, OutCells) /\ RepliesInOrder
    /\ phase # "send" => output.inFlight = 0
    /\ \A i \in DOMAIN out : out[i].head.keepAlive \in BOOLEAN
    /\ output.strategy = "block" /\ ~output.failed =>
         /\ phase # "send" \/ ~output.blocked => Backlog(output) < HighWaterMark
         /\ Backlog(output) < HighWaterMark + 18

\* An answer more, behind the others.
LEMMA RepliesAdded ==
  ASSUME NEW q, IsSeq(q), \A i \in DOMAIN q : q[i].head.keepAlive \in BOOLEAN,
         NEW r, r.head.keepAlive \in BOOLEAN
  PROVE  /\ Answer(r.head) \in Seq(OutCells) /\ Len(Answer(r.head)) = 18
         /\ FlattenSeq(Replies(q)) \in Seq(OutCells)
         /\ FlattenSeq(Replies(Append(q, r))) = FlattenSeq(Replies(q)) \o Answer(r.head)
<1> DEFINE n == Len(q)
           x == Answer(r.head)
           p == Replies(q)
<1>1. \A head : head.keepAlive \in BOOLEAN =>
        Answer(head) \in Seq(OutCells) /\ Len(Answer(head)) = 18
  <2>1. AnswerSet \subseteq OutCells
    BY DEF OutCells
  <2> HIDE DEF OutCells
  <2> QED
    BY <2>1, AnswerIs
<1>2. n \in Nat /\ DOMAIN q = 1..n
  BY AppendAny
<1>3. x \in Seq(OutCells) /\ Len(x) = 18
  BY <1>1
<1>4. p \in Seq(Seq(OutCells)) /\ Len(p) = n /\ \A i \in 1..n : p[i] = Answer(q[i].head)
  <2>1. p = [i \in 1..n |-> Answer(q[i].head)] /\ \A i \in 1..n : Answer(q[i].head) \in Seq(OutCells)
    BY <1>1, <1>2, SMTT(30) DEF Replies
  <2> HIDE DEF p
  <2> QED
    BY <1>2, <2>1
<1> DEFINE w == Append(q, r)
<1>5. DOMAIN w = 1..(n + 1) /\ (\A i \in 1..n : w[i] = q[i]) /\ w[n + 1] = r
  BY AppendAny
<1>6. Replies(w) = [i \in 1..(n + 1) |-> Answer(w[i].head)]
  BY <1>5 DEF Replies
<1> HIDE DEF p, n, x, w
<1>7. Replies(w) = Append(p, x)
  <2>1. IsSeq(p)
    BY <1>2, <1>4 DEF IsSeq
  <2>2. IsSeq(Append(p, x)) /\ Len(Append(p, x)) = n + 1
        /\ (\A i \in 1..n : Append(p, x)[i] = p[i]) /\ Append(p, x)[n + 1] = x
    BY <1>4, <2>1, AppendAny
  <2> DEFINE z == Append(p, x)
  <2>3. z = [i \in 1..(n + 1) |-> z[i]]
    BY <2>2 DEF IsSeq
  <2>4. ASSUME NEW i \in 1..(n + 1) PROVE z[i] = Answer(w[i].head)
    <3>1. i \in 1..n \/ i = n + 1
      BY <1>2
    <3> HIDE DEF z
    <3> QED
      BY <1>4, <1>5, <2>2, <3>1 DEF x, z
  <2> HIDE DEF z
  <2> QED
    BY <1>6, <2>3, <2>4 DEF z
<1>8. FlattenSeq(p) \in Seq(OutCells) /\ FlattenSeq(Append(p, x)) = FlattenSeq(p) \o x
  <2> HIDE DEF OutCells
  <2> QED
    BY <1>3, <1>4, FlattenAppend
<1> QED
  BY <1>3, <1>7, <1>8, Zenon DEF p, x, w

LEMMA OutInit ==
  ASSUME Init
  PROVE  OutInv
<1> DEFINE o == NewOutput(job.strategy)
<1>1. output = o /\ out = <<>> /\ phase = "load"
  BY DEF Init
<1>2. /\ OutputOk(o, OutCells) /\ Passing(o) = <<>> /\ o.inFlight = 0 /\ Backlog(o) = 0
  <2>1. Unset \in OutCells
    BY DEF OutCells
  <2> HIDE DEF OutCells
  <2> QED
    BY <2>1, NewOutputIs
<1> HIDE DEF o
<1>3. FlattenSeq(<<>>) = <<>>
  <2>1. <<>> \in Seq(Seq(OutCells))
    OBVIOUS
  <2>2. PICK F : Joins(F, <<>>, Len(<<>>), OutCells) /\ FlattenSeq(<<>>) = F[Len(<<>>)]
    BY <2>1, FlattenSteps
  <2> QED
    BY <2>2 DEF Joins
<1>4. DOMAIN out = {} /\ Replies(out) = <<>>
  BY <1>1 DEF Replies
<1>5. RepliesInOrder
  BY <1>1, <1>2, <1>3, <1>4 DEF RepliesInOrder, Passing, Replies
<1>6. 0 < HighWaterMark /\ 0 < HighWaterMark + 18
  BY WaterMarkAssumption
<1> QED
  BY <1>1, <1>2, <1>4, <1>5, <1>6 DEF OutInv

\* What a write may end with.
LEMMA WriteResultIs ==
  ASSUME JobInv, OutputOk(output, OutCells), output.inFlight > 0,
         NEW res \in {-1} \cup {Min({n, output.inFlight}) : n \in job.chunks}
  PROVE  res \in {-1} \cup 1..Backlog(output)
<1>1. CASE res = -1
  BY <1>1
<1>2. ASSUME NEW n \in job.chunks, res = Min({n, output.inFlight})
      PROVE  res \in 1..Backlog(output)
  <2> DEFINE f == output.inFlight
             b == Backlog(output)
  <2>1. n \in Nat /\ n > 0 /\ f \in Nat /\ f > 0 /\ f <= b /\ b \in Nat
    BY JobIs, BacklogIs DEF OutputOk
  <2> HIDE DEF f, b
  <2> DEFINE T == {n, f}
  <2>2. T \in SUBSET Nat /\ T # {} /\ res = Min(T) /\ f \in T
    BY <1>2, <2>1 DEF f
  <2> HIDE DEF T
  <2>3. res \in T /\ \A x \in T : res <= x
    BY <2>2, MinIs
  <2>4. res \in {n, f} /\ res <= f
    BY <2>2, <2>3 DEF T
  <2>5. res \in 1..b
    BY <2>1, <2>4
  <2> QED
    BY <2>5 DEF b
<1> QED
  BY <1>1, <1>2

\* A connection that still passes the same bytes on.
LEMMA OutKept ==
  ASSUME OutInv, Decoder = "service", UNCHANGED <<job, out>>,
         OutputOk(output', OutCells), Passing(output') = Passing(output),
         phase' # "send" => output'.inFlight = 0,
         output'.strategy = "block" /\ ~output'.failed =>
           /\ phase' # "send" \/ ~output'.blocked => Backlog(output') < HighWaterMark
           /\ Backlog(output') < HighWaterMark + 18
  PROVE  OutInv'
<1>1. RepliesInOrder' /\ Decoder' = "service"
  BY DEF OutInv, RepliesInOrder, Passing, Decoder
<1>2. \A i \in DOMAIN out' : out'[i].head.keepAlive \in BOOLEAN
  BY DEF OutInv
<1>3. Backlog(output)' = Backlog(output') /\ OutputOk(output, OutCells)' = OutputOk(output', OutCells)
  BY DEF Backlog, OutputOk
<1> QED
  BY <1>1, <1>2, <1>3 DEF OutInv

\* Closing a connection changes nothing of it.
LEMMA OutClosed ==
  ASSUME OutInv, Decoder = "service", UNCHANGED <<job, out>>,
         output' \in {output, ForceClose(output), Destroyed(output)},
         phase' = phase \/ (phase # "send" /\ phase' # "send")
  PROVE  OutInv'
<1> DEFINE p == output'
           o == output
<1>1. OutputOk(o, OutCells) /\ IsOutput(o)
  BY DEF OutInv, OutputOk
<1>2. IsOutput(p) /\ SameSending(p, o)
  <2>1. SameSending(o, o)
    BY DEF SameSending
  <2> QED
    BY <1>1, <2>1, ClosingIs
<1> HIDE DEF p
<1>3. OutputOk(p, OutCells) /\ Passing(p) = Passing(o) /\ Backlog(p) = Backlog(o)
  BY <1>1, <1>2, SameOutput
<1>4. p.inFlight = o.inFlight /\ p.strategy = o.strategy /\ p.failed = o.failed
      /\ p.blocked = o.blocked
  BY <1>2 DEF SameSending
<1>5. /\ phase # "send" => o.inFlight = 0
      /\ o.strategy = "block" /\ ~o.failed =>
           /\ phase # "send" \/ ~o.blocked => Backlog(o) < HighWaterMark
           /\ Backlog(o) < HighWaterMark + 18
  BY DEF OutInv
<1>6. /\ phase' # "send" => p.inFlight = 0
      /\ p.strategy = "block" /\ ~p.failed =>
           /\ phase' # "send" \/ ~p.blocked => Backlog(p) < HighWaterMark
           /\ Backlog(p) < HighWaterMark + 18
  BY <1>3, <1>4, <1>5
<1> QED
  BY <1>3, <1>6, OutKept DEF p

\* A request that is answered.
LEMMA OutAnswers ==
  ASSUME JobInv, PickInv, ByteInv, OutInv, ServiceAnswers
  PROVE  OutInv'
<1> DEFINE r == Decoded(Readable(buffer))
           o == output
           p == output'
           x == Answer(r.head)
<1>1. /\ phase = "parse" /\ Decoder = "service" /\ r.status = "complete"
      /\ out' = Append(out, r) /\ phase' = "send" /\ job' = job
      /\ \E room \in BOOLEAN : p = Sends(o, x, room)
  BY DEF ServiceAnswers, input
<1>2. r.head.keepAlive \in BOOLEAN
  BY <1>1, DecodedIs
<1> HIDE DEF r
<1>3. /\ OutputOk(o, OutCells) /\ RepliesInOrder /\ o.inFlight = 0 /\ IsSeq(out)
      /\ \A i \in DOMAIN out : out[i].head.keepAlive \in BOOLEAN
      /\ o.strategy = "block" /\ ~o.failed => Backlog(o) < HighWaterMark
  BY <1>1 DEF OutInv, PickInv
<1>4. /\ x \in Seq(OutCells) /\ Len(x) = 18
      /\ FlattenSeq(Replies(out')) = FlattenSeq(Replies(out)) \o x
  BY <1>1, <1>2, <1>3, RepliesAdded
<1> HIDE DEF x
<1>5. /\ OutputOk(p, OutCells) /\ Passing(p) = Passing(o) \o x
      /\ Backlog(p) = Backlog(o) + Len(x)
      /\ p.blocked = (o.strategy = "block" /\ Backlog(p) >= HighWaterMark)
      /\ p.failed = o.failed /\ p.strategy = o.strategy
  <2>1. Unset \in OutCells
    BY DEF OutCells
  <2> HIDE DEF OutCells, p
  <2>2. PICK room \in BOOLEAN : p = Sends(o, x, room)
    BY <1>1
  <2> QED
    <3> DEFINE z == Sends(o, x, room)
    <3>1. /\ OutputOk(z, OutCells) /\ Passing(z) = Passing(o) \o x
          /\ Backlog(z) = Backlog(o) + Len(x)
          /\ z.blocked = (o.strategy = "block" /\ Backlog(z) >= HighWaterMark)
          /\ z.failed = o.failed /\ z.strategy = o.strategy
      BY <1>3, <1>4, <2>1, SendsIs, ZenonT(40)
    <3>2. p = z
      BY <2>2
    <3> HIDE DEF z
    <3> QED
      BY <3>1, <3>2, Zenon
<1> HIDE DEF p
<1>6. Passing(o) = FlattenSeq(Replies(out)) /\ Decoder' = "service"
  BY <1>1, <1>3 DEF RepliesInOrder, Passing, Replies, Decoder
<1>7. Passing(p) = FlattenSeq(Replies(out'))
  BY <1>4, <1>5, <1>6, Zenon
<1>8. RepliesInOrder'
  BY <1>7 DEF RepliesInOrder, Passing, Replies, p
<1>9. \A i \in DOMAIN out' : out'[i].head.keepAlive \in BOOLEAN
  <2>1. /\ DOMAIN out = 1..Len(out) /\ Len(out) \in Nat
        /\ DOMAIN out' = 1..(Len(out) + 1) /\ out'[Len(out) + 1] = r
        /\ \A i \in 1..Len(out) : out'[i] = out[i]
    BY <1>1, <1>3, AppendAny
  <2>2. \A i \in 1..(Len(out) + 1) : i \in 1..Len(out) \/ i = Len(out) + 1
    BY <2>1
  <2> QED
    BY <1>2, <1>3, <2>1, <2>2
<1>10. p.strategy = "block" /\ ~p.failed =>
         /\ phase' # "send" \/ ~p.blocked => Backlog(p) < HighWaterMark
         /\ Backlog(p) < HighWaterMark + 18
  <2>1. Backlog(o) \in Nat /\ Backlog(p) \in Nat /\ HighWaterMark \in Nat
    BY <1>3, <1>5, BacklogIs, WaterMarkAssumption DEF OutputOk
  <2>2. p.strategy = "block" /\ ~p.failed =>
          /\ Backlog(o) < HighWaterMark
          /\ ~p.blocked => ~(Backlog(p) >= HighWaterMark)
    BY <1>3, <1>5, Zenon
  <2>3. Backlog(p) = Backlog(o) + 18
    BY <1>4, <1>5
  <2> QED
    BY <1>1, <2>1, <2>2, <2>3
<1>11. Backlog(output)' = Backlog(p) /\ OutputOk(output, OutCells)' = OutputOk(p, OutCells)
  BY DEF Backlog, OutputOk, p
<1> QED
  BY <1>1, <1>5, <1>6, <1>8, <1>9, <1>10, <1>11 DEF OutInv, p

\* A write that ends.
LEMMA OutWrites ==
  ASSUME JobInv, PickInv, ByteInv, OutInv, WriteEnds
  PROVE  OutInv'
<1> DEFINE o == output
<1>1. phase = "send" /\ o.inFlight > 0 /\ UNCHANGED <<job, out>> /\ Decoder = "service"
  BY DEF WriteEnds, input, ByteInv
<1>2. PICK res \in {-1} \cup {Min({n, o.inFlight}) : n \in job.chunks} :
        LET t == Handled(Taken(o, res), res)
            n == Written(t, res)
        IN IF Ready(t, res) THEN ServiceResumes(AwaitResume(t, n), n)
           ELSE /\ \E room \in BOOLEAN : output' = SubmitWriteRequest(t, room)
                /\ UNCHANGED <<phase, buffer, taken>>
  BY DEF WriteEnds
<1> DEFINE t == Handled(Taken(o, res), res)
           n == Written(t, res)
<1>3. /\ OutputOk(o, OutCells) /\ Backlog(o) \in Nat /\ HighWaterMark \in Nat
      /\ LowWaterMark \in Nat /\ LowWaterMark < HighWaterMark
      /\ o.strategy = "block" /\ ~o.failed =>
           /\ ~o.blocked => Backlog(o) < HighWaterMark
           /\ Backlog(o) < HighWaterMark + 18
  BY <1>1, BacklogIs, WaterMarkAssumption DEF OutInv, OutputOk
<1>4. res \in {-1} \cup 1..Backlog(o)
  BY <1>1, <1>3, WriteResultIs
<1>5. CASE Ready(t, res)
  <2> DEFINE p == AwaitResume(t, n)
  <2>1. ServiceResumes(p, n)
    BY <1>2, <1>5
  <2>2. /\ OutputOk(p, OutCells) /\ Passing(p) = Passing(o) /\ Backlog(p) <= Backlog(o)
        /\ p.inFlight = 0 /\ p.strategy = o.strategy /\ p.failed = (o.failed \/ res < 0)
        /\ o.blocked /\ ~(res < 0) => Backlog(p) <= LowWaterMark
    <3> HIDE DEF OutCells
    <3> QED
      BY <1>3, <1>4, <1>5, WriteResumed
  <2> HIDE DEF p, t, n
  <2>3. output' \in {p, ForceClose(p)} /\ phase' # "send"
    BY <2>1 DEF ServiceResumes
  <2>4. IsOutput(output') /\ SameSending(output', p)
    <3>1. SameSending(p, p) /\ IsOutput(p)
      BY <2>2 DEF SameSending, OutputOk
    <3> QED
      BY <2>3, <3>1, ClosingIs
  <2>5. OutputOk(output', OutCells) /\ Passing(output') = Passing(p) /\ Backlog(output') = Backlog(p)
    BY <2>2, <2>4, SameOutput
  <2>6. output'.inFlight = 0 /\ output'.strategy = o.strategy
        /\ output'.failed = (o.failed \/ res < 0)
    BY <2>2, <2>4 DEF SameSending
  <2>7. Backlog(p) \in Nat /\ o.blocked \in BOOLEAN
    BY <1>3, <2>2, BacklogIs DEF OutputOk
  <2>8. o.strategy = "block" /\ ~(o.failed \/ res < 0) =>
          Backlog(p) < HighWaterMark /\ Backlog(p) < HighWaterMark + 18
    <3>1. CASE o.blocked
      BY <1>3, <2>2, <2>7, <3>1
    <3>2. CASE ~o.blocked
      BY <1>3, <2>2, <2>7, <3>2
    <3> QED
      BY <3>1, <3>2
  <2>9. output'.strategy = "block" /\ ~output'.failed =>
          Backlog(output') < HighWaterMark /\ Backlog(output') < HighWaterMark + 18
    BY <2>5, <2>6, <2>8
  <2>10. Passing(output') = Passing(output)
    BY <2>2, <2>5
  <2> QED
    BY <1>1, <2>3, <2>5, <2>6, <2>9, <2>10, OutKept
<1>6. CASE ~Ready(t, res)
  <2>1. PICK room \in BOOLEAN : output' = SubmitWriteRequest(t, room) /\ phase' = phase
    BY <1>2, <1>6
  <2>2. t.blocked /\ ~(res <= 0)
    BY <1>6 DEF Ready
  <2>3. /\ OutputOk(t, OutCells) /\ t.blocked = o.blocked
        /\ t.strategy = o.strategy /\ t.failed = (o.failed \/ res < 0)
        /\ o.blocked \/ res < 0 => Passing(t) = Passing(o) /\ Backlog(t) <= Backlog(o)
    <3> HIDE DEF OutCells
    <3> QED
      BY <1>3, <1>4, WriteHandled, ZenonT(40)
  <2> HIDE DEF t
  <2>4. LET p == output' IN
        /\ OutputOk(p, OutCells) /\ Passing(p) = Passing(t) /\ Backlog(p) = Backlog(t)
        /\ p.blocked = t.blocked /\ p.failed = t.failed /\ p.strategy = t.strategy
    <3> HIDE DEF OutCells
    <3> QED
      BY <2>1, <2>3, SubmitIs
  <2>5. o.blocked /\ Passing(t) = Passing(o) /\ Backlog(t) <= Backlog(o) /\ Backlog(t) \in Nat
    BY <2>2, <2>3, BacklogIs DEF OutputOk
  <2>6. output'.strategy = "block" /\ ~output'.failed =>
          /\ output'.blocked
          /\ Backlog(output') < HighWaterMark + 18
    <3>1. output'.strategy = "block" /\ ~output'.failed =>
            /\ output'.blocked /\ Backlog(output') = Backlog(t)
            /\ Backlog(o) < HighWaterMark + 18
      BY <1>3, <2>2, <2>3, <2>4, Zenon
    <3> QED
      BY <1>3, <2>5, <3>1
  <2>7. Passing(output') = Passing(output)
    BY <2>4, <2>5
  <2> QED
    BY <1>1, <2>1, <2>4, <2>6, <2>7, OutKept
<1> QED
  BY <1>5, <1>6

LEMMA OutStep ==
  ASSUME JobInv, PickInv, ByteInv, OutInv, [Next]_vars
  PROVE  OutInv'
<1>1. job' = job /\ Decoder' = Decoder
  BY DEF Next, vars, input, Load, NeedsMore, Refuses, Completes, ReadSome,
         StreamBuffered, StreamRead, NextMessage, ServiceAnswers, WriteEnds,
         ServiceReadFails, HandleClose, Ended, Decoder
<1>2. ASSUME Decoder # "service" PROVE OutInv'
  BY <1>1, <1>2 DEF OutInv
<1>3. CASE ServiceAnswers
  BY <1>3, OutAnswers
<1>4. CASE WriteEnds
  BY <1>4, OutWrites
<1>5. ASSUME Decoder = "service", out' = out,
             output' \in {output, ForceClose(output), Destroyed(output)},
             phase' = phase \/ (phase # "send" /\ phase' # "send")
      PROVE  OutInv'
  BY <1>1, <1>5, OutClosed
<1>6. CASE Load \/ NeedsMore
  BY <1>2, <1>5, <1>6 DEF Load, NeedsMore
<1>7. CASE ReadSome \/ StreamBuffered
  BY <1>2, <1>5, <1>7 DEF ReadSome, StreamBuffered
<1>8. CASE StreamRead \/ NextMessage
  BY <1>2, <1>5, <1>8 DEF StreamRead, NextMessage
<1>9. CASE Refuses
  BY <1>2, <1>9, DecodedIs DEF Refuses
<1>10. CASE Completes
  BY <1>2, <1>10 DEF Completes
<1>11. CASE ServiceReadFails
  BY <1>2, <1>5, <1>11 DEF ServiceReadFails
<1>12. CASE HandleClose
  <2>1. out' = out /\ output' \in {output, ForceClose(output), Destroyed(output)} /\ phase' = phase
    BY <1>12 DEF HandleClose
  <2> QED
    BY <1>2, <1>5, <2>1, Zenon
<1>13. CASE Ended \/ UNCHANGED vars
  <2>1. out' = out /\ output' \in {output, ForceClose(output), Destroyed(output)} /\ phase' = phase
    BY <1>13 DEF Ended, vars
  <2> QED
    BY <1>2, <1>5, <2>1, Zenon
<1> QED
  BY <1>3, <1>4, <1>6, <1>7, <1>8, <1>9, <1>10, <1>11, <1>12, <1>13 DEF Next

\* The buffers of both directions hold the bytes that are due, in their order, for
\* every stream, every cut of it into reads and every cut of the answers into writes
\* (makeSpace, append, retrieve, AsyncWriteAwaitable).
THEOREM BytesStayInOrder == Spec => []BytesInOrder
<1> DEFINE Inv == JobInv /\ ConfigInv /\ RouteInv /\ ByteInv /\ OutInv
<1>1. Init => Inv
  BY ConfigInit, RouteInit, ByteInit, OutInit
<1>2. Inv /\ [Next]_vars => Inv'
  BY ConfigStep, RouteStep, ByteStep, OutStep DEF RouteInv
<1>3. ASSUME Inv PROVE BytesInOrder
  <2>1. BufferHolds
    BY <1>3 DEF ByteInv, Window
  <2>2. RepliesInOrder
    BY <1>3 DEF OutInv, RepliesInOrder
  <2>3. Len(config) \in {0, 1}
    BY <1>3 DEF ConfigInv
  <2>4. /\ taken \in 0..Len(stream) /\ received \in taken..Len(stream)
        /\ buffer.read \in HeaderReservedSize..buffer.write
        /\ buffer.write <= Len(buffer.cells)
    <3>1. Len(stream) \in Nat /\ HeaderReservedSize \in Nat
      BY <1>3, JobIs, BufferAssumption
    <3> QED
      BY <1>3, <3>1 DEF ByteInv, Window, BufferOk
  <2>5. DOMAIN cursors \subseteq Nat /\ \A n \in DOMAIN cursors : cursors[n] \in Nat
    BY <1>3 DEF RouteInv, PickInv
  <2>6. TypeOK
    BY <1>3, <2>3, <2>4, <2>5 DEF TypeOK, ByteInv, Phases
  <2> QED
    BY <2>1, <2>2, <2>6 DEF BytesInOrder
<1> QED
  BY <1>1, <1>2, <1>3, PTL DEF Spec

\* A sender that blocks never has more waiting than the high mark and one response,
\* whatever the marks and the sizes of writes are (checkOutputBufferBackpressure,
\* await_suspend).
THEOREM OutputStaysBounded == Spec => []OutputBounded
<1> DEFINE Inv == JobInv /\ ConfigInv /\ RouteInv /\ ByteInv /\ OutInv
<1>1. Init => Inv
  BY ConfigInit, RouteInit, ByteInit, OutInit
<1>2. Inv /\ [Next]_vars => Inv'
  BY ConfigStep, RouteStep, ByteStep, OutStep DEF RouteInv
<1>3. ASSUME Inv PROVE OutputBounded
  <2> DEFINE head == [keepAlive |-> TRUE]
  <2>1. head.keepAlive \in BOOLEAN
    OBVIOUS
  <2> HIDE DEF head
  <2>2. Len(Answer(head)) = 18
    BY <2>1, AnswerIs
  <2> QED
    BY <1>3, <2>2 DEF OutInv, OutputBounded, head
<1> QED
  BY <1>1, <1>2, <1>3, PTL DEF Spec

----------------------------------------------------------------------------
(* What is forwarded *)

\* A head that was forwarded is read again as what it was taken for.
ReadAgain(r, bodyLimit) ==
  LET again == [header |-> Len(r.head.forward), body |-> bodyLimit]
  IN (IF Decoder = "request" THEN ParseRequestHead(r.head.forward, again)
                             ELSE ParseResponseHead(r.head.forward, again))
       = [status |-> "complete", head |-> r.head, used |-> again.header]

ForwardInv ==
  \A i \in DOMAIN out : Framer /\ out[i].status = "complete" => ReadAgain(out[i], Limits.body)

LEMMA ForwardInit == Init => ForwardInv
<1>1. DOMAIN <<>> = {}
  OBVIOUS
<1> QED
  BY <1>1 DEF Init, ForwardInv

LEMMA DecodedForward ==
  ASSUME JobInv, ByteInv, Framer, Decoded(Readable(buffer)).status = "complete"
  PROVE  ReadAgain(Decoded(Readable(buffer)), Limits.body)
<1> DEFINE bytes == Readable(buffer)
           r == Decoded(bytes)
           U == ByteSet(job)
<1>1. bytes \in Seq(U) /\ \A b \in U : HeaderOk(b)
  <2>1. bytes \in Seq(U)
    BY WindowIs DEF ByteInv
  <2>2. Decoder # "rpc"
    BY DEF Framer
  <2> QED
    BY <2>1, <2>2, JobIs DEF StreamIs, Decoder
<1> HIDE DEF U, bytes
<1>2. CASE Decoder = "request"
  <2>1. r = ParseRequestHead(bytes, Limits)
    BY <1>2 DEF Decoded
  <2> HIDE DEF r
  <2>2. ParseRequestHead(r.head.forward, Roomy(r.head.forward, Limits))
          = [status |-> "complete", head |-> r.head,
             used |-> Roomy(r.head.forward, Limits).header]
    BY <1>1, <2>1, RequestForward DEF r, bytes
  <2> QED
    BY <1>2, <2>2 DEF ReadAgain, Roomy, r, bytes
<1>3. CASE Decoder = "response"
  <2>1. r = ParseResponseHead(bytes, Limits) /\ Decoder # "request"
    BY <1>3 DEF Decoded
  <2> HIDE DEF r
  <2>2. ParseResponseHead(r.head.forward, Roomy(r.head.forward, Limits))
          = [status |-> "complete", head |-> r.head,
             used |-> Roomy(r.head.forward, Limits).header]
    BY <1>1, <2>1, ResponseForward DEF r, bytes
  <2> QED
    BY <2>1, <2>2 DEF ReadAgain, Roomy, r, bytes
<1> QED
  BY <1>2, <1>3 DEF Framer

LEMMA ForwardStep ==
  ASSUME JobInv, PickInv, ByteInv, ForwardInv, [Next]_vars
  PROVE  ForwardInv'
<1>1. job' = job /\ Decoder' = Decoder /\ Framer' = Framer
  BY DEF Next, vars, input, Load, NeedsMore, Refuses, Completes, ReadSome,
         StreamBuffered, StreamRead, NextMessage, ServiceAnswers, WriteEnds,
         ServiceReadFails, HandleClose, Ended, Decoder, Framer
<1>3. ASSUME UNCHANGED <<out, config>> PROVE ForwardInv'
  BY <1>1, <1>3 DEF ForwardInv, ReadAgain, Limits
<1>4. ASSUME NEW r, out' = Append(out, r), config' = config,
             Framer /\ r.status = "complete" => ReadAgain(r, Limits.body)
      PROVE  ForwardInv'
  <2>1. IsSeq(out)
    BY DEF PickInv
  <2>2. /\ DOMAIN out = 1..Len(out) /\ Len(out) \in Nat
        /\ DOMAIN out' = 1..(Len(out) + 1) /\ out'[Len(out) + 1] = r
        /\ \A i \in 1..Len(out) : out'[i] = out[i]
    BY <1>4, <2>1, AppendAny
  <2>3. \A i \in 1..(Len(out) + 1) : i \in 1..Len(out) \/ i = Len(out) + 1
    BY <2>2
  <2>4. \A i \in DOMAIN out' :
          Framer /\ out'[i].status = "complete" => ReadAgain(out'[i], Limits.body)
    BY <1>4, <2>2, <2>3 DEF ForwardInv
  <2>5. Limits' = Limits
    BY <1>4 DEF Limits
  <2> QED
    BY <1>1, <2>4, <2>5 DEF ForwardInv, ReadAgain
<1>5. CASE Load
  <2>1. out' = <<>> /\ DOMAIN <<>> = {}
    BY <1>5 DEF Load, ByteInv
  <2> QED
    BY <2>1 DEF ForwardInv
<1>6. CASE Refuses
  BY <1>4, <1>6 DEF Refuses
<1>7. CASE Completes
  BY <1>4, <1>7, DecodedForward DEF Completes
<1>8. CASE ServiceAnswers
  <2>1. ~Framer
    BY <1>8 DEF ServiceAnswers, Framer
  <2> QED
    BY <1>4, <1>8, <2>1 DEF ServiceAnswers
<1>9. CASE NeedsMore \/ ReadSome \/ StreamBuffered \/ StreamRead \/ NextMessage
  BY <1>3, <1>9 DEF NeedsMore, ReadSome, StreamBuffered, StreamRead, NextMessage
<1>10. CASE WriteEnds
  BY <1>3, <1>10 DEF WriteEnds, ServiceResumes
<1>11. CASE ServiceReadFails \/ HandleClose \/ Ended \/ UNCHANGED vars
  BY <1>3, <1>11 DEF ServiceReadFails, HandleClose, Ended, vars
<1> QED
  BY <1>5, <1>6, <1>7, <1>8, <1>9, <1>10, <1>11 DEF Next

\* A head that was forwarded has the length and the wish for the connection that the
\* gateway saw in it, for whoever parses it by the same rules, and forwarding it
\* again gives the same bytes (buildForwardHead).
THEOREM ForwardedHeadsAgree == Spec => []ForwardAgrees
<1> DEFINE Inv == JobInv /\ ConfigInv /\ RouteInv /\ ByteInv /\ ForwardInv
<1>1. Init => Inv
  BY ConfigInit, RouteInit, ByteInit, ForwardInit
<1>2. Inv /\ [Next]_vars => Inv'
  BY ConfigStep, RouteStep, ByteStep, ForwardStep DEF RouteInv
<1>3. ASSUME Inv PROVE ForwardAgrees
  <2>1. ASSUME NEW i \in DOMAIN out, Framer, out[i].status = "complete"
        PROVE  LET limits == [header |-> Len(out[i].head.forward), body |-> Limits.body]
                   again == IF Decoder = "request"
                            THEN ParseRequestHead(out[i].head.forward, limits)
                            ELSE ParseResponseHead(out[i].head.forward, limits)
               IN again = [status |-> "complete", head |-> out[i].head, used |-> limits.header]
    <3>1. ReadAgain(out[i], Limits.body)
      BY <1>3, <2>1 DEF ForwardInv
    <3> QED
      BY <3>1 DEF ReadAgain
  <2> QED
    BY <2>1 DEF ForwardAgrees
<1> QED
  BY <1>1, <1>2, <1>3, PTL DEF Spec

----------------------------------------------------------------------------
(* What a decoder says of them *)

\* Where the message ends that r stands for, the k messages before it being used up.
Past(r, k) == Off(job, k) + r.used + (IF Framer THEN r.head.length ELSE 0)

\* A reader that has seen k messages and now finds r has seen the next one as what it
\* is, or not all of it has come.  The body of the last one may be cut off.
Finds(r, k, whole) ==
  /\ r.status \in {"needMore", "error", "complete"}
  /\ r.status # "needMore" => k < Count(job) /\ Seen(r) = Outcome(Messages[k + 1])
  /\ r.status = "complete" =>
       /\ Past(r, k) >= Off(job, k + 1)
       /\ Past(r, k) = Off(job, k + 1) \/ (Framer /\ k + 1 = Count(job))
       /\ Decoder = "request" => r.head.path = Messages[k + 1].start.words[2]
  /\ r.status = "needMore" /\ whole =>
       k = Count(job) \/ Outcome(Messages[k + 1]) = Incomplete

\* The message after k others that bytes are a part of, its headers hs, its body of l
\* bytes, what is wrong with it, the length it says it has; and r, what is said of it.
FramedPart(r, k, bytes, hs, l, error, length, keep, whole) ==
  /\ k < Count(job) /\ k \in Nat /\ Count(job) \in Nat
  /\ Len(bytes) \in Nat /\ Len(hs) \in Nat /\ l \in Nat
  /\ SaysOf(r, error, bytes, hs)
  /\ r.status = "complete" =>
       /\ r.head.length \in Nat
       /\ Decoder = "request" => r.head.path = Messages[k + 1].start.words[2]
  /\ length = (IF Length(hs) = Absent THEN 0 ELSE Length(hs)) /\ keep = Keeps(hs)
  /\ Outcome(Messages[k + 1]) =
       IF error # "none" THEN Error(error)
       ELSE [status |-> "complete", head |-> [length |-> length, keepAlive |-> keep]]
  /\ Off(job, k) \in Nat /\ Off(job, k + 1) = Off(job, k) + 3 * Len(hs) + 5 + l
  /\ l <= length /\ (k + 1 < Count(job) => l = length)
  /\ whole => Len(bytes) >= 3 * Len(hs) + 5 + l

LEMMA FramedFinds ==
  ASSUME Framer, NEW r, NEW k, NEW bytes, NEW hs, NEW l, NEW error, NEW length, NEW keep,
         NEW whole, FramedPart(r, k, bytes, hs, l, error, length, keep, whole)
  PROVE  Finds(r, k, whole)
<1> DEFINE m == Messages[k + 1]
           n == Len(hs)
           o == Off(job, k)
           p == Off(job, k + 1)
           c == Count(job)
           out1 == Outcome(m)
<1>0. /\ Outcome(m) = IF error # "none" THEN Error(error)
                       ELSE [status |-> "complete", head |-> [length |-> length, keepAlive |-> keep]]
      /\ k < c /\ k \in Nat /\ c \in Nat /\ o \in Nat /\ p = o + 3 * n + 5 + l
      /\ n \in Nat /\ l \in Nat /\ l <= length /\ (k + 1 < c => l = length)
      /\ whole => Len(bytes) >= 3 * n + 5 + l
      /\ Len(bytes) \in Nat
  BY DEF FramedPart
<1>1. /\ r.status \in {"needMore", "error", "complete"}
      /\ r.status = "needMore" => Len(bytes) < 5 + 3 * n
      /\ r.status = "error" => r.error = error /\ error # "none"
      /\ r.status = "complete" => /\ error = "none" /\ r.used = 5 + 3 * n
                                  /\ r.head.length = length /\ r.head.keepAlive = keep
  BY DEF SaysOf, FramedPart
<1>2. r.status = "error" => Seen(r) = Outcome(m)
  <2> HIDE DEF m
  <2> QED
    BY <1>1, <1>0 DEF Seen
<1>3. r.status = "complete" => Seen(r) = Outcome(m)
  <2> HIDE DEF m
  <2> QED
    BY <1>1, <1>0 DEF Seen
<1>4. r.status = "complete" => /\ Past(r, k) >= p
                               /\ Past(r, k) = p \/ (Framer /\ k + 1 = c)
  <2> SUFFICES ASSUME r.status = "complete"
               PROVE  /\ Past(r, k) >= p
                      /\ Past(r, k) = p \/ (Framer /\ k + 1 = c)
    OBVIOUS
  <2>1. Past(r, k) = o + r.used + r.head.length
    BY DEF Past
  <2>2. r.used = 5 + 3 * n /\ r.head.length = length /\ length \in Nat
    BY <1>1 DEF FramedPart
  <2> HIDE DEF o, p, c
  <2>3. o \in Nat /\ p = o + 3 * n + 5 + l /\ c \in Nat /\ k < c /\ (k + 1 < c => l = length)
    BY <1>0
  <2>4. Past(r, k) = o + (5 + 3 * n) + length
    BY <2>1, <2>2
  <2>5. /\ l <= length /\ Framer /\ n \in Nat /\ l \in Nat /\ k \in Nat
    BY <1>0
  <2>6. Past(r, k) >= p
    BY ONLY <2>2, <2>3, <2>4, <2>5
  <2>7. k + 1 < c \/ k + 1 = c
    BY ONLY <2>3, <2>5
  <2>8. k + 1 < c => Past(r, k) = p
    BY ONLY <2>2, <2>3, <2>4, <2>5
  <2> QED
    BY ONLY <2>5, <2>6, <2>7, <2>8
<1>5. r.status = "needMore" => ~whole
  BY <1>0, <1>1
<1>6. r.status # "needMore" => Seen(r) = Outcome(m)
  BY <1>1, <1>2, <1>3
<1>7. r.status = "complete" /\ Decoder = "request" => r.head.path = m.start.words[2]
  BY DEF FramedPart
<1> QED
  BY <1>0, <1>1, <1>4, <1>5, <1>6, <1>7 DEF Finds

LEMMA EmptyFinds ==
  ASSUME Decoder \in Decoders, Limits.header \in Nat, Limits.header > 0,
         NEW U, NEW bytes \in Seq(U), Len(bytes) = 0, NEW k, k = Count(job), NEW whole
  PROVE  Finds(Decoded(bytes), k, whole)
<1>1. FindHeaderBytes(bytes) = 0
  <2>1. FindHeaderBytes(bytes) \in 0..Len(bytes)
    BY HeadEnds
  <2> QED
    BY <2>1
<1>2. ParseHead(bytes, Limits) = NeedMore
  BY <1>1 DEF ParseHead
<1>3. /\ ParseRequestHead(bytes, Limits) = NeedMore
      /\ ParseResponseHead(bytes, Limits) = NeedMore
  BY <1>2 DEF ParseRequestHead, ParseResponseHead, NeedMore
<1>4. HttpDecode(bytes) = Incomplete /\ ServiceParse(bytes) = Incomplete
  BY <1>1 DEF HttpDecode, ServiceParse, DecodeRequest
<1>5. RpcDecode(bytes) = Incomplete
  BY DEF RpcDecode, KHeaderLength
<1>6. Decoded(bytes).status = "needMore"
  BY <1>3, <1>4, <1>5 DEF Decoded, Decoders, NeedMore, Incomplete
<1> QED
  BY <1>6 DEF Finds

\* The set of a head's bytes.
LEMMA HeadSet ==
  ASSUME NEW start, start.is = "start", NEW hs, IsSeq(hs),
         \A i \in 1..Len(hs) : hs[i].is \in {"header", "malformed"} /\ HeaderOk(hs[i])
  PROVE  \E C : (\A b \in C : HeaderOk(b)) /\ start \in C /\ hs \in Seq(C)
<1> DEFINE C == {start} \cup {hs[i] : i \in 1..Len(hs)}
<1>1. HeaderOk(start)
  BY DEF HeaderOk
<1>2. \A b \in C : HeaderOk(b)
  BY <1>1
<1>3. hs \in Seq(C)
  <2> HIDE DEF C
  <2>1. \A i \in 1..Len(hs) : hs[i] \in C
    BY DEF C
  <2> QED
    BY <2>1, SeqOver
<1> QED
  BY <1>2, <1>3

\* The length that a message says it has.
LEMMA BodyLengths ==
  ASSUME NEW d, NEW ms, StreamOk(d, ms), d # "rpc", NEW i \in 1..Len(ms), NEW m, m = ms[i],
         ~Encoded(d, m)
  PROVE  /\ Len(m.body) <= OfHead(m).length
         /\ d \in {"http", "service"} \/ i < Len(ms) => Len(m.body) = OfHead(m).length
         /\ d \in {"http", "service"} => /\ AtMostOne(m.headers, {"content-length"})
                                         /\ AtMostOne(m.headers, ConnectionNames)
<1>1. IsSeq(ms) /\ i \in DOMAIN ms
  BY DEF StreamOk, IsSeq
<1> QED
  BY <1>1 DEF StreamOk

\* A reader's view of a message, by its decoder.
LEMMA FramedOutcome ==
  ASSUME NEW m
  PROVE  /\ Decoder = "request" =>
              Outcome(m) = IF RequestError(m) # "none" THEN Error(RequestError(m))
                           ELSE [status |-> "complete", head |-> OfHead(m)]
         /\ Decoder = "response" /\ ~Encoded("response", m) =>
              Outcome(m) = IF ResponseError(m) # "none" THEN Error(ResponseError(m))
                           ELSE [status |-> "complete", head |-> OfHead(m)]
         /\ Decoder = "response" /\ Encoded("response", m) =>
              Outcome(m) = IF ReplyError(m) # "none" THEN Error(ReplyError(m))
                           ELSE [status |-> "complete",
                                 head |-> [length |-> Len(m.body), keepAlive |-> m.keepAlive]]
<1>1. Decoder = "request" => ~Encoded(Decoder, m)
  BY DEF Encoded
<1>2. Decoder = "response" => (Encoded(Decoder, m) <=> Encoded("response", m))
  OBVIOUS
<1> QED
  BY <1>1, <1>2 DEF Outcome

LEMMA CodecOutcome ==
  ASSUME NEW m
  PROVE  /\ Decoder = "rpc" =>
              Outcome(m) = IF Len(m.payload) > KMaxMessageLength THEN Error("decode")
                           ELSE [status |-> "complete", head |-> m]
         /\ Decoder = "http" =>
              Outcome(m) = IF Len(m.start.words) < 3 \/ m.start.words[2] = <<>>
                           THEN Error("decode")
                           ELSE [status |-> "complete",
                                 head |-> [method |-> m.start.words[1], path |-> m.start.words[2],
                                           keepAlive |-> Keeps(m.headers), body |-> m.body]]
         /\ Decoder = "service" =>
              Outcome(m) = IF Len(m.start.words) < 3 THEN Incomplete
                           ELSE [status |-> "complete",
                                 head |-> [method |-> m.start.words[1], path |-> m.start.words[2],
                                           keepAlive |-> Keeps(m.headers), body |-> m.body]]
<1>1. Decoder \in {"rpc", "http", "service"} => ~Encoded(Decoder, m)
  BY DEF Encoded
<1> QED
  BY <1>1 DEF Outcome

LEMMA RequestFinds ==
  ASSUME JobInv, Decoder = "request", Limits.header \in Nat,
         NEW k \in 0..Count(job), k < Count(job), NEW e \in Off(job, k)..Len(stream),
         NEW bytes, BehindIs(job, stream, k, e, bytes)
  PROVE  Finds(ParseRequestHead(bytes, Limits), k, e = Len(stream))
<1> DEFINE m == Messages[k + 1]
           hs == HeadersOf("request", m)
           start == StartOf("request", m)
           n == Len(hs)
           l == Len(m.body)
           r == ParseRequestHead(bytes, Limits)
           error == RequestError(m)
           length == OfHead(m).length
           keep == OfHead(m).keepAlive
<1>1. /\ JobOk(job) /\ StreamIs(job, stream) /\ job.decoder = "request"
      /\ Count(job) \in Nat /\ k \in Nat /\ k + 1 \in 1..Count(job)
  BY JobIs, SMTT(30) DEF Decoder, StreamIs
<1>2. /\ MessageOk("request", m) /\ n \in Nat /\ l \in Nat
      /\ MessagePart(bytes, start, hs, m.body)
      /\ e = Len(stream) => Len(bytes) >= 3 * n + 5 + l
      /\ Off(job, k + 1) = Off(job, k) + 3 * n + 5 + l
  BY <1>1, MessageBehind DEF Messages
<1>3. ~Encoded("request", m) /\ hs = m.headers /\ start = m.start
  BY DEF Encoded, HeadersOf, StartOf
<1>4. /\ l <= length /\ (k + 1 < Count(job) => l = length)
  <2>1. StreamOk("request", job.messages) /\ k + 1 \in 1..Len(job.messages)
        /\ m = job.messages[k + 1]
    BY <1>1 DEF JobOk, Count, Messages
  <2> HIDE DEF m
  <2>2. /\ Len(m.body) <= OfHead(m).length
        /\ k + 1 < Len(job.messages) => Len(m.body) = OfHead(m).length
    BY <1>3, <2>1, BodyLengths
  <2> QED
    BY <2>2 DEF Count
<1>5. /\ start.is = "start" /\ IsSeq(hs)
      /\ \A i \in 1..n : hs[i].is \in {"header", "malformed"} /\ HeaderOk(hs[i])
  BY <1>2, MessageShape DEF Decoders
<1>6. PICK C : (\A b \in C : HeaderOk(b)) /\ start \in C /\ hs \in Seq(C)
  <2> HIDE DEF hs, start
  <2> QED
    BY <1>5, HeadSet
<1>7. /\ IsSeq(m.start.words) /\ (Len(m.start.words) >= 2 => IsSeq(m.start.words[2]))
  BY <1>2, <1>3 DEF MessageOk
<1>8. Len(m.start.words) \in Nat
  BY <1>7 DEF IsSeq
<1>9. bytes \in Seq(ByteSet(job)) /\ Len(bytes) \in Nat /\ Off(job, k) \in Nat
  BY DEF BehindIs
<1>10. HeadPart(bytes, m.start, m.headers, Len(m.headers))
  BY <1>2, <1>3 DEF MessagePart
<1>11. SaysOf(r, error, bytes, m.headers) /\ (r.status = "complete" => r.head.path = m.start.words[2])
  <2> HIDE DEF m
  <2>1. m.start \in C /\ m.headers \in Seq(C)
    BY <1>3, <1>6
  <2> QED
    BY <1>6, <1>7, <1>8, <1>9, <1>10, <2>1, RequestRead
<1>12. r.status = "complete" => r.head.length \in Nat
  <2>1. \A b \in ByteSet(job) : HeaderOk(b)
    BY <1>1 DEF StreamIs
  <2>2. ResultOk(r, bytes, TRUE)
    BY <1>9, <2>1, RequestHeadIs
  <2> QED
    BY <2>2 DEF ResultOk
<1>13. Outcome(m) = IF error # "none" THEN Error(error)
                    ELSE [status |-> "complete", head |-> [length |-> length, keepAlive |-> keep]]
  <2>1. OfHead(m) = [length |-> length, keepAlive |-> keep]
    BY DEF OfHead
  <2> QED
    BY <2>1, FramedOutcome
<1>14. /\ length = (IF Length(hs) = Absent THEN 0 ELSE Length(hs)) /\ keep = Keeps(hs)
  BY <1>3 DEF OfHead
<1>15. Framer /\ m = Messages[k + 1] /\ n = Len(hs) /\ hs = m.headers
  BY <1>3 DEF Framer
<1> HIDE DEF m, hs, n, l, r, error, length, keep, start
<1> QED
  <2>1. SaysOf(r, error, bytes, hs) /\ (e = Len(stream) => Len(bytes) >= 3 * n + 5 + l)
    BY <1>2, <1>11, <1>15
  <2>2. Off(job, k) \in Nat /\ Off(job, k + 1) = Off(job, k) + 3 * n + 5 + l
    BY <1>2, <1>9
  <2>3. r.status = "complete" /\ Decoder = "request" => r.head.path = m.start.words[2]
    BY <1>11
  <2>4. n \in Nat /\ l \in Nat /\ Len(bytes) \in Nat /\ k \in Nat
    BY <1>1, <1>2, <1>9
  <2> DEFINE whole == e = Len(stream)
  <2>5. whole => Len(bytes) >= 3 * n + 5 + l
    BY <2>1
  <2> HIDE DEF whole
  <2>6. FramedPart(r, k, bytes, hs, l, error, length, keep, whole)
    BY <1>1, <1>4, <1>12, <1>13, <1>14, <1>15, <2>1, <2>2, <2>3, <2>4, <2>5 DEF FramedPart, m, n
  <2>7. Finds(r, k, whole)
    BY <1>15, <2>6, FramedFinds
  <2> QED
    BY <2>7 DEF whole, r

LEMMA ResponseFinds ==
  ASSUME JobInv, Decoder = "response", Limits.header \in Nat,
         NEW k \in 0..Count(job), k < Count(job), NEW e \in Off(job, k)..Len(stream),
         NEW bytes, BehindIs(job, stream, k, e, bytes)
  PROVE  Finds(ParseResponseHead(bytes, Limits), k, e = Len(stream))
<1> DEFINE m == Messages[k + 1]
           hs == HeadersOf("response", m)
           start == StartOf("response", m)
           n == Len(hs)
           l == Len(m.body)
           r == ParseResponseHead(bytes, Limits)
           encoded == Encoded("response", m)
           m0 == [start |-> start, headers |-> hs]
           error == ResponseError(m0)
           length == IF encoded THEN l ELSE OfHead(m).length
           keep == IF encoded THEN m.keepAlive ELSE OfHead(m).keepAlive
           whole == e = Len(stream)
<1>1. /\ JobOk(job) /\ StreamIs(job, stream) /\ job.decoder = "response"
      /\ Count(job) \in Nat /\ k \in Nat /\ k + 1 \in 1..Count(job)
  BY JobIs DEF Decoder, StreamIs
<1>2. /\ MessageOk("response", m) /\ n \in Nat /\ l \in Nat
      /\ MessagePart(bytes, start, hs, m.body)
      /\ e = Len(stream) => Len(bytes) >= 3 * n + 5 + l
      /\ Off(job, k + 1) = Off(job, k) + 3 * n + 5 + l
  BY <1>1, MessageBehind DEF Messages
<1>3. ~encoded => hs = m.headers /\ start = m.start
  BY DEF HeadersOf, StartOf
<1>4. l <= length /\ (k + 1 < Count(job) => l = length)
  <2>1. StreamOk("response", job.messages) /\ k + 1 \in 1..Len(job.messages)
        /\ m = job.messages[k + 1]
    BY <1>1 DEF JobOk, Count, Messages
  <2> HIDE DEF m
  <2>2. ~encoded => /\ Len(m.body) <= OfHead(m).length
                    /\ k + 1 < Len(job.messages) => Len(m.body) = OfHead(m).length
    BY <2>1, BodyLengths
  <2>3. CASE encoded
    <3>1. length = l
      BY <2>3
    <3> HIDE DEF l, length, encoded
    <3> QED
      BY <1>2, <3>1
  <2>4. CASE ~encoded
    <3>1. length = OfHead(m).length
      BY <2>4
    <3> HIDE DEF length, encoded
    <3> QED
      BY <2>2, <2>4, <3>1 DEF Count
  <2> QED
    BY <2>3, <2>4
<1>5. /\ start.is = "start" /\ IsSeq(hs)
      /\ \A i \in 1..n : hs[i].is \in {"header", "malformed"} /\ HeaderOk(hs[i])
  BY <1>2, MessageShape DEF Decoders
<1>6. PICK C : (\A b \in C : HeaderOk(b)) /\ start \in C /\ hs \in Seq(C)
  <2> HIDE DEF hs, start
  <2> QED
    BY <1>5, HeadSet
<1>7. /\ Len(start.words) \in Nat /\ (Len(start.words) >= 2 => IsSeq(start.words[2]))
  <2>1. CASE encoded
    <3>1. IsSeq(m.digits)
      BY <1>2, <2>1 DEF MessageOk
    <3>2. start.words = <<"HTTP/1.1", m.digits, "reason">>
      BY <2>1 DEF StartOf
    <3> HIDE DEF start, m
    <3> QED
      BY <3>1, <3>2
  <2>2. CASE ~encoded
    <3>1. IsSeq(m.start.words) /\ (Len(m.start.words) >= 2 => IsSeq(m.start.words[2]))
      BY <1>2, <2>2 DEF MessageOk
    <3>2. Len(m.start.words) \in Nat
      BY <3>1 DEF IsSeq
    <3> HIDE DEF start, m, encoded, hs
    <3> QED
      BY <1>3, <2>2, <3>1, <3>2
  <2> QED
    BY <2>1, <2>2
<1>8. bytes \in Seq(ByteSet(job)) /\ Len(bytes) \in Nat /\ Off(job, k) \in Nat
  BY DEF BehindIs
<1>9. HeadPart(bytes, start, hs, n)
  BY <1>2 DEF MessagePart
<1>10. SaysOf(r, error, bytes, hs)
  <2> HIDE DEF start, hs
  <2>1. m0.start = start /\ m0.headers = hs
    OBVIOUS
  <2> HIDE DEF m0
  <2>2. SaysOf(ParseResponseHead(bytes, Limits), ResponseError(m0), bytes, m0.headers)
    BY <1>6, <1>7, <1>8, <1>9, <2>1, ResponseRead
  <2> QED
    BY <2>1, <2>2
<1>11. r.status = "complete" => r.head.length \in Nat
  <2>1. \A b \in ByteSet(job) : HeaderOk(b)
    BY <1>1 DEF StreamIs
  <2>2. ResultOk(r, bytes, TRUE)
    BY <1>8, <2>1, ResponseHeadIs
  <2> QED
    BY <2>2 DEF ResultOk
<1>12. encoded => error = ReplyError(m) /\ Length(hs) = l /\ Keeps(hs) = m.keepAlive
  <2> SUFFICES ASSUME encoded PROVE error = ReplyError(m) /\ Length(hs) = l /\ Keeps(hs) = m.keepAlive
    OBVIOUS
  <2>1. m0.headers = hs
    OBVIOUS
  <2>2. m0 = [start |-> StartOf("response", m), headers |-> HeadersOf("response", m)]
    OBVIOUS
  <2> HIDE DEF m0, m
  <2>3. /\ Length(m0.headers) = Len(m.body) /\ Keeps(m0.headers) = m.keepAlive
        /\ ResponseError(m0) = ReplyError(m)
    BY <1>2, <2>2, EncodedHead
  <2> QED
    BY <2>1, <2>3
<1>13. ~encoded => error = ResponseError(m)
  <2> SUFFICES ASSUME ~encoded PROVE error = ResponseError(m)
    OBVIOUS
  <2>1. m0.start = m.start /\ m0.headers = m.headers
    BY <1>3
  <2> HIDE DEF m0, m
  <2> QED
    BY <2>1 DEF ResponseError, HeadError
<1>14. Outcome(m) = IF error # "none" THEN Error(error)
                    ELSE [status |-> "complete", head |-> [length |-> length, keepAlive |-> keep]]
  <2>1. OfHead(m) = [length |-> OfHead(m).length, keepAlive |-> OfHead(m).keepAlive]
    BY DEF OfHead
  <2> HIDE DEF m, error, l
  <2>2. CASE encoded
    <3>1. length = l /\ keep = m.keepAlive
      BY <2>2
    <3> HIDE DEF length, keep
    <3> QED
      BY <1>12, <2>2, <3>1, FramedOutcome DEF l
  <2>3. CASE ~encoded
    <3>1. length = OfHead(m).length /\ keep = OfHead(m).keepAlive
      BY <2>3
    <3> HIDE DEF length, keep
    <3> QED
      BY <1>13, <2>1, <2>3, <3>1, FramedOutcome
  <2> QED
    BY <2>2, <2>3
<1>15. length = (IF Length(hs) = Absent THEN 0 ELSE Length(hs)) /\ keep = Keeps(hs)
  <2>1. l # Absent
    <3> HIDE DEF l
    <3> QED
      BY <1>2 DEF Absent
  <2>2. CASE encoded
    <3>1. length = l /\ keep = m.keepAlive
      BY <2>2
    <3> HIDE DEF length, keep, l, hs
    <3> QED
      BY <1>12, <2>1, <2>2, <3>1
  <2>3. CASE ~encoded
    <3>1. /\ length = (IF Length(m.headers) = Absent THEN 0 ELSE Length(m.headers))
          /\ keep = Keeps(m.headers)
      BY <2>3 DEF OfHead
    <3> HIDE DEF length, keep, hs, m
    <3> QED
      BY <1>3, <2>3, <3>1
  <2> QED
    BY <2>2, <2>3
<1>16. Framer /\ m = Messages[k + 1] /\ n = Len(hs) /\ (whole => Len(bytes) >= 3 * n + 5 + l)
       /\ Decoder # "request"
  BY <1>2 DEF Framer
<1> HIDE DEF m, hs, n, l, r, error, length, keep, start, encoded, whole
<1>17. FramedPart(r, k, bytes, hs, l, error, length, keep, whole)
  BY <1>1, <1>2, <1>4, <1>8, <1>10, <1>11, <1>14, <1>15, <1>16 DEF FramedPart, m, n
<1>18. Finds(r, k, whole)
  BY <1>16, <1>17, FramedFinds
<1> QED
  BY <1>18 DEF whole, r

\* A message that a codec reads, and what it makes of the bytes of it.
CodecPart(r, bytes, m, isRequest, other) ==
  LET n == Len(m.headers)
      l == Len(m.body)
  IN /\ n \in Nat /\ l \in Nat /\ Len(bytes) \in Nat /\ Len(m.start.words) \in Nat
     /\ m.start.is = "start"
     /\ Len(bytes) >= 3 * n + 5 => FirstLine(bytes) = <<m.start>>
     /\ r = IF Len(bytes) < 3 * n + 5 THEN Incomplete
            ELSE IF ~isRequest THEN other
            ELSE IF Len(bytes) < 3 * n + 5 + l THEN Incomplete
            ELSE Complete([method |-> m.start.words[1], path |-> m.start.words[2],
                           keepAlive |-> Keeps(m.headers), body |-> m.body],
                          3 * n + 5 + l)

CodecPlace(bytes, k, m, whole) ==
  LET n == Len(m.headers)
      l == Len(m.body)
  IN /\ Off(job, k) \in Nat /\ Off(job, k + 1) = Off(job, k) + 3 * n + 5 + l
     /\ whole => Len(bytes) >= 3 * n + 5 + l

LEMMA CodecReads ==
  ASSUME JobInv, Decoder \in {"http", "service"}, Titled,
         NEW k \in 0..Count(job), k < Count(job), NEW e \in Off(job, k)..Len(stream),
         NEW bytes, BehindIs(job, stream, k, e, bytes), NEW m, m = Messages[k + 1],
         NEW isRequest, NEW other
  PROVE  /\ CodecPart(DecodeRequest(bytes, isRequest, other), bytes, m, isRequest, other)
         /\ CodecPlace(bytes, k, m, e = Len(stream))
<1> DEFINE d == job.decoder
           hs == m.headers
           start == m.start
           n == Len(hs)
           l == Len(m.body)
           r == DecodeRequest(bytes, isRequest, other)
<1>1. /\ JobOk(job) /\ StreamIs(job, stream) /\ d \in {"http", "service"}
      /\ Count(job) \in Nat /\ k \in Nat /\ k + 1 \in 1..Count(job)
      /\ m = job.messages[k + 1]
  BY JobIs DEF Decoder, StreamIs, Messages
<1> HIDE DEF d
<1>2. ~Encoded(d, m) /\ HeadersOf(d, m) = hs /\ StartOf(d, m) = start
  BY <1>1 DEF Encoded, HeadersOf, StartOf
<1>3. /\ MessageOk(d, m) /\ n \in Nat /\ l \in Nat
      /\ MessagePart(bytes, start, hs, m.body)
      /\ e = Len(stream) => Len(bytes) >= 3 * n + 5 + l
      /\ Off(job, k + 1) = Off(job, k) + 3 * n + 5 + l
  <2>1. job.decoder = d /\ d # "rpc"
    BY <1>1 DEF d
  <2> QED
    BY <1>1, <1>2, <2>1, MessageBehind
<1>4. /\ Len(m.body) = OfHead(m).length
      /\ AtMostOne(m.headers, {"content-length"}) /\ AtMostOne(m.headers, ConnectionNames)
  <2>1. StreamOk(d, job.messages) /\ k + 1 \in 1..Len(job.messages)
    BY <1>1 DEF JobOk, Count, d
  <2>2. d # "rpc" /\ d \in {"http", "service"}
    BY <1>1
  <2> QED
    BY <1>1, <1>2, <2>1, <2>2, BodyLengths
<1>5. \A i \in 1..Len(m.headers) : m.headers[i].style = "title"
  <2>1. IsSeq(m.headers)
    BY <1>3 DEF MessagePart
  <2>2. DOMAIN m.headers = 1..Len(m.headers)
    BY <2>1 DEF IsSeq
  <2>3. k + 1 \in DOMAIN Messages
    <3>1. IsSeq(job.messages)
      BY <1>1 DEF JobOk, StreamOk
    <3>2. DOMAIN job.messages = 1..Len(job.messages)
      BY <3>1 DEF IsSeq
    <3> QED
      BY <1>1, <3>2 DEF Messages, Count
  <2>4. m \in Range(Messages)
    BY <2>3 DEF Range
  <2>5. \A h \in Range(m.headers) : h.style = "title"
    BY <2>4 DEF Titled
  <2> QED
    BY <2>2, <2>5 DEF Range
<1>6. bytes \in Seq(ByteSet(job)) /\ Len(bytes) \in Nat /\ Off(job, k) \in Nat
  BY DEF BehindIs
<1>7. DecodesTo(r, bytes, m, isRequest, other)
  BY <1>3, <1>4, <1>5, <1>6, RequestDecoded
<1>8. Len(bytes) >= 3 * n + 5 => FirstLine(bytes) = <<start>>
  <2> SUFFICES ASSUME Len(bytes) >= 3 * n + 5 PROVE FirstLine(bytes) = <<start>>
    OBVIOUS
  <2>1. HeadPart(bytes, start, hs, n)
    BY <1>3 DEF MessagePart
  <2>2. FindHeaderBytes(bytes) = 3 * n + 5
    BY <1>6, <2>1, HeadSize
  <2>3. Lines(SubSeq(bytes, 1, 3 * n + 5)) = HeadLines(start, hs, n)
    BY <1>6, <2>1, HeadLinesFound
  <2>4. HeadLines(start, hs, n)[1] = <<start>>
    <3> HIDE DEF n
    <3> QED
      BY <1>3 DEF HeadLines
  <2> QED
    BY <2>2, <2>3, <2>4 DEF FirstLine
<1>9. start.is = "start" /\ Len(start.words) \in Nat
  BY <1>1, <1>2, <1>3 DEF MessageOk, IsSeq
<1>10. CodecPart(r, bytes, m, isRequest, other)
  BY <1>3, <1>6, <1>7, <1>8, <1>9 DEF CodecPart, DecodesTo
<1>11. CodecPlace(bytes, k, m, e = Len(stream))
  BY <1>3, <1>6 DEF CodecPlace
<1> QED
  BY <1>10, <1>11

LEMMA HttpFinds ==
  ASSUME JobInv, Decoder = "http", Titled,
         NEW k \in 0..Count(job), k < Count(job), NEW e \in Off(job, k)..Len(stream),
         NEW bytes, BehindIs(job, stream, k, e, bytes)
  PROVE  Finds(HttpDecode(bytes), k, e = Len(stream))
<1> DEFINE m == Messages[k + 1]
           words == m.start.words
           isRequest == ParseRequestLine(FirstLine(bytes))
           r == HttpDecode(bytes)
           size == 3 * Len(m.headers) + 5
           l == Len(m.body)
           head == [method |-> words[1], path |-> words[2],
                    keepAlive |-> Keeps(m.headers), body |-> m.body]
           whole == e = Len(stream)
<1>1. CodecPart(r, bytes, m, isRequest, DecodeError) /\ CodecPlace(bytes, k, m, whole)
  <2> HIDE DEF m, isRequest
  <2>1. r = DecodeRequest(bytes, isRequest, DecodeError)
    BY DEF HttpDecode, isRequest
  <2> QED
    BY <2>1, CodecReads DEF m
<1>2. /\ size \in Nat /\ l \in Nat /\ Len(bytes) \in Nat /\ m.start.is = "start"
      /\ Len(words) \in Nat
      /\ Len(bytes) >= size => FirstLine(bytes) = <<m.start>>
      /\ r = IF Len(bytes) < size THEN Incomplete
             ELSE IF ~isRequest THEN DecodeError
             ELSE IF Len(bytes) < size + l THEN Incomplete
             ELSE Complete(head, size + l)
  BY <1>1 DEF CodecPart
<1>3. /\ Off(job, k) \in Nat /\ Off(job, k + 1) = Off(job, k) + size + l
      /\ whole => Len(bytes) >= size + l
  <2>1. /\ Off(job, k) \in Nat /\ Off(job, k + 1) = Off(job, k) + 3 * Len(m.headers) + 5 + l
        /\ whole => Len(bytes) >= size + l /\ Len(m.headers) \in Nat
    BY <1>1 DEF CodecPlace, CodecPart
  <2>2. Len(m.headers) \in Nat
    BY <1>1 DEF CodecPart
  <2> HIDE DEF l, m
  <2> QED
    BY <1>2, <2>1, <2>2, SMTT(30)
<1>4. Len(bytes) >= size => (isRequest <=> ~(Len(words) < 3 \/ words[2] = <<>>))
  <2> SUFFICES ASSUME Len(bytes) >= size
               PROVE  isRequest <=> ~(Len(words) < 3 \/ words[2] = <<>>)
    OBVIOUS
  <2>1. FirstLine(bytes) = <<m.start>>
    BY <1>2
  <2> DEFINE line == <<m.start>>
  <2>2. Len(line) = 1 /\ line[1] = m.start
    OBVIOUS
  <2> HIDE DEF line
  <2>3. ParseRequestLine(line) <=> Len(words) >= 3 /\ words[2] # <<>>
    BY <1>2, <2>2 DEF ParseRequestLine
  <2> QED
    BY <1>2, <2>1, <2>3, SMTT(30) DEF line
<1>5. Outcome(m) = IF Len(words) < 3 \/ words[2] = <<>> THEN Error("decode")
                   ELSE [status |-> "complete", head |-> head]
  BY CodecOutcome
<1>6. Framer = FALSE /\ Decoder # "request" /\ m = Messages[k + 1]
  BY DEF Framer
<1> HIDE DEF m, words, isRequest, r, size, l, head, whole
<1>7. CASE Len(bytes) < size \/ (isRequest /\ Len(bytes) < size + l)
  <2>1. r = Incomplete
    BY <1>2, <1>7
  <2>2. ~whole
    BY <1>2, <1>3, <1>7
  <2> QED
    BY <2>1, <2>2 DEF Finds, Incomplete, r, whole
<1>8. CASE ~(Len(bytes) < size) /\ ~isRequest
  <2>1. r = DecodeError
    BY <1>2, <1>8
  <2>2. Outcome(m) = Error("decode")
    BY <1>2, <1>4, <1>5, <1>8
  <2>3. Seen(r) = Error("decode") /\ r.status = "error"
    BY <2>1 DEF Seen, DecodeError
  <2> QED
    BY <1>6, <2>2, <2>3 DEF Finds, r, whole
<1>9. CASE ~(Len(bytes) < size + l) /\ isRequest
  <2>1. r = Complete(head, size + l)
    BY <1>2, <1>9
  <2>2. Outcome(m) = [status |-> "complete", head |-> head]
    BY <1>2, <1>4, <1>5, <1>9
  <2>3. Seen(r) = [status |-> "complete", head |-> head] /\ r.status = "complete"
        /\ r.used = size + l
    BY <1>6, <2>1 DEF Seen, Complete
  <2>4. Past(r, k) = Off(job, k + 1)
    <3>1. Past(r, k) = Off(job, k) + (size + l) + 0
      BY <1>6, <2>3 DEF Past
    <3> QED
      BY <1>2, <1>3, <3>1
  <2>5. Past(r, k) >= Off(job, k + 1)
    BY <1>2, <1>3, <2>4
  <2> QED
    BY <1>6, <2>2, <2>3, <2>4, <2>5 DEF Finds, r, whole
<1> QED
  BY <1>2, <1>7, <1>8, <1>9

LEMMA ServiceFinds ==
  ASSUME JobInv, Decoder = "service", Titled,
         NEW k \in 0..Count(job), k < Count(job), NEW e \in Off(job, k)..Len(stream),
         NEW bytes, BehindIs(job, stream, k, e, bytes)
  PROVE  Finds(ServiceParse(bytes), k, e = Len(stream))
<1> DEFINE m == Messages[k + 1]
           words == m.start.words
           line == FirstLine(bytes)
           isRequest == Len(line) = 1 /\ line[1].is = "start" /\ Len(line[1].words) >= 3
           r == ServiceParse(bytes)
           size == 3 * Len(m.headers) + 5
           l == Len(m.body)
           head == [method |-> words[1], path |-> words[2],
                    keepAlive |-> Keeps(m.headers), body |-> m.body]
           whole == e = Len(stream)
<1>1. CodecPart(r, bytes, m, isRequest, Incomplete) /\ CodecPlace(bytes, k, m, whole)
  <2>1. r = DecodeRequest(bytes, isRequest, Incomplete)
    BY DEF ServiceParse
  <2> HIDE DEF m, isRequest
  <2> QED
    BY <2>1, CodecReads DEF m
<1>2. /\ size \in Nat /\ l \in Nat /\ Len(bytes) \in Nat /\ m.start.is = "start"
      /\ Len(words) \in Nat
      /\ Len(bytes) >= size => line = <<m.start>>
      /\ r = IF Len(bytes) < size THEN Incomplete
             ELSE IF ~isRequest THEN Incomplete
             ELSE IF Len(bytes) < size + l THEN Incomplete
             ELSE Complete(head, size + l)
  <2> HIDE DEF isRequest
  <2> QED
    BY <1>1 DEF CodecPart
<1>3. /\ Off(job, k) \in Nat /\ Off(job, k + 1) = Off(job, k) + size + l
      /\ whole => Len(bytes) >= size + l
  <2>1. /\ Off(job, k) \in Nat /\ Off(job, k + 1) = Off(job, k) + 3 * Len(m.headers) + 5 + l
        /\ whole => Len(bytes) >= size + l /\ Len(m.headers) \in Nat
    BY <1>1 DEF CodecPlace, CodecPart
  <2>2. Len(m.headers) \in Nat
    BY <1>1 DEF CodecPart
  <2> HIDE DEF l, m
  <2> QED
    BY <1>2, <2>1, <2>2, SMTT(30)
<1>4. Len(bytes) >= size => (isRequest <=> ~(Len(words) < 3))
  <2> SUFFICES ASSUME Len(bytes) >= size
               PROVE  isRequest <=> ~(Len(words) < 3)
    OBVIOUS
  <2>1. line = <<m.start>>
    BY <1>2
  <2>2. Len(line) = 1 /\ line[1] = m.start
    BY <2>1
  <2> HIDE DEF line, m
  <2> QED
    BY <1>2, <2>2
<1>5. Outcome(m) = IF Len(words) < 3 THEN Incomplete
                   ELSE [status |-> "complete", head |-> head]
  BY CodecOutcome
<1>6. Framer = FALSE /\ Decoder # "request" /\ m = Messages[k + 1]
  BY DEF Framer
<1> HIDE DEF m, words, isRequest, r, size, l, head, whole
<1>7. CASE Len(bytes) < size \/ (isRequest /\ Len(bytes) < size + l)
  <2>1. r = Incomplete
    BY <1>2, <1>7
  <2>2. ~whole
    BY <1>2, <1>3, <1>7
  <2> QED
    BY <2>1, <2>2 DEF Finds, Incomplete, r, whole
<1>8. CASE ~(Len(bytes) < size) /\ ~isRequest
  <2>1. r = Incomplete
    BY <1>2, <1>8
  <2>2. Outcome(m) = Incomplete
    BY <1>2, <1>4, <1>5, <1>8
  <2> QED
    BY <1>6, <2>1, <2>2 DEF Finds, Incomplete, r, whole
<1>9. CASE ~(Len(bytes) < size + l) /\ isRequest
  <2>1. r = Complete(head, size + l)
    BY <1>2, <1>9
  <2>2. Outcome(m) = [status |-> "complete", head |-> head]
    BY <1>2, <1>4, <1>5, <1>9
  <2>3. Seen(r) = [status |-> "complete", head |-> head] /\ r.status = "complete"
        /\ r.used = size + l
    BY <1>6, <2>1 DEF Seen, Complete
  <2>4. Past(r, k) = Off(job, k + 1)
    <3>1. Past(r, k) = Off(job, k) + (size + l) + 0
      BY <1>6, <2>3 DEF Past
    <3> QED
      BY <1>2, <1>3, <3>1
  <2>5. Past(r, k) >= Off(job, k + 1)
    BY <1>2, <1>3, <2>4
  <2> QED
    BY <1>6, <2>2, <2>3, <2>4, <2>5 DEF Finds, r, whole
<1> QED
  BY <1>2, <1>7, <1>8, <1>9

LEMMA RpcFinds ==
  ASSUME JobInv, Decoder = "rpc",
         NEW k \in 0..Count(job), NEW e \in Off(job, k)..Len(stream),
         NEW bytes, bytes = SubSeq(stream, Off(job, k) + 1, e)
  PROVE  Finds(RpcDecode(bytes), k, e = Len(stream))
<1> DEFINE r == RpcDecode(bytes)
           m == Messages[k + 1]
           q == MessageOf(job, k + 1)
<1>1. /\ JobOk(job) /\ job.decoder = "rpc" /\ stream = Sent(job) /\ StreamIs(job, stream)
      /\ Count(job) \in Nat /\ k \in Nat /\ m = job.messages[k + 1]
  BY JobIs DEF JobInv, Decoder, StreamIs, Messages
<1> HIDE DEF m
<1>2. /\ ResultOk(r, bytes, FALSE)
      /\ r.status = "complete" =>
           /\ k < Count(job) /\ r.used = Len(q)
           /\ ~(Len(m.payload) > KMaxMessageLength) /\ r.head = m
      /\ r.status = "error" =>
           k < Count(job) /\ Len(m.payload) > KMaxMessageLength /\ r.error = "decode"
      /\ r.status = "needMore" /\ e = Len(stream) => k = Count(job)
  BY <1>1, RpcDecodeIs, ZenonT(40)
<1>3. Framer = FALSE /\ Decoder # "request" /\ m = Messages[k + 1]
  BY DEF Framer, m
<1>4. Outcome(m) = IF Len(m.payload) > KMaxMessageLength THEN Error("decode")
                   ELSE [status |-> "complete", head |-> m]
  BY CodecOutcome
<1>5. k < Count(job) => Off(job, k + 1) = Off(job, k) + Len(q) /\ Len(q) \in Nat
                        /\ Off(job, k) \in Nat /\ Off(job, k + 1) \in Nat
  <2> HAVE k < Count(job)
  <2>1. k + 1 \in 1..Count(job) /\ (k + 1) - 1 = k /\ k \in 0..Count(job)
        /\ k + 1 \in 0..Count(job)
    BY <1>1
  <2> QED
    BY <1>1, <2>1 DEF StreamIs
<1> HIDE DEF r, q
<1>6. r.status = "complete" => Seen(r) = Outcome(m) /\ Past(r, k) = Off(job, k + 1)
  <2> HAVE r.status = "complete"
  <2>1. Seen(r) = [status |-> "complete", head |-> m]
    BY <1>2, <1>3 DEF Seen
  <2>2. Past(r, k) = Off(job, k) + Len(q) + 0
    BY <1>2, <1>3 DEF Past
  <2> QED
    BY <1>2, <1>4, <1>5, <2>1, <2>2
<1>7. r.status = "error" => Seen(r) = Outcome(m)
  BY <1>2, <1>4 DEF Seen
<1> QED
  BY <1>2, <1>3, <1>5, <1>6, <1>7 DEF Finds, ResultOk, r

LEMMA DecodedFinds ==
  ASSUME JobInv, ConfigInv, config # <<>>, Decoder \in {"http", "service"} => Titled,
         NEW k \in 0..Count(job), NEW e \in Off(job, k)..Len(stream),
         NEW bytes, bytes = SubSeq(stream, Off(job, k) + 1, e)
  PROVE  Finds(Decoded(bytes), k, e = Len(stream))
<1>1. /\ JobOk(job) /\ StreamIs(job, stream) /\ Decoder \in Decoders
      /\ Count(job) \in Nat /\ k \in Nat
  BY JobIs DEF Decoder, StreamIs
<1>2. BehindIs(job, stream, k, e, bytes)
  BY <1>1, Behind
<1>3. Limits.header \in Nat /\ Limits.header > 0
  <2>1. ValuesOk(LoadedFile.values) /\ Valid(LoadedFile.values)
        /\ config[1] = From(LoadedFile.values)
    BY ConfigIs
  <2>2. /\ From(LoadedFile.values).settings["header_limit"] \in Nat
        /\ From(LoadedFile.values).settings["header_limit"] > 0
    BY <2>1, SettingsPositive
  <2> QED
    BY <2>1, <2>2 DEF Limits
<1> DEFINE whole == e = Len(stream)
<1>4. CASE Decoder = "rpc"
  <2>1. Decoded(bytes) = RpcDecode(bytes)
    BY <1>4 DEF Decoded
  <2> QED
    BY <1>4, <2>1, RpcFinds, ZenonT(40)
<1>5. CASE Decoder # "rpc" /\ k = Count(job)
  <2>1. bytes \in Seq(ByteSet(job)) /\ Len(bytes) = 0
    BY <1>2, <1>5 DEF BehindIs
  <2> HIDE DEF whole
  <2>2. Finds(Decoded(bytes), k, whole)
    BY <1>1, <1>3, <1>5, <2>1, EmptyFinds
  <2> QED
    BY <2>2 DEF whole
<1>6. CASE Decoder # "rpc" /\ k < Count(job)
  <2>1. CASE Decoder = "request"
    <3>1. Decoded(bytes) = ParseRequestHead(bytes, Limits)
      BY <2>1 DEF Decoded
    <3> QED
      BY <1>2, <1>3, <1>6, <2>1, <3>1, RequestFinds
  <2>2. CASE Decoder = "response"
    <3>1. Decoded(bytes) = ParseResponseHead(bytes, Limits)
      BY <2>2 DEF Decoded
    <3> QED
      BY <1>2, <1>3, <1>6, <2>2, <3>1, ResponseFinds
  <2>3. CASE Decoder = "http"
    <3>1. Decoded(bytes) = HttpDecode(bytes)
      BY <2>3 DEF Decoded
    <3> QED
      BY <1>2, <1>6, <2>3, <3>1, HttpFinds
  <2>4. CASE Decoder = "service"
    <3>1. Decoded(bytes) = ServiceParse(bytes)
      BY <2>4 DEF Decoded
    <3> QED
      BY <1>2, <1>6, <2>4, <3>1, ServiceFinds
  <2> QED
    BY <1>1, <1>6, <2>1, <2>2, <2>3, <2>4 DEF Decoders
<1> QED
  BY <1>1, <1>4, <1>5, <1>6

----------------------------------------------------------------------------
(* Each message is seen once *)

Plain == Decoder \in {"http", "service"} => Titled
SeenAt(i) == Seen(out[i])
OutcomeAt(i) == Outcome(Messages[i])
GoesOnAt(i) == GoesOn(Messages[i])
RoutedAt(i) ==
  \E r \in Range(config[1].routes) : IsPrefix(r.prefix, Messages[i].start.words[2])

\* The messages before the last result were served and let the session go on.
SeenBefore(k) ==
  /\ k \in Nat /\ k <= Count(job)
  /\ \A i \in 1..k : SeenAt(i) = OutcomeAt(i)
  /\ \A i \in 1..(k - 1) : GoesOnAt(i)

\* A reader stands between two messages, or what it has still to pass on of a
\* body takes it there; a closed one has met the message that ends the session.
SeenIn(k) ==
  /\ phase \in {"parse", "read"} => taken = Off(job, k) /\ (k > 0 => GoesOnAt(k))
  /\ phase = "read" => Decoded(Readable(buffer)).status = "needMore"
  /\ phase = "stream" =>
       /\ k > 0 /\ out[k].status = "complete" /\ Decoder # "service"
       /\ taken + body >= Off(job, k)
       /\ taken + body = Off(job, k) \/ k = Count(job)
       /\ Decoder = "request" => RoutedAt(k)
  /\ phase = "send" =>
       /\ k > 0 /\ out[k].status = "complete" /\ Decoder = "service"
       /\ taken + out[k].used = Off(job, k)
  /\ phase = "closed" => k > 0 /\ ~GoesOnAt(k)

SeenInv == config # <<>> /\ Plain => SeenBefore(Len(out)) /\ SeenIn(Len(out))

LEMMA OutcomeKept ==
  ASSUME UNCHANGED <<job, config>>, NEW i
  PROVE  OutcomeAt(i)' = OutcomeAt(i)
<1>1. Decoder' = Decoder /\ Limits' = Limits /\ Messages' = Messages
  BY DEF Decoder, Limits, Messages
<1> QED
  BY <1>1 DEF OutcomeAt, Outcome, RequestError, ResponseError, ReplyError, HeadError

LEMMA GoesOnKept ==
  ASSUME UNCHANGED <<job, config>>, NEW i
  PROVE  (GoesOnAt(i)' <=> GoesOnAt(i)) /\ (RoutedAt(i)' <=> RoutedAt(i))
<1>1. Decoder' = Decoder /\ Messages' = Messages
  BY DEF Decoder, Messages
<1>2. OutcomeAt(i)' = OutcomeAt(i)
  BY OutcomeKept
<1>3. RoutedAt(i)' <=> RoutedAt(i)
  BY <1>1 DEF RoutedAt
<1>4. GoesOnAt(i) <=> /\ OutcomeAt(i).status = "complete"
                      /\ Decoder \in {"request", "response", "service"} => OutcomeAt(i).head.keepAlive
                      /\ Decoder = "request" => RoutedAt(i)
  BY DEF GoesOnAt, GoesOn, OutcomeAt, RoutedAt
<1>5. GoesOnAt(i)' <=> /\ OutcomeAt(i)'.status = "complete"
                       /\ Decoder' \in {"request", "response", "service"} => OutcomeAt(i)'.head.keepAlive
                       /\ Decoder' = "request" => RoutedAt(i)'
  BY DEF GoesOnAt, GoesOn, OutcomeAt, RoutedAt
<1> QED
  BY <1>1, <1>2, <1>3, <1>4, <1>5

LEMMA GoesOnIs ==
  ASSUME NEW i
  PROVE  GoesOnAt(i) <=> /\ OutcomeAt(i).status = "complete"
                         /\ Decoder \in {"request", "response", "service"} =>
                              OutcomeAt(i).head.keepAlive
                         /\ Decoder = "request" => RoutedAt(i)
  BY DEF GoesOnAt, GoesOn, OutcomeAt, RoutedAt

\* What is seen of a result tells whether the session goes on.
LEMMA SeenSays ==
  ASSUME NEW r, NEW i, Seen(r) = OutcomeAt(i)
  PROVE  /\ r.status = "error" => ~GoesOnAt(i)
         /\ r.status = "complete" =>
              (GoesOnAt(i) <=> /\ Decoder \in {"request", "response", "service"} => r.head.keepAlive
                               /\ Decoder = "request" => RoutedAt(i))
<1>1. r.status = "error" => OutcomeAt(i).status = "error"
  BY DEF Seen, Error
<1>2. r.status = "complete" => OutcomeAt(i).status = "complete"
                               /\ (OutcomeAt(i).head.keepAlive = r.head.keepAlive)
  BY DEF Seen
<1> QED
  BY <1>1, <1>2, GoesOnIs

LEMMA SeenKept ==
  ASSUME UNCHANGED <<job, config, out>>, NEW k, SeenBefore(k)
  PROVE  SeenBefore(k)'
<1>1. \A i : SeenAt(i)' = SeenAt(i)
  BY DEF SeenAt, Seen, Framer, Decoder
<1>2. \A i : OutcomeAt(i)' = OutcomeAt(i)
  BY OutcomeKept
<1>3. \A i : GoesOnAt(i)' <=> GoesOnAt(i)
  BY GoesOnKept
<1>4. Count(job)' = Count(job)
  BY DEF Count
<1> QED
  BY <1>1, <1>2, <1>3, <1>4 DEF SeenBefore

LEMMA SeenMore ==
  ASSUME IsSeq(out), NEW k, k = Len(out), SeenBefore(k), k < Count(job), Count(job) \in Nat,
         k > 0 => GoesOnAt(k), NEW r, out' = Append(out, r), Seen(r) = OutcomeAt(k + 1),
         UNCHANGED <<job, config>>
  PROVE  SeenBefore(k + 1)' /\ Len(out') = k + 1 /\ out'[k + 1] = r
<1>1. /\ k \in Nat /\ Len(out') = k + 1 /\ out'[k + 1] = r
      /\ \A i \in 1..k : out'[i] = out[i]
  BY AppendAny
<1>2. \A i : OutcomeAt(i)' = OutcomeAt(i)
  BY OutcomeKept
<1>3. \A i : GoesOnAt(i)' <=> GoesOnAt(i)
  BY GoesOnKept
<1>4. Count(job)' = Count(job)
  BY DEF Count
<1>5. \A i \in 1..k : SeenAt(i)' = SeenAt(i)
  BY <1>1 DEF SeenAt, Seen, Framer, Decoder
<1>6. SeenAt(k + 1)' = Seen(r)
  BY <1>1 DEF SeenAt, Seen, Framer, Decoder
<1>7. \A i \in 1..(k + 1) : SeenAt(i)' = OutcomeAt(i)'
  <2> SUFFICES ASSUME NEW i \in 1..(k + 1) PROVE SeenAt(i)' = OutcomeAt(i)'
    OBVIOUS
  <2>1. CASE i \in 1..k
    BY <1>2, <1>5, <2>1 DEF SeenBefore
  <2>2. CASE i = k + 1
    BY <1>2, <1>6, <2>2
  <2> QED
    BY <1>1, <2>1, <2>2
<1>8. \A i \in 1..((k + 1) - 1) : GoesOnAt(i)'
  <2> SUFFICES ASSUME NEW i \in 1..((k + 1) - 1) PROVE GoesOnAt(i)
    BY <1>3
  <2>1. i \in 1..(k - 1) \/ (i = k /\ k > 0)
    BY <1>1
  <2> QED
    BY <2>1 DEF SeenBefore
<1> QED
  BY <1>1, <1>4, <1>7, <1>8 DEF SeenBefore

\* The window at the start of a message.
LEMMA ParseWindow ==
  ASSUME JobInv, ConfigInv, Window, PickInv, SeenInv, Plain, config # <<>>, phase \in {"parse", "read"}
  PROVE  Finds(Decoded(Readable(buffer)), Len(out), received = Len(stream))
<1> DEFINE k == Len(out)
           bytes == Readable(buffer)
<1>1. SeenBefore(k) /\ taken = Off(job, k)
  BY DEF SeenInv, SeenIn
<1>2. k \in 0..Count(job) /\ Count(job) \in Nat
  <2>1. Count(job) \in Nat
    BY JobIs DEF StreamIs
  <2> HIDE DEF k
  <2> QED
    BY <1>1, <2>1 DEF SeenBefore
<1>3. /\ taken \in Nat /\ received \in Nat /\ taken <= received /\ received <= Len(stream)
      /\ bytes = SubSeq(stream, taken + 1, received) /\ Len(stream) \in Nat
  BY JobIs DEF Window, BufferHolds
<1> HIDE DEF k, bytes
<1>4. received \in Off(job, k)..Len(stream) /\ bytes = SubSeq(stream, Off(job, k) + 1, received)
  BY <1>1, <1>3
<1>5. Finds(Decoded(bytes), k, received = Len(stream))
  BY <1>2, <1>4, DecodedFinds DEF Plain
<1> QED
  BY <1>5 DEF k, bytes

LEMMA SeenInit ==
  ASSUME Init
  PROVE  SeenInv
BY DEF Init, SeenInv

LEMMA SeenLoad ==
  ASSUME JobInv, ConfigInv, PickInv, ByteInv, Load
  PROVE  SeenInv'
<1>1. /\ UNCHANGED <<job, taken, out>> /\ phase = "load"
      /\ phase' = "parse" \/ (phase' = "closed" /\ config' = config)
  BY DEF Load, input
<1>2. config = <<>> /\ out = <<>> /\ taken = 0 /\ Len(out) = 0
  BY <1>1 DEF ConfigInv, ByteInv
<1>3. CASE phase' = "closed" /\ config' = config
  BY <1>2, <1>3 DEF SeenInv
<1>4. CASE phase' = "parse"
  <2>1. Len(out)' = 0 /\ taken' = 0
    BY <1>1, <1>2
  <2>2. SeenBefore(0)'
    <3>1. Count(job)' \in Nat
      BY <1>1, JobIs DEF StreamIs, Count
    <3> QED
      BY <3>1 DEF SeenBefore
  <2>3. SeenIn(0)'
    <3>1. Off(job', 0) = 0
      BY <1>1, JobIs DEF StreamIs
    <3> QED
      BY <1>4, <2>1, <3>1 DEF SeenIn
  <2> QED
    BY <2>1, <2>2, <2>3 DEF SeenInv
<1> QED
  BY <1>1, <1>3, <1>4

\* Where a session stays with its messages.
LEMMA SeenStays ==
  ASSUME SeenInv, config # <<>>, Plain, UNCHANGED <<job, config, out>>,
         SeenIn(Len(out))'
  PROVE  SeenInv'
<1>1. SeenBefore(Len(out))
  BY DEF SeenInv
<1> DEFINE k == Len(out)
<1>2. SeenIn(k)' => SeenIn(Len(out))'
  OBVIOUS
<1>3. ASSUME NEW n, n = Len(out), SeenIn(n)' PROVE SeenInv'
  <2>1. SeenBefore(n)'
    BY <1>1, <1>3, SeenKept
  <2>2. Len(out') = n
    BY <1>3
  <2> QED
    BY <1>3, <2>1, <2>2 DEF SeenInv
<1> QED
  BY <1>3

LEMMA SeenRefuses ==
  ASSUME JobInv, ConfigInv, PickInv, ByteInv, SeenInv, config # <<>>, Plain, Refuses
  PROVE  SeenInv'
<1> DEFINE r == Decoded(Readable(buffer))
<1>1. /\ phase = "parse" /\ r.status = "error" /\ out' = Append(out, r) /\ phase' = "closed"
      /\ UNCHANGED <<job, config>>
  BY DEF Refuses, input
<1> HIDE DEF r
<1>2. PICK k : k = Len(out)
  OBVIOUS
<1>3. SeenBefore(k) /\ (k > 0 => GoesOnAt(k))
  BY <1>1, <1>2 DEF SeenInv, SeenIn
<1>4. k < Count(job) /\ Seen(r) = OutcomeAt(k + 1)
  <2>1. Finds(r, k, received = Len(stream))
    BY <1>1, <1>2, ParseWindow DEF ByteInv, r
  <2> QED
    BY <1>1, <2>1 DEF Finds, OutcomeAt
<1>5. Count(job) \in Nat /\ IsSeq(out) /\ k \in Nat
  BY <1>3, JobIs DEF StreamIs, PickInv, SeenBefore
<1>6. SeenBefore(k + 1)' /\ Len(out') = k + 1
  BY <1>1, <1>2, <1>3, <1>4, <1>5, SeenMore
<1>7. ~GoesOnAt(k + 1)'
  BY <1>1, <1>4, GoesOnKept, SeenSays
<1>8. SeenIn(k + 1)'
  BY <1>1, <1>5, <1>7 DEF SeenIn
<1> QED
  BY <1>6, <1>8 DEF SeenInv

LEMMA SeenCompletes ==
  ASSUME JobInv, ConfigInv, PickInv, ByteInv, SeenInv, config # <<>>, Plain, Completes
  PROVE  SeenInv'
<1> DEFINE r == Decoded(Readable(buffer))
<1>1. /\ phase = "parse" /\ Decoder # "service" /\ r.status = "complete"
      /\ out' = Append(out, r) /\ taken' = taken + r.used
      /\ body' = (IF Framer THEN r.head.length ELSE 0)
      /\ UNCHANGED <<job, config>>
      /\ IF Decoder = "request" THEN Routed(r.head) ELSE phase' = "stream"
  BY DEF Completes, input
<1>2. r.used \in Nat /\ (Framer => r.head.length \in Nat)
  <2>1. ResultOk(r, Readable(buffer), Framer)
    BY <1>1, DecodedIs
  <2> QED
    BY <1>1, <2>1 DEF ResultOk
<1> HIDE DEF r
<1>3. PICK k : k = Len(out)
  OBVIOUS
<1>4. SeenBefore(k) /\ (k > 0 => GoesOnAt(k)) /\ taken = Off(job, k)
  BY <1>1, <1>3 DEF SeenInv, SeenIn
<1>5. Finds(r, k, received = Len(stream))
  BY <1>1, <1>3, ParseWindow DEF ByteInv, r
<1>6. /\ k < Count(job) /\ Seen(r) = OutcomeAt(k + 1)
      /\ Past(r, k) >= Off(job, k + 1)
      /\ Past(r, k) = Off(job, k + 1) \/ k + 1 = Count(job)
      /\ Decoder = "request" => r.head.path = Messages[k + 1].start.words[2]
  BY <1>1, <1>5 DEF Finds, OutcomeAt
<1>7. Count(job) \in Nat /\ IsSeq(out) /\ k \in Nat /\ taken \in Nat
  BY <1>4, JobIs DEF StreamIs, PickInv, SeenBefore, ByteInv, Window
<1>8. SeenBefore(k + 1)' /\ Len(out') = k + 1 /\ out'[k + 1] = r
  BY <1>1, <1>3, <1>4, <1>6, <1>7, SeenMore
<1>9. Decoder' = Decoder /\ Off(job, k + 1)' = Off(job, k + 1) /\ Count(job)' = Count(job)
  BY <1>1 DEF Decoder, Count
<1>10. taken' + body' = Past(r, k)
  <2>1. Past(r, k) = taken + r.used + (IF Framer THEN r.head.length ELSE 0)
    BY <1>4 DEF Past
  <2> QED
    BY <1>1, <2>1
<1>11. RoutesOk(config[1].routes)
  BY ConfigIs
<1>12. CASE phase' = "stream" /\ (Decoder = "request" => RoutedAt(k + 1))
  <2>1. Decoder = "request" => RoutedAt(k + 1)'
    BY <1>1, <1>12, GoesOnKept
  <2>2. SeenIn(k + 1)'
    BY <1>1, <1>6, <1>7, <1>8, <1>9, <1>10, <1>12, <2>1 DEF SeenIn
  <2> QED
    BY <1>8, <2>2 DEF SeenInv
<1>13. CASE phase' = "closed" /\ Decoder = "request" /\ ~RoutedAt(k + 1)
  <2>1. ~GoesOnAt(k + 1)'
    BY <1>1, <1>13, GoesOnIs, GoesOnKept
  <2>2. SeenIn(k + 1)'
    BY <1>7, <1>13, <2>1 DEF SeenIn
  <2> QED
    BY <1>8, <2>2 DEF SeenInv
<1>14. Decoder = "request" =>
         \/ phase' = "stream" /\ RoutedAt(k + 1)
         \/ phase' = "closed" /\ ~RoutedAt(k + 1)
  <2> HAVE Decoder = "request"
  <2> DEFINE routes == config[1].routes
             path == r.head.path
             found == Match(routes, path)
             fits == {x \in Range(routes) : IsPrefix(x.prefix, path)}
  <2>1. Routed(r.head)
    BY <1>1
  <2>2. IF found = {} THEN phase' = "closed" ELSE phase' = "stream"
    BY <2>1 DEF Routed
  <2>3. RoutedAt(k + 1) <=> fits # {}
    BY <1>6 DEF RoutedAt
  <2>4. (found = {} => fits = {}) /\ (found # {} => fits # {})
    BY <1>11, MatchIs
  <2> HIDE DEF found, fits
  <2> QED
    BY <2>2, <2>3, <2>4
<1> QED
  BY <1>1, <1>12, <1>13, <1>14

LEMMA SeenAnswers ==
  ASSUME JobInv, ConfigInv, PickInv, ByteInv, SeenInv, config # <<>>, Plain, ServiceAnswers
  PROVE  SeenInv'
<1> DEFINE r == Decoded(Readable(buffer))
<1>1. /\ phase = "parse" /\ Decoder = "service" /\ r.status = "complete"
      /\ out' = Append(out, r) /\ phase' = "send" /\ UNCHANGED <<job, config, taken>>
  BY DEF ServiceAnswers, input
<1> HIDE DEF r
<1>2. PICK k : k = Len(out)
  OBVIOUS
<1>3. SeenBefore(k) /\ (k > 0 => GoesOnAt(k)) /\ taken = Off(job, k)
  BY <1>1, <1>2 DEF SeenInv, SeenIn
<1>4. Finds(r, k, received = Len(stream))
  BY <1>1, <1>2, ParseWindow DEF ByteInv, r
<1>5. ~Framer
  BY <1>1 DEF Framer
<1>6. /\ k < Count(job) /\ Seen(r) = OutcomeAt(k + 1) /\ Past(r, k) = Off(job, k + 1)
  BY <1>1, <1>4, <1>5 DEF Finds, OutcomeAt
<1>7. Count(job) \in Nat /\ IsSeq(out) /\ k \in Nat /\ taken \in Nat
  BY <1>3, JobIs DEF StreamIs, PickInv, SeenBefore, ByteInv, Window
<1>8. SeenBefore(k + 1)' /\ Len(out') = k + 1 /\ out'[k + 1] = r
  BY <1>1, <1>2, <1>3, <1>6, <1>7, SeenMore
<1>9. Decoder' = Decoder /\ Off(job, k + 1)' = Off(job, k + 1)
  BY <1>1 DEF Decoder
<1>10. taken' + r.used = Off(job, k + 1)
  <2>1. r.used \in Nat
    <3>1. ResultOk(r, Readable(buffer), Framer)
      BY <1>1, DecodedIs DEF r
    <3> QED
      BY <1>1, <3>1 DEF ResultOk
  <2>2. Past(r, k) = taken + r.used + 0
    BY <1>3, <1>5 DEF Past
  <2> QED
    BY <1>1, <1>6, <1>7, <2>1, <2>2
<1>11. SeenIn(k + 1)'
  BY <1>1, <1>7, <1>8, <1>9, <1>10 DEF SeenIn
<1> QED
  BY <1>8, <1>11 DEF SeenInv

LEMMA SeenStreams ==
  ASSUME JobInv, PickInv, ByteInv, SeenInv, config # <<>>, Plain, StreamBuffered \/ StreamRead
  PROVE  SeenInv'
<1>1. phase = "stream" /\ phase' = "stream" /\ UNCHANGED <<job, config, out>> /\ body > 0
  BY DEF StreamBuffered, StreamRead, input
<1>2. taken' + body' = taken + body
  <2>1. taken \in Nat /\ body \in Nat /\ Len(Readable(buffer)) \in Nat
    BY WindowIs DEF ByteInv, Window
  <2>2. CASE StreamBuffered
    <3> DEFINE n == FromBuffer(body)
               b == Len(Readable(buffer))
    <3>1. taken' = taken + n /\ body' = (IF n < body THEN body - n ELSE 0)
      BY <2>2 DEF StreamBuffered
    <3>2. n = IF b < body THEN b ELSE body
      BY DEF FromBuffer
    <3>3. b \in Nat
      BY <2>1
    <3> HIDE DEF n, b
    <3>4. n \in Nat /\ (n < body \/ n = body)
      BY <2>1, <3>2, <3>3
    <3> QED
      BY <2>1, <3>1, <3>4
  <2>3. CASE StreamRead
    <3>1. PICK n \in Pieces(body) : taken' = taken + n /\ body' = body - n
      BY <2>3 DEF StreamRead
    <3>2. received < Len(stream)
      BY <2>3 DEF StreamRead
    <3>3. n \in Nat /\ n <= body
      BY <2>1, <3>2, PieceIs DEF ByteInv
    <3> QED
      BY <2>1, <3>1, <3>3
  <2> QED
    BY <2>2, <2>3
<1>3. PICK k : k = Len(out)
  OBVIOUS
<1>4. SeenIn(k)
  BY <1>3 DEF SeenInv
<1>5. /\ Decoder' = Decoder /\ Off(job, k)' = Off(job, k) /\ Count(job)' = Count(job)
      /\ (RoutedAt(k)' <=> RoutedAt(k)) /\ out' = out
  BY <1>1, GoesOnKept DEF Decoder, Count
<1>6. SeenIn(k)'
  BY <1>1, <1>2, <1>4, <1>5 DEF SeenIn
<1>7. SeenIn(Len(out))'
  BY <1>1, <1>3, <1>6
<1> QED
  BY <1>1, <1>7, SeenStays

LEMMA SeenNext ==
  ASSUME JobInv, PickInv, ByteInv, SeenInv, config # <<>>, Plain, NextMessage
  PROVE  SeenInv'
<1>1. /\ phase = "stream" /\ body = 0 /\ UNCHANGED <<job, config, out, taken>>
      /\ phase' = IF Framer /\ ~out[Len(out)].head.keepAlive THEN "closed" ELSE "parse"
  BY DEF NextMessage, input
<1>2. PICK k : k = Len(out)
  OBVIOUS
<1>3. /\ SeenBefore(k) /\ k > 0 /\ out[k].status = "complete" /\ Decoder # "service"
      /\ taken + body >= Off(job, k)
      /\ taken + body = Off(job, k) \/ k = Count(job)
      /\ Decoder = "request" => RoutedAt(k)
  BY <1>1, <1>2 DEF SeenInv, SeenIn
<1>4. taken = Off(job, k)
  <2>1. taken \in Nat /\ taken <= Len(stream) /\ Len(stream) \in Nat
        /\ Off(job, Count(job)) = Len(stream)
    BY JobIs DEF ByteInv, Window, StreamIs
  <2>2. taken + body = taken
    BY <1>1, <2>1
  <2> QED
    BY <1>3, <2>1, <2>2
<1>5. k \in Nat /\ k \in 1..k /\ SeenAt(k) = OutcomeAt(k)
  <2>1. k \in Nat
    BY <1>3 DEF SeenBefore
  <2>2. k \in 1..k
    BY <1>3, <2>1
  <2> QED
    BY <1>3, <2>1, <2>2 DEF SeenBefore
<1>6. GoesOnAt(k) <=> (Decoder \in {"request", "response"} => out[k].head.keepAlive)
  BY <1>3, <1>5, SeenSays DEF SeenAt
<1>7. GoesOnAt(k)' <=> GoesOnAt(k)
  BY <1>1, GoesOnKept
<1>8. /\ phase' \in {"closed", "parse"}
      /\ phase' = "closed" => ~GoesOnAt(k)
      /\ phase' = "parse" => GoesOnAt(k)
  BY <1>1, <1>2, <1>6 DEF Framer
<1>9. taken' = Off(job, k)'
  BY <1>1, <1>4
<1>10. SeenIn(k)'
  BY <1>3, <1>7, <1>8, <1>9 DEF SeenIn
<1>11. SeenIn(Len(out))'
  BY <1>1, <1>2, <1>10
<1> QED
  BY <1>1, <1>11, SeenStays

LEMMA SeenResumes ==
  ASSUME JobInv, PickInv, ByteInv, SeenInv, config # <<>>, Plain, phase = "send",
         NEW o, NEW n, ServiceResumes(o, n), UNCHANGED <<job, config, out>>
  PROVE  SeenInv'
<1>1. PICK k : k = Len(out)
  OBVIOUS
<1>2. /\ SeenBefore(k) /\ k > 0 /\ out[k].status = "complete" /\ Decoder = "service"
      /\ taken + out[k].used = Off(job, k)
  BY <1>1 DEF SeenInv, SeenIn
<1>3. k \in Nat /\ SeenAt(k) = OutcomeAt(k)
  <2>1. k \in Nat
    BY <1>2 DEF SeenBefore
  <2>2. k \in 1..k
    BY <1>2, <2>1
  <2> QED
    BY <1>2, <2>1, <2>2 DEF SeenBefore
<1>4. GoesOnAt(k) <=> out[k].head.keepAlive
  BY <1>2, <1>3, SeenSays DEF SeenAt
<1>5. GoesOnAt(k)' <=> GoesOnAt(k)
  BY GoesOnKept
<1>6. \/ phase' = "gone"
      \/ /\ taken' = taken + out[k].used
         /\ phase' = IF out[k].head.keepAlive THEN "parse" ELSE "closed"
  BY <1>1 DEF ServiceResumes
<1>7. Off(job, k)' = Off(job, k)
  OBVIOUS
<1>8. SeenIn(k)'
  BY <1>2, <1>4, <1>5, <1>6, <1>7 DEF SeenIn
<1>9. SeenIn(Len(out))'
  BY <1>1, <1>8
<1> QED
  BY <1>9, SeenStays

LEMMA SeenStep ==
  ASSUME JobInv, ConfigInv, PickInv, ByteInv, SeenInv, [Next]_vars
  PROVE  SeenInv'
<1>0. job' = job /\ Decoder' = Decoder /\ (Plain' <=> Plain)
  <2>1. job' = job
    BY DEF Next, vars, input, Load, NeedsMore, Refuses, Completes, ReadSome,
           StreamBuffered, StreamRead, NextMessage, ServiceAnswers, WriteEnds,
           ServiceReadFails, HandleClose, Ended
  <2> QED
    BY <2>1 DEF Decoder, Plain, Titled, Messages
<1>1. CASE Load
  BY <1>1, SeenLoad
<1>2. ~Load => config' = config
  BY DEF Next, vars, NeedsMore, Refuses, Completes, ReadSome,
         StreamBuffered, StreamRead, NextMessage, ServiceAnswers, WriteEnds,
         ServiceReadFails, HandleClose, Ended
<1>3. CASE ~Load /\ ~(config # <<>> /\ Plain)
  BY <1>0, <1>2, <1>3 DEF SeenInv
<1>4. CASE ~Load /\ config # <<>> /\ Plain
  <2>1. config' = config /\ config # <<>> /\ Plain
    BY <1>2, <1>4
  <2>2. PICK k : k = Len(out)
    OBVIOUS
  <2>3. SeenIn(k)
    BY <1>4, <2>2 DEF SeenInv
  <2>4. (GoesOnAt(k)' <=> GoesOnAt(k)) /\ (RoutedAt(k)' <=> RoutedAt(k))
        /\ Off(job, k)' = Off(job, k) /\ Count(job)' = Count(job)
    BY <1>0, <2>1, GoesOnKept DEF Count
  <2>5. ASSUME SeenIn(k)', out' = out PROVE SeenInv'
    <3>1. SeenIn(Len(out))'
      BY <2>2, <2>5
    <3> QED
      BY <1>0, <2>1, <2>5, <3>1, SeenStays
  <2>6. ASSUME UNCHANGED <<out, taken, body, buffer>>, phase' = phase PROVE SeenInv'
    <3>1. Decoded(Readable(buffer))' = Decoded(Readable(buffer))
      BY <1>0, <2>1, <2>6 DEF Decoded, Limits
    <3>2. SeenIn(k)'
      BY <1>0, <2>3, <2>4, <2>6, <3>1 DEF SeenIn
    <3> QED
      BY <2>5, <2>6, <3>2
  <2>7. CASE UNCHANGED vars
    BY <2>6, <2>7 DEF vars
  <2>8. CASE NeedsMore
    <3> DEFINE status == Decoded(Readable(buffer)).status
    <3>1. /\ UNCHANGED <<out, taken, body, buffer>> /\ phase = "parse"
          /\ phase' \in {"read", "stuck"} /\ status = "needMore"
      BY <2>8 DEF NeedsMore
    <3>2. status' = status
      BY <1>0, <2>1, <3>1 DEF Decoded, Limits
    <3> HIDE DEF status
    <3>3. status' = "needMore"
      BY <3>1, <3>2
    <3>4. SeenIn(k)'
      BY <2>3, <2>4, <3>1, <3>3 DEF SeenIn, status
    <3> QED
      BY <2>5, <3>1, <3>4
  <2>9. CASE Refuses
    BY <2>1, <2>9, SeenRefuses
  <2>10. CASE Completes
    BY <2>1, <2>10, SeenCompletes
  <2>11. CASE ReadSome
    <3>1. phase = "read" /\ phase' = "parse" /\ UNCHANGED <<out, taken>>
      BY <2>11 DEF ReadSome
    <3>2. SeenIn(k)'
      BY <2>3, <2>4, <3>1 DEF SeenIn
    <3> QED
      BY <2>5, <3>1, <3>2
  <2>12. CASE StreamBuffered \/ StreamRead
    BY <2>1, <2>12, SeenStreams
  <2>13. CASE NextMessage
    BY <2>1, <2>13, SeenNext
  <2>14. CASE ServiceAnswers
    BY <2>1, <2>14, SeenAnswers
  <2>15. CASE WriteEnds
    <3>1. phase = "send" /\ UNCHANGED <<job, config, out, body>>
      BY <2>15 DEF WriteEnds, input
    <3>2. (\E o, n : ServiceResumes(o, n)) \/ UNCHANGED <<phase, buffer, taken>>
      BY <2>15 DEF WriteEnds
    <3>3. CASE \E o, n : ServiceResumes(o, n)
      BY <2>1, <3>1, <3>3, SeenResumes
    <3>4. CASE UNCHANGED <<phase, buffer, taken>>
      BY <2>6, <3>1, <3>4
    <3> QED
      BY <3>2, <3>3, <3>4
  <2>16. CASE ServiceReadFails
    <3>1. phase' = "gone" /\ out' = out
      BY <2>16 DEF ServiceReadFails
    <3>2. SeenIn(k)'
      BY <3>1 DEF SeenIn
    <3> QED
      BY <2>5, <3>1, <3>2
  <2>17. CASE HandleClose
    <3>1. UNCHANGED <<out, taken, body, buffer, phase>>
      BY <2>17 DEF HandleClose
    <3> QED
      BY <2>6, <3>1
  <2>18. CASE Ended
    BY <2>7, <2>18 DEF Ended
  <2> QED
    BY <1>4, <2>7, <2>8, <2>9, <2>10, <2>11, <2>12, <2>13, <2>14, <2>15, <2>16, <2>17, <2>18
       DEF Next
<1> QED
  BY <1>1, <1>3, <1>4

LEMMA SeenAllOf ==
  ASSUME JobInv, ConfigInv, PickInv, ByteInv, SeenInv
  PROVE  MessagesRecovered
<1> SUFFICES ASSUME config # <<>>, Plain PROVE
      /\ Len(out) <= Len(Messages)
      /\ \A i \in DOMAIN out : Seen(out[i]) = Outcome(Messages[i])
      /\ phase = "closed" \/ (phase = "read" /\ received = Len(stream)) =>
           \A i \in DOMAIN Messages :
             (\A j \in 1..i - 1 : GoesOn(Messages[j])) =>
               i \in DOMAIN out \/ Outcome(Messages[i]) = Incomplete
  BY DEF MessagesRecovered, Plain
<1> DEFINE k == Len(out)
           c == Count(job)
<1>1. SeenBefore(k) /\ SeenIn(k)
  BY DEF SeenInv
<1>2. /\ DOMAIN out = 1..k /\ DOMAIN Messages = 1..c /\ k \in Nat /\ c \in Nat /\ k <= c
  <2>1. IsSeq(out) /\ IsSeq(job.messages)
    BY JobIs DEF PickInv, JobOk, StreamOk
  <2>2. DOMAIN job.messages = 1..Len(job.messages) /\ Len(job.messages) \in Nat
    BY <2>1 DEF IsSeq
  <2>3. DOMAIN out = 1..Len(out) /\ Len(out) \in Nat
    BY <2>1 DEF IsSeq
  <2> QED
    BY <1>1, <2>2, <2>3 DEF Messages, Count, SeenBefore
<1>3. \A i \in 1..k : Seen(out[i]) = Outcome(Messages[i])
  BY <1>1 DEF SeenBefore, SeenAt, OutcomeAt
<1>4. Len(Messages) = c
  BY DEF Messages, Count
<1> HIDE DEF k, c
<1>5. ASSUME phase = "closed" \/ (phase = "read" /\ received = Len(stream)),
             NEW i \in 1..c, \A j \in 1..i - 1 : GoesOnAt(j), i \notin 1..k
      PROVE  Outcome(Messages[i]) = Incomplete
  <2>1. i \in Nat /\ k < i
    BY <1>2, <1>5
  <2>2. CASE phase = "closed"
    <3>1. k > 0 /\ ~GoesOnAt(k)
      BY <1>1, <2>2 DEF SeenIn
    <3>2. k \in 1..i - 1
      BY <1>2, <2>1, <3>1
    <3> QED
      BY <1>5, <3>1, <3>2
  <2>3. CASE phase = "read" /\ received = Len(stream)
    <3>1. Decoded(Readable(buffer)).status = "needMore"
      BY <1>1, <2>3 DEF SeenIn
    <3>2. Finds(Decoded(Readable(buffer)), k, received = Len(stream))
      BY <2>3, ParseWindow DEF ByteInv, k
    <3>3. k = c \/ OutcomeAt(k + 1) = Incomplete
      BY <2>3, <3>1, <3>2 DEF Finds, c, OutcomeAt
    <3>4. k # c
      BY <1>2, <1>5, <2>1
    <3>5. i = k + 1 \/ k + 1 \in 1..i - 1
      BY <1>2, <2>1
    <3>6. ~GoesOnAt(k + 1)
      BY <3>3, <3>4, GoesOnIs DEF Incomplete
    <3> QED
      BY <1>5, <3>3, <3>4, <3>5, <3>6 DEF OutcomeAt
  <2> QED
    BY <1>5, <2>2, <2>3
<1> QED
  BY <1>2, <1>3, <1>4, <1>5 DEF GoesOnAt

\* The messages of a stream are seen one by one, each as what it is and none left
\* out, however the stream is cut into reads (parseRequestHead, parseResponseHead,
\* HttpCodec::decode, RpcCodec::decode, HttpRequest::parse).
THEOREM MessagesAreRecovered == Spec => []MessagesRecovered
<1>1. Init => JobInv /\ ConfigInv /\ RouteInv /\ ByteInv /\ SeenInv
  BY ConfigInit, RouteInit, ByteInit, SeenInit
<1>2. JobInv /\ ConfigInv /\ RouteInv /\ ByteInv /\ SeenInv /\ [Next]_vars
        => (JobInv /\ ConfigInv /\ RouteInv /\ ByteInv /\ SeenInv)'
  BY ConfigStep, RouteStep, ByteStep, SeenStep DEF RouteInv
<1>3. JobInv /\ ConfigInv /\ RouteInv /\ ByteInv /\ SeenInv => MessagesRecovered
  BY SeenAllOf DEF RouteInv
<1> QED
  BY <1>1, <1>2, <1>3, PTL DEF Spec

=============================================================================
