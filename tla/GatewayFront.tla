---------------------------- MODULE GatewayFront ----------------------------
(***************************************************************************)
(* From a configuration file and a stream of bytes to the requests the     *)
(* gateway forwards: ucp_gateway loads its configuration and serves, or    *)
(* ends; a session reads its client's bytes in pieces of any size into a   *)
(* Buffer, finds the heads of requests in them, and picks a route and an   *)
(* upstream for each.  The response framer, for the upstream's side, and   *)
(* the codecs, for servers on the same library, read a stream the same way;*)
(* the recommendation server also answers, through asyncSend.              *)
(***************************************************************************)
EXTENDS AsyncSend, Codecs, GatewayConfig, RouteTable

CONSTANTS
  Jobs \* records [lines, decoder, messages, pieces, strategy, chunks]: a file, a
       \* stream and the sizes its reads may have, and how a service that answers
       \* sends and how much of its writes may be taken at once

VARIABLES
  job, stream, \* one of the jobs, and what its peer sends
  phase,    \* where the reader is
  config,   \* what the file gave, a sequence of at most one
  received, taken, \* bytes of the stream that have come, and been used up
  buffer,   \* downstreamInput_, upstreamInput_, or a connection's input
  body,     \* bytes of the body that streamExact has still to pass on
  out,      \* results of the decoder
  cursors,  \* cursors_ of the balancer, by route name
  picked,   \* what each request went to
  output    \* the connection a service answers on

input == <<job, stream>>
vars == <<input, phase, config, received, taken, buffer, body, out, cursors, picked,
          output>>

Decoder == job.decoder

----------------------------------------------------------------------------
(* The stream of a job *)

\* A response that HttpCodec has encoded.
Encoded(decoder, msg) == decoder = "response" /\ "digits" \in DOMAIN msg

\* The bytes of a message as its sender writes them.
Bytes(decoder, msg) ==
  CASE decoder = "rpc" -> RpcEncode(msg)
    [] Encoded(decoder, msg) -> HttpEncode(msg)
    [] OTHER -> HeadBytes(msg.start, msg.headers) \o msg.body

Sent(j) ==
  FlattenSeq([i \in DOMAIN j.messages |-> Bytes(j.decoder, j.messages[i])])

TypeOK ==
  /\ phase \in {"load", "parse", "read", "stream", "send", "stuck", "gone", "closed"}
  /\ Len(config) \in {0, 1}
  /\ taken \in 0..Len(stream) /\ received \in taken..Len(stream)
  /\ buffer.read \in HeaderReservedSize..buffer.write
  /\ buffer.write <= Len(buffer.cells)
  /\ body \in Nat
  /\ \A i \in DOMAIN out : out[i].status \in {"complete", "error"}
  /\ DOMAIN cursors \subseteq Nat /\ \A n \in DOMAIN cursors : cursors[n] \in Nat

Init ==
  /\ job \in Jobs /\ stream = Sent(job)
  /\ phase = "load" /\ config = <<>>
  /\ received = 0 /\ taken = 0 /\ buffer = NewBuffer /\ body = 0
  /\ out = <<>> /\ cursors = <<>> /\ picked = <<>>
  /\ output = NewOutput(job.strategy)

----------------------------------------------------------------------------
(* Steps *)

\* main: the file is loaded and checked.
Load ==
  /\ phase = "load"
  /\ LET loaded == LoadFromString(job.lines) IN
     IF loaded.ok /\ Valid(loaded.values)
     THEN config' = <<From(loaded.values)>> /\ phase' = "parse"
     ELSE phase' = "closed" /\ UNCHANGED config
  /\ UNCHANGED <<input, output, received, taken, buffer, body, out, cursors, picked>>

Limits == [header |-> config[1].settings.header_limit,
           body |-> config[1].settings.body_limit]

Decoded(bytes) ==
  CASE Decoder = "request" -> ParseRequestHead(bytes, Limits)
    [] Decoder = "response" -> ParseResponseHead(bytes, Limits)
    [] Decoder = "http" -> HttpDecode(bytes)
    [] Decoder = "rpc" -> RpcDecode(bytes)
    [] Decoder = "service" -> ServiceParse(bytes)

Framer == Decoder \in {"request", "response"}

\* submitReadRequest submits nothing for a connection that is being closed, and
\* the coroutine that waits for it is not resumed.
CanRead == Decoder # "service" \/ output.state = "connected"

\* The decoder is tried on what is there.
NeedsMore ==
  /\ phase = "parse" /\ Decoded(Readable(buffer)).status = "needMore"
  /\ phase' = IF CanRead THEN "read" ELSE "stuck"
  /\ UNCHANGED <<input, output, config, received, taken, buffer, body, out, cursors, picked>>

\* requestErrorStatus: what a client is told before its session ends.
RequestErrorStatus(error) ==
  CASE error = "headerTooLarge" -> 431
    [] error = "bodyTooLarge" -> 413
    [] OTHER -> 400

Refuses ==
  /\ phase = "parse"
  /\ LET r == Decoded(Readable(buffer)) IN
     /\ r.status = "error"
     /\ out' = Append(out, r)
     /\ picked' = IF Decoder = "request"
                  THEN Append(picked, [status |-> RequestErrorStatus(r.error)])
                  ELSE picked
  /\ phase' = "closed"
  /\ UNCHANGED <<input, output, config, received, taken, buffer, body, cursors>>

CursorOf(route) == IF route.name \in DOMAIN cursors THEN cursors[route.name] ELSE 0

\* match and select, or 404 and the end of the session.
Routed(request) ==
  LET found == Match(config[1].routes, request.path) IN
  IF found = {}
  THEN /\ picked' = Append(picked, [status |-> 404])
       /\ phase' = "closed" /\ UNCHANGED cursors
  ELSE LET route == CHOOSE r \in found : TRUE IN
       /\ picked' = Append(picked, [status |-> 200, route |-> route.name,
                                    upstream |-> Selected(route, CursorOf(route))])
       /\ cursors' = Assigned(cursors, route.name, Advanced(route, CursorOf(route)))
       /\ phase' = "stream"

\* A head, or with a codec a message, is taken from the buffer.
Completes ==
  /\ phase = "parse" /\ Decoder # "service"
  /\ LET r == Decoded(Readable(buffer)) IN
     /\ r.status = "complete"
     /\ out' = Append(out, r)
     /\ buffer' = Retrieve(buffer, r.used) /\ taken' = taken + r.used
     /\ body' = IF Framer THEN r.head.length ELSE 0
     /\ IF Decoder = "request" THEN Routed(r.head)
        ELSE phase' = "stream" /\ UNCHANGED <<cursors, picked>>
  /\ UNCHANGED <<input, output, config, received>>

\* What a read of at most limit bytes may bring.
Pieces(limit) == {Min({n, limit, Len(stream) - received}) : n \in job.pieces}

\* A read: into the buffer for a head, of no more than the head may have.
ReadSome ==
  /\ phase = "read" /\ received < Len(stream)
  /\ \E n \in Pieces(IF Framer THEN Limits.header - Len(Readable(buffer))
                                 ELSE Len(stream)) :
       /\ buffer' = AppendBytes(buffer, SubSeq(stream, received + 1, received + n))
       /\ received' = received + n
  /\ phase' = "parse"
  /\ UNCHANGED <<input, output, config, taken, body, out, cursors, picked>>

\* Mutant: the whole buffer counts as body.
FromBufferAll(n) == Len(Readable(buffer))

\* What a step of streamExact takes from the buffer for a body of n bytes.
FromBuffer(n) == IF Len(Readable(buffer)) < n THEN Len(Readable(buffer)) ELSE n

StreamBuffered ==
  /\ phase = "stream" /\ body > 0 /\ Readable(buffer) # <<>>
  /\ LET n == FromBuffer(body) IN
     /\ buffer' = Retrieve(buffer, n) /\ taken' = taken + n
     /\ body' = IF n < body THEN body - n ELSE 0
  /\ UNCHANGED <<input, output, phase, config, received, out, cursors, picked>>

\* With an empty buffer it reads past it, no more than the body has.
StreamRead ==
  /\ phase = "stream" /\ body > 0 /\ Readable(buffer) = <<>> /\ received < Len(stream)
  /\ \E n \in Pieces(body) :
       /\ received' = received + n /\ taken' = taken + n /\ body' = body - n
  /\ UNCHANGED <<input, output, phase, config, buffer, out, cursors, picked>>

\* The next message, unless a side has asked to close.
NextMessage ==
  /\ phase = "stream" /\ body = 0
  /\ phase' = IF Framer /\ ~out[Len(out)].head.keepAlive THEN "closed" ELSE "parse"
  /\ UNCHANGED <<input, output, config, received, taken, buffer, body, out, cursors, picked>>

----------------------------------------------------------------------------
(* recommendationServiceTask *)

\* The response to a request; what its body says is left out.
Answer(request) == BuildHttpResponse(<<[is |-> "x"]>>, request.keepAlive)

\* A request is handled and its response sent, before it leaves the buffer.
ServiceAnswers ==
  /\ phase = "parse" /\ Decoder = "service"
  /\ LET r == Decoded(Readable(buffer)) IN
     /\ r.status = "complete"
     /\ out' = Append(out, r)
     /\ \E room \in BOOLEAN : output' = Sends(output, Answer(r.head), room)
  /\ phase' = "send"
  /\ UNCHANGED <<input, config, received, taken, buffer, body, cursors, picked>>

\* The coroutine goes on, its write having returned n: a failed one ends it, with
\* the connection left as it is; else the request is done with.
ServiceResumes(o, n) ==
  LET r == out[Len(out)] IN
  IF n < 0 THEN /\ phase' = "gone" /\ output' = o
                /\ UNCHANGED <<buffer, taken>>
  ELSE /\ buffer' = Retrieve(buffer, r.used) /\ taken' = taken + r.used
       /\ phase' = IF r.head.keepAlive THEN "parse" ELSE "closed"
       /\ output' = IF r.head.keepAlive THEN o ELSE ForceClose(o)

\* A write ends: with some of its bytes taken, or all, or an error, which a peer
\* that is gone gives from then on.
WriteEnds ==
  /\ phase = "send" /\ output.inFlight > 0
  /\ \E res \in {-1} \cup {Min({n, output.inFlight}) : n \in job.chunks} :
       /\ output.failed => res = -1
       /\ LET o == Handled(Taken(output, res), res)
              n == Written(o, res)
          IN IF Ready(o, res) THEN ServiceResumes(AwaitResume(o, n), n)
             ELSE /\ \E room \in BOOLEAN : output' = SubmitWriteRequest(o, room)
                  /\ UNCHANGED <<phase, buffer, taken>>
  /\ UNCHANGED <<input, config, received, body, out, cursors, picked>>

\* A read that brings nothing: the end of the stream, an error, the timeout.
ServiceReadFails ==
  /\ phase = "read" /\ Decoder = "service"
  /\ phase' = "gone"
  /\ output' = ForceClose(output)
  /\ UNCHANGED <<input, config, received, taken, buffer, body, out, cursors, picked>>

\* The loop runs the functor that forceClose has queued.
HandleClose ==
  /\ output.closing
  /\ output' = Destroyed(output)
  /\ UNCHANGED <<input, phase, config, received, taken, buffer, body, out, cursors,
                 picked>>

----------------------------------------------------------------------------
\* The reader is done: closed, or waiting when everything has come, or for a
\* write that was not submitted.
Ended ==
  /\ \/ phase \in {"closed", "gone", "stuck"}
     \/ phase = "send" /\ output.inFlight = 0
     \/ phase \in {"read", "stream"} /\ received = Len(stream)
        /\ (phase = "stream" => body > 0 /\ Readable(buffer) = <<>>)
  /\ UNCHANGED vars

Next ==
  \/ Load \/ NeedsMore \/ Refuses \/ Completes \/ ReadSome
  \/ StreamBuffered \/ StreamRead \/ NextMessage
  \/ ServiceAnswers \/ WriteEnds \/ ServiceReadFails \/ HandleClose \/ Ended

Spec == Init /\ [][Next]_vars

----------------------------------------------------------------------------
(* What the messages of a stream are, whatever pieces they come in *)

Messages == job.messages
Titled == \A m \in Range(Messages) : \A h \in Range(m.headers) : h.style = "title"

\* The header lines the rules of the framer refuse, each with its reason.
LineError(hs, k, limits) ==
  LET h == hs[k] IN
  IF \/ h.is # "header"
     \/ /\ h.name = "content-length"
        /\ \/ h.num = NotANumber
           \/ \E j \in 1..k - 1 :
                hs[j].is = "header" /\ hs[j].name = h.name /\ hs[j].num # h.num
  THEN "badSyntax"
  ELSE IF \/ h.name \in {"transfer-encoding", "upgrade"}
          \/ h.name \in ConnectionNames /\ ~ParseConnectionTokens(h.list)
  THEN "unsupportedFraming"
  ELSE IF h.name = "content-length" /\ h.num > limits.body THEN "bodyTooLarge"
  ELSE "none"

Length(hs) ==
  LET cl == {h.num : h \in {g \in Range(hs) : g.is = "header" /\ g.name = "content-length"}}
  IN IF cl = {} THEN Absent ELSE CHOOSE n \in cl : TRUE

Keeps(hs) ==
  \A h \in Range(hs) :
    h.is = "header" /\ h.name \in ConnectionNames => "close" \notin Range(h.list)

\* What is wrong with a head: its size, its first line, the first refused
\* line, the length it has or has not.
HeadError(start, hs, startError, lengthError(_)) ==
  LET wrong == {k \in DOMAIN hs : LineError(hs, k, Limits) # "none"} IN
  IF 5 + 3 * Len(hs) > Limits.header THEN "headerTooLarge"
  ELSE IF startError # "none" THEN startError
  ELSE IF wrong # {}
  THEN LineError(hs, CHOOSE k \in wrong : \A j \in wrong : k <= j, Limits)
  ELSE IF lengthError(Length(hs)) THEN "unsupportedFraming" ELSE "none"

RequestError(m) ==
  LET words == m.start.words IN
  HeadError(m.start, m.headers,
    IF Len(words) = 3 /\ words[1] \notin {"GET", "POST"} THEN "unsupportedMethod"
    ELSE IF Len(words) # 3 \/ words[3] # "HTTP/1.1" \/ ~IsPrefix(<<"/">>, words[2])
    THEN "badSyntax" ELSE "none",
    LAMBDA length : words[1] = "POST" /\ length = Absent)

Code(digits) == 100 * digits[1] + 10 * digits[2] + digits[3]

ResponseError(m) ==
  LET words == m.start.words IN
  HeadError(m.start, m.headers,
    IF /\ Len(words) >= 2 /\ words[1] = "HTTP/1.1" /\ Len(words[2]) = 3
       /\ Range(words[2]) \subseteq 0..9 /\ words[2][1] \in 1..5
    THEN "none" ELSE "badSyntax",
    LAMBDA length : IF StatusHasNoBody(Code(words[2])) THEN length > 0
                                                       ELSE length = Absent)

\* An encoded response has three header lines.
ReplyError(m) ==
  IF 14 > Limits.header THEN "headerTooLarge"
  ELSE IF Len(m.body) > Limits.body THEN "bodyTooLarge"
  ELSE IF StatusHasNoBody(Code(m.digits)) /\ m.body # <<>> THEN "unsupportedFraming"
  ELSE "none"

Error(e) == [status |-> "error", error |-> e]
OfHead(m) == [length |-> IF Length(m.headers) = Absent THEN 0 ELSE Length(m.headers),
              keepAlive |-> Keeps(m.headers)]

\* What a reader of message m should see.
Outcome(m) ==
  CASE Decoder = "rpc" ->
         IF Len(m.payload) > KMaxMessageLength THEN Error("decode")
         ELSE [status |-> "complete", head |-> m]
    [] Decoder = "http" ->
         IF Len(m.start.words) < 3 \/ m.start.words[2] = <<>> THEN Error("decode")
         ELSE [status |-> "complete",
               head |-> [method |-> m.start.words[1], path |-> m.start.words[2],
                         keepAlive |-> Keeps(m.headers), body |-> m.body]]
    [] Decoder = "service" ->
         IF Len(m.start.words) < 3 THEN Incomplete
         ELSE [status |-> "complete",
               head |-> [method |-> m.start.words[1], path |-> m.start.words[2],
                         keepAlive |-> Keeps(m.headers), body |-> m.body]]
    [] Decoder = "request" ->
         IF RequestError(m) # "none" THEN Error(RequestError(m))
         ELSE [status |-> "complete", head |-> OfHead(m)]
    [] Encoded(Decoder, m) ->
         IF ReplyError(m) # "none" THEN Error(ReplyError(m))
         ELSE [status |-> "complete",
               head |-> [length |-> Len(m.body), keepAlive |-> m.keepAlive]]
    [] Decoder = "response" /\ ~Encoded(Decoder, m) ->
         IF ResponseError(m) # "none" THEN Error(ResponseError(m))
         ELSE [status |-> "complete", head |-> OfHead(m)]

Seen(r) ==
  IF r.status = "error" THEN Error(r.error)
  ELSE [status |-> "complete",
        head |-> IF Framer THEN [length |-> r.head.length, keepAlive |-> r.head.keepAlive]
                           ELSE r.head]

\* A session goes on after a message it has served.
GoesOn(m) ==
  /\ Outcome(m).status = "complete"
  /\ Decoder \in {"request", "response", "service"} => Outcome(m).head.keepAlive
  /\ Decoder = "request" =>
       \E r \in Range(config[1].routes) : IsPrefix(r.prefix, m.start.words[2])

----------------------------------------------------------------------------
(* What the lines of a file set *)

\* The section that line i of a file stands in, and the key it sets.
SectionAt(lines, i) ==
  LET opened == {k \in 1..i : lines[k].is = "section"}
  IN IF opened = {} THEN <<>> ELSE lines[Max(opened)].key

KeyAt(lines, i) == SectionAt(lines, i) \o lines[i].key

Setters(lines, key) == {i \in DOMAIN lines : lines[i].is = "entry" /\ KeyAt(lines, i) = key}

----------------------------------------------------------------------------
(* What the jobs are *)

IsSeq(q) == Len(q) \in Nat /\ q = [i \in 1..Len(q) |-> q[i]]

\* The lines are of the kinds that a file has, and a route has a number as its name.
FileOk(lines) ==
  /\ IsSeq(lines)
  /\ \A i \in DOMAIN lines : LET l == lines[i] IN
       /\ l.is \in {"section", "entry", "blank", "noEquals", "noKey"}
       /\ l.is \in {"section", "entry"} => IsSeq(l.key)
       /\ l.is = "entry" =>
            /\ l.value.num \in Nat \cup {Unparsable}
            /\ IsSeq(l.value.text) /\ IsSeq(l.value.list)
            /\ LET key == KeyAt(lines, i)
               IN Len(key) = 3 /\ key[1] = "route" => key[2] \in Nat

\* Bytes that are a header have a number, if that one says that it is none.
HeaderOk(b) == b.is = "header" => b.num \in Nat \cup {NotANumber}

\* A message of an encoder, or one with a first line, header lines and a body.
MessageOk(decoder, m) ==
  CASE decoder = "rpc" ->
         IsSeq(m.payload) /\ m = [type |-> m.type, id |-> m.id, payload |-> m.payload]
    [] Encoded(decoder, m) ->
         /\ IsSeq(m.body) /\ \A i \in DOMAIN m.body : HeaderOk(m.body[i])
         /\ IsSeq(m.digits) /\ Len(m.digits) = 3 /\ m.digits[1] \in 1..5
         /\ \A i \in 1..3 : m.digits[i] \in 0..9
         /\ m.keepAlive \in BOOLEAN
    [] OTHER ->
         /\ m.start.is = "start" /\ IsSeq(m.start.words)
         /\ Len(m.start.words) >= 2 => IsSeq(m.start.words[2])
         /\ IsSeq(m.headers) /\ IsSeq(m.body)
         /\ \A i \in DOMAIN m.headers :
              m.headers[i].is \in {"header", "malformed"} /\ HeaderOk(m.headers[i])
         /\ \A i \in DOMAIN m.body : HeaderOk(m.body[i])

\* No two header lines have one of the names.
AtMostOne(hs, names) ==
  \A i, k \in DOMAIN hs :
    (\A n \in {i, k} : hs[n].is = "header" /\ hs[n].name \in names) => i = k

\* The bodies are as long as their headers say, but for a last one that is cut
\* off; and the readers that look for one header of a name find one.
StreamOk(decoder, messages) ==
  /\ IsSeq(messages)
  /\ \A i \in DOMAIN messages : LET m == messages[i] IN
       /\ MessageOk(decoder, m)
       /\ decoder # "rpc" /\ ~Encoded(decoder, m) =>
            /\ Len(m.body) <= OfHead(m).length
            /\ decoder \in {"http", "service"} \/ i < Len(messages) =>
                 Len(m.body) = OfHead(m).length
       /\ decoder \in {"http", "service"} =>
            /\ AtMostOne(m.headers, {"content-length"})
            /\ AtMostOne(m.headers, ConnectionNames)

ASSUME JobsAssumption ==
  \A j \in Jobs :
    /\ FileOk(j.lines)
    /\ j.decoder \in {"request", "response", "http", "rpc", "service"}
    /\ StreamOk(j.decoder, j.messages)
    /\ \A n \in j.pieces \cup j.chunks : n \in Nat /\ n > 0
    /\ j.strategy \in {"block", "pass", "discard", "close"}

----------------------------------------------------------------------------
(* Properties *)

\* The bytes of a buffer are those that have come and are not used up, in their
\* order, whatever it has moved down or grown (makeSpace, append, retrieve).
BufferHolds == Readable(buffer) = SubSeq(stream, taken + 1, received)

\* However a stream is cut into reads, each message is seen once, as what it is,
\* and none is missed: heads and bodies never run into each other, a head at the
\* limit passes and one beyond it does not, and the first offence is the one
\* reported (parseRequestHead, parseResponseHead, decode, parse).  HttpCodec and
\* the recommendation server promise it for headers in title case only: they look
\* for other spellings only if nothing in the buffer, later messages included, has
\* that one.
MessagesRecovered ==
  config # <<>> /\ (Decoder \in {"http", "service"} => Titled) =>
    /\ Len(out) <= Len(Messages)
    /\ \A i \in DOMAIN out : Seen(out[i]) = Outcome(Messages[i])
    /\ phase = "closed" \/ (phase = "read" /\ received = Len(stream)) =>
         \A i \in DOMAIN Messages :
           (\A j \in 1..i - 1 : GoesOn(Messages[j])) =>
             i \in DOMAIN out \/ Outcome(Messages[i]) = Incomplete

\* What a peer gets from a service is the responses to its requests, one after the
\* other, none twice and none with a gap, although a write may take a part of what
\* was submitted, a blocked sender takes its bytes off the buffer in the handler
\* and any other on resumption (AsyncWriteAwaitable, submitWriteRequest).  Under
\* the strategy that discards there is no gap either, against what it promises:
\* see DiscardDrops.
RepliesInOrder ==
  Decoder = "service" =>
    output.delivered \o Readable(output.buffer)
      = FlattenSeq([i \in DOMAIN out |-> Answer(out[i].head)])

\* On the way in and on the way out the buffers keep their indices apart and
\* inside the cells, and hold the bytes that are due, in their order.
BytesInOrder == TypeOK /\ BufferHolds /\ RepliesInOrder

\* With the strategy that blocks, what waits for a slow peer stays below the high
\* mark and one response, as long as no write has failed: a sender goes on only
\* when the buffer has come down (checkOutputBufferBackpressure, await_suspend).
OutputBounded ==
  Decoder = "service" /\ output.strategy = "block" /\ ~output.failed =>
    Backlog(output) < HighWaterMark + Len(Answer([keepAlive |-> TRUE]))

\* What the strategy that discards promises: data that would bring the buffer to
\* its high mark are not appended, so it stays below the mark and data are lost
\* instead.  The code counts and logs them as discarded and sends them all the
\* same (checkOutputBufferBackpressure, asyncSend).
DiscardDrops ==
  Decoder = "service" /\ output.strategy = "discard" => Backlog(output) < HighWaterMark

\* A head that was forwarded means to its receiver what it meant to the gateway:
\* the same length and the same wish for the connection, and forwarding it once
\* more changes nothing (buildForwardHead).
ForwardAgrees ==
  \A i \in DOMAIN out : Framer /\ out[i].status = "complete" =>
    LET limits == [header |-> Len(out[i].head.forward), body |-> Limits.body]
        again == IF Decoder = "request"
                 THEN ParseRequestHead(out[i].head.forward, limits)
                 ELSE ParseResponseHead(out[i].head.forward, limits)
    IN again = [status |-> "complete", head |-> out[i].head, used |-> limits.header]

\* A request goes to the route with the longest prefix of its path, whatever the
\* order of routes in the file and of their names, and is answered 404 only when
\* no route has a prefix of it (RouteTable).
RoutedByLongestPrefix ==
  \A i \in DOMAIN picked : out[i].status = "complete" =>
    LET fits == {r \in Range(config[1].routes) : IsPrefix(r.prefix, out[i].head.path)}
    IN IF picked[i].status = 404 THEN fits = {}
       ELSE \E r \in fits : /\ r.name = picked[i].route
                            /\ \A s \in fits : Len(s.prefix) <= Len(r.prefix)

\* The upstreams of a route get their turns evenly, also when requests for other
\* routes come between (RoundRobinBalancer).
SpreadEvenly ==
  \A r \in IF config = <<>> THEN {} ELSE Range(config[1].routes) :
    LET turns(u) == Cardinality({i \in DOMAIN picked :
                      /\ picked[i].status = 200 /\ picked[i].route = r.name
                      /\ picked[i].upstream = u})
    IN \A u, v \in 0..Len(r.upstreams) - 1 : turns(u) - turns(v) \in -1..1

\* The right route and then each of its upstreams in turn.
WellRouted == RoutedByLongestPrefix /\ SpreadEvenly

\* What the rest of the gateway takes for granted of a configuration that was
\* accepted, and that the last line about a setting is the one that counts, in
\* sections that are left and opened again (loadFromString, from).  Said before
\* the first read: a configuration does not change.
ConfigSound ==
  config # <<>> /\ received = 0 =>
    LET c == config[1]
    IN /\ \A n \in {"listen_port", "workers", "header_limit", "body_limit", "ring_entries",
                     "pending_queue_capacity", "pending_submission_capacity",
                     "registered_buffer_size", "graceful_shutdown_ms"} : c.settings[n] > 0
       /\ \A r \in Range(c.routes) :
            r.upstreams # <<>> /\ r.maxConnections > 0 /\ r.maxIdle <= r.maxConnections
       /\ \A s \in Settings :
            LET given == Setters(job.lines, <<s.section, s.name>>)
            IN given # {} => c.settings[s.name] = job.lines[Max(given)].value.num
=============================================================================
