--------------------------- MODULE MCGatewayFront ---------------------------
(* Instances of GatewayFront: configuration files around a good one, read   *)
(* with a short stream, and streams read under the good one.                *)
EXTENDS GatewayFront

MCDefaults ==
  [listen_port |-> 0, workers |-> 4, header_limit |-> 14, body_limit |-> 2,
   graceful_shutdown_ms |-> 5, ring_entries |-> 6, sqpoll |-> 1, sqpoll_idle_ms |-> 5,
   registered_buffers_count |-> 6, registered_buffer_size |-> 4,
   pending_queue_capacity |-> 6, pending_submission_capacity |-> 4,
   connect_timeout_ms |-> 5, response_timeout_ms |-> 6, max_connections_per_worker |-> 4,
   max_idle_per_worker |-> 2, idle_timeout_ms |-> 6]

Value(n, t, l) == [num |-> n, text |-> t, list |-> l]
Entry(name, v) == [is |-> "entry", key |-> <<name>>, value |-> v]
Number(name, n) == Entry(name, Value(n, <<>>, <<>>))
Section(key) == [is |-> "section", key |-> key]
Other(what) == [is |-> what]
Endpoint(port) == [valid |-> TRUE, port |-> port]
Prefix(text) == Entry("prefix", Value(Unparsable, text, <<>>))
Upstreams(list) == Entry("upstreams", Value(Unparsable, <<>>, list))

\* Route 1 has the shorter prefix.
Good ==
  <<Section(<<"gateway">>), Number("listen_ip", 1), Number("listen_port", 8),
    Other("blank"),
    Section(<<"route", 1>>), Prefix(<<"/", "a">>),
    Upstreams(<<Endpoint(1), Endpoint(2)>>), Number("max_idle_per_worker", 1),
    Section(<<"route", 2>>), Prefix(<<"/", "a", "b">>), Upstreams(<<Endpoint(3)>>),
    Section(<<"gateway">>), Number("header_limit", 14)>>

\* Lines that take the place of a line of the good file.
Alternatives ==
  <<Other("blank"), Other("noEquals"), Other("noKey"), Number("listen_port", 0),
    Number("listen_port", 10), Number("workers", 0), Number("workers", Unparsable),
    Number("ring_entries", 20), Number("sqpoll", 2), Number("max_idle_per_worker", 5),
    Number("max_connections_per_worker", 0), Number("graceful_shutdown_ms", 40),
    Prefix(<<"/", "a", "b">>), Prefix(<<"a">>), Prefix(<<>>), Upstreams(<<>>),
    Upstreams(<<Endpoint(0)>>), Upstreams(<<[valid |-> FALSE, port |-> 1]>>),
    Section(<<"event_loop">>), Section(<<"route", 3>>), Number("header_limit", 20)>>

Files == [n \in 1..Len(Good) * Len(Alternatives) |->
            [Good EXCEPT ![1 + ((n - 1) \div Len(Alternatives))] =
                           Alternatives[1 + ((n - 1) % Len(Alternatives))]]]

----------------------------------------------------------------------------
Header(name, style, num, list) ==
  [is |-> "header", name |-> name, style |-> style, num |-> num, list |-> list]
CL(n) == Header("content-length", "title", n, <<>>)
Conn(list) == Header("connection", "title", NotANumber, list)
Host == Header("host", "title", NotANumber, <<>>)
Named(name) == Header(name, "title", NotANumber, <<>>)
Malformed == [is |-> "malformed", name |-> "", style |-> "title", list |-> <<>>]
X(n) == [i \in 1..n |-> [is |-> "x"]]

Message(words, headers, n) ==
  [start |-> [is |-> "start", words |-> words], headers |-> headers, body |-> X(n)]
Get(path, headers) == Message(<<"GET", path, "HTTP/1.1">>, headers, 0)
Post(path, headers, n) == Message(<<"POST", path, "HTTP/1.1">>, headers, n)
A == <<"/", "a">>
AB == <<"/", "a", "b">>
ABC == <<"/", "a", "b", "c">>

Response(digits, headers, n) == Message(<<"HTTP/1.1", digits, "OK">>, headers, n)
Reply(digits, n, keep) == [digits |-> digits, body |-> X(n), keepAlive |-> keep]
Rpc(id, n) == [type |-> 1, id |-> id, payload |-> X(n)]

\* A lower case length, and a body whose text has the title case of it.
Shadowed ==
  [start |-> [is |-> "start", words |-> <<"POST", A, "HTTP/1.1">>],
   headers |-> <<Header("content-length", "lower", 1, <<>>)>>, body |-> <<CL(0)>>]

RequestStreams ==
  <<  <<Post(A, <<CL(2), Host>>, 2), Get(AB, <<>>), Get(A, <<CL(1)>>)>>,
      <<Get(A, <<>>), Get(ABC, <<>>), Get(A, <<>>), Get(A, <<Conn(<<"keep-alive">>)>>),
        Get(AB, <<>>), Get(A, <<>>)>>,
      <<Post(A, <<CL(2), CL(2)>>, 2), Get(A, <<Conn(<<"keep-alive", "close">>)>>),
        Get(A, <<>>)>>,
      <<Get(<<"/", "b">>, <<>>), Get(A, <<>>)>>,
      <<Get(A, <<Host, Host, Host>>), Get(A, <<Host, Host, Host, Host>>)>>,
      <<Post(A, <<CL(1), CL(2)>>, 1)>>, <<Post(A, <<CL(3), Conn(<<"x">>)>>, 3)>>,
      <<Post(A, <<Conn(<<"x">>), CL(3)>>, 3)>>, <<Post(A, <<>>, 0)>>,
      <<Post(A, <<CL(NotANumber)>>, 0)>>, <<Get(A, <<Named("upgrade")>>)>>,
      <<Get(A, <<Host, Malformed, Named("upgrade")>>)>>, <<Get(A, <<Conn(<<>>)>>)>>,
      <<Get(A, <<Header("proxy-connection", "lower", NotANumber, <<"close">>), Host>>)>>,
      <<Message(<<"PUT", A, "HTTP/1.1">>, <<>>, 0)>>,
      <<Message(<<"GET", A>>, <<>>, 0)>>, <<Message(<<"GET", <<>>, "HTTP/1.1">>, <<>>, 0)>>,
      <<Message(<<"GET", A, "HTTP/1.0">>, <<>>, 0)>> >>

ResponseStreams ==
  <<  <<Reply(<<2, 0, 0>>, 2, TRUE), Reply(<<5, 0, 3>>, 0, FALSE)>>,
      <<Reply(<<2, 0, 4>>, 1, TRUE)>>, <<Reply(<<2, 0, 0>>, 3, TRUE)>>,
      <<Response(<<3, 0, 4>>, <<>>, 0)>>,
      <<Response(<<2, 0, 4>>, <<CL(0)>>, 0), Response(<<2, 0, 0>>, <<>>, 0)>>,
      <<Response(<<9, 9>>, <<CL(0)>>, 0)>>, <<Response(<<6, 0, 0>>, <<CL(0)>>, 0)>>,
      <<Response(<<2, 10, 0>>, <<CL(0)>>, 0)>>,
      <<Response(<<2, 0, 0>>, <<CL(1), Named("transfer-encoding")>>, 1)>> >>

HttpStreams ==
  <<  <<Get(A, <<Host>>), Post(A, <<CL(2), Conn(<<"close">>)>>, 2), Get(AB, <<>>)>>,
      <<Post(A, <<CL(1)>>, 1), Message(<<"GET", A>>, <<>>, 0)>>,
      <<Shadowed, Get(A, <<>>)>> >>

RpcStreams == << <<Rpc(1, 2), Rpc(2, 0), Rpc(3, 1), Rpc(4, 3), Rpc(5, 0)>> >>

ServiceStreams ==
  <<  <<Get(A, <<>>), Post(A, <<CL(1)>>, 1), Get(A, <<Conn(<<"close">>)>>), Get(A, <<>>)>>,
      <<Post(A, <<CL(1)>>, 1), Message(<<"GET", A>>, <<>>, 0)>> >>

\* Read in pieces of one to four bytes; a response is taken whole.
Read(lines, decoder, messages) ==
  [lines |-> lines, decoder |-> decoder, messages |-> messages, pieces |-> 1..4,
   strategy |-> "block", chunks |-> {50}]

OfStreams(decoder, streams) ==
  {Read(Good, decoder, messages) : messages \in Range(streams)}

\* Read at once; one byte, a part or all of a write is taken.
Answered(strategy) ==
  [Read(Good, "service", ServiceStreams[1])
     EXCEPT !.pieces = {50}, !.strategy = strategy, !.chunks = {1, 7, 50}]

MCJobs ==
  {[Read(lines, "request", <<Get(AB, <<>>)>>) EXCEPT !.pieces = {50}] :
     lines \in Range(Files)}
  \cup OfStreams("request", RequestStreams) \cup OfStreams("response", ResponseStreams)
  \cup OfStreams("http", HttpStreams) \cup OfStreams("rpc", RpcStreams)
  \cup OfStreams("service", Tail(ServiceStreams))
  \cup {Answered(strategy) : strategy \in {"block", "close", "discard"}}

\* A client of a service that is to discard what a slow peer does not take.
DiscardingJobs == {Answered("discard")}
=============================================================================
