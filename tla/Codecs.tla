------------------------------- MODULE Codecs -------------------------------
(***************************************************************************)
(* HttpCodec and RpcCodec: what decode finds at the start of a buffer, and *)
(* what encode appends to one.  Bytes are those of HttpFramer; a field of  *)
(* the header of an RPC message is one byte, [is |-> "field", num |-> n].  *)
(***************************************************************************)
EXTENDS HttpFramer

CONSTANTS KMaxMessageLength \* kMaxMessageLength of RpcCodec

ASSUME MessageLengthAssumption == KMaxMessageLength \in Nat

Incomplete == [status |-> "needMore"]
DecodeError == [status |-> "error", error |-> "decode"]

\* find of a header's text, which looks at all the bytes there are: the first
\* in title case, or the first in lower case when there is none of those.
FindHeader(bytes, names) ==
  LET at(style) == SelectInSeq(bytes, LAMBDA b :
                     b.is = "header" /\ b.name \in names /\ b.style = style)
  IN IF at("title") # 0 THEN at("title") ELSE at("lower")

FirstLine(bytes) == Lines(SubSeq(bytes, 1, FindHeaderBytes(bytes)))[1]

\* A method, a path and a version.
ParseRequestLine(line) ==
  Len(line) = 1 /\ line[1].is = "start" /\ Len(line[1].words) >= 3
  /\ line[1].words[2] # <<>>

\* A request with its body, if its first line is one.  A length that is no
\* number counts as none.
DecodeRequest(bytes, isRequest, otherwise) ==
  LET size == FindHeaderBytes(bytes)
      words == FirstLine(bytes)[1].words
      cl == FindHeader(bytes, {"content-length"})
      conn == FindHeader(bytes, ConnectionNames)
      length == IF cl \in 1..size /\ bytes[cl].num # NotANumber THEN bytes[cl].num ELSE 0
      total == size + length
  IN IF size = 0 THEN Incomplete
     ELSE IF ~isRequest THEN otherwise
     ELSE IF Len(bytes) < total THEN Incomplete
     ELSE Complete([method |-> words[1], path |-> words[2],
                    keepAlive |-> ~(conn \in 1..size /\ "close" \in Range(bytes[conn].list)),
                    body |-> SubSeq(bytes, size + 1, size + length)], total)

HttpDecode(bytes) ==
  DecodeRequest(bytes, ParseRequestLine(FirstLine(bytes)), DecodeError)

\* HttpRequest::parse of the recommendation server: three words, and a line
\* with fewer counts as a request that has not come yet.
ServiceParse(bytes) ==
  LET line == FirstLine(bytes)
  IN DecodeRequest(bytes, Len(line) = 1 /\ line[1].is = "start"
                          /\ Len(line[1].words) >= 3, Incomplete)

\* A response of a status with three digits.
ResponseBytes(digits, names, keepAlive, body) ==
  LET header(name) == [is |-> "header", name |-> name, style |-> "title", list |-> <<>>,
                       num |-> IF name = "content-length" THEN Len(body) ELSE NotANumber]
  IN HeadBytes([is |-> "start", words |-> <<"HTTP/1.1", digits, "reason">>],
               Append([i \in DOMAIN names |-> header(names[i])],
                      ConnectionHeader(keepAlive))) \o body

HttpEncode(response) ==
  ResponseBytes(response.digits, <<"content-type", "content-length">>,
                response.keepAlive, response.body)

\* buildHttpResponse of the recommendation server.
BuildHttpResponse(body, keepAlive) ==
  ResponseBytes(<<2, 0, 0>>,
                <<"content-type", "content-length", "access-control-allow-origin">>,
                keepAlive, body)

----------------------------------------------------------------------------
KHeaderLength == 3 \* the fields of an RPC header

RpcEncode(msg) ==
  LET field(n) == [is |-> "field", num |-> n]
  IN <<field(Len(msg.payload)), field(msg.type), field(msg.id)>> \o msg.payload

RpcDecode(bytes) ==
  IF Len(bytes) < KHeaderLength THEN Incomplete
  ELSE LET length == bytes[1].num total == KHeaderLength + length IN
       IF length > KMaxMessageLength THEN DecodeError
       ELSE IF Len(bytes) < total THEN Incomplete
       ELSE Complete([type |-> bytes[2].num, id |-> bytes[3].num,
                      payload |-> SubSeq(bytes, KHeaderLength + 1, total)], total)
=============================================================================
