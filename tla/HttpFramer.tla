----------------------------- MODULE HttpFramer -----------------------------
(***************************************************************************)
(* parseRequestHead and parseResponseHead.  A byte is a record; a line of  *)
(* text is one byte, so that a cut may fall between any two lines and      *)
(* inside a CR LF.  A start line has its words, a header its name in lower *)
(* case (and how it was written), a number, and the tokens of a list:      *)
(*   [is |-> "start", words |-> <<method, path, version>>]                 *)
(*   [is |-> "header", name, style, num, list]                             *)
(*   [is |-> "CR"], [is |-> "LF"], [is |-> "x"] for a byte of a body       *)
(* A header line that is no header is [is |-> "malformed"].                *)
(***************************************************************************)
EXTENDS Integers, Sequences, SequencesExt, Ordering

NotANumber == -1
Absent == -1

\* The header that says what becomes of the connection, as it is forwarded.
ConnectionHeader(keepAlive) ==
  [is |-> "header", name |-> "connection", style |-> "title",
   num |-> NotANumber, list |-> IF keepAlive THEN <<"keep-alive">> ELSE <<"close">>]

Crlf == <<[is |-> "CR"], [is |-> "LF"]>>

IsCrlf(bytes, i) ==
  i >= 1 /\ i < Len(bytes) /\ bytes[i].is = "CR" /\ bytes[i + 1].is = "LF"

\* Where the empty line that ends a head begins, after the line before it.
EndOfHead(bytes) ==
  LET ends == {i \in DOMAIN bytes : IsCrlf(bytes, i) /\ IsCrlf(bytes, i + 2)}
  IN IF ends = {} THEN 0 ELSE Min(ends)

\* The length of the head, 0 as long as its end is not there.
FindHeaderBytes(bytes) ==
  IF EndOfHead(bytes) = 0 THEN 0 ELSE EndOfHead(bytes) + 3

\* The lines of a head, without the empty one that ends it.
Lines(block) ==
  LET ends == Sorted({i \in DOMAIN block : IsCrlf(block, i)}, <)
  IN [k \in 1..Len(ends) - 1 |->
        SubSeq(block, IF k = 1 THEN 1 ELSE ends[k - 1] + 2, ends[k] - 1)]

ConnectionNames == {"connection", "proxy-connection"}
ParseConnectionTokens(list) == list # <<>> /\ Range(list) \subseteq {"close", "keep-alive"}

NoHeaders == [error |-> "none", length |-> Absent, keepAlive |-> TRUE, lines |-> <<>>]

\* One header line, after those that acc stands for.
ParseHeaderLine(acc, line, limits) ==
  LET h == line[1]
      refuse(error) == [acc EXCEPT !.error = error]
      keep == [acc EXCEPT !.lines = Append(@, h)]
  IN IF acc.error # "none" THEN acc
     ELSE IF Len(line) # 1 \/ h.is # "header" THEN refuse("badSyntax")
     ELSE IF h.name \in {"transfer-encoding", "upgrade"} THEN refuse("unsupportedFraming")
     ELSE IF h.name = "content-length" THEN
       IF h.num = NotANumber \/ acc.length \notin {Absent, h.num} THEN refuse("badSyntax")
       ELSE IF h.num > limits.body THEN refuse("bodyTooLarge")
       ELSE [keep EXCEPT !.length = h.num]
     ELSE IF h.name \in ConnectionNames THEN
       IF ~ParseConnectionTokens(h.list) THEN refuse("unsupportedFraming")
       ELSE [keep EXCEPT !.keepAlive = @ /\ "close" \notin Range(h.list)]
     ELSE keep

ParseHeaderLines(lines, limits) ==
  FoldLeft(LAMBDA acc, line : ParseHeaderLine(acc, line, limits), NoHeaders, lines)

LengthOf(headers) == IF headers.length = Absent THEN 0 ELSE headers.length

\* A head as it is written: a first line, header lines and an empty line.
HeadBytes(start, headers) ==
  <<start>> \o Crlf \o FlattenSeq([i \in DOMAIN headers |-> <<headers[i]>> \o Crlf]) \o Crlf

\* The header lines that are passed on, in their order.
Forwarded(lines) ==
  LET at == Sorted({i \in DOMAIN lines : lines[i].name \notin ConnectionNames}, <)
  IN [k \in DOMAIN at |-> lines[at[k]]]

\* Mutant: the peer is told to keep the connection whatever was asked.
BuildForwardHeadKeeping(start, headers) ==
  HeadBytes(start, Append(Forwarded(headers.lines), ConnectionHeader(TRUE)))

BuildForwardHead(start, headers) ==
  HeadBytes(start, Append(Forwarded(headers.lines), ConnectionHeader(headers.keepAlive)))

NeedMore == [status |-> "needMore"]
ParseError(error) == [status |-> "error", error |-> error]
Complete(head, used) == [status |-> "complete", head |-> head, used |-> used]

\* What both kinds of head have in common: its end, its size, its first line.
ParseHead(bytes, limits) ==
  LET size == FindHeaderBytes(bytes)
      lines == Lines(SubSeq(bytes, 1, size))
  IN IF size = 0 /\ Len(bytes) < limits.header THEN NeedMore
     ELSE IF size = 0 \/ size > limits.header THEN ParseError("headerTooLarge")
     ELSE IF Len(lines[1]) # 1 \/ lines[1][1].is # "start" THEN ParseError("badSyntax")
     ELSE [status |-> "lines", lines |-> lines, size |-> size]

ParseRequestHead(bytes, limits) ==
  LET head == ParseHead(bytes, limits)
      start == head.lines[1][1]
      words == start.words
      headers == ParseHeaderLines(Tail(head.lines), limits)
  IN IF head.status # "lines" THEN head
     ELSE IF Len(words) # 3 THEN ParseError("badSyntax")
     ELSE IF words[1] \notin {"GET", "POST"} THEN ParseError("unsupportedMethod")
     ELSE IF words[2] = <<>> \/ words[2][1] # "/" \/ words[3] # "HTTP/1.1"
     THEN ParseError("badSyntax")
     ELSE IF headers.error # "none" THEN ParseError(headers.error)
     ELSE IF words[1] = "POST" /\ headers.length = Absent
     THEN ParseError("unsupportedFraming")
     ELSE Complete([method |-> words[1], path |-> words[2],
                    length |-> LengthOf(headers), keepAlive |-> headers.keepAlive,
                    forward |-> BuildForwardHead(start, headers)], head.size)

StatusHasNoBody(code) == code \in 100..199 \cup {204, 304}

\* The words of a status line: the version, the digits of the status, a reason.
ParseResponseHead(bytes, limits) ==
  LET head == ParseHead(bytes, limits)
      start == head.lines[1][1]
      words == start.words
      digits == words[2]
      code == 100 * digits[1] + 10 * digits[2] + digits[3]
      headers == ParseHeaderLines(Tail(head.lines), limits)
  IN IF head.status # "lines" THEN head
     ELSE IF \/ Len(words) < 2 \/ words[1] # "HTTP/1.1" \/ Len(digits) # 3
             \/ ~(Range(digits) \subseteq 0..9) \/ code \notin 100..599
     THEN ParseError("badSyntax")
     ELSE IF headers.error # "none" THEN ParseError(headers.error)
     ELSE IF IF StatusHasNoBody(code) THEN headers.length \notin {Absent, 0}
                                      ELSE headers.length = Absent
     THEN ParseError("unsupportedFraming")
     ELSE Complete([status |-> code,
                    length |-> LengthOf(headers), keepAlive |-> headers.keepAlive,
                    forward |-> BuildForwardHead(start, headers)], head.size)
=============================================================================
