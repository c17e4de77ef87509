----------------------------- MODULE AsyncSend ------------------------------
(***************************************************************************)
(* The sending side of the older interface of TcpConnection, asyncSend:    *)
(* the output buffer, its water marks, and the write the coroutine waits   *)
(* for, which a full buffer turns into a series of writes.  A connection   *)
(* is a record, the operators are what a call makes of it.                 *)
(***************************************************************************)
EXTENDS Buffer, Integers, Sequences

CONSTANTS
  HighWaterMark, LowWaterMark \* of BackpressureConfig

ASSUME WaterMarkAssumption ==
  LowWaterMark \in Nat /\ HighWaterMark \in Nat /\ LowWaterMark < HighWaterMark

NewOutput(strategy) ==
  [buffer |-> NewBuffer,   \* outputBuffer_
   strategy |-> strategy,  \* "block", "pass", "discard" or "close"
   state |-> "connected",  \* state_
   closing |-> FALSE,      \* handleClose waits in the control queue
   high |-> FALSE,         \* inHighWaterMark_
   maxSize |-> 0, crossings |-> 0, discarded |-> 0, \* outputBufferStats_
   blocked |-> FALSE, total |-> 0,   \* isBlocked_ and totalWritten_ of the awaitable
   inFlight |-> 0,         \* the length of the write the kernel has
   fin |-> FALSE,          \* shutdownWrite was called
   delivered |-> <<>>,     \* what the kernel has taken
   failed |-> FALSE]       \* the kernel has refused a write

Backlog(o) == Len(Readable(o.buffer))

ForceClose(o) ==
  IF o.state = "connected" THEN [o EXCEPT !.state = "disconnecting", !.closing = TRUE]
  ELSE o

\* handleClose, which the server's callback ends in connectDestroyed.
Destroyed(o) == [o EXCEPT !.state = "disconnected", !.closing = FALSE]

\* checkOutputBufferBackpressure, called before n bytes are appended.  The
\* strategy "discard" counts them, and the caller appends them nevertheless.
CheckOutputBufferBackpressure(o, n) ==
  LET size == Backlog(o) + n
      seen == [o EXCEPT !.maxSize = IF size > @ THEN size ELSE @]
      crossed == [seen EXCEPT !.high = TRUE, !.crossings = IF o.high THEN @ ELSE @ + 1]
  IN IF size >= HighWaterMark
     THEN CASE o.strategy = "discard" -> [crossed EXCEPT !.discarded = @ + n]
            [] o.strategy = "close" -> ForceClose(crossed)
            [] OTHER -> crossed
     ELSE [seen EXCEPT !.high = @ /\ size > LowWaterMark]

\* A connection that is gone, or a ring without room, and nothing is submitted:
\* the coroutine that waits is not resumed any more.
SubmitWriteRequest(o, room) ==
  IF o.state # "disconnected" /\ room THEN [o EXCEPT !.inFlight = Backlog(o)] ELSE o

\* The awaitable blocks when the buffer has reached its high mark.
AwaitSuspend(o, room) ==
  LET blocks == o.strategy = "block" /\ Backlog(o) >= HighWaterMark
  IN SubmitWriteRequest([o EXCEPT !.blocked = blocks, !.total = 0], room)

Sends(o, data, room) ==
  LET checked == CheckOutputBufferBackpressure(o, Len(data))
  IN AwaitSuspend([checked EXCEPT !.buffer = AppendBytes(@, data)], room)

----------------------------------------------------------------------------
(* The completion of a write with res, the bytes taken or -1 *)

\* What the kernel did.
Taken(o, res) ==
  [o EXCEPT !.inFlight = 0,
            !.delivered = @ \o SubSeq(Readable(o.buffer), 1, IF res > 0 THEN res ELSE 0),
            !.failed = @ \/ res < 0]

\* The handler of a blocked awaitable takes what was written off the buffer ...
Handled(o, res) ==
  IF o.blocked /\ res > 0
  THEN [o EXCEPT !.buffer = Retrieve(@, res), !.total = @ + res] ELSE o

\* Mutant: the coroutine goes on after one write.
ReadyAtOnce(o, res) == TRUE

\* ... and resumes the coroutine at the low mark, or when a write has failed.
Ready(o, res) == ~o.blocked \/ res <= 0 \/ Backlog(o) <= LowWaterMark

\* What the coroutine is told: after some bytes, a failure is not.
Written(o, res) == IF o.blocked /\ ~(res <= 0 /\ o.total = 0) THEN o.total ELSE res

MaybeShutdownWrite(o) ==
  [o EXCEPT !.fin = @ \/ (o.state = "disconnecting" /\ Backlog(o) = 0)]

\* Mutant: what the handler took off the buffer is taken off again.
AwaitResumeTwice(o, n) ==
  MaybeShutdownWrite(IF n > 0 THEN [o EXCEPT !.buffer = Retrieve(@, n)] ELSE o)

AwaitResume(o, n) ==
  MaybeShutdownWrite(IF ~o.blocked /\ n > 0 THEN [o EXCEPT !.buffer = Retrieve(@, n)]
                                            ELSE o)
=============================================================================
