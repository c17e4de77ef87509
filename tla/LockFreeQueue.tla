---------------------------- MODULE LockFreeQueue ----------------------------
(***************************************************************************)
(* The ring of LockFreeQueue: each slot carries a sequence number that says *)
(* whose turn it is, a position is claimed by compare-exchange, and data   *)
(* moves between the claim and the store of the next sequence number.  A   *)
(* step is one access to shared memory.  What a thread does with a result  *)
(* is for the module that uses the queue.                                  *)
(***************************************************************************)
EXTENDS Integers, Sequences

CONSTANTS
  Producers, Consumers, \* threads that call enqueue and dequeue
  Values,               \* what is queued
  Size,                 \* buffer_.size(), the capacity rounded up
  None                  \* no value

ASSUME ThreadAssumption == Producers \cap Consumers = {}
\* EventLoop asks for a capacity of at least 2 and Logger for 65536.  With one
\* slot the sequence number that says full for a reader says free for a writer.
ASSUME SizeAssumption == Size \in Nat /\ Size >= 2
ASSUME ValueAssumption == None \notin Values

Threads == Producers \cup Consumers

VARIABLES
  enqueuePos, dequeuePos, \* enqueuePos_ and dequeuePos_
  sequence, data,         \* of each slot
  pc, pos,                \* where a thread is, and its pos
  item                    \* the value it puts in or has got

slotVars == <<sequence, data>>
queueVars == <<enqueuePos, dequeuePos, slotVars, pc, pos, item>>

Index(n) == n % Size

QueueTypeOK ==
  /\ enqueuePos \in Nat /\ dequeuePos \in Nat
  /\ sequence \in [0..Size - 1 -> Nat]
  /\ data \in [0..Size - 1 -> Values \cup {None}]
  /\ pc \in [Threads -> {"idle", "load", "cas", "move", "publish", "done", "failed"}]
  /\ pos \in [Threads -> Nat]
  /\ item \in [Threads -> Values \cup {None}]

QueueInit ==
  /\ enqueuePos = 0 /\ dequeuePos = 0
  /\ sequence = [i \in 0..Size - 1 |-> i]
  /\ data = [i \in 0..Size - 1 |-> None]
  /\ pc = [t \in Threads |-> "idle"] /\ pos = [t \in Threads |-> 0]
  /\ item = [t \in Threads |-> None]

Goto(t, p) == pc' = [pc EXCEPT ![t] = p]

\* A call loads the position it starts with.
CallEnqueue(p, v) ==
  /\ pc[p] = "idle" /\ Goto(p, "load")
  /\ item' = [item EXCEPT ![p] = v]
  /\ pos' = [pos EXCEPT ![p] = enqueuePos]
  /\ UNCHANGED <<enqueuePos, dequeuePos, slotVars>>

CallDequeue(c) ==
  /\ pc[c] = "idle" /\ Goto(c, "load")
  /\ pos' = [pos EXCEPT ![c] = dequeuePos]
  /\ UNCHANGED <<enqueuePos, dequeuePos, slotVars, item>>

\* The sequence number that lets t have the slot of its position.
Turn(t) == IF t \in Producers THEN pos[t] ELSE pos[t] + 1
Shared(t) == IF t \in Producers THEN enqueuePos ELSE dequeuePos

\* Its sequence number is read: it is the turn of t, or the slot is still in
\* use by the round before, or another thread has moved on and the position
\* is stale.
Load(t) ==
  /\ pc[t] = "load"
  /\ LET dif == sequence[Index(pos[t])] - Turn(t) IN
     \/ dif = 0 /\ Goto(t, "cas") /\ UNCHANGED pos
     \/ dif < 0 /\ Goto(t, "failed") /\ UNCHANGED pos
     \/ dif > 0 /\ pos' = [pos EXCEPT ![t] = Shared(t)] /\ UNCHANGED pc
  /\ UNCHANGED <<enqueuePos, dequeuePos, slotVars, item>>

\* Mutant: a plain store where the compare-exchange was.
ClaimsBlindly(t) == TRUE

\* compare_exchange: the position is still the one t has seen.
Claims(t) == Shared(t) = pos[t]

Cas(t) ==
  /\ pc[t] = "cas"
  /\ \/ /\ Claims(t)
        /\ Goto(t, "move")
        /\ enqueuePos' = IF t \in Producers THEN pos[t] + 1 ELSE enqueuePos
        /\ dequeuePos' = IF t \in Producers THEN dequeuePos ELSE pos[t] + 1
        /\ UNCHANGED pos
     \/ /\ ~Claims(t)
        /\ Goto(t, "load")
        /\ pos' = [pos EXCEPT ![t] = Shared(t)]
        /\ UNCHANGED <<enqueuePos, dequeuePos>>
  /\ UNCHANGED <<slotVars, item>>

\* The data is written to the slot or moved out of it.
Move(t) ==
  /\ pc[t] = "move" /\ Goto(t, "publish")
  /\ IF t \in Producers
     THEN data' = [data EXCEPT ![Index(pos[t])] = item[t]] /\ UNCHANGED item
     ELSE item' = [item EXCEPT ![t] = data[Index(pos[t])]] /\ UNCHANGED data
  /\ UNCHANGED <<enqueuePos, dequeuePos, sequence, pos>>

\* Whose turn it is after t: the reader of this round, the writer of the next.
NextTurn(t) == IF t \in Producers THEN pos[t] + 1 ELSE pos[t] + Size

Publish(t) ==
  /\ pc[t] = "publish" /\ Goto(t, "done")
  /\ sequence' = [sequence EXCEPT ![Index(pos[t])] = NextTurn(t)]
  /\ UNCHANGED <<enqueuePos, dequeuePos, data, pos, item>>

\* The call returns, and its thread is done with the value.
Return(t) ==
  /\ pc[t] \in {"done", "failed"} /\ Goto(t, "idle")
  /\ item' = [item EXCEPT ![t] = None]
  /\ UNCHANGED <<enqueuePos, dequeuePos, slotVars, pos>>

QueueStep(t) == Load(t) \/ Cas(t) \/ Move(t) \/ Publish(t)

----------------------------------------------------------------------------
(* The queue this implements: a value is in it from the claim of its position *)
(* to the claim that takes it; until it is moved it is still in the slot.     *)

Claimed(n) == {p \in Producers : pos[p] = n /\ pc[p] \in {"move", "publish"}}

ValueAt(n) ==
  IF Claimed(n) # {} THEN item[CHOOSE p \in Claimed(n) : TRUE] ELSE data[Index(n)]

Content == [i \in 1..(enqueuePos - dequeuePos) |-> ValueAt(dequeuePos + i - 1)]

InHand ==
  [c \in Consumers |-> IF pc[c] = "move" THEN data[Index(pos[c])] ELSE item[c]]

Fifo == INSTANCE BoundedFifo
          WITH queue <- Content, hand <- InHand, Capacity <- Size
=============================================================================
