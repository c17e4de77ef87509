----------------------------- MODULE BoundedFifo -----------------------------
(* What a queue of bounded capacity promises its users: values come out in   *)
(* the order they went in, each once, to one consumer, and no more than      *)
(* Capacity of them are inside.                                              *)
EXTENDS Naturals, Sequences

CONSTANTS Values, Consumers, Capacity, None

VARIABLES
  queue,  \* what was put in and not yet taken
  hand    \* what each consumer has taken and not yet used

vars == <<queue, hand>>

Init == queue = <<>> /\ hand = [c \in Consumers |-> None]

Put(v) ==
  /\ Len(queue) < Capacity
  /\ queue' = Append(queue, v)
  /\ UNCHANGED hand

Take(c) ==
  /\ queue # <<>> /\ hand[c] = None
  /\ hand' = [hand EXCEPT ![c] = Head(queue)]
  /\ queue' = Tail(queue)

Use(c) ==
  /\ hand[c] # None
  /\ hand' = [hand EXCEPT ![c] = None]
  /\ UNCHANGED queue

Next == (\E v \in Values : Put(v)) \/ \E c \in Consumers : Take(c) \/ Use(c)

Spec == Init /\ [][Next]_vars
=============================================================================
