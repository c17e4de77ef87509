------------------------- MODULE OperationContract --------------------------
(***************************************************************************)
(* What code that awaits operations of an EventLoop may rely on, with no   *)
(* ring, queue or other thread in sight: an operation is accepted or       *)
(* refused, an accepted one is answered once, and loop() returns only when *)
(* no answer is owed.                                                      *)
(***************************************************************************)
CONSTANTS Ops, Answers, NoAnswer

VARIABLES
  stage,  \* "fresh", "waiting" once accepted, "answered"
  answer, \* the result the waiter was given
  ended   \* loop() has returned

vars == <<stage, answer, ended>>

Init ==
  /\ stage = [o \in Ops |-> "fresh"]
  /\ answer = [o \in Ops |-> NoAnswer]
  /\ ended = FALSE

Accept(o) ==
  /\ ~ended
  /\ stage[o] = "fresh"
  /\ stage' = [stage EXCEPT ![o] = "waiting"]
  /\ UNCHANGED <<answer, ended>>

Settle(o) ==
  /\ stage' = [stage EXCEPT ![o] = "answered"]
  /\ \E r \in Answers : answer' = [answer EXCEPT ![o] = r]
  /\ UNCHANGED ended

\* A refusal is an answer given at once, also when the loop has ended.
Refuse(o) == stage[o] = "fresh" /\ Settle(o)

Answer(o) == ~ended /\ stage[o] = "waiting" /\ Settle(o)

End ==
  /\ ~ended
  /\ \A o \in Ops : stage[o] # "waiting"
  /\ ended' = TRUE
  /\ UNCHANGED <<stage, answer>>

Next == End \/ \E o \in Ops : Accept(o) \/ Refuse(o) \/ Answer(o)

Spec == Init /\ [][Next]_vars
=============================================================================
