--------------------------- MODULE MCLoopIngress ---------------------------
(* An instance of LoopIngress for TLC: the cfg assigns the calls t1..t3 and  *)
(* q1, q2 to the loop thread or to threads of their own.                     *)
EXTENDS LoopIngress

CONSTANTS t1, t2, t3, q1, q2

=============================================================================
