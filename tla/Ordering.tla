------------------------------ MODULE Ordering ------------------------------
(* The elements of a finite set in a strict total order, as a sequence: the  *)
(* k-th is the one that k - 1 others come before.                            *)
EXTENDS Integers, FiniteSets

Sorted(S, before(_, _)) ==
  [k \in 1..Cardinality(S) |->
     CHOOSE e \in S : Cardinality({f \in S : before(f, e)}) = k - 1]
=============================================================================
