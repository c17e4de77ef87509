-------------------------- MODULE MCProxySession --------------------------
(* An instance of ProxySession for TLC: the client of s1 pipelines a request *)
(* without a body behind one with a body.                                   *)
EXTENDS ProxySession

CONSTANTS s1, c1, c2

\* A token of the nth request of s1, whose body has len units.
Part(n, part, len) ==
  [req |-> <<s1, n>>, part |-> part, len |-> len, keep |-> TRUE]

Clients ==
  [s \in {s1} |-> <<Part(1, "head", 1), Part(1, "body", 1), Part(2, "head", 0)>>]
=============================================================================
