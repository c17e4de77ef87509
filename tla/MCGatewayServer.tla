-------------------------- MODULE MCGatewayServer --------------------------
(* Instances of GatewayServer for TLC: names for clients and callers.       *)
EXTENDS GatewayServer

CONSTANTS k1, k2, t1
=============================================================================
