--------------------------- MODULE MCUpstreamPool ---------------------------
(* An instance of UpstreamPool for TLC: three requests over two buckets.     *)
EXTENDS UpstreamPool

CONSTANTS r1, r2, r3, b1, b2

=============================================================================
