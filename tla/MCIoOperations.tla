--------------------------- MODULE MCIoOperations ---------------------------
(* Instances of IoOperations for TLC.  Each cfg names its operations among   *)
(* the model values below and says which are linked, reads or puntable.      *)
EXTENDS IoOperations

CONSTANTS a, b

\* A bound: of its operations a run submits one, whichever it is.
OneAtATime == Cardinality({o \in Ops : place[o] # "fresh"}) <= 1

=============================================================================
