------------------------------ MODULE MCLogger ------------------------------
(* An instance of Logger for TLC: threads that log, what they log and the   *)
(* seconds in which files are archived.                                     *)
EXTENDS Logger

CONSTANTS l1, l2, w, s1, s2

Entries == Producers \X (1..EntryCount)
=============================================================================
