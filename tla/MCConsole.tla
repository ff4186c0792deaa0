------------------------------- MODULE MCConsole -------------------------------
(* An instance of Console for TLC: two requests at a time.                     *)
EXTENDS Console

CONSTANTS job1

MCOrder == <<job1>>

================================================================================
