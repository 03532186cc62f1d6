------------------------------- MODULE MCAgent -------------------------------
(***************************************************************************)
(* The agent with the modules that scan.                                   *)
(***************************************************************************)
EXTENDS Agent

(* Every module scans once an hour. *)
Hourly == [l \in Loops |-> 1]
=============================================================================
