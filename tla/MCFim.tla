------------------------------- MODULE MCFim -------------------------------
(* Model checking of Fim. *)
EXTENDS Fim
=============================================================================
