---------------------------- MODULE MCConnection ----------------------------
(* Model checking of Connection; the bounds are in the configurations. *)
EXTENDS Connection
=============================================================================
