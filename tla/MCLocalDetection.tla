-------------------------- MODULE MCLocalDetection --------------------------
(* Model checking of LocalDetection; the bounds are in the configurations. *)
EXTENDS LocalDetection
=============================================================================
