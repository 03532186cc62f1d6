-------------------------- MODULE MCActiveResponse --------------------------
(* Model checking of ActiveResponse: an IP address and an account. *)
EXTENDS ActiveResponse
=============================================================================
