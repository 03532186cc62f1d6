------------------------------ MODULE TestCase ------------------------------
(* A test of a pure operator: what is tested, and the input. *)
VARIABLES test, input
=============================================================================
