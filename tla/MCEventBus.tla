----------------------------- MODULE MCEventBus -----------------------------
(* EventBus for TLC: publishers and subscribers are model values; the behaviour
   ends when MaxEvents events have been published. *)
EXTENDS EventBus
=============================================================================
