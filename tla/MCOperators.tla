----------------------------- MODULE MCOperators ----------------------------
(***************************************************************************)
(* The operators without a state of their own against reference            *)
(* definitions.  A state is one test: what is tested, and the input.       *)
(***************************************************************************)
EXTENDS DetectorTests, ResponseTests, InventoryTests, HostTests, PaceTests

Init == DetectorTest \/ ResponseTest \/ InventoryTest \/ HostTest \/ PaceTest

Next == Sweep \/ Scan \/ UNCHANGED <<test, input>>

Spec == Init /\ [][Next]_<<test, input>>
=============================================================================
