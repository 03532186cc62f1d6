--------------------------- MODULE MCLogCollector ---------------------------
(* Model checking of LogCollector. *)
EXTENDS LogCollector

CONSTANT MaxFaults   \* bound: lines that cannot be read, rotations, stops, crashes and
                     \* journal entries together

(* One more where there is no journal, no full buffer and no full channel. *)
FewFaults ==
  LET faults == bad + rotations + stops + crashes + journal
  IN  \/ faults <= MaxFaults
      \/ faults <= MaxFaults + 1 /\ journal = 0 /\ ~forced /\ dropped = {}
=============================================================================
