---------------------------- MODULE AgentBinary -----------------------------
(***************************************************************************)
(* What the updater promises of the program file: it holds a whole release *)
(* at every moment; a release replaces only an older one that is proven,   *)
(* at once; the new one is then proven (it ran) or taken back for exactly  *)
(* the release it replaced.                                                *)
(***************************************************************************)
EXTENDS Version

CONSTANT Versions      \* the releases

VARIABLES
  installed,    \* the release in the program file
  proven        \* the last one known to run

binaryVars == <<installed, proven>>

Init == installed \in Versions /\ proven = installed

Upgrade ==
  /\ installed = proven
  /\ \E v \in Versions : is_newer(v, installed) /\ installed' = v
  /\ UNCHANGED proven

Prove == proven' = installed /\ UNCHANGED installed

TakeBack == installed' = proven /\ UNCHANGED proven

Next == Upgrade \/ Prove \/ TakeBack

Spec == Init /\ [][Next]_binaryVars
=============================================================================
