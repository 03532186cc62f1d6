------------------------ MODULE MCEnhancedInventory -------------------------
(* Model checking of EnhancedInventory. *)
EXTENDS EnhancedInventory

const_Configurations == {{"running_software", "sbom"}, Snapshots}
const_configured == [s \in Scanners |-> IF s = "sbom" THEN 2 ELSE 1]
=============================================================================
