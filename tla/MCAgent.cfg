SPECIFICATION FairSpec
CONSTANTS
  Configurations = {{"inventory", "rootcheck"}, {"sca"}}
  Occurring = {"Normal", "CriticalBattery"}
  configured <- Hourly
  None = None
  run_as_user = TRUE
  MaxFaults = 1
INVARIANT PauseIsHonoured
PROPERTIES IdentityIsKept KeepsCollecting ShutdownEnds
CHECK_DEADLOCK FALSE
