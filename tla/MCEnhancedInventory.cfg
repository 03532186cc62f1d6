SPECIFICATION FairSpec
CONSTANTS
  Pids = {p}
  Programs = {a, b}
  MaxStarts = 2
  MaxRefusals = 1
  Configurations <- const_Configurations
  configured <- const_configured
  Occurring = {"Normal", "CriticalBattery"}
  MaxShifts = 2
  MaxInstalls = 1
  MaxRequests = 1
INVARIANTS ViewIsPrevious
PROPERTY ManagerCatchesUp
