SPECIFICATION FairSpec
CONSTANTS
  QueueCapacity = 2
  DrainBatch = 2
  ServerQueueSize = 1
  MaxAlerts = 4
  MaxEvents = 2
  MaxOthers = 1
  MaxFaults = 2
  MaxCrashes = 1
INVARIANTS NoSilentLoss ExcessHasACause
PROPERTIES ReplayFifo SpooledEventuallyLeaves
CHECK_DEADLOCK FALSE
