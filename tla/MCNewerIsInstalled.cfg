SPECIFICATION FairSpec
CONSTANTS
  Versions <- MCVersions
  First <- MCFirst
  Broken <- MCBroken
  None = None
  Partial = Partial
  Linux = TRUE
  MaxFaults = 0
  MaxCrashes = 0
PROPERTY NewerIsInstalled
CHECK_DEADLOCK FALSE
