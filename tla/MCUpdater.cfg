SPECIFICATION FairSpec
CONSTANTS
  Versions <- MCVersions
  First <- MCFirst
  Broken <- MCBroken
  None = None
  Partial = Partial
  Linux = TRUE
  MaxFaults = 2
  MaxCrashes = 2
INVARIANT BackupIsKept
PROPERTIES ImplementsBinary FirstUpdateIsInstalled
