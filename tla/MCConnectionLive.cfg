SPECIFICATION FairSpec
CONSTANTS
  MaxEvents = 1
  MaxTicks = 1
  MaxCommands = 1
  MaxBreaks = 1
PROPERTIES NobodyStarves ShutdownCompletes
CHECK_DEADLOCK FALSE
