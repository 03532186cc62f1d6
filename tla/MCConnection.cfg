SPECIFICATION Spec
CONSTANTS
  MaxEvents = 2
  MaxTicks = 1
  MaxCommands = 2
  MaxBreaks = 1
INVARIANTS EventsInOrderOnce CommandsInOrderOnce
CHECK_DEADLOCK FALSE
