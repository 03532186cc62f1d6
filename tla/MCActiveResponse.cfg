SPECIFICATION FairSpec
CONSTANTS
  Targets = {ip, user}
  Counted = {ip}
  LocalTargets = {ip}
  MaxCommands = 6
  MaxFaults = 1
  MaxRestarts = 1
INVARIANT BlockedWhileDue
PROPERTY TimedActionsEnd
CHECK_DEADLOCK FALSE
