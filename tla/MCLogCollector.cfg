SPECIFICATION Spec
CONSTANTS
  MaxBatch = 2
  None = None
  Capacity = 1
  MaxLines = 2
  MaxJournal = 1
  MaxBad = 1
  MaxRotations = 1
  MaxStops = 2
  MaxCrashes = 1
  MaxFaults = 1
CONSTRAINT FewFaults
INVARIANTS ReadIsKept InOrderOnce WatchedIsRead
CHECK_DEADLOCK FALSE
