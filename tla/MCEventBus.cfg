SPECIFICATION FairSpec
CONSTANTS
  Publishers = {p1, p2}
  Subscribers = {s1}
  Capacity = 2
  ServerQueueSize = 1
  MaxEvents = 3
INVARIANTS NoGapUnlessOverwritten ServerFifo
PROPERTY ReceiversCatchUp
CHECK_DEADLOCK FALSE
