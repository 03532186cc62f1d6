SPECIFICATION FairSpec
CONSTANTS
  Files = {f1}
  Excluded = {}
  Hashed = {f1}
  batch_size = 2
  None = None
  MaxScans = 2
  MaxOverlap = 3
  MaxDisturbances = 2

PROPERTIES BaselineCatchesUp ChangesAreTold
