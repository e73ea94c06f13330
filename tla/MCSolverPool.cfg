SPECIFICATION FairSpec
CONSTANTS
  Workers = {w1, w2}
  Stuck = {w2}
  QueueSize = 1
  Nil = Nil
  MaxItems = 2
  MaxCalls = 3
  MaxPools = 3
  MaxBoots = 2
INVARIANTS
  OnePoolUp
  CurrentPoolOpen
  NothingAfterStop
  OneGeneration
  CancelledByStop
PROPERTIES
  KeepsContract
  DropIsAnothersRecovery
  WorkEnds
  StopEnds
CHECK_DEADLOCK FALSE
