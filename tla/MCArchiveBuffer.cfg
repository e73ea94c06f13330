CONSTANTS
  n1 = n1
  w1 = w1
  archiver = archiver
  Nodes <- OneNode
  Workers <- OneWorker
  WorkerOf <- WorkerOfOne
  Archiver <- archiver
  BatchMax = 1
  MaxFrames = 4
SPECIFICATION FairSpec
INVARIANTS
  FailingBufferCapped
  WrittenOnce
  LeftMeansWritten
  ClaimsAreHeld
PROPERTIES
  KeepsContract
  HealthyDiskEmpties
