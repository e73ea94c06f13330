CONSTANTS
  n1 = n1
  w1 = w1
  archiver = archiver
  Nodes <- OneNode
  Workers <- OneWorker
  WorkerOf <- WorkerOfOne
  Archiver <- archiver
  BatchMax = 1
  MaxFrames = 2
SPECIFICATION Spec
PROPERTY
  OnlyDeadAbandoned
