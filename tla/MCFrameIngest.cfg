CONSTANTS
  n1 = n1
  n2 = n2
  s1 = s1
  s2 = s2
  NoGen = NoGen
  Nodes <- MCNodes
  Shards <- MCShards
  ShardOf <- MCShardOf
  Hung <- MCHung
  QueueMax = 2
  MaxOffers = 4
  MaxBoots = 2
SPECIFICATION FairSpec
INVARIANTS
  NodeSerial
  NoFrameVanishes
  WholeQueueBounded
  FinalWritesAlone
PROPERTIES
  KeepsContract
  ArrivalOrder
  WorkersEndByRace
  QueuedFrameBegins
  ShutdownEnds
CHECK_DEADLOCK FALSE
