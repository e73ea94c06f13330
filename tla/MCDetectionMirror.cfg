CONSTANTS
  Nodes = {n1, n2}
  Targets = {t1, t2}
  QueueMax = 2
  MaxAccepted = 3
SPECIFICATION FairSpec
INVARIANTS
  BooksBalance
PROPERTIES
  QueueIsDrained
