CONSTANTS
  Nodes = {n1}
  MaxVal = 1
  MaxWrites = 3
  MaxFaults = 1
  MaxEdits = 1
SPECIFICATION FairSpec
INVARIANTS
  AcceptedLanded
  HeldCovers
PROPERTIES
  RefusedForReason
  RowsArrive
