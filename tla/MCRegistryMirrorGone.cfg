CONSTANTS
  Nodes = {n1}
  MaxVal = 1
  MaxWrites = 2
  MaxFaults = 0
  MaxEdits = 0
SPECIFICATION Spec
PROPERTIES
  GoneRowsDropped
