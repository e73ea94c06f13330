CONSTANTS
  Nodes = {n1, n2}
  MaxVal = 1
  MaxWrites = 3
  MaxFaults = 0
  MaxEdits = 1
SPECIFICATION Spec
PROPERTIES
  SkippingSparesRest
