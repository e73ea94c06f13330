CONSTANTS
  MaxEpoch = 2
  MaxVersion = 2
  MaxQueue = 1
  MaxDecisions = 2
SPECIFICATION FairSpec
INVARIANTS
  FenceFresh
  GraduatedWasShown
  ReleasedBehindTrust
PROPERTIES
  KeepsContract
  PollerCatchesUp
