CONSTANTS
  x = x
  y = y
  z = z
  p = p
  t1 = t1
  t2 = t2
  Threads = {t1, t2}
  Tids = {x, y, z}
  Odd = {z}
  Items <- MCItems
  Spots = {p}
  Scores = {1, 2}
  Interval = 2
  Refresh = 1
  ClaimTTL = 0
  DarkExpiry = 0
  AssistedExpiry = 1
  AssocAge = 1
  AssocBack = 0
  Owned = 1
  LinkAge = 0
  OneShot = 0
  CoastMin = 1
  MinJoin = 2
  MinSolves = 2
  Lag = 1
  MaxTime = 1
  MaxSolves = 3
  MaxPasses = 1
SPECIFICATION Spec
SYMMETRY MCSymmetry
INVARIANTS
  OrphansByRace
  ClaimHeldByBest
CHECK_DEADLOCK FALSE
