SPECIFICATION Spec
CONSTANTS
  Conns = {c1}
  Requests = {r1}
  Posts = {p1}
  Declared <- MCDeclared
  Canon <- MCCanon
  Placed <- MCPlaced
  Legacy = "u"
  Removals <- AllRemovals
  Nil = Nil
  MaxChanges = 2
INVARIANTS
  SettledAgrees
  StaleOnlyByRace
CHECK_DEADLOCK FALSE
