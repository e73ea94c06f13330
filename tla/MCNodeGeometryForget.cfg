SPECIFICATION Spec
CONSTANTS
  Conns = {}
  Requests = {r1}
  Posts = {}
  Declared <- MCDeclared
  Canon <- MCCanon
  Placed <- MCPlaced
  Legacy = "u"
  Removals <- OnlyForget
  Nil = Nil
  MaxChanges = 0
INVARIANTS ForgottenStaysForgotten
CHECK_DEADLOCK FALSE
