--------------------------- MODULE MCNodeGeometry ---------------------------
(* The canonical configurations a and b are placed and u places nothing; a  *)
(* arrives in another spelling, aa.                                         *)
EXTENDS NodeGeometry

MCDeclared == {"aa", "b", "u"}
MCCanon    == [d \in MCDeclared |-> IF d = "aa" THEN "a" ELSE d]
MCPlaced   == {"a", "b"}

AllRemovals == {"retire", "forget", "prune", "stale"}
OnlyForget  == {"forget"}
=============================================================================
