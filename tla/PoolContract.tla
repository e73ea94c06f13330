---------------------------- MODULE PoolContract ----------------------------
(***************************************************************************)
(* What the solver's process pools promise their host: at any moment at    *)
(* most one executor has live children.  Each is made only after every     *)
(* earlier one was closed, a closed one never comes back, and a server     *)
(* that is down has none.                                                  *)
(***************************************************************************)
EXTENDS Naturals

VARIABLES
  open,    \* the executors that were made and not closed
  made,    \* number of executors made, which numbers the next
  serving  \* a lifespan is under way, its shutdown included

contractVars == <<open, made, serving>>

Init == open = {} /\ made = 0 /\ serving = FALSE

Open ==
  /\ open = {}
  /\ made' = made + 1 /\ open' = {made + 1}

(* A lifespan begins, with an executor or without.                         *)
Boot ==
  /\ ~serving /\ serving' = TRUE
  /\ Open \/ UNCHANGED <<open, made>>

Renew == serving /\ Open /\ UNCHANGED serving

Close ==
  /\ serving /\ open # {} /\ open' = {}
  /\ UNCHANGED <<made, serving>>

End ==
  /\ serving /\ serving' = FALSE
  /\ open' = {} /\ UNCHANGED made

Next == Boot \/ Renew \/ Close \/ End

Spec == Init /\ [][Next]_contractVars
=============================================================================
