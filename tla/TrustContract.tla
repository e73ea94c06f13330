--------------------------- MODULE TrustContract ---------------------------
(***************************************************************************)
(* What the book of a polled radar promises, however the poller, the       *)
(* owner and the administrator interleave: epochs follow one another       *)
(* without a gap and each begins on probation; only a decision taken on    *)
(* the present epoch changes its trust, and graduating it leaves it among  *)
(* the approved; a radar that was removed never comes back.                *)
(***************************************************************************)
EXTENDS Naturals

VARIABLES
  epoch,    \* the epoch the radar is at, 0 once it was removed
  trust,    \* what the row says of that epoch
  approved  \* the epochs an administrator approved

contractVars == <<epoch, trust, approved>>

Init == epoch = 1 /\ trust = "probation" /\ approved = {}

Polled == epoch # 0

Begin ==
  /\ Polled
  /\ epoch' = epoch + 1 /\ trust' = "probation"
  /\ UNCHANGED approved

Graduate ==
  /\ Polled
  /\ trust' = "graduated" /\ approved' = approved \cup {epoch}
  /\ UNCHANGED epoch

Demote ==
  /\ Polled /\ trust' = "probation"
  /\ UNCHANGED <<epoch, approved>>

Remove ==
  /\ Polled
  /\ epoch' = 0 /\ trust' = "probation"
  /\ UNCHANGED approved

Next == Begin \/ Graduate \/ Demote \/ Remove

Spec == Init /\ [][Next]_contractVars
=============================================================================
