--------------------------- MODULE FrameContract ---------------------------
(***************************************************************************)
(* What frame ingest promises: every node has a server of its own, which   *)
(* processes the node's frames one at a time and in the order in which     *)
(* they were accepted.  The only frame it may pass over is the one next to *)
(* be processed when a shutdown comes, and nothing is processed while the  *)
(* final state is being written.                                           *)
(***************************************************************************)
EXTENDS Naturals

CONSTANT Nodes

VARIABLES
  accepted, \* node -> number of its frames accepted so far
  begun,    \* node -> the last of its frames begun
  busy,     \* the nodes whose server is processing a frame
  lost,     \* the frames a shutdown gave up before they began
  writing   \* the final writes are under way

contractVars == <<accepted, begun, busy, lost, writing>>

Frame(n, k) == [node |-> n, seq |-> k]

(* The k-th frame of n is the oldest that was neither begun nor given up.   *)
NextUp(n, k) ==
  /\ k \in (begun[n] + 1)..accepted[n]
  /\ Frame(n, k) \notin lost
  /\ \A i \in (begun[n] + 1)..(k - 1) : Frame(n, i) \in lost

Init ==
  /\ accepted = [n \in Nodes |-> 0] /\ begun = [n \in Nodes |-> 0]
  /\ busy = {} /\ lost = {} /\ writing = FALSE

(* An entry may bring several frames of the node.                          *)
Accept(n) ==
  /\ accepted'[n] > accepted[n]
  /\ accepted' = [accepted EXCEPT ![n] = accepted'[n]]
  /\ UNCHANGED <<begun, busy, lost, writing>>

Begin(n) ==
  /\ n \notin busy /\ ~writing
  /\ NextUp(n, begun'[n])
  /\ begun' = [begun EXCEPT ![n] = begun'[n]]
  /\ busy' = busy \cup {n}
  /\ UNCHANGED <<accepted, lost, writing>>

End(n) ==
  /\ n \in busy /\ busy' = busy \ {n}
  /\ UNCHANGED <<accepted, begun, lost, writing>>

GiveUp(n) ==
  /\ n \notin busy /\ ~writing
  /\ \E k \in (begun[n] + 1)..accepted[n] :
       NextUp(n, k) /\ lost' = lost \cup {Frame(n, k)}
  /\ UNCHANGED <<accepted, begun, busy, writing>>

Write ==
  /\ busy = {} /\ writing' = ~writing
  /\ UNCHANGED <<accepted, begun, busy, lost>>

Next == Write \/ \E n \in Nodes : Accept(n) \/ Begin(n) \/ End(n) \/ GiveUp(n)

Spec == Init /\ [][Next]_contractVars
=============================================================================
