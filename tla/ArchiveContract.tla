-------------------------- MODULE ArchiveContract --------------------------
(***************************************************************************)
(* What the detection archive promises about each frame handed to it: the  *)
(* frame is held, and then either stored exactly once or, when storage     *)
(* cannot take it, dropped.  What is stored or dropped at one time is the  *)
(* oldest part of what is held.                                            *)
(***************************************************************************)
EXTENDS Naturals

CONSTANTS Nodes, MaxFrames

VARIABLE status   \* node -> frame number -> "none", "held", "stored" or "dropped"

Frames == 1..MaxFrames

Held(n) == {k \in Frames : status[n][k] = "held"}

Init == status = [n \in Nodes |-> [k \in Frames |-> "none"]]

Accept(n, k) ==
  /\ status[n][k] = "none"
  /\ \A i \in 1..(k - 1) : status[n][i] # "none"
  /\ status' = [status EXCEPT ![n][k] = "held"]

(* The held frames up to the k-th leave the buffer together.               *)
Oldest(n, k, to) ==
  status' = [status EXCEPT ![n] =
               [i \in Frames |-> IF i \in Held(n) /\ i <= k THEN to ELSE @[i]]]

Store(n, k) == k \in Held(n) /\ Oldest(n, k, "stored")

(* Several nodes may be given up in one step.                              *)
Drop(upTo) ==
  status' = [n \in Nodes |->
               [i \in Frames |-> IF i \in Held(n) /\ i <= upTo[n] THEN "dropped"
                                 ELSE status[n][i]]]

Next ==
  \/ \E n \in Nodes, k \in Frames : Accept(n, k) \/ Store(n, k)
  \/ \E upTo \in [Nodes -> 0..MaxFrames] : Drop(upTo)

Spec == Init /\ [][Next]_status
=============================================================================
