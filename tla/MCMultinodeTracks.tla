------------------------- MODULE MCMultinodeTracks -------------------------
EXTENDS MultinodeTracks, TLC
CONSTANTS x, y, z, p, t1, t2

(* Two pairings that share a track, a wider candidate over all three, an   *)
(* aircraft with a transponder and the follow lane's prediction.           *)
MCItems == {
  [lane |-> "dark", ids |-> {x, y}, n |-> 2, pool |-> 3, more |-> {z}],
  [lane |-> "dark", ids |-> {y, z}, n |-> 2, pool |-> 2, more |-> {}],
  [lane |-> "adsb", ids |-> {z}, n |-> 3, pool |-> 3, more |-> {}],
  [lane |-> "follow", ids |-> {}, n |-> 3, pool |-> 3, more |-> {}]}
\* The threads are interchangeable.
MCSymmetry == Permutations(Threads)
=============================================================================
