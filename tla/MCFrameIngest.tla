--------------------------- MODULE MCFrameIngest ---------------------------
(* Two shards of one node each: the thread of the first shard may hang      *)
(* while the other shard runs beside it.                                    *)
EXTENDS FrameIngest

CONSTANTS n1, n2, s1, s2

MCNodes   == {n1, n2}
MCShards  == {s1, s2}
MCShardOf == [n \in MCNodes |-> IF n = n2 THEN s2 ELSE s1]

MCHung    == {s1}
=============================================================================
