---------------------------- MODULE MCDedupIndex ----------------------------
EXTENDS DedupIndex

CONSTANTS k1, k2, k3

MCKeys == {k1, k2, k3}
MCShardFor == [k \in MCKeys |-> IF k = k1 THEN 1 ELSE 2]
=============================================================================
