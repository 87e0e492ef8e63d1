------------------------------ MODULE MCCpuNms ------------------------------
(* Three boxes, every relation on them, two scores.                        *)
EXTENDS CpuNms
TwoScores == {1, 2}
AnyRelation == SUBSET {p \in Boxes \X Boxes : p[1] # p[2]}
=============================================================================
