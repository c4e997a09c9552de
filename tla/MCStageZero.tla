---------------------------- MODULE MCStageZero ----------------------------
(* Instances of StageZero for TLC.                                         *)
EXTENDS StageZero, TLC
CONSTANTS p1, p2, z1, z2, v1, n1, c1, c2

OneName == [x \in Zygote \cup Virtual |-> n1]
=============================================================================
