----------------------------- MODULE MCComputes -----------------------------
(* Instances of Computes for TLC: a and b share c1.                        *)
EXTENDS Computes, TLC
CONSTANTS c1, c2, a, b, g1, g2, one, two

SomeProcs == (a :> 2) @@ (b :> 1)
SomeConfigs == {Nothing, g1 :> one}
PairHome == (a :> c1) @@ (b :> c1)
=============================================================================
