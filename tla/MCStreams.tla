----------------------------- MODULE MCStreams -----------------------------
(* Instances of Streams for TLC.                                           *)
EXTENDS Streams, TLC
CONSTANTS p1, z1, v1

Mixed == (p1 :> {"in", "out"}) @@ (z1 :> {}) @@ (v1 :> {"out"})
=============================================================================
