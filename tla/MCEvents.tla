------------------------------ MODULE MCEvents ------------------------------
(* Instances of Events for TLC: a client that wants all, one that wants logs. *)
EXTENDS Events, TLC
CONSTANTS c1, c2, status, log

Masks == (c1 :> {status, log}) @@ (c2 :> {log})
=============================================================================
