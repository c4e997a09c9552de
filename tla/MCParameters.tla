--------------------------- MODULE MCParameters ---------------------------
(* Instances of Parameters for TLC: the names /a and /a/b.                 *)
EXTENDS Parameters, TLC
CONSTANTS s1, s2, a, ab, one, two

Prefixes == (a :> {}) @@ (ab :> {a})
Alike == Permutations({s1, s2})
Tried == (a :> {one, two}) @@ (ab :> {one})
=============================================================================
