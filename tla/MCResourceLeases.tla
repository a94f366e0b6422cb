-------------------------- MODULE MCResourceLeases --------------------------
(* Three grants on two keys.  Which lease id and which key is which makes    *)
(* no difference to any action or property: both sets are symmetric.        *)
EXTENDS ResourceLeases, TLC

CONSTANTS l1, l2, l3, k1, k2

Symmetry == Permutations(Leases) \cup Permutations(Keys)
=============================================================================
