---------------------------- MODULE MCKeyListing ----------------------------
(* A small instance of KeyListing: two patterns, one key in common.        *)
EXTENDS KeyListing, TLC

CONSTANTS k1, k2, k3, p1, p2

SmallMatches == (p1 :> <<k1, k2>>) @@ (p2 :> <<k2, k3>>)
Symmetry == Permutations(Contexts) \cup Permutations(Iters)
=============================================================================
