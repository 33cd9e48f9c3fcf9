---------------------------- MODULE MCKeyObjects ----------------------------
(* A small instance of KeyObjects: one subkey, two user IDs, one signature *)
(* on each.                                                                *)
EXTENDS KeyObjects, TLC

SmallLength == [subkeys |-> 1, uids |-> 2, signatures |-> 1]
Symmetry == Permutations(Objects) \cup Permutations(GpgKeys)
            \cup Permutations(Threads)
=============================================================================
