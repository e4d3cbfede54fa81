----------------------------- MODULE MCSfeLists -----------------------------
(***************************************************************************)
(* Values for model checking SfeLists: three connections, of which two     *)
(* have one reply key, and two of whose keys collide in one bucket.        *)
(***************************************************************************)
EXTENDS SfeLists, TLC

CONSTANTS c1, c2, c3, k1, k2, k3, k4, k5, b1, b2

MCConns == {c1, c2, c3}
MCKeys == {k1, k2, k3, k4, k5}
MCBuckets == {b1, b2}
MCHash == [k \in MCKeys |-> IF k \in {k4, k5} THEN b2 ELSE b1]
MCPairs == {[original |-> k1, reply |-> k3], [original |-> k2, reply |-> k3],
            [original |-> k4, reply |-> k5]}
Symmetry == Permutations(MCConns)
=============================================================================
