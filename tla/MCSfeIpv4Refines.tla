-------------------------- MODULE MCSfeIpv4Refines --------------------------
(***************************************************************************)
(* Values for model checking SfeIpv4Refines: a flow that is routed back    *)
(* out of the device it comes from, closed and created again in two slots. *)
(***************************************************************************)
EXTENDS SfeIpv4Refines, TLC

CONSTANTS c1, c2, lan, t1, n1

MCConns == {c1, c2}
MCTuples == {t1, n1}
MCDevs == {lan}
MCRules == {[orig |-> t1, reply |-> n1, src |-> lan, dest |-> lan]}
Symmetry == Permutations(MCConns)
=============================================================================
