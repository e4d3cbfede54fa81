----------------------------- MODULE MCSfeIpv4 -----------------------------
(***************************************************************************)
(* Values for model checking SfeIpv4: two flows from the LAN to the WAN    *)
(* whose replies carry one 5-tuple (a port that NAT gave to another client *)
(* after the first conntrack entry was gone).  For liveness both flows are *)
(* routed back out of the device they come from.                           *)
(***************************************************************************)
EXTENDS SfeIpv4, TLC

CONSTANTS c1, c2, lan, wan, t1, t2, n1

MCConns == {c1, c2}
MCTuples == {t1, t2, n1}
MCDevs2 == {lan, wan}
Flow1 == [orig |-> t1, reply |-> n1, src |-> lan, dest |-> wan]
Flow2 == [Flow1 EXCEPT !.orig = t2]
MCRules2 == {Flow1, Flow2}
MCDevs1 == {lan}
MCRulesHairpin == {[Flow1 EXCEPT !.dest = lan], [Flow2 EXCEPT !.dest = lan]}

Symmetry == Permutations(MCConns)
=============================================================================
