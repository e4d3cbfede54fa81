-------------------------- MODULE MCFastClassifier --------------------------
(***************************************************************************)
(* Flows for TLC: "web" keeps its destination, the destination of "dnat"   *)
(* is translated.  A tuple is <<source, destination>>; tuples that differ  *)
(* are in different buckets.                                               *)
(***************************************************************************)
EXTENDS FastClassifier, TLC

MCOriginal(f) == IF f = "web" THEN <<"lan", "server">> ELSE <<"peer", "router">>
MCTranslated(f) == IF f = "web" THEN <<"lan", "server">> ELSE <<"peer", "inside">>
MCReverse(t) == <<t[2], t[1]>>
MCBucket(t) == t
MCFlows == {"web", "dnat"}

Symmetry == Permutations(Objs) \cup Permutations(Cpus)
=============================================================================
