------------------------------- MODULE MCSfeCm -------------------------------
(***************************************************************************)
(* Values for model checking SfeCm: one flow, TCP or UDP, and connection   *)
(* objects for two offloads of it at a time.                               *)
(***************************************************************************)
EXTENDS SfeCm, TLC

CONSTANTS c1, c2, f1

MCConns == {c1, c2}
MCFlows == {f1}
Symmetry == Permutations(MCConns)
=============================================================================
