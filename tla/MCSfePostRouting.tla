-------------------------- MODULE MCSfePostRouting --------------------------
(***************************************************************************)
(* Values for model checking SfePostRouting: two calls, one port, one      *)
(* bridge and one device that is neither.                                  *)
(***************************************************************************)
EXTENDS SfePostRouting, TLC

CONSTANTS t1, t2, port, bridge, plain

MCCalls == {t1, t2}
MCPorts == {port}
MCBridges == {bridge}
MCPlain == {plain}
Symmetry == Permutations(MCCalls)
=============================================================================
