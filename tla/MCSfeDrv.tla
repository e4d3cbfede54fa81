------------------------------ MODULE MCSfeDrv ------------------------------
(***************************************************************************)
(* The simulated driver for TLC.                                           *)
(***************************************************************************)
EXTENDS SfeDrv, TLC

CONSTANTS c1, f1, t1, t2   \* a connection, a flow, two senders

=============================================================================
