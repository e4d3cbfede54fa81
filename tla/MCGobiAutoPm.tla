---------------------------- MODULE MCGobiAutoPm ----------------------------
(***************************************************************************)
(* The transmission of GobiNet for TLC.                                    *)
(***************************************************************************)
EXTENDS GobiAutoPm, TLC
=============================================================================
