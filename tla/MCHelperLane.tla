----------------------------- MODULE MCHelperLane -----------------------------
(***************************************************************************)
(* HelperLane for TLC.                                                     *)
(***************************************************************************)
EXTENDS HelperLane
=============================================================================
