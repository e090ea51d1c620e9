------------------------------- MODULE MCConsole -------------------------------
(***************************************************************************)
(* Console for TLC.  Liveness is checked, so nothing is symmetric.         *)
(***************************************************************************)
EXTENDS Console
=============================================================================
