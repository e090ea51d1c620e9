---------------------------- MODULE MCSystemSource ----------------------------
(***************************************************************************)
(* SystemSource for TLC: the configurations choose the sources to try.     *)
(***************************************************************************)
EXTENDS SystemSource
=============================================================================
