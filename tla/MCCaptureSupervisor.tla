------------------------ MODULE MCCaptureSupervisor ------------------------
(***************************************************************************)
(* CaptureSupervisor for TLC: the configurations give model values for     *)
(* sessions and stop requests and choose what the helper may report.       *)
(***************************************************************************)
EXTENDS CaptureSupervisor
=============================================================================
