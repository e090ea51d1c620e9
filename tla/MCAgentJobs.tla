---------------------------- MODULE MCAgentJobs ----------------------------
(***************************************************************************)
(* AgentJobs for TLC: every constant is an ordinary value or a set of      *)
(* model values, given by the configuration.                               *)
(***************************************************************************)
EXTENDS AgentJobs
=============================================================================
