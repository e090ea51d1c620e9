-------------------------- MODULE MCProposalAgent --------------------------
(***************************************************************************)
(* ProposalAgent for TLC: readers and requests are model values.           *)
(***************************************************************************)
EXTENDS ProposalAgent
=============================================================================
