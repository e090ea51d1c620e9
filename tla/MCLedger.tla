------------------------------- MODULE MCLedger -------------------------------
(***************************************************************************)
(* Ledger for TLC: meetings are numbers; jobs and proposals are model      *)
(* values that no query compares but for equality.                         *)
(***************************************************************************)
EXTENDS Ledger

Symmetry == Permutations(Job) \cup Permutations(Proposal)
=============================================================================
