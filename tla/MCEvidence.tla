------------------------------ MODULE MCEvidence ------------------------------
(***************************************************************************)
(* Evidence for TLC: a label is its kind and number, the numbers end at    *)
(* MaxNumber, and the inputs come in these mixes.                          *)
(***************************************************************************)
EXTENDS Evidence

Labels ==
  {[kind |-> "speaker", n |-> n] : n \in 0..MaxNumber} \cup
  {[kind |-> "remote", n |-> 1], [kind |-> "name", n |-> 0]}

Mix(lane, seed, request, demo, exit) ==
  [lane |-> lane, seed |-> seed, request |-> request, demo |-> demo, exit |-> exit]

Mixes ==
  {Mix(3, 0, 1, 0, 1), Mix(2, 1, 0, 0, 1), Mix(1, 1, 1, 0, 0), Mix(0, 2, 0, 0, 0),
   Mix(2, 0, 0, 1, 1), Mix(0, 1, 1, 1, 0), Mix(0, 0, 0, 2, 1)}
=============================================================================
