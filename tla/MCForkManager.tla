---------------------------- MODULE MCForkManager ----------------------------
(***************************************************************************)
(* ForkManager for TLC: two managers, of two workers and of one.           *)
(***************************************************************************)
EXTENDS ForkManagerProperties

CONSTANTS w1, w2, w3, m1, m2

TwoAndOne == [w \in {w1, w2, w3} |-> IF w = w3 THEN m2 ELSE m1]
=============================================================================
