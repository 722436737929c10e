---------------------------- MODULE MCInspection ----------------------------
(* Inspection for TLC: the products are interchangeable.                   *)
EXTENDS Inspection, TLC

ProductSymmetry == Permutations(Products)
=============================================================================
