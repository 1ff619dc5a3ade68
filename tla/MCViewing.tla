------------------------------ MODULE MCViewing ------------------------------
(* Instances of Viewing for TLC. *)
EXTENDS Viewing, TLC

Symmetry == Permutations(Request)
==============================================================================
