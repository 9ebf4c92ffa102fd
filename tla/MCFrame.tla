------------------------------ MODULE MCFrame ------------------------------
(* Instances of Frame for TLC. *)
EXTENDS Frame, TLC

CONSTANTS a, b, c

Symmetry == Permutations(Ids)
=============================================================================
