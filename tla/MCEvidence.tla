------------------------------ MODULE MCEvidence ------------------------------
(* Module Evidence for TLC. *)
EXTENDS Evidence, TLC

Symmetry == Permutations(Workers)

=============================================================================
