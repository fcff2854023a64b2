------------------------------ MODULE MCDispatch ------------------------------
(* Dispatch for TLC.                                                         *)
EXTENDS Dispatch, TLC

Symmetry == Permutations(Workers) \union Permutations(Tokens)

=============================================================================
