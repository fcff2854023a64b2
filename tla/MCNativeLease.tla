---------------------------- MODULE MCNativeLease ----------------------------
(* NativeLease for TLC.                                                      *)
EXTENDS NativeLease, TLC

CONSTANT w1

AllPairs == Workers \X Runs

\* w1 uploads its evidence, w2 only competes with it.
OneUploads == {w1} \X Slots

Symmetry == Permutations(Attempts)

=============================================================================
