---------------------------- MODULE MCWorkerEngine ----------------------------
(* WorkerEngine for TLC.                                                     *)
EXTENDS WorkerEngine, TLC

Symmetry == Permutations(Workers) \union Permutations(Tokens) \union Permutations(Runs)

=============================================================================
