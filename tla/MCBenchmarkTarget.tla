--------------------------- MODULE MCBenchmarkTarget ---------------------------
(* BenchmarkTarget for TLC.                                                    *)
EXTENDS BenchmarkTarget, TLC

Symmetry == Permutations(Workers) \union Permutations(Tokens) \union Permutations(Runs)

=============================================================================
