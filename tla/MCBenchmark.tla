---------------------------- MODULE MCBenchmark ----------------------------
(***************************************************************************)
(* Model-checking instances of Benchmark.                                  *)
(***************************************************************************)
EXTENDS Benchmark

OneOrTwo == {1, 2}
OneOrThree == {1, 3}

=============================================================================
