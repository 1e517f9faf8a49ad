---------------------------- MODULE MCBenchmark ----------------------------
(***************************************************************************)
(* Instances of Benchmark for TLC.                                         *)
(***************************************************************************)
EXTENDS Benchmark

CONSTANTS s1, s2, r1, tx, rx

AllTTLs == BOOLEAN \X BOOLEAN
=============================================================================
