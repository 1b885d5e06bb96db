-------------------------- MODULE MCWritePipeline --------------------------
(* Instances of WritePipeline for TLC.                                     *)
EXTENDS WritePipeline, TLC

Symmetry == Permutations(Thread)
=============================================================================
