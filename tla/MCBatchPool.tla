------------------------------ MODULE MCBatchPool ------------------------------
(* The batch pool on a small instance; threads and batches are symmetric. *)
EXTENDS BatchPool, TLC

Symmetry == Permutations(Thread) \cup Permutations(Batch)
================================================================================
