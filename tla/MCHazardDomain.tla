---------------------------- MODULE MCHazardDomain ----------------------------
(* The hazard domain on a small instance; all its sets are symmetric. *)
EXTENDS HazardDomain, TLC

Symmetry == Permutations(Thread) \cup Permutations(Rec) \cup Permutations(Obj)
================================================================================
