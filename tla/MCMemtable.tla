------------------------------ MODULE MCMemtable ------------------------------
(* The memtable on a small instance: two versions of one user key, and a    *)
(* tombstone of another.  Threads with the same roles are alike.            *)
EXTENDS Memtable, TLC

MCKey == {Encode(1, 2, Put), Encode(1, 1, Merge), Encode(2, 1, Delete)}

Alike == Permutations(Reader)
================================================================================
