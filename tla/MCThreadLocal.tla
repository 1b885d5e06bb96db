---------------------------- MODULE MCThreadLocal ----------------------------
(* The thread-local matrix on a small instance: threads are alike, and so are
   the columns with a handler. *)
EXTENDS ThreadLocal, TLC

Alike == Permutations(Thread) \cup Permutations(WithHandler)
================================================================================
