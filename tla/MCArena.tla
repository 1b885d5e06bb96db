------------------------------- MODULE MCArena -------------------------------
(* The arena on a small instance: blocks of three bytes. *)
EXTENDS Arena

L(s, a) == [size |-> s, align |-> a]
Mixed == {L(1, 2), L(3, 1), L(4, 1)}
================================================================================
