------------------------------- MODULE MCBatch -------------------------------
(* The batch on a small instance, and the varints at every boundary between
   two encoded sizes. *)
EXTENDS Batch

ASSUME VarIntRoundTrip ==
  \A v \in {0, 1} \cup UNION {{128 ^ k - 1, 128 ^ k} : k \in 1 .. 4} \cup {2147483647} :
    /\ decode(VarInt(v)) = <<v, size(v)>>
    /\ \A k \in 1 .. 4 : size(v) <= k <=> v < 128 ^ k
================================================================================
