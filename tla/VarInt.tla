-------------------------------- MODULE VarInt --------------------------------
(* The variable-length integers of crates/engine/src/utils/var_int.rs: seven
   bits to a byte, least significant first, the top bit set on all but the
   last byte. *)
EXTENDS Integers, Sequences

MAX_VARINT == 5

\* VarInt::new.  The quotients of the value by the powers of 128 are the values
\* the loop variable takes.
VarInt(value) ==
  LET v == [i \in 0 .. MAX_VARINT - 1 |-> value \div 128 ^ i]
      last == CHOOSE i \in DOMAIN v : v[i] <= 127 /\ \A j \in 0 .. i - 1 : v[j] > 127
  IN [i \in 1 .. last + 1 |-> IF i = last + 1 THEN v[last] ELSE (v[i - 1] % 128) + 128]

size(value) == Len(VarInt(value))

\* VarInt::decode: the value, and the bytes read up to and with the first whose
\* top bit is clear.
decode(buf) ==
  LET stops == {i \in DOMAIN buf : buf[i] < 128}
      read == IF stops = {} THEN Len(buf)
              ELSE CHOOSE i \in stops : \A j \in stops : i <= j
      sum[i \in 0 .. read] ==
        IF i = 0 THEN 0 ELSE sum[i - 1] + (buf[i] % 128) * 128 ^ (i - 1)
  IN <<sum[read], read>>
================================================================================
