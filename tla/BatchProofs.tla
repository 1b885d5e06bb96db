------------------------------ MODULE BatchProofs ------------------------------
(***************************************************************************)
(* Proofs about Batch for every set of key and value lengths and any       *)
(* number of commits: the hand-over between the owner, the pipeline and    *)
(* the WAL worker, and what a reader of the buffer finds.                  *)
(***************************************************************************)
EXTENDS Batch, TLAPS

-----------------------------------------------------------------------------
(* Variable-length integers: what is decoded is what was encoded.          *)

(* The values that fit the five bytes of a varint (u32 values among them). *)
Encodable == {v \in Nat : v \div 128 ^ (MAX_VARINT - 1) <= 127}

(* The parts of VarInt and decode, by name.                                *)
Quotients(v) == [i \in 0 .. MAX_VARINT - 1 |-> v \div 128 ^ i]
LastByte(v) == CHOOSE i \in DOMAIN Quotients(v) :
   Quotients(v)[i] <= 127 /\ \A j \in 0 .. i - 1 : Quotients(v)[j] > 127
Stops(b) == {i \in DOMAIN b : b[i] < 128}
Read(b) == IF Stops(b) = {} THEN Len(b)
           ELSE CHOOSE i \in Stops(b) : \A j \in Stops(b) : i <= j
Sums(b, n) ==
  CHOOSE s : s = [i \in 0 .. n |-> IF i = 0 THEN 0
                                   ELSE s[i - 1] + (b[i] % 128) * 128 ^ (i - 1)]

Powers ==
  /\ 128 ^ 0 = 1 /\ 128 ^ 1 = 128 /\ 128 ^ 2 = 16384
  /\ 128 ^ 3 = 2097152 /\ 128 ^ 4 = 268435456

LEMMA PowersValues == Powers
BY DEF Powers

LEMMA VarIntIs ==
  ASSUME NEW v
  PROVE  VarInt(v) = [i \in 1 .. LastByte(v) + 1 |->
                        IF i = LastByte(v) + 1 THEN Quotients(v)[LastByte(v)]
                        ELSE (Quotients(v)[i - 1] % 128) + 128]
BY DEF VarInt, LastByte, Quotients

LEMMA QuotientsAre ==
  ASSUME NEW v \in Nat
  PROVE  /\ DOMAIN Quotients(v) = 0 .. 4
         /\ Quotients(v)[0] = v /\ Quotients(v)[1] = v \div 128
         /\ Quotients(v)[2] = v \div 16384 /\ Quotients(v)[3] = v \div 2097152
         /\ Quotients(v)[4] = v \div 268435456
<1>1. DOMAIN Quotients(v) = 0 .. 4 /\ \A i \in 0 .. 4 : Quotients(v)[i] = v \div 128 ^ i
  BY DEF Quotients, MAX_VARINT
<1>2. v \div 1 = v
  OBVIOUS
<1> QED BY <1>1, <1>2, PowersValues DEF Powers

LEMMA DecodeIs ==
  ASSUME NEW b
  PROVE  decode(b) = <<Sums(b, Read(b))[Read(b)], Read(b)>>
BY DEF decode, Sums, Read, Stops

(* A byte's low bits are the remainder; the continuation bit is dropped.   *)
LEMMA LowBits ==
  ASSUME NEW x \in Nat
  PROVE  /\ x % 128 \in 0 .. 127 /\ x \div 128 \in Nat /\ x = 128 * (x \div 128) + (x % 128)
         /\ ((x % 128) + 128) % 128 = x % 128
         /\ x <= 127 => x % 128 = x
OBVIOUS

LEMMA QuotientsNat ==
  ASSUME NEW v \in Nat, NEW i \in 0 .. 4
  PROVE  Quotients(v)[i] \in Nat
<1>1. /\ v \div 128 \in Nat /\ v \div 16384 \in Nat /\ v \div 2097152 \in Nat
      /\ v \div 268435456 \in Nat
  BY SMT
<1>2. i = 0 \/ i = 1 \/ i = 2 \/ i = 3 \/ i = 4
  BY SMT
<1> QED BY <1>1, <1>2, QuotientsAre, SMT

(* VarInt's loop ends within five bytes, at the first quotient below 128.  *)
LEMMA LastByteIs ==
  ASSUME NEW v \in Encodable
  PROVE  /\ LastByte(v) \in 0 .. 4
         /\ Quotients(v)[LastByte(v)] <= 127
         /\ \A j \in 0 .. LastByte(v) - 1 : Quotients(v)[j] > 127
<1> DEFINE Good(i) == Quotients(v)[i] <= 127 /\ \A j \in 0 .. i - 1 : Quotients(v)[j] > 127
<1>0. v \in Nat /\ v \div 268435456 <= 127
  BY PowersValues, SMT DEF Encodable, Powers, MAX_VARINT
<1>1. /\ DOMAIN Quotients(v) = 0 .. 4 /\ v \in Nat
      /\ \A i \in 0 .. 4 : Quotients(v)[i] \in Nat
      /\ Quotients(v)[4] <= 127
  BY <1>0, QuotientsNat, QuotientsAre, SMT
<1>2. \E i \in 0 .. 4 : Good(i)
  <2>1. CASE Quotients(v)[0] <= 127
    BY <2>1
  <2>2. CASE Quotients(v)[0] > 127 /\ Quotients(v)[1] <= 127
    BY <2>2
  <2>3. CASE Quotients(v)[0] > 127 /\ Quotients(v)[1] > 127 /\ Quotients(v)[2] <= 127
    BY <2>3
  <2>4. CASE /\ Quotients(v)[0] > 127 /\ Quotients(v)[1] > 127
             /\ Quotients(v)[2] > 127 /\ Quotients(v)[3] <= 127
    BY <2>4
  <2>5. CASE /\ Quotients(v)[0] > 127 /\ Quotients(v)[1] > 127
             /\ Quotients(v)[2] > 127 /\ Quotients(v)[3] > 127
    BY <2>5, <1>1
  <2> QED BY <2>1, <2>2, <2>3, <2>4, <2>5, <1>1
<1>3. LastByte(v) \in 0 .. 4 /\ Good(LastByte(v))
  BY <1>1, <1>2 DEF LastByte
<1> QED BY <1>3

LEMMA EncodableNat ==
  ASSUME NEW v \in Encodable
  PROVE  v \in Nat
BY DEF Encodable

(* Two functions that agree at 0 and climb alike agree at the fifth step.  *)
LEMMA Climb ==
  ASSUME NEW n \in 1 .. 5, NEW s, NEW g, s[0] = g[0],
         \A i \in 1 .. n : s[i - 1] = g[i - 1] => s[i] = g[i]
  PROVE  s[n] = g[n]
<1>1. /\ 1 <= n => s[1] = g[1]
      /\ 2 <= n => (s[1] = g[1] => s[2] = g[2])
      /\ 3 <= n => (s[2] = g[2] => s[3] = g[3])
      /\ 4 <= n => (s[3] = g[3] => s[4] = g[4])
      /\ 5 <= n => (s[4] = g[4] => s[5] = g[5])
  OBVIOUS
<1>2. n = 1 \/ n = 2 \/ n = 3 \/ n = 4 \/ n = 5
  OBVIOUS
<1> QED BY <1>1, <1>2

IsSum(g, b, n) ==
  g = [i \in 0 .. n |-> IF i = 0 THEN 0 ELSE g[i - 1] + (b[i] % 128) * 128 ^ (i - 1)]

(* decode's recursive function is the only one that satisfies its equation.*)
LEMMA SumUnique ==
  ASSUME NEW b, NEW n \in 1 .. 5, NEW g, IsSum(g, b, n)
  PROVE  Sums(b, n)[n] = g[n]
<1> DEFINE s == Sums(b, n)
<1>1. s = [i \in 0 .. n |-> IF i = 0 THEN 0 ELSE s[i - 1] + (b[i] % 128) * 128 ^ (i - 1)]
  BY Zenon DEF Sums, IsSum
<1> HIDE DEF s
<1> DEFINE e == [i \in 0 .. n |-> (b[i] % 128) * 128 ^ (i - 1)]
<1>2. \A i \in 0 .. n : s[i] = IF i = 0 THEN 0 ELSE s[i - 1] + e[i]
  BY <1>1, Zenon
<1>3. \A i \in 0 .. n : g[i] = IF i = 0 THEN 0 ELSE g[i - 1] + e[i]
  BY Zenon DEF IsSum
<1> HIDE DEF e
<1>4. s[0] = g[0]
  BY <1>2, <1>3
<1>5. \A i \in 1 .. n : s[i - 1] = g[i - 1] => s[i] = g[i]
  <2>1. \A i \in 1 .. n : i \in 0 .. n /\ i # 0
    BY SMT
  <2> QED BY <1>2, <1>3, <2>1, Zenon
<1> QED BY <1>4, <1>5, Climb DEF s

(* decode stops at the last byte VarInt wrote, and nowhere before.         *)
LEMMA ReadIs ==
  ASSUME NEW v \in Encodable
  PROVE  /\ Read(VarInt(v)) = LastByte(v) + 1
         /\ size(v) = LastByte(v) + 1
<1> DEFINE b == VarInt(v)
           k == LastByte(v)
           q == Quotients(v)
<1>1. k \in 0 .. 4 /\ q[k] <= 127 /\ \A i \in 0 .. 4 : q[i] \in Nat
  BY LastByteIs, QuotientsNat, EncodableNat
<1>2. b = [i \in 1 .. k + 1 |-> IF i = k + 1 THEN q[k] ELSE (q[i - 1] % 128) + 128]
  BY VarIntIs
<1> HIDE DEF b, k, q
<1>3. b \in Seq(Nat) /\ Len(b) = k + 1 /\ DOMAIN b = 1 .. k + 1
  <2>1. ASSUME NEW i \in 1 .. k + 1 PROVE b[i] \in Nat
    <3>1. i = k + 1 => b[i] = q[k]
      BY <1>1, <1>2
    <3>2. i # k + 1 => i - 1 \in 0 .. 4 /\ b[i] = (q[i - 1] % 128) + 128
      BY <1>1, <1>2
    <3> QED BY <1>1, <3>1, <3>2, LowBits
  <2>2. k + 1 \in Nat
    BY <1>1
  <2>3. b \in [1 .. k + 1 -> Nat]
    BY <1>2, <2>1, Zenon
  <2> QED BY <2>2, <2>3
<1>4. b[k + 1] < 128 /\ \A i \in 1 .. k : b[i] >= 128
  <2>1. b[k + 1] = q[k]
    BY <1>1, <1>2
  <2>2. ASSUME NEW i \in 1 .. k PROVE b[i] >= 128
    <3>1. i - 1 \in 0 .. 4 /\ b[i] = (q[i - 1] % 128) + 128
      BY <1>1, <1>2
    <3> QED BY <1>1, <3>1, LowBits
  <2> QED BY <1>1, <2>1, <2>2
<1>5. Stops(b) = {k + 1}
  BY <1>1, <1>3, <1>4, SMTT(30) DEF Stops
<1>6. Read(b) = k + 1
  BY <1>5, <1>1 DEF Read
<1> QED BY <1>3, <1>6 DEF size, b, k

(* decode returns the value and the number of bytes VarInt::new wrote: the *)
(* partial sums are what the quotients leave of the value.                 *)
THEOREM VarIntRoundTrips ==
  ASSUME NEW v \in Encodable
  PROVE  decode(VarInt(v)) = <<v, size(v)>>
<1> DEFINE b == VarInt(v)
           k == LastByte(v)
           q == Quotients(v)
           n == k + 1
           g == [i \in 0 .. n |-> IF i = n THEN v ELSE v - 128 ^ i * q[i]]
<1>1. k \in 0 .. 4 /\ q[k] <= 127 /\ \A i \in 0 .. 4 : q[i] \in Nat
  BY LastByteIs, QuotientsNat, EncodableNat
<1>2. b = [i \in 1 .. k + 1 |-> IF i = k + 1 THEN q[k] ELSE (q[i - 1] % 128) + 128]
  BY VarIntIs
<1>3. Read(b) = n /\ size(v) = n
  BY ReadIs
<1>4. /\ q[0] = v /\ q[1] = v \div 128 /\ q[2] = v \div 16384
      /\ q[3] = v \div 2097152 /\ q[4] = v \div 268435456
  BY QuotientsAre, EncodableNat, SMT
<1>5. /\ q[1] = q[0] \div 128 /\ q[2] = q[1] \div 128
      /\ q[3] = q[2] \div 128 /\ q[4] = q[3] \div 128
  BY <1>4, EncodableNat, SMT
<1> HIDE DEF b, k, q
<1>6. ASSUME NEW i \in 1 .. 4
      PROVE  q[i - 1] \in Nat /\ q[i] \in Nat /\ q[i - 1] = 128 * q[i] + (q[i - 1] % 128)
  <2>1. q[i] = q[i - 1] \div 128
    <3>1. i = 1 \/ i = 2 \/ i = 3 \/ i = 4
      OBVIOUS
    <3> QED BY <1>5, <3>1
  <2>2. q[i - 1] \in Nat /\ q[i] \in Nat
    BY <1>1
  <2> QED BY <2>1, <2>2, LowBits
<1>7. ASSUME NEW i \in 1 .. n
      PROVE  b[i] % 128 = IF i = n THEN q[k] ELSE q[i - 1] % 128
  <2>1. i = n => b[i] = q[k]
    BY <1>1, <1>2
  <2>2. i # n => i - 1 \in 0 .. 4 /\ b[i] = (q[i - 1] % 128) + 128
    BY <1>1, <1>2
  <2> QED BY <1>1, <2>1, <2>2, LowBits
<1>8. g[0] = 0 /\ g[n] = v
  <2>1. 128 ^ 0 = 1 /\ v \in Nat /\ v - 1 * v = 0
    BY PowersValues, EncodableNat, SMT DEF Powers
  <2>2. n \in 1 .. 5 /\ g[0] = (IF 0 = n THEN v ELSE v - 128 ^ 0 * q[0]) /\ g[n] = v
    BY <1>1
  <2> QED BY <1>4, <2>1, <2>2
<1>9. ASSUME NEW i \in 1 .. n
      PROVE  g[i] = g[i - 1] + (b[i] % 128) * 128 ^ (i - 1)
  <2>1. g[i] = (IF i = n THEN v ELSE v - 128 ^ i * q[i]) /\ g[i - 1] = v - 128 ^ (i - 1) * q[i - 1]
    BY <1>1
  <2>2. b[i] % 128 = IF i = n THEN q[i - 1] ELSE q[i - 1] - 128 * q[i]
    <3>1. i = n => i - 1 = k
      BY <1>1
    <3>2. i # n => i \in 1 .. 4 /\ b[i] % 128 = q[i - 1] % 128
      BY <1>1, <1>7
    <3>3. i = n => b[i] % 128 = q[k]
      BY <1>7
    <3>4. i # n => q[i - 1] % 128 = q[i - 1] - 128 * q[i]
      BY <3>2, <1>6, LowBits
    <3> QED BY <3>1, <3>2, <3>3, <3>4
  <2> HIDE DEF g
  <2>3. i \in {1, 2, 3, 4, 5}
    BY <1>1
  <2>4. 128 ^ (i - 1) \in Nat /\ (i < 5 => 128 ^ i = 128 * 128 ^ (i - 1))
    <3>1. CASE i = 1
      BY <3>1, PowersValues, SMT DEF Powers
    <3>2. CASE i = 2
      BY <3>2, PowersValues, SMT DEF Powers
    <3>3. CASE i = 3
      BY <3>3, PowersValues, SMT DEF Powers
    <3>4. CASE i = 4
      BY <3>4, PowersValues, SMT DEF Powers
    <3>5. CASE i = 5
      BY <3>5, PowersValues, SMT DEF Powers
    <3> QED BY <2>3, <3>1, <3>2, <3>3, <3>4, <3>5
  <2> DEFINE p == 128 ^ (i - 1)
  <2> HIDE DEF p
  <2>5. CASE i = n
    <3>1. /\ g[i] = v /\ g[i - 1] = v - p * q[i - 1] /\ b[i] % 128 = q[i - 1]
          /\ p \in Nat /\ q[i - 1] \in Nat
      BY <2>1, <2>2, <2>4, <2>5, <1>1 DEF p
    <3>2. v = v - p * q[i - 1] + q[i - 1] * p
      BY <3>1, EncodableNat
    <3> QED BY <3>1, <3>2 DEF p
  <2>6. CASE i # n
    <3>1. /\ g[i] = v - (128 * p) * q[i] /\ g[i - 1] = v - p * q[i - 1]
          /\ b[i] % 128 = q[i - 1] - 128 * q[i] /\ p \in Nat /\ q[i - 1] \in Nat /\ q[i] \in Nat
      BY <2>1, <2>2, <2>4, <2>6, <1>1 DEF p
    <3>2. v - (128 * p) * q[i] = v - p * q[i - 1] + (q[i - 1] - 128 * q[i]) * p
      BY <3>1, EncodableNat
    <3> QED BY <3>1, <3>2 DEF p
  <2> QED BY <2>5, <2>6
<1>10. IsSum(g, b, n)
  <2>1. \A i \in 0 .. n : g[i] = IF i = 0 THEN 0 ELSE g[i - 1] + (b[i] % 128) * 128 ^ (i - 1)
    <3> SUFFICES ASSUME NEW i \in 0 .. n
                 PROVE  g[i] = IF i = 0 THEN 0 ELSE g[i - 1] + (b[i] % 128) * 128 ^ (i - 1)
      OBVIOUS
    <3> HIDE DEF g
    <3>1. i = 0 \/ i \in 1 .. n
      BY <1>1
    <3> QED BY <1>8, <1>9, <3>1, Zenon
  <2>2. g = [i \in 0 .. n |-> g[i]]
    OBVIOUS
  <2> HIDE DEF g
  <2> QED BY <2>1, <2>2, Zenon DEF IsSum
<1> HIDE DEF g
<1>11. n \in 1 .. 5
  BY <1>1
<1> HIDE DEF n
<1>12. Sums(b, n)[n] = g[n]
  BY <1>10, <1>11, SumUnique
<1> QED BY <1>3, <1>8, <1>12, DecodeIs DEF b

-----------------------------------------------------------------------------
(* The buffer: operations end to end                                       *)

Codes == {VarInt(k) : k \in Encodable}
Ops == [at : Nat, key : Codes, value : Codes]
Buffers == [len : Nat, seq : Nat, count : Nat, ops : Seq(Ops)]

(* The offset a reader finds behind an operation.                          *)
OpEnd(o) ==
  o.at + 1 + 8 + decode(o.key)[2] + decode(o.key)[1] + decode(o.value)[2] + decode(o.value)[1]

(* A buffer of n counted operations and r others: empty, or a header and   *)
(* operations end to end that begin below its length.                      *)
WellFormed(d, n, r) ==
  /\ d \in Buffers /\ d.len <= MAX_BATCH_SIZE
  /\ \A i \in DOMAIN d.ops : d.ops[i].at < d.len
  /\ n \in Nat /\ r \in Nat /\ n + r = Len(d.ops)
  /\ d.len = 0 => d.ops = <<>>
  /\ d.len > 0 =>
       /\ d.count = n
       /\ \A i \in DOMAIN d.ops :
            d.ops[i].at = IF i = 1 THEN HEADER_SIZE ELSE OpEnd(d.ops[i - 1])
       /\ d.len = IF d.ops = <<>> THEN HEADER_SIZE ELSE OpEnd(d.ops[Len(d.ops)])

(* The size of a record is positive, and the lengths a reader decodes from *)
(* it add up to it.                                                        *)
LEMMA RecordEnds ==
  ASSUME NEW a \in Nat, NEW k \in Encodable, NEW v \in Encodable
  PROVE  /\ RecordSize(k, v) \in Nat \ {0}
         /\ [at |-> a, key |-> VarInt(k), value |-> VarInt(v)] \in Ops
         /\ OpEnd([at |-> a, key |-> VarInt(k), value |-> VarInt(v)]) = a + RecordSize(k, v)
<1>1. k \in Nat /\ v \in Nat
  BY EncodableNat
<1>2. size(k) \in Nat /\ size(v) \in Nat
  BY ReadIs, LastByteIs
<1>3. decode(VarInt(k)) = <<k, size(k)>> /\ decode(VarInt(v)) = <<v, size(v)>>
  BY VarIntRoundTrips
<1>4. RecordSize(k, v) \in Nat \ {0}
  BY <1>1, <1>2 DEF RecordSize
<1>5. OpEnd([at |-> a, key |-> VarInt(k), value |-> VarInt(v)])
        = a + 1 + 8 + size(k) + k + size(v) + v
  BY <1>3 DEF OpEnd
<1>6. a + 1 + 8 + size(k) + k + size(v) + v = a + RecordSize(k, v)
  BY <1>1, <1>2 DEF RecordSize
<1>7. [at |-> a, key |-> VarInt(k), value |-> VarInt(v)] \in Ops
  BY DEF Ops, Codes
<1> QED BY <1>4, <1>5, <1>6, <1>7

(* The size of a record whose lengths are not refused.                     *)
LEMMA AcceptedSize ==
  ASSUME NEW k \in KeyLens, NEW v \in ValueLens, RecordRefusal(k, v) = "ok"
  PROVE  /\ k \in Encodable /\ v \in Encodable /\ RecordSize(k, v) \in Nat
         /\ HEADER_SIZE + RecordSize(k, v) <= MAX_BATCH_SIZE
<1>1. k \in Nat /\ v \in Nat
  BY SizeAssumption
<1>2. /\ ~(k > MAX_USER_KEY_BYTES) /\ ~(v > MAX_LEN)
      /\ ~(HEADER_SIZE + RecordSize(k, v) > MAX_BATCH_SIZE)
  BY DEF RecordRefusal
<1>3. 128 ^ (MAX_VARINT - 1) = 268435456
  BY PowersValues, SMT DEF Powers, MAX_VARINT
<1>4. \A x \in Nat : \A y \in Nat : x <= y => x \div 268435456 <= y \div 268435456
  BY SMT
<1>5. k \in Encodable /\ v \in Encodable
  BY <1>1, <1>2, <1>3, <1>4, SizeAssumption, VarIntAssumption, SMT DEF Encodable
<1>6. RecordSize(k, v) \in Nat
  BY <1>5, RecordEnds
<1> QED BY <1>2, <1>5, <1>6, SizeAssumption DEF HEADER_SIZE

(* A buffer that had to be initialised has room for every record the first *)
(* check lets through, so a batch that is full was not changed.            *)
LEMMA FullBatchHadHeader ==
  ASSUME NEW d, NEW k \in KeyLens, NEW v \in ValueLens,
         RecordRefusal(k, v) = "ok", ~HasRoom(Initialised(d), k, v)
  PROVE  Initialised(d) = d
<1>1. HEADER_SIZE + RecordSize(k, v) <= MAX_BATCH_SIZE
  BY AcceptedSize
<1>2. d.len = 0 => Initialised(d).len = HEADER_SIZE
  BY DEF Initialised, Cleared
<1>3. d.len # 0
  BY <1>1, <1>2 DEF HasRoom
<1> QED BY <1>3 DEF Initialised

(* init_buffer gives an emptied buffer its header.                         *)
LEMMA InitialisedWellFormed ==
  ASSUME NEW d, NEW n, NEW r, WellFormed(d, n, r)
  PROVE  /\ WellFormed(Initialised(d), n, r) /\ Initialised(d).len > 0
         /\ Initialised(d).count = n
<1>1. CASE d.len = 0
  <2> DEFINE e == [len |-> HEADER_SIZE, seq |-> 0, count |-> 0, ops |-> <<>>]
  <2>1. Initialised(d) = e
    BY <1>1 DEF Initialised, Cleared
  <2>2. /\ e.len = HEADER_SIZE /\ e.count = 0 /\ e.ops = <<>> /\ e \in Buffers
    BY DEF Buffers, HEADER_SIZE
  <2>3. n = 0 /\ r = 0
    BY <1>1 DEF WellFormed
  <2> HIDE DEF e
  <2> QED BY <1>1, <2>1, <2>2, <2>3, SizeAssumption DEF WellFormed, HEADER_SIZE
<1>2. CASE d.len # 0
  BY <1>2 DEF Initialised, WellFormed, Buffers
<1> QED BY <1>1, <1>2

(* The buffer Written makes.                                               *)
LEMMA WrittenIs ==
  ASSUME NEW d \in Buffers, NEW k \in Encodable, NEW v \in Encodable
  PROVE  LET w == Written(d, k, v)
             o == [at |-> d.len, key |-> VarInt(k), value |-> VarInt(v)]
         IN /\ w \in Buffers /\ o \in Ops /\ o.at = d.len
            /\ w.len = d.len + RecordSize(k, v) /\ w.ops = Append(d.ops, o)
            /\ w.seq = d.seq /\ w.count = d.count
<1> DEFINE o == [at |-> d.len, key |-> VarInt(k), value |-> VarInt(v)]
           w == Written(d, k, v)
           newlen == d.len + RecordSize(k, v)
           newops == Append(d.ops, o)
<1>1. d.len \in Nat /\ d.ops \in Seq(Ops)
  BY DEF Buffers
<1>2. newlen \in Nat /\ o \in Ops /\ o.at = d.len
  BY <1>1, RecordEnds
<1>3. w = [d EXCEPT !.len = newlen, !.ops = newops]
  BY DEF Written
<1> HIDE DEF o, w
<1>4. newops \in Seq(Ops)
  BY <1>1, <1>2
<1> HIDE DEF newlen, newops
<1>5. w \in Buffers /\ w.len = newlen /\ w.ops = newops /\ w.seq = d.seq /\ w.count = d.count
  BY <1>2, <1>3, <1>4 DEF Buffers
<1> QED BY <1>2, <1>5 DEF o, w, newlen, newops

(* An operation written at the end of a buffer.                            *)
LEMMA WrittenWellFormed ==
  ASSUME NEW d, NEW n, NEW r, WellFormed(d, n, r), d.len > 0,
         NEW m \in Nat, NEW q \in Nat, m + q = n + r + 1,
         NEW k \in Encodable, NEW v \in Encodable,
         d.len + RecordSize(k, v) <= MAX_BATCH_SIZE
  PROVE  WellFormed([Written(d, k, v) EXCEPT !.count = m], m, q)
<1> DEFINE o == [at |-> d.len, key |-> VarInt(k), value |-> VarInt(v)]
           e == [Written(d, k, v) EXCEPT !.count = m]
<1>1. d \in Buffers /\ d.len \in Nat /\ d.ops \in Seq(Ops)
  BY DEF WellFormed, Buffers
<1>2. RecordSize(k, v) \in Nat \ {0} /\ o \in Ops /\ OpEnd(o) = d.len + RecordSize(k, v)
  BY <1>1, RecordEnds
<1>3. o.at = d.len
  OBVIOUS
<1>4. /\ Written(d, k, v) \in Buffers /\ Written(d, k, v).len = d.len + RecordSize(k, v)
      /\ Written(d, k, v).ops = Append(d.ops, o)
  BY <1>1, WrittenIs
<1>5. m \in Nat
  OBVIOUS
<1> HIDE DEF o
<1>6. /\ e.len = d.len + RecordSize(k, v) /\ e.ops = Append(d.ops, o) /\ e.count = m
      /\ e \in Buffers
  BY <1>4, <1>5 DEF Buffers
<1> HIDE DEF e
<1>7. /\ DOMAIN e.ops = 1 .. Len(d.ops) + 1 /\ Len(e.ops) = Len(d.ops) + 1
      /\ e.ops[Len(d.ops) + 1] = o /\ \A i \in 1 .. Len(d.ops) : e.ops[i] = d.ops[i]
      /\ Len(d.ops) \in Nat /\ e.ops # <<>> /\ DOMAIN d.ops = 1 .. Len(d.ops)
      /\ d.ops = <<>> <=> Len(d.ops) = 0
  BY <1>1, <1>2, <1>6, SMTT(30)
<1>8. \A i \in 1 .. Len(d.ops) : d.ops[i].at \in Nat
  <2>1. \A i \in 1 .. Len(d.ops) : d.ops[i] \in Ops
    BY <1>1, <1>7
  <2> QED BY <2>1 DEF Ops
<1>9. \A i \in DOMAIN e.ops : e.ops[i].at < e.len
  <2>1. \A i \in 1 .. Len(d.ops) : d.ops[i].at < d.len
    BY <1>7 DEF WellFormed
  <2>2. d.len < e.len /\ d.len \in Nat /\ e.len \in Nat
    BY <1>1, <1>2, <1>6
  <2>3. ASSUME NEW i \in DOMAIN e.ops PROVE e.ops[i].at < e.len
    <3>1. CASE i \in 1 .. Len(d.ops)
      <4>1. e.ops[i] = d.ops[i]
        BY <1>7, <3>1
      <4>2. d.ops[i].at \in Nat /\ d.ops[i].at < d.len
        BY <1>8, <2>1, <3>1
      <4> QED BY <2>2, <4>1, <4>2, SMTT(20)
    <3>2. CASE i = Len(d.ops) + 1
      BY <1>3, <1>7, <2>2, <3>2
    <3>3. i \in 1 .. Len(d.ops) \/ i = Len(d.ops) + 1
      <4>1. i \in 1 .. Len(d.ops) + 1 /\ Len(d.ops) \in Nat
        BY <1>7, <2>3
      <4> QED BY <4>1, SMTT(20)
    <3> QED BY <3>1, <3>2, <3>3
  <2> QED BY <2>3
<1>10. \A i \in DOMAIN e.ops :
         e.ops[i].at = IF i = 1 THEN HEADER_SIZE ELSE OpEnd(e.ops[i - 1])
  <2> SUFFICES ASSUME NEW i \in DOMAIN e.ops
               PROVE  e.ops[i].at = IF i = 1 THEN HEADER_SIZE ELSE OpEnd(e.ops[i - 1])
    OBVIOUS
  <2>1. CASE i \in 1 .. Len(d.ops)
    <3>1. i # 1 => i - 1 \in 1 .. Len(d.ops)
      BY <2>1, <1>7
    <3>2. d.ops[i].at = IF i = 1 THEN HEADER_SIZE ELSE OpEnd(d.ops[i - 1])
      BY <2>1, <1>7 DEF WellFormed
    <3> QED BY <2>1, <3>1, <3>2, <1>7
  <2>2. CASE i = Len(d.ops) + 1
    <3>1. i # 1 => i - 1 \in 1 .. Len(d.ops) /\ i - 1 = Len(d.ops) /\ d.ops # <<>>
      BY <2>2, <1>7
    <3>2. i = 1 => d.ops = <<>>
      BY <2>2, <1>7
    <3> QED BY <2>2, <3>1, <3>2, <1>3, <1>7 DEF WellFormed
  <2> QED BY <2>1, <2>2, <1>7
<1>11. e.len = OpEnd(e.ops[Len(e.ops)])
  BY <1>2, <1>6, <1>7
<1>12. m + q = Len(e.ops)
  BY <1>7 DEF WellFormed
<1>13. WellFormed(e, m, q)
  <2>1. e.len > 0 /\ e.len <= MAX_BATCH_SIZE
    BY <1>1, <1>2, <1>6
  <2> QED BY <1>6, <1>7, <1>9, <1>10, <1>11, <1>12, <2>1, SMTT(30) DEF WellFormed
<1> QED BY <1>13 DEF e

(* DeferredOp::rollback leaves the buffer as the reservation found it.     *)
LEMMA RolledBackSame ==
  ASSUME NEW d, NEW n, NEW r, WellFormed(d, n, r), NEW k \in Encodable, NEW v \in Encodable
  PROVE  RolledBack(d, k, v) = d
<1> DEFINE o == [at |-> d.len, key |-> VarInt(k), value |-> VarInt(v)]
           w == Written(d, k, v)
           left == CHOOSE j \in 0 .. Len(w.ops) :
                     \A i \in DOMAIN w.ops : w.ops[i].at < d.len <=> i <= j
<1>1. d \in Buffers /\ d.len \in Nat /\ d.ops \in Seq(Ops)
  BY DEF WellFormed, Buffers
<1>2. /\ o \in Ops /\ o.at = d.len /\ w \in Buffers /\ w.ops = Append(d.ops, o)
      /\ w.seq = d.seq /\ w.count = d.count
  BY <1>1, WrittenIs
<1> HIDE DEF o
<1>5. w.ops = Append(d.ops, o) /\ w \in Buffers
  BY <1>2
<1>6. /\ Len(d.ops) \in Nat /\ DOMAIN w.ops = 1 .. Len(d.ops) + 1 /\ Len(w.ops) = Len(d.ops) + 1
      /\ w.ops[Len(d.ops) + 1] = o /\ \A i \in 1 .. Len(d.ops) : w.ops[i] = d.ops[i]
  BY <1>1, <1>2, <1>5
<1>7. \A i \in DOMAIN w.ops : w.ops[i].at < d.len <=> i <= Len(d.ops)
  BY <1>1, <1>2, <1>6 DEF WellFormed
<1>8. left = Len(d.ops)
  <2>1. left \in 0 .. Len(w.ops) /\ \A i \in DOMAIN w.ops : w.ops[i].at < d.len <=> i <= left
    <3>1. Len(d.ops) \in 0 .. Len(w.ops)
      BY <1>6
    <3> HIDE DEF w
    <3> QED BY <1>7, <3>1, Zenon
  <2> HIDE DEF left, w
  <2>2. \A i \in 1 .. Len(d.ops) + 1 : i <= left <=> i <= Len(d.ops)
    BY <1>6, <1>7, <2>1
  <2> QED BY <2>1, <2>2, <1>6
<1>9. RolledBack(d, k, v) = [w EXCEPT !.len = d.len, !.ops = SubSeq(w.ops, 1, left)]
  BY DEF RolledBack, ResizeTo
<1>10. SubSeq(w.ops, 1, left) = d.ops
  <2> HIDE DEF left, w
  <2> QED BY <1>1, <1>2, <1>5, <1>8
<1> HIDE DEF left
<1>11. RolledBack(d, k, v) = [w EXCEPT !.len = d.len, !.ops = d.ops]
  BY <1>9, <1>10
<1> HIDE DEF w
<1> QED BY <1>1, <1>2, <1>11 DEF Buffers

-----------------------------------------------------------------------------
(* The inductive invariant                                                 *)

Waits == [op : {"reset", "close"}, pc : {"spin", "lock", "asleep"}]
Objects == {"uncommitted", "sealed", "committing", "pooled", "panicked", "dropped"}
Runtimes == {"Acquired", "InQueue", "Applied", "Idle"}

Types ==
  /\ TypeOK
  /\ wait \in Waits \cup {NotWaiting}
  /\ object \in Objects /\ runtime \in Runtimes
  /\ clone \in BOOLEAN /\ env \in BOOLEAN

(* Only the owner of a batch waits for it.                                 *)
WaitInv == wait # NotWaiting => object \in {"uncommitted", "sealed"}

(* While the worker holds a clone the waiter is primed and the pipeline    *)
(* has the batch, so that nobody may reset it or commit it again.          *)
CloneInv ==
  clone => /\ env /\ sync = "Primed" /\ runtime \in {"InQueue", "Applied"}
           /\ object \in {"committing", "sealed"}

(* What the waiter shows is what the WAL reported for the last commit, and *)
(* a waiter never primed has seen none, except that a batch whose prepare  *)
(* failed stays InQueue with an older result.  A commit under way has been *)
(* sent to the WAL.                                                        *)
WaiterInv ==
  env => /\ sync \in Terminal => outcome = sync \/ (outcome = "none" /\ runtime = "InQueue")
         /\ sync = "Init" => commits = 0 \/ runtime = "InQueue"
         /\ object = "committing" => sync # "Init" /\ outcome # "none"

(* A batch that may be written or taken from the pool shows a sync.        *)
ReuseInv == object \in {"uncommitted", "pooled"} => Reusable(sync)

BufferInv == WellFormed(data, count, deferred)

SyncInv == Types /\ WaitInv /\ CloneInv /\ WaiterInv /\ ReuseInv
IInv == SyncInv /\ BufferInv

(* The parts about the hand-over, first.                                   *)
LEMMA Initially == Init => SyncInv
<1> SUFFICES ASSUME Init PROVE SyncInv
  OBVIOUS
<1>1. /\ count = 0 /\ runtime = "Acquired" /\ object = "uncommitted" /\ sync = "Init"
      /\ clone = FALSE /\ wait = NotWaiting /\ error = "ok" /\ commits = 0
      /\ env \in BOOLEAN /\ deferred = 0 /\ outcome = "none"
  BY DEF Init
<1>2. TypeOK
  BY <1>1, SizeAssumption DEF TypeOK
<1>3. Types
  BY <1>1, <1>2 DEF Types, Objects, Runtimes
<1>4. WaitInv /\ CloneInv
  BY <1>1 DEF WaitInv, CloneInv
<1>5. WaiterInv /\ ReuseInv
  BY <1>1 DEF WaiterInv, ReuseInv, Terminal, Reusable
<1> QED BY <1>3, <1>4, <1>5 DEF SyncInv

LEMMA InvImplies == SyncInv => TypeOK /\ NoReuseBeforeSync /\ ReuseMeansDurable
BY DEF SyncInv, Types, TypeOK, CloneInv, WaiterInv, ReuseInv, NoReuseBeforeSync,
   ReuseMeansDurable, Reusable, Terminal

(* A call is in one of the waiter's places, and not waiting is none.       *)
LEMMA WaitCases ==
  ASSUME SyncInv
  PROVE  /\ NotWaiting.pc = "none" /\ NotWaiting \notin Waits
         /\ \A w \in Waits : /\ w.pc \in {"spin", "lock", "asleep"}
                             /\ w.op \in {"reset", "close"}
                             /\ [w EXCEPT !.pc = "lock"] \in Waits
                             /\ [w EXCEPT !.pc = "asleep"] \in Waits
         /\ \A op \in {"reset", "close"} : [op |-> op, pc |-> "spin"] \in Waits
BY DEF NotWaiting, Waits

-----------------------------------------------------------------------------
(* One lemma per action.                                                   *)

(* A reservation is granted or refused with one of the errors of           *)
(* reserve_operation, and a refusal leaves the buffer alone.               *)
LEMMA ReserveRefuses ==
  ASSUME NEW k \in KeyLens, NEW v \in ValueLens, NEW result, Reserve(k, v, result)
  PROVE  /\ error' \in {"ok", "KeyTooLarge", "ValueTooLarge", "RecordTooLarge", "BatchFull"}
         /\ error' # "ok" => data' = data
         /\ error' = "ok" => /\ RecordRefusal(k, v) = "ok" /\ data' = result
                             /\ HasRoom(Initialised(data), k, v)
<1>1. CASE RecordRefusal(k, v) # "ok"
  BY <1>1 DEF Reserve, RecordRefusal
<1>2. CASE RecordRefusal(k, v) = "ok" /\ ~HasRoom(Initialised(data), k, v)
  <2>1. error' = "BatchFull" /\ data' = Initialised(data)
    BY <1>2, Zenon DEF Reserve
  <2>2. Initialised(data) = data
    BY <1>2, FullBatchHadHeader
  <2> QED BY <2>1, <2>2
<1>3. CASE RecordRefusal(k, v) = "ok" /\ HasRoom(Initialised(data), k, v)
  <2>1. error' = "ok" /\ data' = result
    BY <1>3, Zenon DEF Reserve
  <2> QED BY <1>3, <2>1
<1> QED BY <1>1, <1>2, <1>3

(* put, put_with and put_with whose closure panics touch only the buffer,  *)
(* the count and the result.                                               *)
WriteFrame ==
  /\ Owned("uncommitted")
  /\ error' \in {"ok", "KeyTooLarge", "ValueTooLarge", "RecordTooLarge", "BatchFull"}
  /\ count' \in {count, count + 1} /\ deferred' \in {deferred, deferred + 1}
  /\ error' # "ok" => UNCHANGED buffer
  /\ UNCHANGED <<env, runtime, object, sync, clone, wait, commits, outcome>>

LEMMA WriteIsFrame ==
  ASSUME NEW k \in KeyLens, NEW v \in ValueLens,
         Put(k, v) \/ PutWith(k, v) \/ PutWithPanics(k, v)
  PROVE  WriteFrame
<1>0. \E result : Reserve(k, v, result)
  BY Zenon DEF Put, PutWith, PutWithPanics
<1>1. /\ error' \in {"ok", "KeyTooLarge", "ValueTooLarge", "RecordTooLarge", "BatchFull"}
      /\ error' # "ok" => data' = data
  BY <1>0, ReserveRefuses
<1> USE DEF WriteFrame, buffer
<1>2. CASE Put(k, v)
  BY <1>1, <1>2, Zenon DEF Put
<1>3. CASE PutWith(k, v)
  BY <1>1, <1>3, Zenon DEF PutWith
<1>4. CASE PutWithPanics(k, v)
  BY <1>1, <1>4, Zenon DEF PutWithPanics
<1> QED BY <1>2, <1>3, <1>4

LEMMA WriteStep == SyncInv /\ WriteFrame => SyncInv'
BY DEF SyncInv, WriteFrame, Types, TypeOK, WaitInv, CloneInv, WaiterInv, ReuseInv, Reusable,
   Owned

LEMMA SealStep == SyncInv /\ Seal => SyncInv'
BY DEF SyncInv, Seal, buffer, Types, TypeOK, WaitInv, CloneInv, WaiterInv, ReuseInv, Reusable,
   Owned, Objects

LEMMA CommitStep == SyncInv /\ Commit => SyncInv'
BY SizeAssumption DEF SyncInv, Commit, buffer, Types, TypeOK, WaitInv, CloneInv, WaiterInv,
   ReuseInv, Reusable, Owned, Terminal

(* The three ends of prepare.                                              *)
LEMMA PrepareStep == SyncInv /\ (Prepare \/ PrepareFails \/ PreparePanics) => SyncInv'
<1> SUFFICES ASSUME SyncInv, Prepare \/ PrepareFails \/ PreparePanics PROVE SyncInv'
  OBVIOUS
<1>1. /\ env /\ Owned("sealed") /\ runtime = "Acquired" /\ runtime' = "InQueue"
      /\ commits < MaxCommits /\ commits' = commits + 1
      /\ UNCHANGED <<env, count, deferred, wait, error>>
  BY DEF Prepare, PrepareFails, PreparePanics, Enqueue
<1>2. \/ sync' = "Primed" /\ clone' = TRUE /\ outcome' = "pending" /\ object' = "committing"
      \/ outcome' = "none" /\ UNCHANGED <<object, sync, clone>>
      \/ object' = "panicked" /\ UNCHANGED <<sync, clone, outcome>>
  BY DEF Prepare, PrepareFails, PreparePanics, Prime
<1>3. ~clone
  BY <1>1 DEF SyncInv, CloneInv
<1>4. TypeOK'
  BY <1>1, <1>2, SizeAssumption DEF SyncInv, Types, TypeOK, Owned, Terminal
<1>5. Types'
  BY <1>1, <1>2, <1>4 DEF SyncInv, Types, Owned, Objects, Runtimes
<1>6. CloneInv'
  BY <1>1, <1>2, <1>3 DEF CloneInv
<1>7. WaitInv' /\ ReuseInv'
  BY <1>1, <1>2 DEF SyncInv, WaitInv, ReuseInv, Owned
<1>8. WaiterInv'
  BY <1>1, <1>2 DEF SyncInv, WaiterInv, Owned, Terminal
<1> QED BY <1>5, <1>6, <1>7, <1>8 DEF SyncInv

LEMMA MarkAppliedStep == SyncInv /\ MarkApplied => SyncInv'
BY DEF SyncInv, MarkApplied, buffer, Types, TypeOK, WaitInv, CloneInv, WaiterInv, ReuseInv,
   Reusable, Objects, Runtimes

LEMMA SignalStep ==
  ASSUME SyncInv, NEW state \in Terminal, Signal(state)
  PROVE  SyncInv'
<1>1. wait' \in Waits \cup {NotWaiting} /\ (wait' # NotWaiting => wait # NotWaiting)
  BY WaitCases DEF Signal, SyncInv, Types
<1>2. /\ clone /\ clone' = FALSE /\ sync' = state /\ outcome' = state
      /\ UNCHANGED <<env, count, deferred, runtime, object, error, commits>>
  BY DEF Signal, buffer
<1> QED BY <1>1, <1>2 DEF SyncInv, Types, TypeOK, WaitInv, CloneInv, WaiterInv, ReuseInv,
           Terminal

LEMMA StartStep ==
  ASSUME SyncInv, NEW op \in {"reset", "close"}, Start(op)
  PROVE  SyncInv'
<1>1. /\ wait' \in Waits \cup {NotWaiting} /\ object \in {"uncommitted", "sealed"}
      /\ UNCHANGED <<env, count, deferred, runtime, object, sync, clone, error, commits, outcome>>
  BY WaitCases DEF Start, Owned, buffer
<1> QED BY <1>1 DEF SyncInv, Types, TypeOK, WaitInv, CloneInv, WaiterInv, ReuseInv, Reusable,
           Terminal

(* wait_until_reusable returned something other than Primed: no clone is   *)
(* outstanding, and a batch that is reused shows a sync.                   *)
LEMMA ReturnStep ==
  ASSUME SyncInv, wait \in Waits, sync # "Primed", Return(sync)
  PROVE  SyncInv'
<1>1. /\ wait' = NotWaiting /\ UNCHANGED <<env, sync, clone, error, commits, outcome>>
      /\ clone = FALSE /\ object \in {"uncommitted", "sealed"}
      /\ wait.op \in {"reset", "close"}
  BY WaitCases DEF Return, SyncInv, CloneInv, WaitInv, Types
<1>2. CASE Reusable(sync) /\ runtime \in {"Acquired", "Applied"}
  <2>1. /\ count' = 0 /\ deferred' = 0
        /\ runtime' = IF wait.op = "reset" THEN "Acquired" ELSE "Idle"
        /\ object' = IF wait.op = "reset" THEN "uncommitted" ELSE "pooled"
    BY <1>2 DEF Return, Reuse, Clear
  <2> QED BY <1>1, <1>2, <2>1 DEF SyncInv, Types, TypeOK, WaitInv, CloneInv, WaiterInv,
             ReuseInv, Reusable, Objects, Runtimes
<1>3. CASE ~(Reusable(sync) /\ runtime \in {"Acquired", "Applied"})
  <2>1. object' \in {"panicked", "dropped"} /\ UNCHANGED <<count, deferred, runtime>>
    BY <1>3 DEF Return, Reuse, buffer
  <2>2. ~Reusable(sync) => sync # "Init"
    BY DEF Reusable
  <2>3. Reusable(sync) => object' = "panicked"
    BY <1>3 DEF Return, Reuse
  <2> QED BY <1>1, <2>1, <2>2, <2>3 DEF SyncInv, Types, TypeOK, WaitInv, CloneInv, WaiterInv,
             ReuseInv, Objects, Runtimes
<1> QED BY <1>2, <1>3

(* The owner goes on waiting.                                              *)
LEMMA WaitOnStep ==
  ASSUME SyncInv, wait \in Waits, wait' \in Waits,
         UNCHANGED <<env, buffer, runtime, object, sync, clone, error, commits, outcome>>
  PROVE  SyncInv'
BY WaitCases DEF SyncInv, buffer, Types, TypeOK, WaitInv, CloneInv, WaiterInv, ReuseInv, Reusable

LEMMA WaiterStep ==
  ASSUME SyncInv, Spin \/ Sleep \/ SpuriousWake
  PROVE  SyncInv'
<1>1. wait \in Waits
  BY WaitCases DEF Spin, Sleep, SpuriousWake, SyncInv, Types
<1>2. CASE (Spin \/ Sleep) /\ sync # "Primed"
  BY <1>1, <1>2, ReturnStep DEF Spin, Sleep
<1>3. CASE SpuriousWake \/ sync = "Primed"
  BY <1>1, <1>3, WaitCases, WaitOnStep DEF Spin, Sleep, SpuriousWake
<1> QED BY <1>2, <1>3

LEMMA AcquireStep == SyncInv /\ Acquire => SyncInv'
BY DEF SyncInv, Acquire, buffer, Types, TypeOK, WaitInv, CloneInv, WaiterInv, ReuseInv,
   Reusable, Objects, Runtimes

LEMMA SyncStep == SyncInv /\ [Next]_vars => SyncInv'
<1> SUFFICES ASSUME SyncInv, [Next]_vars PROVE SyncInv'
  OBVIOUS
<1>1. CASE UNCHANGED vars
  BY <1>1 DEF vars, buffer, SyncInv, Types, TypeOK, WaitInv, CloneInv, WaiterInv, ReuseInv,
     Reusable
<1> QED BY <1>1, WriteIsFrame, WriteStep, SealStep, CommitStep, PrepareStep,
           MarkAppliedStep, SignalStep, StartStep, WaiterStep, AcquireStep DEF Next

-----------------------------------------------------------------------------
(* The buffer                                                              *)

LEMMA InitialBuffer == Init => BufferInv
<1> SUFFICES ASSUME Init PROVE BufferInv
  OBVIOUS
<1> DEFINE d == [len |-> HEADER_SIZE, seq |-> 0, count |-> 0, ops |-> <<>>]
<1>1. data = d /\ count = 0 /\ deferred = 0
  BY DEF Init, Cleared
<1>2. d \in Buffers /\ d.len = HEADER_SIZE /\ d.count = 0 /\ d.ops = <<>>
  BY DEF Buffers, HEADER_SIZE
<1> HIDE DEF d
<1> QED BY <1>1, <1>2, SizeAssumption DEF BufferInv, WellFormed, HEADER_SIZE

(* What put, put_with and a panic in the closure leave.                    *)
LEMMA WriteBuffer ==
  ASSUME IInv, NEW k \in KeyLens, NEW v \in ValueLens,
         Put(k, v) \/ PutWith(k, v) \/ PutWithPanics(k, v)
  PROVE  BufferInv'
<1> DEFINE d == Initialised(data)
<1>1. WellFormed(data, count, deferred) /\ count \in Nat /\ deferred \in Nat
  BY DEF IInv, BufferInv, WellFormed
<1>2. CASE error' # "ok"
  <2>1. data' = data /\ count' = count /\ deferred' = deferred
    BY <1>2, WriteIsFrame DEF WriteFrame, buffer
  <2> QED BY <1>1, <2>1 DEF BufferInv
<1>3. CASE error' = "ok"
  <2>1. RecordRefusal(k, v) = "ok" /\ HasRoom(d, k, v)
    BY <1>3, ReserveRefuses DEF Put, PutWith, PutWithPanics
  <2>2. k \in Encodable /\ v \in Encodable
    BY <2>1, AcceptedSize
  <2>3. WellFormed(d, count, deferred) /\ d.len > 0 /\ d.count = count /\ d \in Buffers
    <3>1. WellFormed(d, count, deferred) /\ d.len > 0 /\ d.count = count
      BY <1>1, InitialisedWellFormed
    <3> QED BY <3>1 DEF WellFormed
  <2>4. d.len + RecordSize(k, v) <= MAX_BATCH_SIZE
    BY <2>1 DEF HasRoom
  <2> HIDE DEF d
  <2>5. CASE Put(k, v)
    <3>1. data' = [Written(d, k, v) EXCEPT !.count = count + 1]
      BY <1>3, <2>5, ReserveRefuses DEF Put, d
    <3>2. count' = count + 1 /\ deferred' = deferred
      BY <1>3, <2>5 DEF Put
    <3>3. count + 1 \in Nat /\ (count + 1) + deferred = count + deferred + 1
      BY <1>1
    <3>4. WellFormed([Written(d, k, v) EXCEPT !.count = count + 1], count + 1, deferred)
      BY <1>1, <2>2, <2>3, <2>4, <3>3, WrittenWellFormed
    <3> QED BY <3>1, <3>2, <3>4 DEF BufferInv
  <2>6. CASE PutWith(k, v)
    <3>1. data' = Written(d, k, v)
      BY <1>3, <2>6, ReserveRefuses DEF PutWith, d
    <3>2. count' = count /\ deferred' = deferred + 1
      BY <1>3, <2>6 DEF PutWith
    <3>3. deferred + 1 \in Nat /\ count + (deferred + 1) = count + deferred + 1
      BY <1>1
    <3>4. WellFormed([Written(d, k, v) EXCEPT !.count = count], count, deferred + 1)
      BY <1>1, <2>2, <2>3, <2>4, <3>3, WrittenWellFormed
    <3>5. Written(d, k, v) \in Buffers /\ Written(d, k, v).count = count
      BY <2>2, <2>3, WrittenIs
    <3>6. Written(d, k, v) = [Written(d, k, v) EXCEPT !.count = count]
      BY <3>5 DEF Buffers
    <3> QED BY <3>1, <3>2, <3>4, <3>6 DEF BufferInv
  <2>7. CASE PutWithPanics(k, v)
    <3>1. data' = RolledBack(d, k, v)
      BY <1>3, <2>7, ReserveRefuses DEF PutWithPanics, d
    <3>2. count' = count /\ deferred' = deferred
      BY <2>7 DEF PutWithPanics
    <3> QED BY <2>2, <2>3, <3>1, <3>2, RolledBackSame DEF BufferInv
  <2> QED BY <2>5, <2>6, <2>7
<1> QED BY <1>2, <1>3

(* clear empties the buffer, the header too.                               *)
LEMMA ClearBuffer ==
  ASSUME Clear
  PROVE  BufferInv'
<1>1. data' = Cleared /\ count' = 0 /\ deferred' = 0
  BY DEF Clear
<1>2. Cleared \in Buffers /\ Cleared.len = 0 /\ Cleared.ops = <<>>
  BY DEF Cleared, Buffers
<1> QED BY <1>1, <1>2, SizeAssumption DEF BufferInv, WellFormed

LEMMA BufferStep ==
  ASSUME IInv, [Next]_vars
  PROVE  BufferInv'
<1>1. CASE UNCHANGED buffer
  BY <1>1 DEF buffer, IInv, BufferInv
<1>2. CASE \E k \in KeyLens, v \in ValueLens : Put(k, v) \/ PutWith(k, v) \/ PutWithPanics(k, v)
  BY <1>2, WriteBuffer
<1>3. CASE Prepare \/ PrepareFails
  <2>1. data' = [data EXCEPT !.seq = commits + 1] /\ UNCHANGED <<count, deferred>>
    BY <1>3 DEF Prepare, PrepareFails, Enqueue, AssignSeqNumOnce
  <2>2. commits + 1 \in Nat
    BY SizeAssumption DEF IInv, SyncInv, Types, TypeOK
  <2>3. /\ data' \in Buffers /\ data'.len = data.len /\ data'.count = data.count
        /\ data'.ops = data.ops
    BY <2>1, <2>2 DEF IInv, BufferInv, WellFormed, Buffers
  <2> QED BY <2>1, <2>3 DEF IInv, BufferInv, WellFormed
<1>4. CASE Spin \/ Sleep
  <2>1. Clear \/ UNCHANGED buffer
    BY <1>4 DEF Spin, Sleep, Return, Reuse, buffer
  <2> QED BY <1>1, <2>1, ClearBuffer
<1>5. CASE \/ Seal \/ Commit \/ PreparePanics \/ MarkApplied
           \/ (\E state \in Terminal : Signal(state))
           \/ (\E op \in {"reset", "close"} : Start(op)) \/ SpuriousWake \/ Acquire
  <2>1. UNCHANGED buffer
    BY <1>5 DEF Seal, Commit, PreparePanics, Enqueue, MarkApplied, Signal, Start, SpuriousWake,
       Acquire, buffer
  <2> QED BY <1>1, <2>1
<1>6. CASE UNCHANGED vars
  BY <1>1, <1>6 DEF vars
<1> QED BY <1>2, <1>3, <1>4, <1>5, <1>6 DEF Next

-----------------------------------------------------------------------------
(* Theorems                                                                *)

LEMMA Invariance == Spec => []IInv
<1>1. Init => IInv
  BY Initially, InitialBuffer DEF IInv
<1>2. IInv /\ [Next]_vars => IInv'
  BY SyncStep, BufferStep DEF IInv
<1> QED BY <1>1, <1>2, PTL DEF Spec

(* The runtime state of an allocation says where it is: Idle in the pool   *)
(* only, Acquired while its owner may write to it.                         *)
THEOREM TypeCorrect == Spec => []TypeOK
<1>1. IInv => TypeOK
  BY InvImplies DEF IInv
<1> QED BY <1>1, Invariance, PTL

(* The bytes of a batch are a header and operations end to end, which a    *)
(* reader finds by their decoded lengths, whatever was written, refused or *)
(* rolled back, for every key and value length.                            *)
THEOREM BufferAlwaysDecodes == Spec => []BufferDecodes
<1>1. IInv => BufferDecodes
  BY DEF IInv, BufferInv, WellFormed, BufferDecodes, EndOf, OpEnd
<1> QED BY <1>1, Invariance, PTL

(* A batch whose WAL sync is outstanding is neither writable nor in the    *)
(* pool, whatever the worker and the owner's reset or close do meanwhile.  *)
THEOREM NoReuseBeforeSyncAlways == Spec => []NoReuseBeforeSync
<1>1. IInv => NoReuseBeforeSync
  BY InvImplies DEF IInv
<1> QED BY <1>1, Invariance, PTL

(* With commits that go through the environment, a committed batch is      *)
(* reset or pooled only after a success the WAL reported for its last      *)
(* commit: the waiter, used again, never passes off an earlier one, and a  *)
(* commit whose prepare failed never passes for a success.                 *)
THEOREM ReuseMeansDurableAlways == Spec => []ReuseMeansDurable
<1>1. IInv => ReuseMeansDurable
  BY InvImplies DEF IInv
<1> QED BY <1>1, Invariance, PTL

(* An operation that reserve_operation refuses leaves the buffer and the   *)
(* count as they were, for every length and limit: the check for room,     *)
(* which comes after init_buffer, refuses only a buffer that had its       *)
(* header already.                                                         *)
THEOREM RefusalsChangeNothing == Spec => RefusalChangesNothing
<1> DEFINE A == error' # "ok" /\ object = "uncommitted" /\ wait = NotWaiting /\ wait' = wait
                  => UNCHANGED buffer
<1>1. IInv /\ [Next]_vars => [A]_vars
  <2> SUFFICES ASSUME SyncInv, Next, error' # "ok", object = "uncommitted",
                      wait = NotWaiting, wait' = wait
               PROVE  UNCHANGED buffer
    BY DEF vars, IInv
  <2>1. NotWaiting.pc = "none" /\ \A op \in {"reset", "close"} : [op |-> op, pc |-> "spin"] # wait
    BY WaitCases
  <2>2. CASE \E k \in KeyLens, v \in ValueLens : Put(k, v) \/ PutWith(k, v) \/ PutWithPanics(k, v)
    BY <2>2, WriteIsFrame DEF WriteFrame
  <2>3. CASE Seal \/ Commit \/ MarkApplied \/ \E state \in Terminal : Signal(state)
    BY <2>3 DEF Seal, Commit, MarkApplied, Signal
  <2>4. /\ ~Prepare /\ ~PrepareFails /\ ~PreparePanics
        /\ ~Acquire /\ ~Spin /\ ~Sleep /\ ~SpuriousWake
    BY <2>1 DEF Prepare, PrepareFails, PreparePanics, Enqueue, Owned, Acquire, Spin, Sleep,
       SpuriousWake
  <2>5. ~\E op \in {"reset", "close"} : Start(op)
    BY <2>1 DEF Start
  <2> QED BY <2>2, <2>3, <2>4, <2>5 DEF Next
<1> QED BY <1>1, Invariance, PTL DEF Spec, RefusalChangesNothing
================================================================================
