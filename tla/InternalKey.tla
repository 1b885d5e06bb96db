------------------------------ MODULE InternalKey ------------------------------
(***************************************************************************)
(* Internal keys (crates/engine/src/key): a user key followed by an 8-byte *)
(* trailer that packs a sequence number and an operation kind.  A user key *)
(* is a number here, ordered as its bytes are; the trailer keeps its       *)
(* packing, because the order of two versions of one user key is the order *)
(* of the packed numbers.                                                  *)
(***************************************************************************)
EXTENDS Integers

\* InternalKeyKind, by its discriminants (the kinds TryFrom<u8> accepts).
Put == 1
Delete == 2
Merge == 3
SEEK_OP_SENTINEL == 255

pack_trailer(seq_no, op) == seq_no * 256 + op

\* unpack_trailer_raw, from_be_bytes having restored the number.
SeqOf(k) == k.trailer \div 256
OpOf(k) == k.trailer % 256

\* encode_into, LookUpKey::new.
Encode(user, seq_no, op) == [user |-> user, trailer |-> pack_trailer(seq_no, op)]

\* InternalKeyComparator: user keys ascending, then trailers descending, so
\* that the newest version of a user key comes first.  The trailer is stored
\* big endian, so its bytes compare as its number does.
Less(a, b) == \/ a.user < b.user
              \/ a.user = b.user /\ a.trailer > b.trailer
================================================================================
