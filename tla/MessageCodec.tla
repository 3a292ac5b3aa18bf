----------------------------- MODULE MessageCodec -----------------------------
(***************************************************************************)
(* src/net/MessageCodec.cpp: a packet is the size of the body in four      *)
(* bytes, the message id in two, both lowest byte first, and the body.     *)
(*                                                                         *)
(* try_decode is split into what it asks (Complete) and what it does when  *)
(* the buffer begins with a whole packet (Decoded, Remainder).  The code   *)
(* looks at MAX_BODY_SIZE when it encodes only, and never returns Error.   *)
(***************************************************************************)
EXTENDS Integers, Sequences

CONSTANT MAX_BODY_SIZE
ASSUME MaxBodySizeAssumption == MAX_BODY_SIZE \in Nat /\ MAX_BODY_SIZE \div 65536 < 65536

HEADER_SIZE == 6
Byte == 0..255
Id == {n \in Nat : n < 65536}
Message == [msg_id : Id, body : Seq(Byte)]

write_uint16(value) == <<value % 256, value \div 256>>
\* Mutant: the bytes in the order docs/protocol.md gives.
write_uint32_BigEndian(value) ==
    <<value \div 16777216, (value \div 65536) % 256, (value \div 256) % 256, value % 256>>
write_uint32(value) ==
    <<value % 256, (value \div 256) % 256, (value \div 65536) % 256, value \div 16777216>>

read_uint16(b) == b[1] + (256 * b[2])
read_uint32(b) == b[1] + (256 * b[2]) + (65536 * b[3]) + (16777216 * b[4])

\* A body that is too long gives a packet without a byte, which the caller sends.
Fits(m) == Len(m.body) <= MAX_BODY_SIZE
encode(m) ==
    IF Fits(m) THEN write_uint32(Len(m.body)) \o write_uint16(m.msg_id) \o m.body ELSE <<>>

BodySize(b) == read_uint32(b)
PacketSize(b) == HEADER_SIZE + BodySize(b)

Complete(b) == Len(b) >= HEADER_SIZE /\ Len(b) >= PacketSize(b)

Decoded(b) ==
    [msg_id |-> read_uint16(SubSeq(b, 5, 6)), body |-> SubSeq(b, HEADER_SIZE + 1, PacketSize(b))]

\* Mutant: the packet is not erased.
Remainder_Kept(b) == b
Remainder(b) == SubSeq(b, PacketSize(b) + 1, Len(b))
===============================================================================
