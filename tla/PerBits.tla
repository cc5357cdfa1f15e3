------------------------------- MODULE PerBits -------------------------------
(***************************************************************************)
(* How the packed encoding rules (src/src/per) write numbers and lengths   *)
(* as bits.                                                                *)
(***************************************************************************)
EXTENDS Integers, Sequences, FiniteSets

Bit == 0..1
BitOf(b) == IF b THEN 1 ELSE 0
Zeros(k) == [i \in 1..k |-> 0]

\* encode_non_negative_binary_integer: the last w bits of v
Binary(v, w) == [i \in 1..w |-> (v \div 2^(w - i)) % 2]

\* num::log2(range), the bits that range values need
Log2(range) == Cardinality({w \in 0..(range - 1) : 2^w < range})

\* The short forms of a length, on an octet boundary
LengthBits(k) == IF k <= 127 THEN Binary(k, 8) ELSE <<1, 0>> \o Binary(k, 14)

\* encode_normally_small_integer of a number below 64
SmallInteger(k) == <<0>> \o Binary(k, 6)

\* force_pad_to_alignment
ForcePad(bits) == bits \o Zeros((8 - (Len(bits) % 8)) % 8)

\* The encoding of an extended alternative, and what uper::encode returns: octets, and
\* at least one
OpenOctets(bits) == IF bits = << >> THEN Zeros(8) ELSE ForcePad(bits)
====
