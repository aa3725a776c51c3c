------------------------------ MODULE Buffers ------------------------------
(***************************************************************************)
(* Byte buffers, as the wire format (module Codec) and the two ends of a   *)
(* connection (module Wire) use them: a byte is a number in 0..255, a      *)
(* buffer a sequence of bytes, a number is little endian.                  *)
(***************************************************************************)
EXTENDS Integers, Sequences

Byte8 == 0..255

\* A number without its lowest k bytes; the sign stays.
Shifted(n, k) ==
    LET by[i \in Nat] == IF i = 0 THEN n ELSE by[i - 1] \div 256
    IN  by[k]

\* Byte k of a number.
Byte(n, k) == Shifted(n, k) % 256

\* A number that an unsigned type of so many bytes has.
Fits(n, size) == n \in Nat /\ Shifted(n, size) = 0

\* htole16, htole32, htole64.
Le(n, size) == [k \in 1..size |-> Byte(n, k - 1)]

\* le16toh and le32toh of the unsigned field that begins after offset.
Field(data, offset, size) ==
    LET low == data[offset + 1] + 256 * data[offset + 2]
    IN  IF size = 2 THEN low
                    ELSE low + 65536 * data[offset + 3] + 16777216 * data[offset + 4]

Smaller(m, n) == IF m < n THEN m ELSE n

\* What data has after offset and up to end.
After(data, offset, end) == SubSeq(data, offset + 1, Smaller(end, Len(data)))

\* What Deserialize returns: the number of bytes used, none if it failed, and
\* what was read.
Read(used, what) == [used |-> used, what |-> what]

\* A new Request.
NewRequest(name) == [id |-> 0, name |-> name, arguments |-> <<>>]
=============================================================================
