----------------------------- MODULE CodecProofs -----------------------------
(***************************************************************************)
(* Proofs about module Codec: Serialize fills the buffer that GetSize      *)
(* allocated, Deserialize reads it back, and a copy is the original, for   *)
(* every value however it is nested and for every request composed of      *)
(* such values.                                                            *)
(*                                                                         *)
(* The definitions of Codec are recursive functions.  What each step of    *)
(* one does follows from module Recursion (from one number to the next)    *)
(* and, for the methods that call themselves for the elements of an array, *)
(* from module Folding (from one level of nesting to the next).  What one  *)
(* computes in the end is shown by induction on the set of the numbers for *)
(* which it holds (module Induction): the levels of a value, the elements  *)
(* of an array, the arguments of a request, the bytes of a number.         *)
(***************************************************************************)
EXTENDS Codec, SequenceTheorems, Induction

-----------------------------------------------------------------------------
(* Bytes and numbers *)

ItSelf(n) == n
OneByteLess(n, i, rest) == rest \div 256
Shifting == INSTANCE Recursion WITH Start <- ItSelf, Body <- OneByteLess

\* A number and the number without its lowest byte.
LEMMA ShiftedSteps ==
    ASSUME NEW n \in Int
    PROVE  /\ Shifted(n, 0) = n
           /\ \A k \in Nat : Shifted(n, k + 1) = Shifted(n, k) \div 256
           /\ \A k \in Nat : Shifted(n, k) \in Int
  <1> DEFINE by == CHOOSE by : by = [i \in Nat |-> IF i = 0 THEN n ELSE by[i - 1] \div 256]
  <1>1. \E f : Shifting!FitsAll(n, f)
    BY Shifting!ExistsAll
  <1>2. \E f : f = [i \in Nat |-> IF i = 0 THEN n ELSE f[i - 1] \div 256]
    BY <1>1 DEF Shifting!FitsAll, ItSelf, OneByteLess
  <1>3. by = [i \in Nat |-> IF i = 0 THEN n ELSE by[i - 1] \div 256]
    BY <1>2
  <1>4. \A k : Shifted(n, k) = by[k]
    BY DEF Shifted
  <1> HIDE DEF by
  <1>5. by[0] = n
    BY <1>3
  <1>6. ASSUME NEW k \in Nat PROVE by[k + 1] = by[k] \div 256
    <2>1. k + 1 \in Nat /\ k + 1 # 0 /\ (k + 1) - 1 = k
      OBVIOUS
    <2>2. by[k + 1] = by[(k + 1) - 1] \div 256
      BY <1>3, <2>1
    <2> QED
      BY <2>1, <2>2
  <1>7. \A k \in Nat : by[k] \in Int
    <2> DEFINE T == {k \in Nat : by[k] \in Int}
    <2>1. 0 \in T
      BY <1>5
    <2>2. ASSUME NEW k \in Nat, k \in T PROVE k + 1 \in T
      <3>1. by[k] \in Int /\ by[k + 1] = by[k] \div 256
        BY <1>6, <2>2
      <3> QED
        BY <3>1
    <2> HIDE DEF T
    <2>3. Nat \subseteq T
      BY <2>1, <2>2, Induction
    <2> QED
      BY <2>3 DEF T
  <1> QED
    BY <1>4, <1>5, <1>6, <1>7

\* A byte is the part of the number that the next shift takes away.
LEMMA ByteOfShifted ==
    ASSUME NEW n \in Int, NEW k \in Nat
    PROVE  Byte(n, k) \in Byte8 /\ Shifted(n, k) = Byte(n, k) + 256 * Shifted(n, k + 1)
  <1>1. PICK m \in Int : m = Shifted(n, k)
    BY ShiftedSteps
  <1>2. Shifted(n, k + 1) = m \div 256 /\ Byte(n, k) = m % 256
    BY <1>1, ShiftedSteps DEF Byte
  <1> QED
    BY <1>1, <1>2 DEF Byte8

\* Le makes as many bytes as it is told to.
LEMMA LeType ==
    ASSUME NEW n \in Int, NEW size \in Nat
    PROVE  /\ Le(n, size) \in Seq(Byte8) /\ Len(Le(n, size)) = size
           /\ \A k \in 1..size : Le(n, size)[k] = Byte(n, k - 1)
  <1>1. \A k \in 1..size : Byte(n, k - 1) \in Byte8
    BY ByteOfShifted
  <1>2. Le(n, size) \in [1..size -> Byte8]
    BY <1>1 DEF Le
  <1> QED
    BY <1>2 DEF Le

\* A smaller number fits where a larger one does.
LEMMA SmallerFits ==
    ASSUME NEW n \in Nat, NEW size \in Nat, Fits(n, size), NEW m \in 0..n
    PROVE  Fits(m, size)
  <1> DEFINE T == {k \in Nat : Shifted(m, k) \in 0..Shifted(n, k)}
  <1>1. 0 \in T
    <2>1. Shifted(m, 0) = m /\ Shifted(n, 0) = n
      BY ShiftedSteps
    <2> QED
      BY <2>1
  <1>2. ASSUME NEW k \in Nat, k \in T PROVE k + 1 \in T
    <2>0. m \in Int /\ n \in Int /\ Shifted(m, k) \in Int /\ Shifted(n, k) \in Int
      <3>1. m \in Int /\ n \in Int
        OBVIOUS
      <3> QED
        BY <3>1, ShiftedSteps
    <2>1. PICK x \in Int, y \in Int : x = Shifted(m, k) /\ y = Shifted(n, k)
      BY <2>0
    <2>2. Shifted(m, k + 1) = x \div 256 /\ Shifted(n, k + 1) = y \div 256 /\ x \in 0..y
      BY <1>2, <2>0, <2>1, ShiftedSteps
    <2>3. x \div 256 \in 0..(y \div 256)
      BY <2>2
    <2> QED
      BY <2>2, <2>3
  <1> HIDE DEF T
  <1>3. Nat \subseteq T
    BY <1>1, <1>2, Induction
  <1>4. Shifted(m, size) \in 0..Shifted(n, size)
    BY <1>3 DEF T
  <1> QED
    BY <1>4 DEF Fits

\* A field has the number that was written there.
LEMMA FieldOfLe ==
    ASSUME NEW data, NEW offset \in Nat, NEW n \in Nat, NEW size \in {2, 4}, Fits(n, size),
           \A k \in 1..size : data[offset + k] = Le(n, size)[k]
    PROVE  Field(data, offset, size) = n
  <1>1. PICK a \in Int, b \in Int, c \in Int, d \in Int :
            /\ a = Shifted(n, 1) /\ b = Shifted(n, 2) /\ c = Shifted(n, 3) /\ d = Shifted(n, 4)
    <2>1. n \in Int /\ \A k \in Nat : Shifted(n, k) \in Int
      BY ShiftedSteps
    <2> QED
      BY <2>1
  <1>2. /\ n = Byte(n, 0) + 256 * a /\ Byte(n, 0) \in Byte8
        /\ a = Byte(n, 1) + 256 * b /\ Byte(n, 1) \in Byte8
        /\ b = Byte(n, 2) + 256 * c /\ Byte(n, 2) \in Byte8
        /\ c = Byte(n, 3) + 256 * d /\ Byte(n, 3) \in Byte8
    <2>1. \A k \in Nat : /\ Byte(n, k) \in Byte8
                         /\ Shifted(n, k) = Byte(n, k) + 256 * Shifted(n, k + 1)
      BY ByteOfShifted
    <2>2. Shifted(n, 0) = n /\ 0 + 1 = 1 /\ 1 + 1 = 2 /\ 2 + 1 = 3 /\ 3 + 1 = 4
      BY ShiftedSteps
    <2>3. Shifted(n, 0) = Byte(n, 0) + 256 * Shifted(n, 0 + 1)
      BY <2>1
    <2>4. Shifted(n, 1) = Byte(n, 1) + 256 * Shifted(n, 1 + 1)
      BY <2>1
    <2>5. Shifted(n, 2) = Byte(n, 2) + 256 * Shifted(n, 2 + 1)
      BY <2>1
    <2>6. Shifted(n, 3) = Byte(n, 3) + 256 * Shifted(n, 3 + 1)
      BY <2>1
    <2> QED
      BY <1>1, <2>1, <2>2, <2>3, <2>4, <2>5, <2>6
  <1>3. \A k \in 1..size : Le(n, size)[k] = Byte(n, k - 1)
    <2>1. n \in Int /\ size \in Nat
      OBVIOUS
    <2> QED
      BY <2>1, LeType
  <1>4. data[offset + 1] = Byte(n, 0) /\ data[offset + 2] = Byte(n, 1)
    BY <1>3
  <1>5. CASE size = 2
    <2>1. b = 0
      BY <1>1, <1>5 DEF Fits
    <2>2. Field(data, offset, size) = data[offset + 1] + 256 * data[offset + 2]
      BY <1>5 DEF Field
    <2>3. PICK e \in Byte8, f \in Byte8 : e = Byte(n, 0) /\ f = Byte(n, 1)
      BY <1>2
    <2>4. n = e + 256 * f
      BY <1>2, <2>1, <2>3 DEF Byte8
    <2> QED
      BY <1>4, <2>2, <2>3, <2>4
  <1>6. CASE size = 4
    <2>1. d = 0
      BY <1>1, <1>6 DEF Fits
    <2>2. data[offset + 3] = Byte(n, 2) /\ data[offset + 4] = Byte(n, 3)
      BY <1>3, <1>6
    <2>3. Field(data, offset, size) = data[offset + 1] + 256 * data[offset + 2]
              + 65536 * data[offset + 3] + 16777216 * data[offset + 4]
      BY <1>6 DEF Field
    <2>4. PICK e \in Byte8, f \in Byte8, g \in Byte8, h \in Byte8 :
              e = Byte(n, 0) /\ f = Byte(n, 1) /\ g = Byte(n, 2) /\ h = Byte(n, 3)
      BY <1>2
    <2>5. n = e + 256 * a /\ a = f + 256 * b /\ b = g + 256 * c /\ c = h + 256 * d
      BY <1>2, <2>4
    <2>6. n = e + 256 * f + 65536 * g + 16777216 * h
      BY <2>1, <2>5 DEF Byte8
    <2> QED
      BY <1>4, <2>2, <2>3, <2>4, <2>6
  <1> QED
    BY <1>5, <1>6
-----------------------------------------------------------------------------
(* Loops *)

LoopStart(p) == p[2]
LoopPlus(p, k, rest) == p[1][(Len(p[1]) - k) + 1] + rest
LoopFollowed(p, k, rest) == p[1][(Len(p[1]) - k) + 1] \o rest
LoopWithHigher(p, k, rest) == p[1][(Len(p[1]) - k) + 1] + 256 * rest

Adding == INSTANCE Recursion WITH Start <- LoopStart, Body <- LoopPlus
Joining == INSTANCE Recursion WITH Start <- LoopStart, Body <- LoopFollowed
Reading == INSTANCE Recursion WITH Start <- LoopStart, Body <- LoopWithHigher

\* The sums of the last numbers.
LEMMA TotalSteps ==
    ASSUME NEW s, Len(s) \in Nat
    PROVE  \E f : /\ f[0] = 0
                  /\ \A k \in 1..Len(s) : f[k] = s[(Len(s) - k) + 1] + f[k - 1]
                  /\ Total(s) = f[Len(s)]
  <1>1. \E f : Adding!FitsTo(<<s, 0>>, f, Len(s))
    BY Adding!ExistsTo
  <1>2. \E f : f = [k \in 0..Len(s) |-> IF k = 0 THEN 0 ELSE s[(Len(s) - k) + 1] + f[k - 1]]
    BY <1>1 DEF Adding!FitsTo, LoopStart, LoopPlus
  <1> DEFINE last == CHOOSE f : f = [k \in 0..Len(s) |-> IF k = 0 THEN 0 ELSE s[(Len(s) - k) + 1] + f[k - 1]]
  <1>3. last = [k \in 0..Len(s) |-> IF k = 0 THEN 0 ELSE s[(Len(s) - k) + 1] + last[k - 1]]
    BY <1>2
  <1>4. Total(s) = last[Len(s)]
    BY DEF Folded, Total, Plus
  <1> HIDE DEF last
  <1>5. last[0] = 0
    BY <1>3
  <1>6. ASSUME NEW k \in 1..Len(s) PROVE last[k] = s[(Len(s) - k) + 1] + last[k - 1]
    <2>1. k \in 0..Len(s) /\ k # 0
      OBVIOUS
    <2> QED
      BY <1>3, <2>1
  <1> QED
    BY <1>4, <1>5, <1>6

\* The last parts, joined.
LEMMA JoinedSteps ==
    ASSUME NEW s, Len(s) \in Nat
    PROVE  \E f : /\ f[0] = << >>
                  /\ \A k \in 1..Len(s) : f[k] = s[(Len(s) - k) + 1] \o f[k - 1]
                  /\ Joined(s) = f[Len(s)]
  <1>1. \E f : Joining!FitsTo(<<s, << >>>>, f, Len(s))
    BY Joining!ExistsTo
  <1>2. \E f : f = [k \in 0..Len(s) |-> IF k = 0 THEN << >> ELSE s[(Len(s) - k) + 1] \o f[k - 1]]
    BY <1>1 DEF Joining!FitsTo, LoopStart, LoopFollowed
  <1> DEFINE last == CHOOSE f : f = [k \in 0..Len(s) |-> IF k = 0 THEN << >> ELSE s[(Len(s) - k) + 1] \o f[k - 1]]
  <1>3. last = [k \in 0..Len(s) |-> IF k = 0 THEN << >> ELSE s[(Len(s) - k) + 1] \o last[k - 1]]
    BY <1>2
  <1>4. Joined(s) = last[Len(s)]
    BY DEF Folded, Joined, Followed
  <1> HIDE DEF last
  <1>5. last[0] = << >>
    BY <1>3
  <1>6. ASSUME NEW k \in 1..Len(s) PROVE last[k] = s[(Len(s) - k) + 1] \o last[k - 1]
    <2>1. k \in 0..Len(s) /\ k # 0
      OBVIOUS
    <2> QED
      BY <1>3, <2>1
  <1> QED
    BY <1>4, <1>5, <1>6

\* The number that the highest bytes stand for.
LEMMA NumberSteps ==
    ASSUME NEW s, Len(s) \in Nat, NEW sign
    PROVE  \E f : /\ f[0] = sign
                  /\ \A k \in 1..Len(s) : f[k] = s[(Len(s) - k) + 1] + 256 * f[k - 1]
                  /\ Folded(WithHigher, sign, s) = f[Len(s)]
  <1>1. \E f : Reading!FitsTo(<<s, sign>>, f, Len(s))
    BY Reading!ExistsTo
  <1>2. \E f : f = [k \in 0..Len(s) |-> IF k = 0 THEN sign ELSE s[(Len(s) - k) + 1] + 256 * f[k - 1]]
    BY <1>1 DEF Reading!FitsTo, LoopStart, LoopWithHigher
  <1> DEFINE last == CHOOSE f : f = [k \in 0..Len(s) |-> IF k = 0 THEN sign ELSE s[(Len(s) - k) + 1] + 256 * f[k - 1]]
  <1>3. last = [k \in 0..Len(s) |-> IF k = 0 THEN sign ELSE s[(Len(s) - k) + 1] + 256 * last[k - 1]]
    BY <1>2
  <1>4. Folded(WithHigher, sign, s) = last[Len(s)]
    BY DEF Folded, WithHigher
  <1> HIDE DEF last
  <1>5. last[0] = sign
    BY <1>3
  <1>6. ASSUME NEW k \in 1..Len(s) PROVE last[k] = s[(Len(s) - k) + 1] + 256 * last[k - 1]
    <2>1. k \in 0..Len(s) /\ k # 0
      OBVIOUS
    <2> QED
      BY <1>3, <2>1
  <1> QED
    BY <1>4, <1>5, <1>6

\* Number reads the number that Le wrote, the sign of it included.
LEMMA NumberOfLe ==
    ASSUME NEW n \in Int, NEW size \in Nat, size # 0, NEW signed \in BOOLEAN,
           IF signed THEN Shifted(n, size - 1) \in -128..127 ELSE Fits(n, size)
    PROVE  Number(Le(n, size), signed) = n
  <1> DEFINE bytes == Le(n, size)
             sign == IF signed /\ bytes[Len(bytes)] >= 128 THEN -1 ELSE 0
  <1>1. Len(bytes) = size /\ \A k \in 1..size : bytes[k] = Byte(n, k - 1)
    BY LeType
  <1>2. sign = Shifted(n, size)
    <2>1. PICK m \in Nat : size = m + 1
      OBVIOUS
    <2>2. PICK x \in Int, y \in Int, b \in Byte8 :
              x = Shifted(n, m) /\ y = Shifted(n, m + 1) /\ b = Byte(n, m) /\ x = b + 256 * y
      <3>1. m + 1 \in Nat
        OBVIOUS
      <3>2. Shifted(n, m) \in Int /\ Shifted(n, m + 1) \in Int
        BY <3>1, ShiftedSteps
      <3> QED
        BY <3>2, ByteOfShifted
    <2>3. bytes[Len(bytes)] = b /\ size - 1 = m
      BY <1>1, <2>1, <2>2
    <2>4. CASE signed
      <3>1. x \in -128..127
        BY <2>1, <2>2, <2>3, <2>4
      <3>2. y = IF b >= 128 THEN -1 ELSE 0
        <4>1. b \in 0..255 /\ x >= -128 /\ x <= 127 /\ x = b + 256 * y
          BY <2>2, <3>1 DEF Byte8
        <4>2. b >= 128 => y = -1
          BY <4>1
        <4>3. ~(b >= 128) => y = 0
          BY <4>1
        <4> QED
          BY <4>2, <4>3
      <3> QED
        BY <2>1, <2>2, <2>3, <2>4, <3>2
    <2>5. CASE ~signed
      BY <2>5 DEF Fits
    <2> QED
      BY <2>4, <2>5
  <1> HIDE DEF bytes, sign
  <1>3. PICK f : /\ f[0] = sign
                 /\ \A k \in 1..Len(bytes) : f[k] = bytes[(Len(bytes) - k) + 1] + 256 * f[k - 1]
                 /\ Folded(WithHigher, sign, bytes) = f[Len(bytes)]
    <2>1. Len(bytes) \in Nat
      BY <1>1
    <2> QED
      BY <2>1, NumberSteps, ZenonT(40)
  <1> DEFINE T == {k \in Nat : k <= size => f[k] = Shifted(n, size - k)}
  <1>4. 0 \in T
    BY <1>2, <1>3
  <1>5. ASSUME NEW k \in Nat, k \in T PROVE k + 1 \in T
    <2> SUFFICES ASSUME k + 1 <= size PROVE f[k + 1] = Shifted(n, size - (k + 1))
      OBVIOUS
    <2>1. PICK m \in Nat : m = size - (k + 1)
      OBVIOUS
    <2>2. size - k = m + 1 /\ k + 1 \in 1..size /\ (size - (k + 1)) + 1 = m + 1
          /\ (m + 1) - 1 = m /\ (k + 1) - 1 = k /\ m + 1 \in 1..size
      BY <2>1
    <2>3. f[k] = Shifted(n, m + 1)
      BY <1>5, <2>2
    <2>4. f[k + 1] = bytes[m + 1] + 256 * f[k]
      BY <1>1, <1>3, <2>2
    <2>5. bytes[m + 1] = Byte(n, m)
      BY <1>1, <2>2
    <2>6. Shifted(n, m) = Byte(n, m) + 256 * Shifted(n, m + 1)
      BY ByteOfShifted
    <2> QED
      BY <2>1, <2>3, <2>4, <2>5, <2>6
  <1> HIDE DEF T
  <1>6. Nat \subseteq T
    BY <1>4, <1>5, Induction
  <1>7. f[size] = Shifted(n, size - size)
    BY <1>6 DEF T
  <1>8. Number(bytes, signed) = f[size]
    BY <1>1, <1>3 DEF Number, sign
  <1>9. Shifted(n, size - size) = n
    BY ShiftedSteps
  <1> QED
    BY <1>7, <1>8, <1>9 DEF bytes

-----------------------------------------------------------------------------
(* Buffers *)

Bytes == Seq(Byte8)

\* What After cuts out of a buffer.
LEMMA AfterCuts ==
    ASSUME NEW data \in Bytes, NEW from \in Nat, NEW end \in Nat, from <= end, end <= Len(data)
    PROVE  /\ After(data, from, end) \in Bytes /\ Len(After(data, from, end)) = end - from
           /\ \A i \in 1..(end - from) : After(data, from, end)[i] = data[from + i]
  <1>1. After(data, from, end) = SubSeq(data, from + 1, end)
    BY DEF After, Smaller, Bytes
  <1>2. SubSeq(data, from + 1, end) \in Bytes /\ Len(SubSeq(data, from + 1, end)) = end - from
    BY DEF Bytes
  <1>3. \A i \in 1..(end - from) : SubSeq(data, from + 1, end)[i] = data[from + i]
    BY DEF Bytes
  <1> QED
    BY <1>1, <1>2, <1>3

\* Two buffers, one after the other.
LEMMA TwoParts ==
    ASSUME NEW a \in Bytes, NEW b \in Bytes
    PROVE  /\ a \o b \in Bytes /\ Len(a \o b) = Len(a) + Len(b)
           /\ Len(a) \in Nat /\ Len(b) \in Nat
           /\ \A i \in 1..Len(a) : (a \o b)[i] = a[i]
           /\ \A i \in 1..Len(b) : (a \o b)[Len(a) + i] = b[i]
  <1>1. a \o b \in Bytes /\ Len(a \o b) = Len(a) + Len(b) /\ Len(a) \in Nat /\ Len(b) \in Nat
    BY DEF Bytes
  <1>2. \A i \in 1..Len(a) : (a \o b)[i] = a[i]
    BY DEF Bytes
  <1>3. \A i \in 1..Len(b) : (a \o b)[Len(a) + i] = b[i]
    BY DEF Bytes
  <1> QED
    BY <1>1, <1>2, <1>3

\* What is left after the first of two parts.
LEMMA AfterFirst ==
    ASSUME NEW a \in Bytes, NEW b \in Bytes
    PROVE  After(a \o b, Len(a), Len(a \o b)) = b
  <1> DEFINE ab == a \o b
             rest == After(ab, Len(a), Len(ab))
  <1>1. /\ ab \in Bytes /\ Len(ab) = Len(a) + Len(b) /\ Len(a) \in Nat /\ Len(b) \in Nat
        /\ \A i \in 1..Len(b) : ab[Len(a) + i] = b[i]
    BY TwoParts
  <1> HIDE DEF ab
  <1>2. /\ rest \in Bytes /\ Len(rest) = Len(ab) - Len(a)
        /\ \A i \in 1..(Len(ab) - Len(a)) : rest[i] = ab[Len(a) + i]
    <2>1. Len(ab) \in Nat /\ Len(a) <= Len(ab) /\ Len(ab) <= Len(ab)
      BY <1>1
    <2> QED
      BY <1>1, <2>1, AfterCuts, Zenon
  <1> HIDE DEF rest
  <1>3. Len(rest) = Len(b) /\ \A i \in 1..Len(rest) : rest[i] = b[i]
    BY <1>1, <1>2
  <1>4. rest = b
    BY <1>2, <1>3, SeqEqual DEF Bytes
  <1> QED
    BY <1>4 DEF rest, ab

\* The second of three parts.
LEMMA AfterSecond ==
    ASSUME NEW a \in Bytes, NEW b \in Bytes, NEW c \in Bytes
    PROVE  After(a \o (b \o c), Len(a), Len(a) + Len(b)) = b
  <1> DEFINE bc == b \o c
             abc == a \o bc
             mid == After(abc, Len(a), Len(a) + Len(b))
  <1>1. /\ bc \in Bytes /\ Len(bc) = Len(b) + Len(c) /\ Len(b) \in Nat /\ Len(c) \in Nat
        /\ \A i \in 1..Len(b) : bc[i] = b[i]
    BY TwoParts
  <1> HIDE DEF bc
  <1>2. /\ abc \in Bytes /\ Len(abc) = Len(a) + Len(bc) /\ Len(a) \in Nat
        /\ \A i \in 1..Len(bc) : abc[Len(a) + i] = bc[i]
    BY <1>1, TwoParts
  <1> HIDE DEF abc
  <1>3. PICK end \in Nat : end = Len(a) + Len(b) /\ end <= Len(abc) /\ end - Len(a) = Len(b)
    BY <1>1, <1>2
  <1>4. /\ mid \in Bytes /\ Len(mid) = end - Len(a)
        /\ \A i \in 1..(end - Len(a)) : mid[i] = abc[Len(a) + i]
    <2>1. Len(a) <= end
      BY <1>1, <1>2, <1>3
    <2>2. mid = After(abc, Len(a), end)
      BY <1>3
    <2> QED
      BY <1>2, <1>3, <2>1, <2>2, AfterCuts, Zenon
  <1> HIDE DEF mid
  <1>5. ASSUME NEW i \in 1..Len(b) PROVE mid[i] = b[i]
    <2>1. i \in 1..Len(bc)
      BY <1>1
    <2> QED
      BY <1>1, <1>2, <1>3, <1>4, <2>1
  <1>6. mid = b
    BY <1>3, <1>4, <1>5, SeqEqual DEF Bytes
  <1> QED
    BY <1>6 DEF mid, abc, bc

\* Going on after what is left.
LEMMA AfterAfter ==
    ASSUME NEW data \in Bytes, NEW m \in Nat, NEW n \in Nat, m + n <= Len(data)
    PROVE  After(After(data, m, Len(data)), n, Len(After(data, m, Len(data))))
               = After(data, m + n, Len(data))
  <1> DEFINE one == After(data, m, Len(data))
             two == After(one, n, Len(one))
             both == After(data, m + n, Len(data))
  <1>0. Len(data) \in Nat
    BY DEF Bytes
  <1>1. /\ one \in Bytes /\ Len(one) = Len(data) - m
        /\ \A i \in 1..(Len(data) - m) : one[i] = data[m + i]
    <2>1. m <= Len(data) /\ Len(data) <= Len(data)
      BY <1>0
    <2> QED
      BY <1>0, <2>1, AfterCuts, Zenon
  <1> HIDE DEF one
  <1>2. /\ two \in Bytes /\ Len(two) = Len(one) - n
        /\ \A i \in 1..(Len(one) - n) : two[i] = one[n + i]
    <2>1. Len(one) \in Nat /\ n <= Len(one) /\ Len(one) <= Len(one)
      BY <1>0, <1>1
    <2> QED
      BY <1>1, <2>1, AfterCuts, Zenon
  <1> HIDE DEF two
  <1>3. /\ both \in Bytes /\ Len(both) = Len(data) - (m + n)
        /\ \A i \in 1..(Len(data) - (m + n)) : both[i] = data[(m + n) + i]
    <2>1. m + n \in Nat /\ Len(data) <= Len(data)
      BY <1>0
    <2> QED
      BY <1>0, <2>1, AfterCuts, Zenon
  <1> HIDE DEF both
  <1>4. ASSUME NEW i \in 1..Len(both) PROVE two[i] = both[i]
    <2>1. n + i \in 1..(Len(data) - m) /\ m + (n + i) = (m + n) + i /\ i \in 1..(Len(one) - n)
          /\ i \in 1..(Len(data) - (m + n))
      BY <1>0, <1>1, <1>3
    <2> QED
      BY <1>1, <1>2, <1>3, <2>1
  <1>5. Len(two) = Len(both)
    BY <1>0, <1>1, <1>2, <1>3
  <1>6. two = both
    BY <1>2, <1>3, <1>4, <1>5, SeqEqual DEF Bytes
  <1> QED
    BY <1>6 DEF one, two, both

-----------------------------------------------------------------------------
(* Sums of sizes and joined parts *)

\* A sum is at least each of its terms.
LEMMA TotalBounds ==
    ASSUME NEW sizes \in Seq(Nat)
    PROVE  Total(sizes) \in Nat /\ \A i \in 1..Len(sizes) : sizes[i] <= Total(sizes)
  <1>0. PICK n \in Nat : n = Len(sizes)
    OBVIOUS
  <1>1. PICK f : /\ f[0] = 0
                 /\ \A k \in 1..n : f[k] = sizes[(n - k) + 1] + f[k - 1]
                 /\ Total(sizes) = f[n]
    BY <1>0, TotalSteps, Zenon
  <1> DEFINE T == {k \in Nat : k <= n =>
                      f[k] \in Nat /\ \A i \in 1..n : i > n - k => sizes[i] <= f[k]}
  <1>2. 0 \in T
    BY <1>0, <1>1
  <1>3. ASSUME NEW k \in Nat, k \in T PROVE k + 1 \in T
    <2> SUFFICES ASSUME k + 1 <= n
                 PROVE  /\ f[k + 1] \in Nat
                        /\ \A i \in 1..n : i > n - (k + 1) => sizes[i] <= f[k + 1]
      OBVIOUS
    <2>1. /\ k + 1 \in 1..n /\ (k + 1) - 1 = k /\ (n - (k + 1)) + 1 = n - k /\ n - k \in 1..n
      OBVIOUS
    <2>2. f[k] \in Nat /\ \A i \in 1..n : i > n - k => sizes[i] <= f[k]
      BY <1>3, <2>1
    <2>3. f[k + 1] = sizes[n - k] + f[k] /\ sizes[n - k] \in Nat
      <3>1. sizes[n - k] \in Nat
        BY <1>0, <2>1, ElementOfSeq
      <3>2. f[k + 1] = sizes[(n - (k + 1)) + 1] + f[(k + 1) - 1]
        BY <1>1, <2>1
      <3> QED
        BY <2>1, <3>1, <3>2
    <2>4. ASSUME NEW i \in 1..n, i > n - (k + 1) PROVE sizes[i] <= f[k + 1]
      <3>0. sizes[i] \in Nat
        BY <1>0, ElementOfSeq
      <3>1. CASE i = n - k
        BY <2>2, <2>3, <3>1
      <3>2. CASE i # n - k
        <4>1. i > n - k
          BY <2>4, <3>2
        <4>2. sizes[i] <= f[k]
          BY <2>2, <4>1
        <4> QED
          BY <2>2, <2>3, <3>0, <4>2
      <3> QED
        BY <3>1, <3>2
    <2> QED
      BY <2>2, <2>3, <2>4
  <1> HIDE DEF T
  <1>4. Nat \subseteq T
    BY <1>2, <1>3, Induction
  <1>5. f[n] \in Nat /\ \A i \in 1..n : i > n - n => sizes[i] <= f[n]
    BY <1>4 DEF T
  <1>6. \A i \in 1..n : i > n - n
    OBVIOUS
  <1> QED
    BY <1>0, <1>1, <1>5, <1>6

\* There are no more terms than the least of them allows.
LEMMA TotalOfLeast ==
    ASSUME NEW sizes \in Seq(Nat), NEW least \in {1, 11}, \A i \in 1..Len(sizes) : sizes[i] >= least
    PROVE  least * Len(sizes) <= Total(sizes)
  <1>0. PICK n \in Nat : n = Len(sizes)
    OBVIOUS
  <1>1. PICK f : /\ f[0] = 0
                 /\ \A k \in 1..n : f[k] = sizes[(n - k) + 1] + f[k - 1]
                 /\ Total(sizes) = f[n]
    BY <1>0, TotalSteps, Zenon
  <1> DEFINE T == {k \in Nat : k <= n => f[k] \in Nat /\ least * k <= f[k]}
  <1>2. 0 \in T
    BY <1>1
  <1>3. ASSUME NEW k \in Nat, k \in T PROVE k + 1 \in T
    <2> SUFFICES ASSUME k + 1 <= n PROVE f[k + 1] \in Nat /\ least * (k + 1) <= f[k + 1]
      OBVIOUS
    <2>1. /\ k + 1 \in 1..n /\ (k + 1) - 1 = k /\ (n - (k + 1)) + 1 = n - k /\ n - k \in 1..n
      OBVIOUS
    <2>2. f[k] \in Nat /\ least * k <= f[k]
      BY <1>3, <2>1
    <2>3. f[k + 1] = sizes[n - k] + f[k] /\ sizes[n - k] \in Nat /\ sizes[n - k] >= least
      <3>1. sizes[n - k] \in Nat
        BY <1>0, <2>1, ElementOfSeq
      <3>2. f[k + 1] = sizes[(n - (k + 1)) + 1] + f[(k + 1) - 1]
        BY <1>1, <2>1
      <3> QED
        BY <1>0, <2>1, <3>1, <3>2
    <2>4. CASE least = 1
      BY <2>2, <2>3, <2>4
    <2>5. CASE least = 11
      BY <2>2, <2>3, <2>5
    <2> QED
      BY <2>4, <2>5
  <1> HIDE DEF T
  <1>4. Nat \subseteq T
    BY <1>2, <1>3, Induction
  <1>5. least * n <= f[n]
    BY <1>4 DEF T
  <1> QED
    BY <1>0, <1>1, <1>5

\* Joined parts are as long as the parts together.
LEMMA JoinedFits ==
    ASSUME NEW parts \in Seq(Bytes), NEW sizes \in Seq(Nat), Len(sizes) = Len(parts),
           \A i \in 1..Len(parts) : sizes[i] = Len(parts[i])
    PROVE  Joined(parts) \in Bytes /\ Len(Joined(parts)) = Total(sizes)
  <1>0. PICK n \in Nat : n = Len(parts) /\ n = Len(sizes)
    OBVIOUS
  <1>1. PICK f : /\ f[0] = 0
                 /\ \A k \in 1..n : f[k] = sizes[(n - k) + 1] + f[k - 1]
                 /\ Total(sizes) = f[n]
    <2>1. Len(sizes) = n /\ Len(sizes) \in Nat
      BY <1>0
    <2> QED
      BY <2>1, TotalSteps, Zenon
  <1>2. PICK g : /\ g[0] = <<>>
                 /\ \A k \in 1..n : g[k] = parts[(n - k) + 1] \o g[k - 1]
                 /\ Joined(parts) = g[n]
    <2>1. Len(parts) = n /\ Len(parts) \in Nat
      BY <1>0
    <2> QED
      BY <2>1, JoinedSteps, Zenon
  <1> DEFINE T == {k \in Nat : k <= n => g[k] \in Bytes /\ Len(g[k]) = f[k]}
  <1>3. 0 \in T
    BY <1>1, <1>2, EmptySeq DEF Bytes
  <1>4. ASSUME NEW k \in Nat, k \in T PROVE k + 1 \in T
    <2> SUFFICES ASSUME k + 1 <= n PROVE g[k + 1] \in Bytes /\ Len(g[k + 1]) = f[k + 1]
      OBVIOUS
    <2>1. /\ k + 1 \in 1..n /\ (k + 1) - 1 = k /\ (n - (k + 1)) + 1 = n - k /\ n - k \in 1..n
      OBVIOUS
    <2>2. g[k] \in Bytes /\ Len(g[k]) = f[k]
      BY <1>4, <2>1
    <2>3. parts[n - k] \in Bytes /\ Len(parts[n - k]) = sizes[n - k]
      BY <1>0, <2>1, ElementOfSeq
    <2>4. g[k + 1] = parts[n - k] \o g[k]
      <3>1. g[k + 1] = parts[(n - (k + 1)) + 1] \o g[(k + 1) - 1]
        BY <1>2, <2>1
      <3> QED
        BY <2>1, <3>1
    <2>5. f[k + 1] = sizes[n - k] + f[k]
      <3>1. f[k + 1] = sizes[(n - (k + 1)) + 1] + f[(k + 1) - 1]
        BY <1>1, <2>1
      <3> QED
        BY <2>1, <3>1
    <2>6. PICK a \in Bytes, b \in Bytes : a = parts[n - k] /\ b = g[k]
      BY <2>2, <2>3
    <2>7. a \o b \in Bytes /\ Len(a \o b) = Len(a) + Len(b)
      BY TwoParts
    <2> QED
      BY <2>2, <2>3, <2>4, <2>5, <2>6, <2>7
  <1> HIDE DEF T
  <1>5. Nat \subseteq T
    BY <1>3, <1>4, Induction
  <1>6. g[n] \in Bytes /\ Len(g[n]) = f[n]
    BY <1>5 DEF T
  <1> QED
    BY <1>1, <1>2, <1>6

-----------------------------------------------------------------------------
(* Values within values *)

Records(array) == [type : Types, value : Int, str : Bytes, array : Seq(array)]

NoValues(p) == {}
OneLevelMore(p, levels, below) ==
    {v \in [type : Types, value : Int, str : Seq(Byte8), array : Seq(below)] : OfItsClass(v)}
Nesting == INSTANCE Recursion WITH Start <- NoValues, Body <- OneLevelMore

Copying == INSTANCE Folding WITH Level <- ValuesTo, Method <- CopyOf
Measuring == INSTANCE Folding WITH Level <- ValuesTo, Method <- SizeOf
Writing == INSTANCE Folding WITH Level <- ValuesTo, Method <- BytesOf

AllValues == ValuesTo[MaxNesting]

\* What a value of some level is.
LEMMA ValuesOfLevel ==
    /\ ValuesTo[0] = {}
    /\ \A d \in Nat : \A v : v \in ValuesTo[d + 1] <=> v \in Records(ValuesTo[d]) /\ OfItsClass(v)
  <1>1. \E f : Nesting!FitsAll(0, f)
    BY Nesting!ExistsAll
  <1>2. \E f : f = [levels \in Nat |-> IF levels = 0 THEN {}
            ELSE {v \in [type : Types, value : Int, str : Seq(Byte8), array : Seq(f[levels - 1])] :
                     OfItsClass(v)}]
    BY <1>1 DEF Nesting!FitsAll, NoValues, OneLevelMore
  <1>3. ValuesTo = [levels \in Nat |-> IF levels = 0 THEN {}
            ELSE {v \in [type : Types, value : Int, str : Seq(Byte8), array : Seq(ValuesTo[levels - 1])] :
                     OfItsClass(v)}]
    BY <1>2 DEF ValuesTo
  <1>4. ValuesTo[0] = {}
    BY <1>3
  <1>5. ASSUME NEW d \in Nat
        PROVE  \A v : v \in ValuesTo[d + 1] <=> v \in Records(ValuesTo[d]) /\ OfItsClass(v)
    <2>1. d + 1 \in Nat /\ d + 1 # 0 /\ (d + 1) - 1 = d
      OBVIOUS
    <2>2. ValuesTo[d + 1]
            = {v \in [type : Types, value : Int, str : Seq(Byte8), array : Seq(ValuesTo[(d + 1) - 1])] :
                  OfItsClass(v)}
      BY <1>3, <2>1
    <2>3. ValuesTo[d + 1] = {v \in Records(ValuesTo[d]) : OfItsClass(v)}
      BY <2>1, <2>2 DEF Records, Bytes
    <2> QED
      BY <2>3
  <1> QED
    BY <1>4, <1>5

\* A value is one of the next level too.
LEMMA ValuesGrow == \A d \in Nat : ValuesTo[d] \subseteq ValuesTo[d + 1]
  <1> DEFINE T == {d \in Nat : ValuesTo[d] \subseteq ValuesTo[d + 1]}
  <1>1. 0 \in T
    BY ValuesOfLevel
  <1>2. ASSUME NEW d \in Nat, d \in T PROVE d + 1 \in T
    <2>0. d + 1 \in Nat
      OBVIOUS
    <2>1. ASSUME NEW v \in ValuesTo[d + 1] PROVE v \in ValuesTo[(d + 1) + 1]
      <3>1. v \in Records(ValuesTo[d]) /\ OfItsClass(v)
        BY ValuesOfLevel
      <3>2. v.array \in Seq(ValuesTo[d]) /\ ValuesTo[d] \subseteq ValuesTo[d + 1]
        BY <1>2, <3>1 DEF Records
      <3>3. v.array \in Seq(ValuesTo[d + 1])
        BY <3>2, SeqMonotonic
      <3>4. v \in Records(ValuesTo[d + 1])
        BY <3>1, <3>3 DEF Records
      <3> QED
        BY <2>0, <3>1, <3>4, ValuesOfLevel
    <2> QED
      BY <2>0, <2>1
  <1> HIDE DEF T
  <1>3. Nat \subseteq T
    BY <1>1, <1>2, Induction
  <1> QED
    BY <1>3 DEF T

\* The values are what the methods go down.
LEMMA Descends == Copying!Levels /\ Measuring!Levels /\ Writing!Levels
  <1>1. ValuesTo[0] = {}
    BY ValuesOfLevel
  <1>2. \A d \in Nat : ValuesTo[d] \subseteq ValuesTo[d + 1]
    BY ValuesGrow
  <1>3. \A d \in Nat : \A v \in ValuesTo[d + 1] : v.array \in Seq(ValuesTo[d])
    <2> TAKE d \in Nat
    <2> TAKE v \in ValuesTo[d + 1]
    <2>1. v \in Records(ValuesTo[d])
      BY ValuesOfLevel
    <2> QED
      BY <2>1 DEF Records
  <1> QED
    BY <1>1, <1>2, <1>3, Zenon DEF Copying!Levels, Measuring!Levels, Writing!Levels

\* What CopyFrom makes of a value.
LEMMA CopyIs ==
    ASSUME NEW v \in AllValues
    PROVE  CopyValue(v) = CopyOf(v, [i \in DOMAIN v.array |-> CopyValue(v.array[i])])
  <1>1. \A w : CopyValue(w) = Copying!To[MaxNesting][w]
    BY DEF CopyValue, OnValues, Copying!To
  <1>2. Copying!To[MaxNesting][v]
            = CopyOf(v, [i \in DOMAIN v.array |-> Copying!To[MaxNesting][v.array[i]]])
    BY Descends, NestingAssumption, Copying!MethodAt DEF AllValues
  <1> HIDE DEF CopyOf
  <1> QED
    BY <1>1, <1>2

\* What GetSizeInternal returns for a value.
LEMMA SizeIs ==
    ASSUME NEW v \in AllValues
    PROVE  GetSizeInternal(v) = SizeOf(v, [i \in DOMAIN v.array |-> GetSizeInternal(v.array[i])])
  <1>1. \A w : GetSizeInternal(w) = Measuring!To[MaxNesting][w]
    BY DEF GetSizeInternal, OnValues, Measuring!To
  <1>2. Measuring!To[MaxNesting][v]
            = SizeOf(v, [i \in DOMAIN v.array |-> Measuring!To[MaxNesting][v.array[i]]])
    BY Descends, NestingAssumption, Measuring!MethodAt DEF AllValues
  <1> QED
    BY <1>1, <1>2

\* What Serialize writes for a value.
LEMMA BytesAre ==
    ASSUME NEW v \in AllValues
    PROVE  SerializeValue(v) = BytesOf(v, [i \in DOMAIN v.array |-> SerializeValue(v.array[i])])
  <1>1. \A w : SerializeValue(w) = Writing!To[MaxNesting][w]
    BY DEF SerializeValue, OnValues, Writing!To
  <1>2. Writing!To[MaxNesting][v]
            = BytesOf(v, [i \in DOMAIN v.array |-> Writing!To[MaxNesting][v.array[i]]])
    BY Descends, NestingAssumption, Writing!MethodAt DEF AllValues
  <1> QED
    BY <1>1, <1>2

\* The elements of an array are values.
LEMMA ElementsAreValues ==
    ASSUME NEW v \in AllValues
    PROVE  /\ v \in Records(AllValues) /\ OfItsClass(v)
           /\ v.array \in Seq(AllValues) /\ DOMAIN v.array = 1..Len(v.array)
           /\ \A i \in DOMAIN v.array : v.array[i] \in AllValues
  <1>1. PICK d \in Nat : MaxNesting = d + 1
    <2>1. MaxNesting \in Nat /\ MaxNesting # 0
      BY NestingAssumption, ValuesOfLevel DEF AllValues
    <2> QED
      BY <2>1
  <1>2. v \in Records(ValuesTo[d]) /\ OfItsClass(v)
    BY <1>1, ValuesOfLevel DEF AllValues
  <1>3. ValuesTo[d] \subseteq AllValues
    BY <1>1, ValuesGrow DEF AllValues
  <1>4. v.array \in Seq(ValuesTo[d])
    BY <1>2 DEF Records
  <1>5. v.array \in Seq(AllValues)
    BY <1>3, <1>4, SeqMonotonic
  <1>6. v \in Records(AllValues)
    BY <1>2, <1>5 DEF Records
  <1> QED
    BY <1>2, <1>5, <1>6

\* What holds of a value when it holds of its elements holds of all values.
LEMMA ValueInduction ==
    ASSUME NEW T, \A v \in AllValues : (\A i \in DOMAIN v.array : v.array[i] \in T) => v \in T
    PROVE  AllValues \subseteq T
  <1> DEFINE D == {d \in Nat : ValuesTo[d] \cap AllValues \subseteq T}
  <1>1. 0 \in D
    BY ValuesOfLevel
  <1>2. ASSUME NEW d \in Nat, d \in D PROVE d + 1 \in D
    <2> SUFFICES ASSUME NEW v \in ValuesTo[d + 1], v \in AllValues PROVE v \in T
      OBVIOUS
    <2>1. v.array \in Seq(ValuesTo[d])
      BY ValuesOfLevel DEF Records
    <2>2. \A i \in DOMAIN v.array : v.array[i] \in ValuesTo[d] /\ v.array[i] \in AllValues
      BY <2>1, ElementsAreValues
    <2> QED
      BY <1>2, <2>2
  <1> HIDE DEF D
  <1>3. Nat \subseteq D
    BY <1>1, <1>2, Induction
  <1> QED
    BY <1>3, NestingAssumption DEF D, AllValues

-----------------------------------------------------------------------------
(* Serialize *)

\* What SerializeInternal writes.
Contents(v) ==
    IF v.type \in IntTypes THEN Le(v.value, IntSize[v.type])
    ELSE IF v.type = ValueTypeStr THEN Le(Len(v.str), 4) \o v.str
    ELSE IF v.type = ValueTypeArr
         THEN Le(Len(v.array), 4) \o Joined([i \in DOMAIN v.array |-> SerializeValue(v.array[i])])
    ELSE v.str

\* The buffer of a value has the size that was allocated for it.
Written(v) ==
    /\ GetSizeInternal(v) \in Nat
    /\ SerializeValue(v) \in Bytes /\ Len(SerializeValue(v)) = GetSizeInternal(v) + 5
    /\ Contents(v) \in Bytes /\ Len(Contents(v)) = GetSizeInternal(v)

\* The header and what comes after it.
LEMMA HeaderAndContents ==
    ASSUME NEW v \in AllValues
    PROVE  SerializeValue(v) = (<<v.type>> \o Le(GetSizeInternal(v), 4)) \o Contents(v)
  <1> DEFINE parts == [i \in DOMAIN v.array |-> SerializeValue(v.array[i])]
  <1>1. DOMAIN v.array = 1..Len(v.array) /\ Len(v.array) \in Nat
    BY ElementsAreValues
  <1>2. Len(parts) = Len(v.array)
    BY <1>1
  <1>3. SerializeValue(v) = BytesOf(v, parts)
    BY BytesAre
  <1> HIDE DEF parts
  <1>4. BytesOf(v, parts) = (<<v.type>> \o Le(GetSizeInternal(v), 4)) \o Contents(v)
    BY <1>2, Zenon DEF BytesOf, Contents, parts
  <1> QED
    BY <1>3, <1>4

\* The sizes of the classes.
LEMMA IntSizes ==
    /\ \A type \in IntTypes : IntSize[type] \in {1, 2, 4, 8}
    /\ IntTypes = 1..8 /\ Types = 0..10
    /\ \A type \in Types : type \in Byte8 /\ <<type>> \in Bytes /\ Len(<<type>>) = 1
  <1>1. IntTypes = 1..8
    BY DEF IntTypes, IntSize
  <1>2. Types = 0..10
    BY <1>1 DEF Types, ValueTypeUndefined, ValueTypeStr, ValueTypeArr
  <1>3. \A type \in 1..8 : IntSize[type] \in {1, 2, 4, 8}
    BY DEF IntSize
  <1>4. \A type \in 0..10 : type \in Byte8 /\ <<type>> \in Bytes /\ Len(<<type>>) = 1
    BY DEF Bytes, Byte8
  <1> QED
    BY <1>1, <1>2, <1>3, <1>4

\* The sizes of the elements of an array.
LEMMA ElementSizes ==
    ASSUME NEW v \in AllValues, \A i \in DOMAIN v.array : Written(v.array[i])
    PROVE  LET parts == [i \in DOMAIN v.array |-> SerializeValue(v.array[i])]
               sizes == [i \in DOMAIN v.array |-> GetSizeInternal(v.array[i]) + 5]
           IN  /\ parts \in Seq(Bytes) /\ sizes \in Seq(Nat)
               /\ Len(parts) = Len(v.array) /\ Len(sizes) = Len(v.array)
               /\ \A i \in 1..Len(v.array) : sizes[i] = Len(parts[i])
               /\ Joined(parts) \in Bytes /\ Len(Joined(parts)) = Total(sizes)
               /\ Total(sizes) \in Nat /\ Len(v.array) <= Total(sizes)
               /\ \A i \in 1..Len(v.array) : GetSizeInternal(v.array[i]) + 5 <= Total(sizes)
  <1> DEFINE parts == [i \in DOMAIN v.array |-> SerializeValue(v.array[i])]
             sizes == [i \in DOMAIN v.array |-> GetSizeInternal(v.array[i]) + 5]
  <1>1. PICK n \in Nat : n = Len(v.array) /\ DOMAIN v.array = 1..n
    BY ElementsAreValues
  <1>2. \A i \in 1..n : parts[i] = SerializeValue(v.array[i])
    BY <1>1
  <1>3. \A i \in 1..n : sizes[i] = GetSizeInternal(v.array[i]) + 5
    BY <1>1
  <1>4. \A i \in 1..n : parts[i] \in Bytes /\ sizes[i] = Len(parts[i])
    BY <1>1, <1>2, <1>3 DEF Written
  <1>5. \A i \in 1..n : sizes[i] \in Nat /\ sizes[i] >= 1
    BY <1>1, <1>3 DEF Written
  <1>6. parts \in [1..n -> Bytes]
    BY <1>1, <1>4
  <1>7. sizes \in [1..n -> Nat]
    BY <1>1, <1>5
  <1> HIDE DEF parts, sizes
  <1>8. parts \in Seq(Bytes) /\ sizes \in Seq(Nat) /\ Len(parts) = n /\ Len(sizes) = n
    BY <1>6, <1>7
  <1>9. Joined(parts) \in Bytes /\ Len(Joined(parts)) = Total(sizes)
    BY <1>4, <1>8, JoinedFits
  <1>10. Total(sizes) \in Nat /\ \A i \in 1..n : sizes[i] <= Total(sizes)
    BY <1>8, TotalBounds
  <1>11. n <= Total(sizes)
    <2>1. 1 * Len(sizes) <= Total(sizes)
      BY <1>5, <1>8, TotalOfLeast
    <2> QED
      BY <1>8, <2>1
  <1> QED
    BY <1>1, <1>3, <1>4, <1>8, <1>9, <1>10, <1>11 DEF parts, sizes

\* One step down the elements.
LEMMA WrittenStep ==
    ASSUME NEW v \in AllValues, \A i \in DOMAIN v.array : Written(v.array[i])
    PROVE  Written(v)
  <1> DEFINE parts == [i \in DOMAIN v.array |-> SerializeValue(v.array[i])]
             sizes == [i \in DOMAIN v.array |-> GetSizeInternal(v.array[i]) + 5]
             inner == [i \in DOMAIN v.array |-> GetSizeInternal(v.array[i])]
  <1>1. v \in Records(AllValues) /\ OfItsClass(v)
    BY ElementsAreValues
  <1>2. v.type \in Types /\ v.value \in Int /\ v.str \in Bytes /\ v.array \in Seq(AllValues)
    BY <1>1 DEF Records
  <1>3. /\ Joined(parts) \in Bytes /\ Len(Joined(parts)) = Total(sizes) /\ Total(sizes) \in Nat
    BY ElementSizes
  <1>4. [i \in DOMAIN inner |-> inner[i] + 5] = sizes
    OBVIOUS
  <1>5. GetSizeInternal(v) = SizeOf(v, inner)
    BY SizeIs
  <1> HIDE DEF parts, sizes, inner
  <1>6. GetSizeInternal(v) \in Nat /\ Contents(v) \in Bytes /\ Len(Contents(v)) = GetSizeInternal(v)
    <2>1. CASE v.type \in IntTypes
      <3>1. GetSizeInternal(v) = IntSize[v.type] /\ Contents(v) = Le(v.value, IntSize[v.type])
        BY <1>5, <2>1 DEF SizeOf, Contents
      <3>2. PICK size \in Nat : size = IntSize[v.type]
        BY <2>1, IntSizes
      <3>3. v.value \in Int
        BY <1>2
      <3>4. Le(v.value, size) \in Bytes /\ Len(Le(v.value, size)) = size
        BY <3>3, LeType, SMTT(30) DEF Bytes
      <3> QED
        BY <3>1, <3>2, <3>4
    <2>2. CASE v.type \notin IntTypes /\ v.type = ValueTypeStr
      <3>1. GetSizeInternal(v) = Len(v.str) + 4 /\ Contents(v) = Le(Len(v.str), 4) \o v.str
        BY <1>5, <2>2 DEF SizeOf, Contents
      <3>2. Len(v.str) \in Nat /\ Len(v.str) \in Int
        BY <1>2 DEF Bytes
      <3>3. Le(Len(v.str), 4) \in Bytes /\ Len(Le(Len(v.str), 4)) = 4
        BY <3>2, LeType DEF Bytes
      <3>4. /\ Le(Len(v.str), 4) \o v.str \in Bytes
            /\ Len(Le(Len(v.str), 4) \o v.str) = Len(Le(Len(v.str), 4)) + Len(v.str)
        BY <1>2, <3>3, TwoParts, Zenon
      <3>5. PICK c \in Bytes : c = Le(Len(v.str), 4) \o v.str
        BY <3>4
      <3>6. Contents(v) = c /\ Len(c) = 4 + Len(v.str)
        BY <3>1, <3>3, <3>4, <3>5, Zenon
      <3>7. GetSizeInternal(v) = Len(v.str) + 4
        BY <3>1
      <3>8. \A m \in Nat : m + 4 \in Nat /\ 4 + m = m + 4
        OBVIOUS
      <3>9. GetSizeInternal(v) \in Nat /\ Len(c) = GetSizeInternal(v)
        BY <3>2, <3>6, <3>7, <3>8, Zenon
      <3> QED
        BY <3>5, <3>6, <3>9, Zenon
    <2>3. CASE v.type \notin IntTypes /\ v.type # ValueTypeStr /\ v.type = ValueTypeArr
      <3>1. GetSizeInternal(v) = 4 + Total(sizes)
            /\ Contents(v) = Le(Len(v.array), 4) \o Joined(parts)
        BY <1>4, <1>5, <2>3, Zenon DEF SizeOf, Contents, parts
      <3>2. Len(v.array) \in Nat /\ Len(v.array) \in Int
        BY <1>2
      <3>3. Le(Len(v.array), 4) \in Bytes /\ Len(Le(Len(v.array), 4)) = 4
        BY <3>2, LeType DEF Bytes
      <3>4. /\ Le(Len(v.array), 4) \o Joined(parts) \in Bytes
            /\ Len(Le(Len(v.array), 4) \o Joined(parts))
                   = Len(Le(Len(v.array), 4)) + Len(Joined(parts))
        BY <1>3, <3>3, TwoParts, Zenon
      <3>5. PICK c \in Bytes : c = Le(Len(v.array), 4) \o Joined(parts)
        BY <3>4
      <3>6. Contents(v) = c /\ Len(c) = 4 + Total(sizes)
        BY <1>3, <3>1, <3>3, <3>4, <3>5, Zenon
      <3> QED
        BY <1>3, <3>1, <3>5, <3>6
    <2>4. CASE v.type \notin IntTypes /\ v.type # ValueTypeStr /\ v.type # ValueTypeArr
      <3>1. GetSizeInternal(v) = Len(v.str) /\ Contents(v) = v.str
        BY <1>5, <2>4 DEF SizeOf, Contents
      <3> QED
        BY <1>2, <3>1 DEF Bytes
    <2> QED
      BY <2>1, <2>2, <2>3, <2>4
  <1>7. SerializeValue(v) = (<<v.type>> \o Le(GetSizeInternal(v), 4)) \o Contents(v)
    BY HeaderAndContents
  <1>8. <<v.type>> \in Bytes /\ Len(<<v.type>>) = 1
    BY <1>2, IntSizes
  <1>9. Le(GetSizeInternal(v), 4) \in Bytes /\ Len(Le(GetSizeInternal(v), 4)) = 4
    <2>1. GetSizeInternal(v) \in Int
      BY <1>6
    <2> QED
      BY <2>1, LeType DEF Bytes
  <1>10. PICK a \in Bytes, b \in Bytes, c \in Bytes :
             a = <<v.type>> /\ b = Le(GetSizeInternal(v), 4) /\ c = Contents(v)
    BY <1>6, <1>8, <1>9
  <1>11. a \o b \in Bytes /\ Len(a \o b) = Len(a) + Len(b)
    BY TwoParts
  <1>12. (a \o b) \o c \in Bytes /\ Len((a \o b) \o c) = Len(a \o b) + Len(c)
    BY <1>11, TwoParts
  <1>13. SerializeValue(v) = (a \o b) \o c
    BY <1>7, <1>10
  <1>14. Len(a) = 1 /\ Len(b) = 4 /\ Len(c) = GetSizeInternal(v)
    BY <1>6, <1>8, <1>9, <1>10
  <1>15. SerializeValue(v) \in Bytes /\ Len(SerializeValue(v)) = GetSizeInternal(v) + 5
    BY <1>6, <1>11, <1>12, <1>13, <1>14
  <1> QED
    BY <1>6, <1>15 DEF Written

\* Every value fills the buffer that is allocated for it.
THEOREM ValueFits == \A v \in AllValues : Written(v)
  <1> DEFINE T == {v \in AllValues : Written(v)}
  <1>1. ASSUME NEW v \in AllValues, \A i \in DOMAIN v.array : v.array[i] \in T
        PROVE  v \in T
    BY <1>1, WrittenStep
  <1> HIDE DEF T
  <1>2. AllValues \subseteq T
    BY <1>1, ValueInduction
  <1> QED
    BY <1>2 DEF T

-----------------------------------------------------------------------------
(* Loops that deserialize *)

\* The first k of some items.
Firsts(items, k) == [i \in 1..k |-> items[i]]

\* One more of the items.
LEMMA FirstsGrow ==
    ASSUME NEW S, NEW items \in Seq(S), NEW k \in Nat, k + 1 <= Len(items)
    PROVE  Append(Firsts(items, k), items[k + 1]) = Firsts(items, k + 1)
  <1>1. Firsts(items, k) \in Seq(S) /\ Len(Firsts(items, k)) = k
    <2>1. \A i \in 1..k : items[i] \in S
      BY ElementOfSeq
    <2> QED
      BY <2>1 DEF Firsts
  <1>2. Firsts(items, k + 1) \in Seq(S) /\ Len(Firsts(items, k + 1)) = k + 1
    <2>1. \A i \in 1..(k + 1) : items[i] \in S
      BY ElementOfSeq
    <2> QED
      BY <2>1 DEF Firsts
  <1>3. \A i \in 1..k : Firsts(items, k)[i] = items[i]
    BY DEF Firsts
  <1>4. \A i \in 1..(k + 1) : Firsts(items, k + 1)[i] = items[i]
    BY DEF Firsts
  <1>5. items[k + 1] \in S
    BY ElementOfSeq
  <1> DEFINE a == Append(Firsts(items, k), items[k + 1])
  <1>6. /\ a \in Seq(S) /\ Len(a) = k + 1 /\ a[k + 1] = items[k + 1]
        /\ \A i \in 1..k : a[i] = Firsts(items, k)[i]
    BY <1>1, <1>5, AppendProperties
  <1> HIDE DEF a
  <1>7. \A i \in 1..(k + 1) : a[i] = Firsts(items, k + 1)[i]
    BY <1>3, <1>4, <1>6
  <1>8. a = Firsts(items, k + 1)
    BY <1>2, <1>6, <1>7, SeqEqual
  <1> QED
    BY <1>8 DEF a

\* All the items are the first ones.
LEMMA FirstsAll == ASSUME NEW S, NEW items \in Seq(S) PROVE Firsts(items, Len(items)) = items
  BY LenProperties DEF Firsts

\* What is left of the data when some of it is used.
Leaves(data, used, rest) == used <= Len(data) /\ After(data, used, Len(data)) = rest

\* One part is read and the rest is left.
LEMMA PartRead ==
    ASSUME NEW data \in Bytes, NEW used \in Nat, NEW part \in Bytes, NEW rest \in Bytes,
           Leaves(data, used, part \o rest)
    PROVE  \E more \in Nat : more = used + Len(part) /\ Leaves(data, more, rest)
  <1> DEFINE left == After(data, used, Len(data))
  <1>0. used <= Len(data) /\ left = part \o rest
    BY DEF Leaves
  <1>1. Len(left) = Len(data) - used
    <2>1. Len(data) \in Nat /\ Len(data) <= Len(data)
      BY DEF Bytes
    <2> QED
      BY <1>0, <2>1, AfterCuts, Zenon
  <1>2. Len(left) = Len(part) + Len(rest) /\ Len(part) \in Nat /\ Len(rest) \in Nat
    BY <1>0, TwoParts
  <1>3. used + Len(part) <= Len(data) /\ Len(data) \in Nat
    BY <1>0, <1>1, <1>2 DEF Bytes
  <1>4. After(left, Len(part), Len(left)) = rest
    BY <1>0, AfterFirst
  <1>5. After(left, Len(part), Len(left)) = After(data, used + Len(part), Len(data))
    BY <1>2, <1>3, AfterAfter
  <1> QED
    BY <1>2, <1>3, <1>4, <1>5 DEF Leaves

\* One more part is read as the item it is made of, wherever the last ended.
ReadsParts(f, data, start, parts, items) ==
    \A k \in 1..Len(parts) : \A used \in Nat : \A rest \in Bytes :
        used >= start /\ Leaves(data, used, parts[k] \o rest)
            /\ f[k - 1] = Read(used, Firsts(items, k - 1))
        => f[k] = Longer(f[k - 1], Read(Len(parts[k]), items[k]))

\* What one more call adds to what was read.
LEMMA LongerReads == \A a, c \in Nat : \A b, d : Longer(Read(a, b), Read(c, d)) = Read(a + c, Append(b, d))
  BY DEF Longer, Read

\* A loop that reads part after part of what is left after start.
LoopOver(f, data, start, parts, items) ==
    /\ Len(items) = Len(parts) /\ Leaves(data, start, Joined(parts))
    /\ f[0] = Read(start, <<>>) /\ ReadsParts(f, data, start, parts, items)

\* Reading part after part gives item after item, and uses all the data.
LEMMA LoopReads ==
    ASSUME NEW data \in Bytes, NEW parts \in Seq(Bytes), NEW S, NEW items \in Seq(S),
           NEW start \in Nat, NEW f, LoopOver(f, data, start, parts, items)
    PROVE  f[Len(parts)] = Read(Len(data), items)
  <1>a. /\ Len(items) = Len(parts) /\ Leaves(data, start, Joined(parts))
        /\ f[0] = Read(start, <<>>) /\ ReadsParts(f, data, start, parts, items)
    BY DEF LoopOver
  <1>0. PICK n \in Nat : n = Len(parts)
    OBVIOUS
  <1>1. PICK g : /\ g[0] = <<>>
                 /\ \A k \in 1..n : g[k] = parts[(n - k) + 1] \o g[k - 1]
                 /\ Joined(parts) = g[n]
    BY <1>0, JoinedSteps, Zenon
  <1>2. \A k \in 0..n : g[k] \in Bytes
    <2> DEFINE B == {k \in Nat : k <= n => g[k] \in Bytes}
    <2>1. 0 \in B
      BY <1>1, EmptySeq DEF Bytes
    <2>2. ASSUME NEW k \in Nat, k \in B PROVE k + 1 \in B
      <3> SUFFICES ASSUME k + 1 <= n PROVE g[k + 1] \in Bytes
        OBVIOUS
      <3>1. /\ k + 1 \in 1..n /\ (k + 1) - 1 = k /\ (n - (k + 1)) + 1 = n - k /\ n - k \in 1..n
        OBVIOUS
      <3>2. g[k + 1] = parts[n - k] \o g[k] /\ g[k] \in Bytes
        <4>1. g[k + 1] = parts[(n - (k + 1)) + 1] \o g[(k + 1) - 1]
          BY <1>1, <3>1
        <4> QED
          BY <2>2, <3>1, <4>1
      <3>3. parts[n - k] \in Bytes
        BY <1>0, <3>1, ElementOfSeq
      <3> QED
        BY <3>2, <3>3, TwoParts
    <2> HIDE DEF B
    <2>3. Nat \subseteq B
      BY <2>1, <2>2, Induction
    <2> QED
      BY <2>3 DEF B
  <1> DEFINE T == {k \in Nat : k <= n =>
                      \E used \in Nat :
                          /\ f[k] = Read(used, Firsts(items, k)) /\ used >= start
                          /\ Leaves(data, used, g[n - k])}
  <1>3. 0 \in T
    <2>1. Firsts(items, 0) = <<>> /\ n - 0 = n
      BY DEF Firsts
    <2> QED
      BY <1>0, <1>1, <1>a, <2>1
  <1>4. ASSUME NEW k \in Nat, k \in T PROVE k + 1 \in T
    <2> SUFFICES ASSUME k + 1 <= n
                 PROVE  \E used \in Nat :
                            /\ f[k + 1] = Read(used, Firsts(items, k + 1))
                            /\ used >= start /\ Leaves(data, used, g[n - (k + 1)])
      OBVIOUS
    <2>1. PICK m \in Nat : m = n - (k + 1)
      OBVIOUS
    <2>2. /\ n - k = m + 1 /\ m + 1 \in 1..n /\ (m + 1) - 1 = m /\ m \in 0..n
          /\ (n - (m + 1)) + 1 = k + 1 /\ k + 1 \in 1..n /\ (k + 1) - 1 = k /\ k <= n
      BY <2>1
    <2>3. PICK used \in Nat :
              /\ f[k] = Read(used, Firsts(items, k)) /\ used >= start /\ Leaves(data, used, g[m + 1])
      BY <1>4, <2>2
    <2>4. g[m + 1] = parts[k + 1] \o g[m] /\ g[m] \in Bytes /\ parts[k + 1] \in Bytes
      <3>1. g[m + 1] = parts[(n - (m + 1)) + 1] \o g[(m + 1) - 1]
        BY <1>1, <2>2
      <3>2. parts[k + 1] \in Bytes
        BY <1>0, <2>2, ElementOfSeq
      <3> QED
        BY <1>2, <2>2, <3>1, <3>2
    <2>5. f[k + 1] = Longer(f[k], Read(Len(parts[k + 1]), items[k + 1]))
      <3>1. k + 1 \in 1..Len(parts) /\ f[(k + 1) - 1] = Read(used, Firsts(items, (k + 1) - 1))
        BY <1>0, <2>2, <2>3
      <3>2. f[k + 1] = Longer(f[(k + 1) - 1], Read(Len(parts[k + 1]), items[k + 1]))
        <4>1. used >= start /\ Leaves(data, used, parts[k + 1] \o g[m]) /\ g[m] \in Bytes
          BY <2>3, <2>4
        <4> QED
          BY <1>a, <3>1, <4>1 DEF ReadsParts
      <3> QED
        BY <2>2, <3>2
    <2>6. PICK more \in Nat : more = used + Len(parts[k + 1]) /\ Leaves(data, more, g[m])
      <3>1. PICK part \in Bytes, rest \in Bytes : part = parts[k + 1] /\ rest = g[m]
        BY <2>4
      <3>2. Leaves(data, used, part \o rest)
        BY <2>3, <2>4, <3>1, Zenon
      <3>3. \E more \in Nat : more = used + Len(part) /\ Leaves(data, more, rest)
        BY <3>2, PartRead, ZenonT(40)
      <3> QED
        BY <3>1, <3>3
    <2>8. more >= start
      BY <2>3, <2>4, <2>6 DEF Bytes
    <2>9. Append(Firsts(items, k), items[k + 1]) = Firsts(items, k + 1)
      BY <1>0, <1>a, <2>2, FirstsGrow
    <2>10. f[k + 1] = Read(more, Firsts(items, k + 1))
      <3>0. PICK size \in Nat : size = Len(parts[k + 1])
        BY <2>4, TwoParts
      <3>1. PICK first, item : first = Firsts(items, k) /\ item = items[k + 1]
        OBVIOUS
      <3>2. Longer(Read(used, first), Read(size, item)) = Read(used + size, Append(first, item))
        BY LongerReads
      <3> QED
        BY <2>3, <2>5, <2>6, <2>9, <3>0, <3>1, <3>2, Zenon
    <2> QED
      BY <2>1, <2>6, <2>8, <2>10
  <1> HIDE DEF T
  <1>5. Nat \subseteq T
    BY <1>3, <1>4, Induction
  <1>6. PICK used \in Nat :
            f[n] = Read(used, Firsts(items, n)) /\ Leaves(data, used, g[n - n])
    BY <1>5 DEF T
  <1>7. used = Len(data)
    <2>1. Len(data) \in Nat /\ Len(data) <= Len(data)
      BY DEF Bytes
    <2>4. used <= Len(data) /\ After(data, used, Len(data)) = g[n - n]
      BY <1>6 DEF Leaves
    <2>2. Len(After(data, used, Len(data))) = Len(data) - used
      BY <2>1, <2>4, AfterCuts, Zenon
    <2>3. After(data, used, Len(data)) = <<>>
      BY <1>1, <2>4
    <2> QED
      BY <2>1, <2>2, <2>3, <2>4
  <1>8. Firsts(items, n) = items
    BY <1>0, <1>a, FirstsAll
  <1> QED
    BY <1>0, <1>6, <1>7, <1>8

-----------------------------------------------------------------------------
(* Deserialize *)

NoLevel(p) == [data \in Seq(Byte8) |-> Read(0, Null)]
OneLevelOfCalls(p, levels, below) ==
    [data \in Seq(Byte8) |->
        IF Len(data) < 5 THEN Read(0, Null)
        ELSE ValueFrom(CreateValue(data[1]), data, Field(data, 1, 4), below)]
Calling == INSTANCE Recursion WITH Start <- NoLevel, Body <- OneLevelOfCalls

\* One level of Value::Deserialize.
LEMMA ValueReadsIs ==
    ASSUME NEW n \in Nat, NEW data \in Bytes, Len(data) >= 5
    PROVE  ValueReads[n + 1][data]
               = ValueFrom(CreateValue(data[1]), data, Field(data, 1, 4), ValueReads[n])
  <1>1. \E f : Calling!FitsAll(0, f)
    BY Calling!ExistsAll
  <1>2. \E f : f = [levels \in Nat |->
            IF levels = 0 THEN [b \in Seq(Byte8) |-> Read(0, Null)]
            ELSE [b \in Seq(Byte8) |->
                     IF Len(b) < 5 THEN Read(0, Null)
                     ELSE ValueFrom(CreateValue(b[1]), b, Field(b, 1, 4), f[levels - 1])]]
    BY <1>1 DEF Calling!FitsAll, NoLevel, OneLevelOfCalls
  <1>3. ValueReads = [levels \in Nat |->
            IF levels = 0 THEN [b \in Seq(Byte8) |-> Read(0, Null)]
            ELSE [b \in Seq(Byte8) |->
                     IF Len(b) < 5 THEN Read(0, Null)
                     ELSE ValueFrom(CreateValue(b[1]), b, Field(b, 1, 4), ValueReads[levels - 1])]]
    BY <1>2 DEF ValueReads
  <1>4. n + 1 \in Nat /\ n + 1 # 0 /\ (n + 1) - 1 = n
    OBVIOUS
  <1>5. ValueReads[n + 1] = [b \in Seq(Byte8) |->
            IF Len(b) < 5 THEN Read(0, Null)
            ELSE ValueFrom(CreateValue(b[1]), b, Field(b, 1, 4), ValueReads[n])]
    BY <1>3, <1>4
  <1>6. ~(Len(data) < 5)
    BY DEF Bytes
  <1> HIDE DEF ValueReads
  <1> QED
    BY <1>5, <1>6 DEF Bytes

ReadStart(p) == Read(4, <<>>)
ReadElement(p, k, read) == Element(read, p[2][After(p[1], read.used, Len(p[1]))])
Elements == INSTANCE Recursion WITH Start <- ReadStart, Body <- ReadElement

\* The loop of ValueArr::DeserializeInternal.
ArrReads(f, w, data, valueFrom, n) ==
    /\ f[0] = Read(4, <<>>)
    /\ \A k \in 1..n : f[k] = Element(f[k - 1], valueFrom[After(data, f[k - 1].used, Len(data))])
    /\ ArrFrom(w, data, valueFrom) = Read(f[n].used, [w EXCEPT !.array = f[n].what])

\* The loop of an array reads each element where the last one ended.
LEMMA ArrFromSteps ==
    ASSUME NEW w, NEW data, NEW valueFrom, NEW n \in Nat, Field(data, 0, 4) = n
    PROVE  \E f : ArrReads(f, w, data, valueFrom, n)
  <1>1. \E f : Elements!FitsTo(<<data, valueFrom>>, f, n)
    BY Elements!ExistsTo
  <1>2. \E f : f = [k \in 0..n |-> IF k = 0 THEN Read(4, <<>>)
            ELSE Element(f[k - 1], valueFrom[After(data, f[k - 1].used, Len(data))])]
    BY <1>1 DEF Elements!FitsTo, ReadStart, ReadElement
  <1> DEFINE f == CHOOSE f : f = [k \in 0..n |-> IF k = 0 THEN Read(4, <<>>)
            ELSE Element(f[k - 1], valueFrom[After(data, f[k - 1].used, Len(data))])]
  <1>3. f = [k \in 0..n |-> IF k = 0 THEN Read(4, <<>>)
            ELSE Element(f[k - 1], valueFrom[After(data, f[k - 1].used, Len(data))])]
    BY <1>2
  <1>4. ArrFrom(w, data, valueFrom) = Read(f[n].used, [w EXCEPT !.array = f[n].what])
    BY DEF ArrFrom
  <1> HIDE DEF f
  <1>5. f[0] = Read(4, <<>>)
    BY <1>3
  <1>6. ASSUME NEW k \in 1..n
        PROVE  f[k] = Element(f[k - 1], valueFrom[After(data, f[k - 1].used, Len(data))])
    <2>1. k \in 0..n /\ k # 0
      OBVIOUS
    <2> QED
      BY <1>3, <2>1
  <1> QED
    BY <1>4, <1>5, <1>6, Zenon DEF ArrReads

\* A value has no fields but those of CreateValue, and the class of its type
\* sets no others than these.
LEMMA FieldsOfValue ==
    ASSUME NEW v \in AllValues
    PROVE  /\ v.type \in Types /\ v.value \in Int /\ v.str \in Bytes /\ v.array \in Seq(AllValues)
           /\ CreateValue(v.type).type = v.type
           /\ v.type \in IntTypes => v = [CreateValue(v.type) EXCEPT !.value = v.value]
           /\ v.type \notin IntTypes =>
                  /\ v.type = ValueTypeStr => v = [CreateValue(v.type) EXCEPT !.str = v.str]
                  /\ v.type = ValueTypeArr => v = [CreateValue(v.type) EXCEPT !.array = v.array]
                  /\ v.type = ValueTypeUndefined => v = [CreateValue(v.type) EXCEPT !.str = v.str]
  <1>1. v \in Records(AllValues) /\ OfItsClass(v)
    BY ElementsAreValues
  <1>2. v.type \in Types /\ v.value \in Int /\ v.str \in Bytes /\ v.array \in Seq(AllValues)
        /\ v = [type |-> v.type, value |-> v.value, str |-> v.str, array |-> v.array]
    BY <1>1 DEF Records
  <1>3. CreateValue(v.type) = [type |-> v.type, value |-> 0, str |-> <<>>, array |-> <<>>]
    BY <1>2 DEF CreateValue, Types
  <1>4. v.type \in 1..8 => v.type # ValueTypeStr /\ v.type # ValueTypeArr /\ v.type # ValueTypeUndefined
    BY DEF ValueTypeStr, ValueTypeArr, ValueTypeUndefined
  <1>5. ValueTypeStr # ValueTypeArr /\ ValueTypeUndefined # ValueTypeArr
    BY DEF ValueTypeStr, ValueTypeArr, ValueTypeUndefined
  <1>6. v.type \in IntTypes => v = [CreateValue(v.type) EXCEPT !.value = v.value]
    <2>1. v.type \in IntTypes => v.str = <<>> /\ v.array = <<>>
      BY <1>1, <1>4, IntSizes DEF OfItsClass
    <2> QED
      BY <1>2, <1>3, <2>1
  <1>7. v.type \notin IntTypes /\ v.type # ValueTypeArr => v = [CreateValue(v.type) EXCEPT !.str = v.str]
    <2>1. v.type \notin IntTypes /\ v.type # ValueTypeArr => v.value = 0 /\ v.array = <<>>
      BY <1>1 DEF OfItsClass
    <2> QED
      BY <1>2, <1>3, <2>1
  <1>8. v.type \notin IntTypes /\ v.type = ValueTypeArr => v = [CreateValue(v.type) EXCEPT !.array = v.array]
    <2>1. v.type \notin IntTypes /\ v.type = ValueTypeArr => v.value = 0 /\ v.str = <<>>
      BY <1>1, <1>5 DEF OfItsClass
    <2> QED
      BY <1>2, <1>3, <2>1
  <1>9. CreateValue(v.type).type = v.type
    BY <1>3
  <1> QED
    BY <1>2, <1>5, <1>6, <1>7, <1>8, <1>9

\* A number of four bytes and what it is the length of.
LEMMA FourAndRest ==
    ASSUME NEW a \in Bytes, Len(a) = 4, NEW b \in Bytes
    PROVE  /\ Len(a \o b) = 4 + Len(b)
           /\ \A i \in 1..4 : (a \o b)[i] = a[i]
           /\ After(a \o b, 4, Len(a \o b)) = b
  <1>1. /\ Len(a \o b) = Len(a) + Len(b)
        /\ \A i \in 1..Len(a) : (a \o b)[i] = a[i]
    BY TwoParts
  <1>2. After(a \o b, Len(a), Len(a \o b)) = b
    BY AfterFirst
  <1> QED
    BY <1>1, <1>2

\* A value is read again from its buffer, whatever comes after it, by calls that
\* go deep enough.
ReadAgain(v) ==
    \A n \in Nat : \A tail \in Bytes :
        n >= ValueSize(v) => ValueReads[n][SerializeValue(v) \o tail] = Read(ValueSize(v), v)

\* An integer is read again.
LEMMA IntReadAgain ==
    ASSUME NEW v \in AllValues, v.type \in IntTypes, NEW n \in Nat
    PROVE  DeserializeInternal(CreateValue(v.type), Contents(v), ValueReads[n])
               = Read(GetSizeInternal(v), v)
  <1> DEFINE w == CreateValue(v.type)
  <1>1. Written(v)
    BY ValueFits
  <1>2. OfItsClass(v) /\ v.value \in Int /\ w.type = v.type /\ v = [w EXCEPT !.value = v.value]
    BY ElementsAreValues, FieldsOfValue
  <1>3. PICK size \in Nat : size = IntSize[v.type] /\ size # 0
    BY IntSizes
  <1>4. Contents(v) = Le(v.value, size)
    BY <1>3 DEF Contents
  <1>5. /\ Le(v.value, size) \in Bytes /\ Len(Le(v.value, size)) = size
    BY <1>2, LeType DEF Bytes
  <1>6. GetSizeInternal(v) = size
    BY <1>1, <1>4, <1>5 DEF Written
  <1> DEFINE signed == v.type \in SignedTypes
  <1>7. Number(Le(v.value, size), signed) = v.value
    <2>1. v.value \in IntsOf(v.type)
      BY <1>2 DEF OfItsClass
    <2>2. IF signed THEN Shifted(v.value, size - 1) \in -128..127 ELSE Fits(v.value, size)
      BY <1>3, <2>1 DEF IntsOf
    <2>3. signed \in BOOLEAN
      OBVIOUS
    <2> HIDE DEF signed
    <2> QED
      BY <1>2, <1>3, <2>2, <2>3, NumberOfLe
  <1> HIDE DEF w
  <1>8. PICK c \in Bytes : c = Le(v.value, size) /\ Len(c) = size
    BY <1>5
  <1>9. SubSeq(c, 1, size) = c
    BY <1>8 DEF Bytes
  <1>10. DeserializeInternal(w, c, ValueReads[n]) = IntFrom(w, c, size)
    BY <1>2, <1>3 DEF DeserializeInternal
  <1>11. IntFrom(w, c, size) = Read(size, [w EXCEPT !.value = Number(c, signed)])
    <2>1. ~(Len(c) < size)
      BY <1>3, <1>8
    <2> QED
      BY <1>2, <1>9, <2>1, Zenon DEF IntFrom
  <1>12. Number(c, signed) = v.value
    BY <1>7, <1>8
  <1> HIDE DEF signed
  <1>13. DeserializeInternal(w, c, ValueReads[n]) = Read(size, v)
    BY <1>2, <1>10, <1>11, <1>12
  <1> QED
    BY <1>4, <1>6, <1>8, <1>13 DEF w

\* A string or the raw data of an undefined value is read again.
LEMMA StrReadAgain ==
    ASSUME NEW v \in AllValues, v.type \notin IntTypes, v.type # ValueTypeArr, NEW n \in Nat,
           Fits(GetSizeInternal(v), 4)
    PROVE  DeserializeInternal(CreateValue(v.type), Contents(v), ValueReads[n])
               = Read(GetSizeInternal(v), v)
  <1> DEFINE w == CreateValue(v.type)
  <1>1. Written(v)
    BY ValueFits
  <1>2. v.type \in Types /\ v.str \in Bytes /\ w.type = v.type /\ v = [w EXCEPT !.str = v.str]
    BY FieldsOfValue DEF Types
  <1>3. PICK c \in Bytes : c = Contents(v) /\ Len(c) = GetSizeInternal(v)
    BY <1>1 DEF Written
  <1> HIDE DEF w
  <1>4. CASE v.type = ValueTypeStr
    <2>1. PICK m \in Nat, length \in Bytes : m = Len(v.str) /\ length = Le(m, 4) /\ Len(length) = 4
      <3>1. Len(v.str) \in Nat /\ Len(v.str) \in Int
        BY <1>2 DEF Bytes
      <3>2. Le(Len(v.str), 4) \in Bytes /\ Len(Le(Len(v.str), 4)) = 4
        BY <3>1, LeType DEF Bytes
      <3> QED
        BY <3>1, <3>2
    <2>2. c = length \o v.str
      BY <1>3, <1>4, <2>1 DEF Contents
    <2>3. /\ Len(c) = 4 + m
          /\ \A i \in 1..4 : c[i] = length[i]
          /\ After(c, 4, Len(c)) = v.str
      <3>1. PICK b \in Bytes : b = v.str
        BY <1>2
      <3>2. /\ Len(length \o b) = 4 + Len(b)
            /\ \A i \in 1..4 : (length \o b)[i] = length[i]
            /\ After(length \o b, 4, Len(length \o b)) = b
        BY <2>1, FourAndRest
      <3>3. c = length \o b /\ Len(b) = m
        BY <2>1, <2>2, <3>1
      <3> QED
        BY <3>1, <3>2, <3>3, Zenon
    <2>4. Fits(m, 4)
      <3>1. GetSizeInternal(v) \in Nat /\ m \in 0..GetSizeInternal(v)
        BY <1>1, <1>3, <2>1, <2>3 DEF Written
      <3> QED
        BY <3>1, SmallerFits
    <2>5. Field(c, 0, 4) = m
      <3>1. \A i \in 1..4 : c[0 + i] = Le(m, 4)[i]
        BY <2>1, <2>3
      <3> QED
        BY <2>4, <3>1, FieldOfLe
    <2>6. ~(Len(c) < 4 \/ Len(c) # Field(c, 0, 4) + 4)
      BY <2>1, <2>3, <2>5
    <2>7. DeserializeInternal(w, c, ValueReads[n]) = StrFrom(w, c)
      BY <1>2, <1>4 DEF DeserializeInternal
    <2>8. StrFrom(w, c) = Read(Len(c), [w EXCEPT !.str = v.str])
      BY <2>3, <2>6, Zenon DEF StrFrom
    <2>9. DeserializeInternal(w, c, ValueReads[n]) = Read(Len(c), v)
      BY <1>2, <2>7, <2>8
    <2> QED
      BY <1>3, <2>9 DEF w
  <1>5. CASE v.type # ValueTypeStr
    <2>1. c = v.str
      BY <1>3, <1>5 DEF Contents
    <2>2. DeserializeInternal(w, c, ValueReads[n]) = Read(Len(c), [w EXCEPT !.str = c])
      BY <1>2, <1>5 DEF DeserializeInternal
    <2>3. DeserializeInternal(w, c, ValueReads[n]) = Read(Len(c), v)
      BY <1>2, <2>1, <2>2
    <2> QED
      BY <1>3, <2>3 DEF w
  <1> QED
    BY <1>4, <1>5

\* An element that could be read is added.
LEMMA ElementSteps ==
    \A a, c \in Nat : \A b, d :
        a # 0 /\ c # 0 => Element(Read(a, b), Read(c, d)) = Longer(Read(a, b), Read(c, d))
  BY DEF Element, Read

\* An array is read again, if its elements are.
LEMMA ArrReadAgain ==
    ASSUME NEW v \in AllValues, v.type \notin IntTypes, v.type = ValueTypeArr, NEW n \in Nat,
           Fits(GetSizeInternal(v), 4), n >= GetSizeInternal(v),
           \A i \in DOMAIN v.array : ReadAgain(v.array[i])
    PROVE  DeserializeInternal(CreateValue(v.type), Contents(v), ValueReads[n])
               = Read(GetSizeInternal(v), v)
  <1> DEFINE w == CreateValue(v.type)
             parts == [i \in DOMAIN v.array |-> SerializeValue(v.array[i])]
             sizes == [i \in DOMAIN v.array |-> GetSizeInternal(v.array[i]) + 5]
  <1>1. Written(v) /\ \A i \in DOMAIN v.array : Written(v.array[i])
    BY ValueFits, ElementsAreValues
  <1>2. v.array \in Seq(AllValues) /\ w.type = v.type /\ v = [w EXCEPT !.array = v.array]
    BY FieldsOfValue
  <1>3. PICK c \in Bytes : c = Contents(v) /\ Len(c) = GetSizeInternal(v)
    BY <1>1 DEF Written
  <1>4. PICK m \in Nat, count \in Bytes :
            m = Len(v.array) /\ DOMAIN v.array = 1..m /\ count = Le(m, 4) /\ Len(count) = 4
    <2>1. Len(v.array) \in Nat /\ Len(v.array) \in Int /\ DOMAIN v.array = 1..Len(v.array)
      BY <1>2
    <2>2. Le(Len(v.array), 4) \in Bytes /\ Len(Le(Len(v.array), 4)) = 4
      BY <2>1, LeType DEF Bytes
    <2> QED
      BY <2>1, <2>2
  <1>5. \A k \in 1..m : parts[k] = SerializeValue(v.array[k])
    BY <1>4
  <1>6. /\ parts \in Seq(Bytes) /\ Len(parts) = m
        /\ Joined(parts) \in Bytes /\ Len(Joined(parts)) = Total(sizes)
        /\ Total(sizes) \in Nat /\ m <= Total(sizes)
        /\ \A k \in 1..m : GetSizeInternal(v.array[k]) + 5 <= Total(sizes)
    BY <1>1, <1>4, ElementSizes
  <1>7. c = count \o Joined(parts)
    BY <1>3, <1>4, IntSizes DEF Contents, ValueTypeStr, ValueTypeArr
  <1> HIDE DEF w, parts, sizes
  <1>8. /\ Len(c) = 4 + Total(sizes)
        /\ \A i \in 1..4 : c[i] = count[i]
        /\ After(c, 4, Len(c)) = Joined(parts)
    <2>1. PICK b \in Bytes : b = Joined(parts)
      BY <1>6
    <2>2. /\ Len(count \o b) = 4 + Len(b)
          /\ \A i \in 1..4 : (count \o b)[i] = count[i]
          /\ After(count \o b, 4, Len(count \o b)) = b
      BY <1>4, FourAndRest
    <2>3. c = count \o b /\ Len(b) = Total(sizes)
      BY <1>6, <1>7, <2>1
    <2> QED
      BY <2>1, <2>2, <2>3, Zenon
  <1>9. Field(c, 0, 4) = m
    <2>1. Fits(m, 4)
      <3>1. GetSizeInternal(v) \in Nat /\ m \in 0..GetSizeInternal(v)
        BY <1>1, <1>3, <1>4, <1>6, <1>8 DEF Written
      <3> QED
        BY <3>1, SmallerFits
    <2>2. \A i \in 1..4 : c[0 + i] = Le(m, 4)[i]
      BY <1>4, <1>8
    <2> QED
      BY <2>1, <2>2, FieldOfLe
  <1>10. PICK f : /\ f[0] = Read(4, <<>>)
                  /\ \A k \in 1..m :
                         f[k] = Element(f[k - 1], ValueReads[n][After(c, f[k - 1].used, Len(c))])
                  /\ ArrFrom(w, c, ValueReads[n]) = Read(f[m].used, [w EXCEPT !.array = f[m].what])
    <2>1. \E f : ArrReads(f, w, c, ValueReads[n], m)
      BY <1>9, ArrFromSteps, Zenon
    <2> QED
      BY <2>1, Zenon DEF ArrReads
  <1>11. ReadsParts(f, c, 4, parts, v.array)
    <2> SUFFICES ASSUME NEW k \in 1..m, NEW used \in Nat, NEW rest \in Bytes,
                        used >= 4, Leaves(c, used, parts[k] \o rest),
                        f[k - 1] = Read(used, Firsts(v.array, k - 1))
                 PROVE  f[k] = Longer(f[k - 1], Read(Len(parts[k]), v.array[k]))
      BY <1>6 DEF ReadsParts
    <2>1. f[k] = Element(f[k - 1], ValueReads[n][After(c, f[k - 1].used, Len(c))])
      BY <1>10
    <2>2. f[k - 1].used = used
      BY DEF Read
    <2>3. After(c, used, Len(c)) = SerializeValue(v.array[k]) \o rest
      BY <1>5 DEF Leaves
    <2>4. PICK size \in Nat : size = Len(parts[k]) /\ size = ValueSize(v.array[k]) /\ size # 0 /\ n >= size
      <3>1. Written(v.array[k])
        BY <1>1, <1>4
      <3>2. Len(parts[k]) = GetSizeInternal(v.array[k]) + 5 /\ GetSizeInternal(v.array[k]) \in Nat
        BY <1>5, <3>1 DEF Written
      <3>3. GetSizeInternal(v.array[k]) + 5 <= n
        BY <1>3, <1>6, <1>8, <3>2
      <3> QED
        BY <3>2, <3>3 DEF ValueSize
    <2>5. ValueReads[n][SerializeValue(v.array[k]) \o rest] = Read(size, v.array[k])
      <3>1. ReadAgain(v.array[k])
        BY <1>4
      <3> QED
        BY <2>4, <3>1 DEF ReadAgain
    <2>6. f[k] = Element(f[k - 1], Read(size, v.array[k]))
      BY <2>1, <2>2, <2>3, <2>5
    <2>7. Element(f[k - 1], Read(size, v.array[k])) = Longer(f[k - 1], Read(size, v.array[k]))
      <3>1. used # 0
        OBVIOUS
      <3> QED
        BY <2>4, <3>1, ElementSteps
    <2> QED
      BY <2>4, <2>6, <2>7
  <1>12. f[m] = Read(Len(c), v.array)
    <2>1. Leaves(c, 4, Joined(parts))
      BY <1>6, <1>8 DEF Leaves
    <2>2. f[Len(parts)] = Read(Len(c), v.array)
      <3>1. Len(v.array) = Len(parts) /\ 4 \in Nat
        BY <1>4, <1>6
      <3> QED
        <4>1. PICK p \in Seq(Bytes), items \in Seq(AllValues) : p = parts /\ items = v.array
          BY <1>2, <1>6
        <4>2. LoopOver(f, c, 4, p, items)
          BY <1>10, <1>11, <2>1, <3>1, <4>1, Zenon DEF LoopOver
        <4>3. f[Len(p)] = Read(Len(c), items)
          BY <3>1, <4>2, LoopReads
        <4> QED
          BY <4>1, <4>3, Zenon
    <2> QED
      BY <1>6, <2>2
  <1>13. ArrFrom(w, c, ValueReads[n]) = Read(Len(c), v)
    <2>1. f[m].used = Len(c) /\ f[m].what = v.array
      BY <1>12 DEF Read
    <2> QED
      BY <1>2, <1>10, <2>1
  <1>14. DeserializeInternal(w, c, ValueReads[n]) = ArrFrom(w, c, ValueReads[n])
    <2>1. ValueTypeArr # ValueTypeStr
      BY DEF ValueTypeArr, ValueTypeStr
    <2> QED
      BY <1>2, <2>1 DEF DeserializeInternal
  <1> QED
    BY <1>3, <1>13, <1>14 DEF w

\* A part of a buffer does not depend on where the brackets are.
LEMMA Associative ==
    ASSUME NEW a \in Bytes, NEW b \in Bytes, NEW c \in Bytes
    PROVE  (a \o b) \o c = a \o (b \o c)
  BY ConcatAssociative DEF Bytes

\* What Value::Deserialize finds in the buffer of a value.
LEMMA HeaderFound ==
    ASSUME NEW v \in AllValues, Fits(GetSizeInternal(v), 4), NEW tail \in Bytes
    PROVE  LET data == SerializeValue(v) \o tail
           IN  /\ data \in Bytes /\ Len(data) >= ValueSize(v) /\ Len(data) >= 5
               /\ data[1] = v.type /\ Field(data, 1, 4) = GetSizeInternal(v)
               /\ After(data, 5, 5 + GetSizeInternal(v)) = Contents(v)
  <1>1. Written(v) /\ v.type \in Types
    BY ValueFits, FieldsOfValue
  <1>2. PICK size \in Nat, c \in Bytes : size = GetSizeInternal(v) /\ c = Contents(v) /\ Len(c) = size
    BY <1>1 DEF Written
  <1>3. PICK t \in Bytes, l \in Bytes :
            t = <<v.type>> /\ Len(t) = 1 /\ t[1] = v.type /\ l = Le(size, 4) /\ Len(l) = 4
    <2>1. <<v.type>> \in Bytes /\ Len(<<v.type>>) = 1 /\ <<v.type>>[1] = v.type
      BY <1>1, IntSizes
    <2>2. Le(size, 4) \in Bytes /\ Len(Le(size, 4)) = 4
      <3>1. size \in Int
        OBVIOUS
      <3> QED
        BY <3>1, LeType DEF Bytes
    <2> QED
      BY <2>1, <2>2
  <1>4. PICK h \in Bytes : h = t \o l /\ Len(h) = 5 /\ h[1] = v.type /\ \A i \in 1..4 : h[1 + i] = l[i]
    <2>1. t \o l \in Bytes /\ Len(t \o l) = Len(t) + Len(l)
      BY TwoParts
    <2>2. (\A i \in 1..Len(t) : (t \o l)[i] = t[i]) /\ (\A i \in 1..Len(l) : (t \o l)[Len(t) + i] = l[i])
      BY TwoParts
    <2>3. PICK h \in Bytes : h = t \o l
      BY <2>1
    <2>4. Len(h) = 5 /\ h[1] = v.type /\ \A i \in 1..4 : h[1 + i] = l[i]
      <3>1. Len(h) = Len(t) + Len(l) /\ (\A i \in 1..Len(t) : h[i] = t[i])
            /\ (\A i \in 1..Len(l) : h[Len(t) + i] = l[i])
        BY <2>1, <2>2, <2>3, Zenon
      <3> QED
        BY <1>3, <3>1
    <2> QED
      BY <2>3, <2>4
  <1>5. PICK data \in Bytes : data = SerializeValue(v) \o tail /\ data = h \o (c \o tail)
    <2>1. SerializeValue(v) = h \o c
      BY <1>2, <1>3, <1>4, HeaderAndContents, Zenon
    <2>2. (h \o c) \o tail = h \o (c \o tail)
      BY Associative
    <2>3. h \o c \in Bytes
      BY TwoParts
    <2>4. (h \o c) \o tail \in Bytes
      BY <2>3, TwoParts
    <2> QED
      BY <2>1, <2>2, <2>4
  <1>6. c \o tail \in Bytes /\ Len(c \o tail) = Len(c) + Len(tail) /\ Len(tail) \in Nat
    BY TwoParts
  <1>7. Len(data) = 5 + (size + Len(tail)) /\ \A i \in 1..5 : data[i] = h[i]
    <2>1. PICK b \in Bytes : b = c \o tail /\ Len(b) = size + Len(tail)
      BY <1>2, <1>6
    <2>2. Len(h \o b) = Len(h) + Len(b) /\ \A i \in 1..Len(h) : (h \o b)[i] = h[i]
      BY TwoParts
    <2>3. data = h \o b
      BY <1>5, <2>1
    <2> QED
      BY <1>4, <2>1, <2>2, <2>3
  <1>8. data[1] = v.type
    BY <1>4, <1>7
  <1>9. Field(data, 1, 4) = size
    <2>1. \A i \in 1..4 : data[1 + i] = Le(size, 4)[i]
      BY <1>3, <1>4, <1>7
    <2>2. Fits(size, 4)
      BY <1>2
    <2> QED
      BY <2>1, <2>2, FieldOfLe
  <1>10. After(data, 5, 5 + size) = c
    <2>1. After(h \o (c \o tail), Len(h), Len(h) + Len(c)) = c
      BY AfterSecond
    <2> QED
      BY <1>2, <1>4, <1>5, <2>1, Zenon
  <1>11. Len(data) >= size + 5 /\ Len(data) >= 5
    BY <1>6, <1>7
  <1> QED
    BY <1>2, <1>5, <1>8, <1>9, <1>10, <1>11 DEF ValueSize

\* An element is smaller than its array.
LEMMA SmallerElement ==
    ASSUME NEW v \in AllValues, NEW i \in DOMAIN v.array
    PROVE  /\ ValueSize(v) \in Nat /\ ValueSize(v.array[i]) \in Nat
           /\ ValueSize(v.array[i]) \in 0..ValueSize(v)
  <1> DEFINE inner == [k \in DOMAIN v.array |-> GetSizeInternal(v.array[k])]
             sizes == [k \in DOMAIN v.array |-> GetSizeInternal(v.array[k]) + 5]
  <1>1. Written(v) /\ \A k \in DOMAIN v.array : Written(v.array[k])
    BY ValueFits, ElementsAreValues
  <1>2. i \in 1..Len(v.array)
    BY ElementsAreValues
  <1>3. v.type = ValueTypeArr
    <2>1. v.array # <<>>
      BY <1>2
    <2> QED
      BY <2>1, ElementsAreValues DEF OfItsClass
  <1>4. Total(sizes) \in Nat /\ GetSizeInternal(v.array[i]) + 5 <= Total(sizes)
    BY <1>1, <1>2, ElementSizes
  <1>5. [k \in DOMAIN inner |-> inner[k] + 5] = sizes
    OBVIOUS
  <1>6. GetSizeInternal(v) = SizeOf(v, inner)
    BY SizeIs
  <1> HIDE DEF inner, sizes
  <1>7. v.type \notin IntTypes /\ v.type # ValueTypeStr
    BY <1>3, IntSizes DEF ValueTypeArr, ValueTypeStr
  <1>8. GetSizeInternal(v) = 4 + Total(sizes)
    BY <1>3, <1>5, <1>6, <1>7, Zenon DEF SizeOf
  <1>9. GetSizeInternal(v) \in Nat /\ GetSizeInternal(v.array[i]) \in Nat
    BY <1>1 DEF Written
  <1> QED
    BY <1>4, <1>8, <1>9 DEF ValueSize

\* One step down the elements.
LEMMA ReadAgainStep ==
    ASSUME NEW v \in AllValues, Fits(ValueSize(v), 4),
           \A i \in DOMAIN v.array : ReadAgain(v.array[i])
    PROVE  ReadAgain(v)
  <1> SUFFICES ASSUME NEW n \in Nat, NEW tail \in Bytes, n >= ValueSize(v)
               PROVE  ValueReads[n][SerializeValue(v) \o tail] = Read(ValueSize(v), v)
    BY DEF ReadAgain
  <1>1. Written(v) /\ v.type \in Types /\ CreateValue(v.type).type = v.type
    BY ValueFits, FieldsOfValue
  <1>2. PICK size \in Nat : size = GetSizeInternal(v) /\ ValueSize(v) = size + 5
    BY <1>1 DEF Written, ValueSize
  <1>3. Fits(GetSizeInternal(v), 4)
    <2>1. size \in 0..(size + 5) /\ size + 5 \in Nat /\ Fits(size + 5, 4)
      BY <1>2
    <2> QED
      BY <1>2, <2>1, SmallerFits
  <1>4. PICK m \in Nat : n = m + 1 /\ m >= GetSizeInternal(v)
    <2>1. n # 0 /\ n - 1 \in Nat /\ n = (n - 1) + 1 /\ n - 1 >= size
      BY <1>2
    <2> QED
      BY <1>2, <2>1
  <1>5. DeserializeInternal(CreateValue(v.type), Contents(v), ValueReads[m]) = Read(size, v)
    <2>1. CASE v.type \in IntTypes
      BY <1>2, <2>1, IntReadAgain
    <2>2. CASE v.type \notin IntTypes /\ v.type # ValueTypeArr
      BY <1>2, <1>3, <2>2, StrReadAgain
    <2>3. CASE v.type \notin IntTypes /\ v.type = ValueTypeArr
      BY <1>2, <1>3, <1>4, <2>3, ArrReadAgain
    <2> QED
      BY <2>1, <2>2, <2>3
  <1>6. PICK data : data = SerializeValue(v) \o tail
    OBVIOUS
  <1>7. /\ data \in Bytes /\ Len(data) >= size + 5 /\ Len(data) >= 5
        /\ data[1] = v.type /\ Field(data, 1, 4) = size
        /\ After(data, 5, 5 + size) = Contents(v)
    BY <1>2, <1>3, <1>6, HeaderFound
  <1>8. ValueReads[m + 1][data] = ValueFrom(CreateValue(v.type), data, size, ValueReads[m])
    BY <1>7, ValueReadsIs
  <1>9. ValueFrom(CreateValue(v.type), data, size, ValueReads[m]) = WithHeader(Read(size, v))
    <2>1. ~(data[1] # CreateValue(v.type).type \/ size + 5 > Len(data))
      BY <1>1, <1>7 DEF Bytes
    <2> QED
      BY <1>5, <1>7, <2>1, Zenon DEF ValueFrom
  <1>10. WithHeader(Read(size, v)) = Read(size + 5, v)
    BY DEF WithHeader, Read
  <1> QED
    BY <1>2, <1>4, <1>6, <1>8, <1>9, <1>10

\* Every value that four bytes can tell the length of is read again.
THEOREM ValueReadAgain == \A v \in AllValues : Fits(ValueSize(v), 4) => ReadAgain(v)
  <1> DEFINE T == {v \in AllValues : Fits(ValueSize(v), 4) => ReadAgain(v)}
  <1>1. ASSUME NEW v \in AllValues, \A i \in DOMAIN v.array : v.array[i] \in T
        PROVE  v \in T
    <2> SUFFICES ASSUME Fits(ValueSize(v), 4) PROVE ReadAgain(v)
      OBVIOUS
    <2>1. ASSUME NEW i \in DOMAIN v.array PROVE ReadAgain(v.array[i])
      <3>1. v.array[i] \in T /\ v.array[i] \in AllValues
        BY <1>1, ElementsAreValues
      <3>2. Fits(ValueSize(v.array[i]), 4)
        <4>1. PICK n \in Nat, m \in Nat : n = ValueSize(v) /\ m = ValueSize(v.array[i]) /\ m \in 0..n
          BY SmallerElement
        <4> QED
          BY <4>1, SmallerFits
      <3> QED
        BY <3>1, <3>2
    <2> QED
      BY <2>1, ReadAgainStep
  <1> HIDE DEF T
  <1>2. AllValues \subseteq T
    BY <1>1, ValueInduction
  <1> QED
    BY <1>2 DEF T

\* What Value::Deserialize returns for exactly the buffer of a value.
LEMMA ValueAlone ==
    ASSUME NEW v \in AllValues, Fits(ValueSize(v), 4)
    PROVE  DeserializeValue(SerializeValue(v)) = Read(ValueSize(v), v)
  <1>1. Written(v) /\ ReadAgain(v)
    BY ValueFits, ValueReadAgain
  <1>2. PICK data \in Bytes, n \in Nat :
            data = SerializeValue(v) /\ Len(data) = n /\ n = ValueSize(v)
    <2>1. SerializeValue(v) \in Bytes /\ Len(SerializeValue(v)) = ValueSize(v) /\ ValueSize(v) \in Nat
      BY <1>1 DEF Written, ValueSize
    <2> QED
      BY <2>1
  <1>3. <<>> \in Bytes /\ data \o <<>> = data
    BY EmptySeq, ConcatEmptySeq DEF Bytes
  <1>4. ValueReads[n][SerializeValue(v) \o <<>>] = Read(ValueSize(v), v)
    <2>1. n >= ValueSize(v)
      BY <1>2
    <2> QED
      BY <1>1, <1>3, <2>1 DEF ReadAgain
  <1> QED
    BY <1>2, <1>3, <1>4 DEF DeserializeValue

-----------------------------------------------------------------------------
(* Datum *)

\* The names whose length two bytes can tell, and the arguments of a request.
ShortNames == {name \in Bytes : Fits(Len(name), 2)}
Arguments == [name : ShortNames, value : AllValues]

\* A buffer of a header, two parts and what comes after them.
Sectioned(data, h, m, s, tail) ==
    /\ data \in Bytes /\ Len(data) = ((Len(h) + Len(m)) + Len(s)) + Len(tail)
    /\ \A i \in 1..Len(h) : data[i] = h[i]
    /\ After(data, Len(h), Len(h) + Len(m)) = m
    /\ After(data, Len(h) + Len(m), (Len(h) + Len(m)) + Len(s)) = s

\* Three parts and a tail, one after the other, are such a buffer.
LEMMA Sections ==
    ASSUME NEW h \in Bytes, NEW m \in Bytes, NEW s \in Bytes, NEW tail \in Bytes
    PROVE  Sectioned(((h \o m) \o s) \o tail, h, m, s, tail)
  <1>1. PICK hm \in Bytes : /\ hm = h \o m /\ Len(hm) = Len(h) + Len(m)
                            /\ \A i \in 1..Len(h) : hm[i] = h[i]
    BY TwoParts
  <1>2. PICK st \in Bytes : st = s \o tail /\ Len(st) = Len(s) + Len(tail)
    BY TwoParts
  <1>3. PICK data \in Bytes : /\ data = hm \o st /\ Len(data) = Len(hm) + Len(st)
                              /\ \A i \in 1..Len(hm) : data[i] = hm[i]
    <2>1. /\ hm \o st \in Bytes /\ Len(hm \o st) = Len(hm) + Len(st)
          /\ \A i \in 1..Len(hm) : (hm \o st)[i] = hm[i]
      BY TwoParts, Zenon
    <2> QED
      BY <2>1, Zenon
  <1>4. data = ((h \o m) \o s) \o tail
    <2>1. (hm \o s) \o tail = hm \o (s \o tail)
      BY Associative, SMTT(30)
    <2> QED
      BY <1>1, <1>2, <1>3, <2>1
  <1>5. After(data, Len(h), Len(h) + Len(m)) = m
    <2>1. After(h \o (m \o st), Len(h), Len(h) + Len(m)) = m
      BY AfterSecond
    <2>2. (h \o m) \o st = h \o (m \o st)
      <3>1. \A c \in Bytes : (h \o m) \o c = h \o (m \o c)
        BY Associative
      <3> QED
        BY <3>1, Zenon
    <2> QED
      BY <1>1, <1>3, <2>1, <2>2, Zenon
  <1>6. After(data, Len(hm), Len(hm) + Len(s)) = s
    <2>1. After(hm \o (s \o tail), Len(hm), Len(hm) + Len(s)) = s
      BY AfterSecond
    <2> QED
      BY <1>2, <1>3, <2>1, Zenon
  <1>7. Len(h) \in Nat /\ Len(m) \in Nat /\ Len(s) \in Nat /\ Len(tail) \in Nat
    BY DEF Bytes
  <1>8. Len(data) = ((Len(h) + Len(m)) + Len(s)) + Len(tail)
    BY <1>1, <1>2, <1>3, <1>7
  <1>9. \A i \in 1..Len(h) : data[i] = h[i]
    BY <1>1, <1>3, <1>7
  <1>10. After(data, Len(h) + Len(m), (Len(h) + Len(m)) + Len(s)) = s
    BY <1>1, <1>6, Zenon
  <1> QED
    BY <1>4, <1>5, <1>8, <1>9, <1>10, Zenon DEF Sectioned

\* The header of a datum: its size and the length of its name.
DatumHeader(d) == Le(DatumSize(d), 4) \o Le(Len(d.name), 2)

\* The sizes of an argument and of the parts it is written in.
LEMMA DatumSizes ==
    ASSUME NEW d \in Arguments
    PROVE  /\ d.name \in Bytes /\ Len(d.name) \in Nat /\ Fits(Len(d.name), 2)
           /\ d.value \in AllValues /\ ValueSize(d.value) \in Nat
           /\ SerializeValue(d.value) \in Bytes /\ Len(SerializeValue(d.value)) = ValueSize(d.value)
           /\ DatumSize(d) \in Nat /\ DatumSize(d) >= 11
           /\ DatumSize(d) = (6 + Len(d.name)) + ValueSize(d.value)
           /\ DatumHeader(d) \in Bytes /\ Len(DatumHeader(d)) = 6
           /\ \A i \in 1..4 : DatumHeader(d)[0 + i] = Le(DatumSize(d), 4)[i]
           /\ \A i \in 1..2 : DatumHeader(d)[4 + i] = Le(Len(d.name), 2)[i]
           /\ SerializeDatum(d) = (DatumHeader(d) \o d.name) \o SerializeValue(d.value)
  <1>1. d.name \in Bytes /\ Fits(Len(d.name), 2) /\ d.value \in AllValues
    BY DEF Arguments, ShortNames
  <1>2. PICK l \in Nat : l = Len(d.name)
    BY <1>1 DEF Bytes
  <1>3. Written(d.value)
    BY <1>1, ValueFits
  <1>4. PICK n \in Nat : n = ValueSize(d.value) /\ n >= 5 /\ Len(SerializeValue(d.value)) = n
    BY <1>3 DEF Written, ValueSize
  <1>5. PICK size \in Nat : size = DatumSize(d) /\ size = (6 + l) + n /\ size >= 11
    BY <1>2, <1>4 DEF DatumSize
  <1>6. PICK a \in Bytes, b \in Bytes :
            a = Le(size, 4) /\ Len(a) = 4 /\ b = Le(l, 2) /\ Len(b) = 2
    <2>1. size \in Int /\ l \in Int
      OBVIOUS
    <2>2. Le(size, 4) \in Bytes /\ Len(Le(size, 4)) = 4
      BY <2>1, LeType DEF Bytes
    <2>3. Le(l, 2) \in Bytes /\ Len(Le(l, 2)) = 2
      BY <2>1, LeType DEF Bytes
    <2> QED
      BY <2>2, <2>3
  <1>7. PICK h \in Bytes : /\ h = a \o b /\ Len(h) = Len(a) + Len(b)
                           /\ \A i \in 1..Len(a) : h[i] = a[i]
                           /\ \A i \in 1..Len(b) : h[Len(a) + i] = b[i]
    BY TwoParts
  <1>8. Len(h) = 6 /\ (\A i \in 1..4 : h[0 + i] = a[i]) /\ (\A i \in 1..2 : h[4 + i] = b[i])
    <2>1. /\ Len(h) = Len(a) + Len(b)
          /\ \A i \in 1..Len(a) : h[i] = a[i]
          /\ \A i \in 1..Len(b) : h[Len(a) + i] = b[i]
      BY <1>7
    <2>2. Len(a) = 4 /\ Len(b) = 2
      BY <1>6
    <2> QED
      BY <2>1, <2>2
  <1>9. DatumHeader(d) = h
    BY <1>2, <1>5, <1>6, <1>7 DEF DatumHeader
  <1>10. SerializeDatum(d) = (DatumHeader(d) \o d.name) \o SerializeValue(d.value)
    BY DEF SerializeDatum, DatumHeader
  <1> QED
    BY <1>1, <1>2, <1>3, <1>4, <1>5, <1>6, <1>8, <1>9, <1>10 DEF Written

\* A datum fills its buffer.
LEMMA DatumFits ==
    ASSUME NEW d \in Arguments
    PROVE  SerializeDatum(d) \in Bytes /\ Len(SerializeDatum(d)) = DatumSize(d)
  <1>1. PICK h \in Bytes, m \in Bytes, s \in Bytes :
            /\ SerializeDatum(d) = (h \o m) \o s /\ Len(h) = 6 /\ Len(m) \in Nat /\ Len(s) \in Nat
            /\ DatumSize(d) = (6 + Len(m)) + Len(s)
    <2>1. PICK h \in Bytes, m \in Bytes, s \in Bytes :
              h = DatumHeader(d) /\ m = d.name /\ s = SerializeValue(d.value)
      BY DatumSizes
    <2>2. /\ SerializeDatum(d) = (DatumHeader(d) \o d.name) \o SerializeValue(d.value)
          /\ Len(DatumHeader(d)) = 6 /\ Len(d.name) \in Nat
          /\ Len(SerializeValue(d.value)) = ValueSize(d.value) /\ ValueSize(d.value) \in Nat
          /\ DatumSize(d) = (6 + Len(d.name)) + ValueSize(d.value)
      BY DatumSizes
    <2> QED
      BY <2>1, <2>2, Zenon
  <1>2. h \o m \in Bytes /\ Len(h \o m) = Len(h) + Len(m)
    BY TwoParts
  <1>3. PICK hm \in Bytes : hm = h \o m
    BY <1>2
  <1>4. hm \o s \in Bytes /\ Len(hm \o s) = Len(hm) + Len(s)
    BY TwoParts
  <1> QED
    BY <1>1, <1>2, <1>3, <1>4

\* A datum is read again from its buffer, whatever comes after it.
LEMMA DatumReadAgain ==
    ASSUME NEW d \in Arguments, Fits(DatumSize(d), 4), NEW tail \in Bytes
    PROVE  DeserializeDatum(SerializeDatum(d) \o tail) = Read(DatumSize(d), d)
  <1>1. PICK h \in Bytes, m \in Bytes, s \in Bytes :
            h = DatumHeader(d) /\ m = d.name /\ s = SerializeValue(d.value)
    BY DatumSizes
  <1>2. PICK l \in Nat, n \in Nat, total \in Nat :
            /\ l = Len(m) /\ n = Len(s) /\ n = ValueSize(d.value) /\ Len(h) = 6
            /\ total = DatumSize(d) /\ total = (6 + l) + n /\ n # 0
    <2>1. Len(m) \in Nat /\ Len(s) = ValueSize(d.value) /\ ValueSize(d.value) \in Nat /\ Len(h) = 6
          /\ DatumSize(d) \in Nat /\ DatumSize(d) = (6 + Len(m)) + ValueSize(d.value)
      BY <1>1, DatumSizes
    <2>2. ValueSize(d.value) # 0
      <3>1. Written(d.value)
        BY DatumSizes, ValueFits
      <3> QED
        BY <3>1 DEF Written, ValueSize
    <2> QED
      BY <2>1, <2>2
  <1>3. PICK data : data = SerializeDatum(d) \o tail /\ data = ((h \o m) \o s) \o tail
    BY <1>1, DatumSizes
  <1>4. /\ data \in Bytes /\ Len(data) = ((Len(h) + Len(m)) + Len(s)) + Len(tail)
        /\ \A i \in 1..Len(h) : data[i] = h[i]
        /\ After(data, Len(h), Len(h) + Len(m)) = m
        /\ After(data, Len(h) + Len(m), (Len(h) + Len(m)) + Len(s)) = s
    <2>1. Sectioned(((h \o m) \o s) \o tail, h, m, s, tail)
      BY Sections, Zenon
    <2>2. Sectioned(data, h, m, s, tail)
      BY <1>3, <2>1
    <2> QED
      BY <2>2, Zenon DEF Sectioned
  <1>5. Len(data) >= total /\ Len(data) >= 6 /\ total >= l
    <2>1. Len(tail) \in Nat
      BY DEF Bytes
    <2>2. Len(data) = ((Len(h) + Len(m)) + Len(s)) + Len(tail)
      BY <1>4
    <2>3. l = Len(m) /\ n = Len(s) /\ Len(h) = 6 /\ total = (6 + l) + n
      BY <1>2
    <2> QED
      BY <2>1, <2>2, <2>3
  <1>6. Field(data, 0, 4) = total
    <2>1. \A i \in 1..4 : data[0 + i] = Le(total, 4)[i]
      <3>1. \A i \in 1..4 : h[0 + i] = Le(total, 4)[i]
        BY <1>1, <1>2, DatumSizes
      <3> QED
        BY <1>2, <1>4, <3>1, SMTT(30)
    <2>2. Fits(total, 4)
      BY <1>2
    <2> QED
      BY <2>1, <2>2, FieldOfLe
  <1>7. Field(data, 4, 2) = l
    <2>1. \A i \in 1..2 : data[4 + i] = Le(l, 2)[i]
      <3>1. \A i \in 1..2 : h[4 + i] = Le(l, 2)[i]
        BY <1>1, <1>2, DatumSizes
      <3> QED
        BY <1>2, <1>4, <3>1
    <2>2. Fits(l, 2)
      BY <1>1, <1>2, DatumSizes
    <2> QED
      BY <2>1, <2>2, FieldOfLe
  <1>8. After(data, 6, 6 + l) = d.name /\ After(data, 6 + l, total) = SerializeValue(d.value)
    BY <1>1, <1>2, <1>4
  <1>9. DeserializeValue(SerializeValue(d.value)) = Read(n, d.value)
    <2>1. Fits(n, 4)
      <3>1. n \in 0..total /\ Fits(total, 4)
        BY <1>2
      <3> QED
        BY <3>1, SmallerFits
    <2> QED
      BY <1>2, <2>1, DatumSizes, ValueAlone
  <1>10. DeserializeDatum(data) = DatumFrom(data, total, l)
    <2>1. ~(Len(data) < 6)
      BY <1>4, <1>5 DEF Bytes
    <2> QED
      BY <1>6, <1>7, <2>1, Zenon DEF DeserializeDatum
  <1>11. DatumFrom(data, total, l) = NamedValue(d.name, Read(n, d.value), total)
    <2>1. ~(Len(data) < total \/ l > total)
      BY <1>4, <1>5 DEF Bytes
    <2> QED
      BY <1>8, <1>9, <2>1, Zenon DEF DatumFrom
  <1>12. NamedValue(d.name, Read(n, d.value), total) = Read(total, [name |-> d.name, value |-> d.value])
    BY <1>2 DEF NamedValue, Read
  <1>13. d = [name |-> d.name, value |-> d.value]
    BY DEF Arguments
  <1> QED
    BY <1>2, <1>3, <1>10, <1>11, <1>12, <1>13, Zenon

-----------------------------------------------------------------------------
(* Request *)

\* The requests that the wire format has room for: an id of four bytes, names
\* and the whole request of a length that their fields can tell.
Requests ==
    {r \in [id : {n \in Nat : Fits(n, 4)}, name : ShortNames, arguments : Seq(Arguments)] :
        Fits(RequestSize(r), 4)}

DatumParts(arguments) == [i \in DOMAIN arguments |-> SerializeDatum(arguments[i])]
DatumLengths(arguments) == [i \in DOMAIN arguments |-> DatumSize(arguments[i])]

\* The buffers of the arguments and their sizes.
LEMMA ArgumentSizes ==
    ASSUME NEW arguments \in Seq(Arguments), NEW parts, parts = DatumParts(arguments),
           NEW sizes, sizes = DatumLengths(arguments)
    PROVE  /\ Len(arguments) \in Nat /\ parts \in Seq(Bytes) /\ sizes \in Seq(Nat)
           /\ Len(parts) = Len(arguments) /\ Len(sizes) = Len(arguments)
           /\ \A i \in 1..Len(arguments) :
                  /\ arguments[i] \in Arguments /\ parts[i] = SerializeDatum(arguments[i])
                  /\ Len(parts[i]) = DatumSize(arguments[i]) /\ sizes[i] = Len(parts[i])
                  /\ DatumSize(arguments[i]) \in Nat /\ DatumSize(arguments[i]) >= 11
                  /\ DatumSize(arguments[i]) <= Total(sizes)
           /\ Joined(parts) \in Bytes /\ Len(Joined(parts)) = Total(sizes)
           /\ Total(sizes) \in Nat /\ 11 * Len(arguments) <= Total(sizes)
  <1>1. PICK n \in Nat : n = Len(arguments) /\ DOMAIN arguments = 1..n
    BY LenProperties
  <1>2. \A i \in 1..n : arguments[i] \in Arguments
    BY <1>1, ElementOfSeq
  <1>3. \A i \in 1..n : parts[i] = SerializeDatum(arguments[i]) /\ sizes[i] = DatumSize(arguments[i])
    BY <1>1 DEF DatumParts, DatumLengths
  <1>4. \A i \in 1..n : parts[i] \in Bytes /\ Len(parts[i]) = DatumSize(arguments[i])
    BY <1>2, <1>3, DatumFits
  <1>5. \A i \in 1..n : DatumSize(arguments[i]) \in Nat /\ DatumSize(arguments[i]) >= 11
    BY <1>2, DatumSizes
  <1>6. parts \in Seq(Bytes) /\ Len(parts) = n
    <2>1. parts \in [1..n -> Bytes]
      BY <1>1, <1>4 DEF DatumParts
    <2> QED
      BY <2>1
  <1>7. sizes \in Seq(Nat) /\ Len(sizes) = n
    <2>1. sizes \in [1..n -> Nat]
      BY <1>1, <1>3, <1>5 DEF DatumLengths
    <2> QED
      BY <2>1
  <1>8. Joined(parts) \in Bytes /\ Len(Joined(parts)) = Total(sizes)
    <2>1. Len(sizes) = Len(parts) /\ \A i \in 1..Len(parts) : sizes[i] = Len(parts[i])
      BY <1>3, <1>4, <1>6, <1>7
    <2> QED
      BY <1>6, <1>7, <2>1, JoinedFits
  <1>9. Total(sizes) \in Nat /\ \A i \in 1..n : sizes[i] <= Total(sizes)
    BY <1>7, TotalBounds
  <1>10. 11 * n <= Total(sizes)
    <2>1. \A i \in 1..Len(sizes) : sizes[i] >= 11
      BY <1>3, <1>5, <1>7
    <2>2. 11 * Len(sizes) <= Total(sizes)
      BY <1>7, <2>1, TotalOfLeast
    <2> QED
      BY <1>7, <2>2
  <1> QED
    BY <1>1, <1>2, <1>3, <1>4, <1>5, <1>6, <1>7, <1>8, <1>9, <1>10

DatumsStart(p) == Read(0, <<>>)
DatumsNext(p, k, read) == Argument(read, DeserializeDatum(After(p, read.used, Len(p))))
ArgumentsRead == INSTANCE Recursion WITH Start <- DatumsStart, Body <- DatumsNext

\* The loop of Request::Deserialize.
DatumReads(f, data, n) ==
    /\ f[0] = Read(0, <<>>)
    /\ \A k \in 1..n : f[k] = Argument(f[k - 1], DeserializeDatum(After(data, f[k - 1].used, Len(data))))
    /\ Datums(data) = f[n]

\* The loop of a request reads each argument where the last one ended.
LEMMA DatumsSteps ==
    ASSUME NEW data, NEW n \in Nat, n = Len(data) \div 11
    PROVE  \E f : DatumReads(f, data, n)
  <1>1. \E f : ArgumentsRead!FitsTo(data, f, n)
    BY ArgumentsRead!ExistsTo
  <1>2. \E f : f = [k \in 0..n |-> IF k = 0 THEN Read(0, <<>>)
            ELSE Argument(f[k - 1], DeserializeDatum(After(data, f[k - 1].used, Len(data))))]
    BY <1>1 DEF ArgumentsRead!FitsTo, DatumsStart, DatumsNext
  <1> DEFINE f == CHOOSE f : f = [k \in 0..n |-> IF k = 0 THEN Read(0, <<>>)
            ELSE Argument(f[k - 1], DeserializeDatum(After(data, f[k - 1].used, Len(data))))]
  <1>3. f = [k \in 0..n |-> IF k = 0 THEN Read(0, <<>>)
            ELSE Argument(f[k - 1], DeserializeDatum(After(data, f[k - 1].used, Len(data))))]
    BY <1>2
  <1>4. Datums(data) = f[n]
    BY DEF Datums
  <1> HIDE DEF f
  <1>5. f[0] = Read(0, <<>>)
    BY <1>3
  <1>6. ASSUME NEW k \in 1..n
        PROVE  f[k] = Argument(f[k - 1], DeserializeDatum(After(data, f[k - 1].used, Len(data))))
    <2>1. k \in 0..n /\ k # 0
      OBVIOUS
    <2> QED
      BY <1>3, <2>1
  <1> QED
    BY <1>4, <1>5, <1>6, Zenon DEF DatumReads

\* An argument that could be read is added, and the loop stays where one could not.
LEMMA ArgumentSteps ==
    /\ \A a, c \in Nat : \A b, d :
           c # 0 => Argument(Read(a, b), Read(c, d)) = Longer(Read(a, b), Read(c, d))
    /\ \A read, d : Argument(read, Read(0, d)) = read
  BY DEF Argument, Read

\* The arguments are read again.
LEMMA ArgumentsReadAgain ==
    ASSUME NEW arguments \in Seq(Arguments), NEW data \in Bytes, data = Joined(DatumParts(arguments)),
           Fits(Len(data), 4)
    PROVE  Datums(data) = Read(Len(data), arguments)
  <1>1. PICK parts, sizes : parts = DatumParts(arguments) /\ sizes = DatumLengths(arguments)
    OBVIOUS
  <1>2. PICK m \in Nat, size \in Nat :
            /\ m = Len(arguments) /\ size = Len(data) /\ 11 * m <= size
            /\ parts \in Seq(Bytes) /\ Len(parts) = m
            /\ \A i \in 1..m :
                  /\ arguments[i] \in Arguments /\ parts[i] = SerializeDatum(arguments[i])
                  /\ Len(parts[i]) = DatumSize(arguments[i])
                  /\ DatumSize(arguments[i]) \in Nat /\ DatumSize(arguments[i]) >= 11
                  /\ DatumSize(arguments[i]) <= size
    BY <1>1, ArgumentSizes
  <1>3. PICK n \in Nat : n = Len(data) \div 11 /\ m <= n
    BY <1>2
  <1>4. PICK f : DatumReads(f, data, n)
    BY <1>3, DatumsSteps
  <1>5. /\ f[0] = Read(0, <<>>) /\ Datums(data) = f[n]
        /\ \A k \in 1..n :
               f[k] = Argument(f[k - 1], DeserializeDatum(After(data, f[k - 1].used, Len(data))))
    BY <1>4, Zenon DEF DatumReads
  <1>6. ReadsParts(f, data, 0, parts, arguments)
    <2> SUFFICES ASSUME NEW k \in 1..m, NEW used \in Nat, NEW rest \in Bytes,
                        Leaves(data, used, parts[k] \o rest),
                        f[k - 1] = Read(used, Firsts(arguments, k - 1))
                 PROVE  f[k] = Longer(f[k - 1], Read(Len(parts[k]), arguments[k]))
      BY <1>2 DEF ReadsParts
    <2>1. f[k] = Argument(f[k - 1], DeserializeDatum(After(data, f[k - 1].used, Len(data))))
      BY <1>3, <1>5
    <2>2. f[k - 1].used = used
      BY DEF Read
    <2>3. After(data, used, Len(data)) = SerializeDatum(arguments[k]) \o rest
      BY <1>2 DEF Leaves
    <2>4. PICK length \in Nat :
              /\ length = Len(parts[k]) /\ length = DatumSize(arguments[k]) /\ length # 0
              /\ length \in 0..size
      BY <1>2
    <2>5. DeserializeDatum(SerializeDatum(arguments[k]) \o rest) = Read(length, arguments[k])
      <3>1. Fits(DatumSize(arguments[k]), 4)
        <4>1. Fits(size, 4)
          BY <1>2
        <4>2. Fits(length, 4)
          BY <2>4, <4>1, SmallerFits
        <4> QED
          BY <2>4, <4>2
      <3>2. arguments[k] \in Arguments
        BY <1>2
      <3> QED
        BY <2>4, <3>1, <3>2, DatumReadAgain
    <2>6. f[k] = Argument(f[k - 1], Read(length, arguments[k]))
      BY <2>1, <2>2, <2>3, <2>5
    <2>7. Argument(f[k - 1], Read(length, arguments[k])) = Longer(f[k - 1], Read(length, arguments[k]))
      BY <2>4, ArgumentSteps
    <2> QED
      BY <2>4, <2>6, <2>7
  <1>7. f[m] = Read(size, arguments)
    <2>1. Leaves(data, 0, Joined(parts))
      <3>1. After(data, 0, Len(data)) = data
        BY SubSeqFull DEF After, Smaller, Bytes
      <3> QED
        BY <1>1, <1>2, <3>1 DEF Leaves
    <2>2. PICK p \in Seq(Bytes) : p = parts
      BY <1>2
    <2>3. LoopOver(f, data, 0, p, arguments)
      BY <1>2, <1>5, <1>6, <2>1, <2>2, Zenon DEF LoopOver
    <2>4. f[Len(p)] = Read(Len(data), arguments)
      <3>1. 0 \in Nat
        OBVIOUS
      <3> QED
        BY <2>3, <3>1, LoopReads
    <2> QED
      BY <1>2, <2>2, <2>4
  <1>8. \A k \in Nat : k <= n /\ m <= k => f[k] = Read(size, arguments)
    <2> DEFINE T == {k \in Nat : k <= n /\ m <= k => f[k] = Read(size, arguments)}
    <2>1. 0 \in T
      BY <1>7
    <2>2. ASSUME NEW k \in Nat, k \in T PROVE k + 1 \in T
      <3> SUFFICES ASSUME k + 1 <= n, m <= k + 1 PROVE f[k + 1] = Read(size, arguments)
        OBVIOUS
      <3>1. CASE m = k + 1
        BY <1>7, <3>1
      <3>2. CASE m # k + 1
        <4>1. m <= k /\ k <= n /\ k + 1 \in 1..n /\ (k + 1) - 1 = k
          BY <3>2
        <4>2. f[k] = Read(size, arguments)
          BY <2>2, <4>1
        <4>3. f[k + 1] = Argument(f[k], DeserializeDatum(After(data, f[k].used, Len(data))))
          BY <1>5, <4>1
        <4>4. After(data, f[k].used, Len(data)) = <<>>
          <5>1. f[k].used = Len(data)
            BY <1>2, <4>2 DEF Read
          <5>2. /\ After(data, Len(data), Len(data)) \in Bytes
                /\ Len(After(data, Len(data), Len(data))) = Len(data) - Len(data)
            <6>1. Len(data) \in Nat /\ Len(data) <= Len(data)
              BY <1>2
            <6> QED
              BY <6>1, AfterCuts, Zenon
          <5>3. After(data, Len(data), Len(data)) = <<>>
            BY <1>2, <5>2, EmptySeq DEF Bytes
          <5> QED
            BY <5>1, <5>3
        <4>5. DeserializeDatum(<<>>) = Read(0, Null)
          BY EmptySeq DEF DeserializeDatum
        <4>6. Argument(f[k], Read(0, Null)) = f[k]
          BY ArgumentSteps
        <4> QED
          BY <4>2, <4>3, <4>4, <4>5, <4>6
      <3> QED
        BY <3>1, <3>2
    <2> HIDE DEF T
    <2>3. Nat \subseteq T
      BY <2>1, <2>2, Induction
    <2> QED
      BY <2>3 DEF T
  <1>9. f[n] = Read(size, arguments)
    BY <1>3, <1>8
  <1> QED
    BY <1>2, <1>5, <1>9

\* The header of a request: its size, its id and the length of its name.
RequestHeader(r) == (Le(RequestSize(r), 4) \o Le(r.id, 4)) \o Le(Len(r.name), 2)

\* Three numbers, one after the other.
Headed(h, size, id, l) ==
    /\ h \in Bytes /\ Len(h) = 10
    /\ \A i \in 1..4 : h[0 + i] = Le(size, 4)[i]
    /\ \A i \in 1..4 : h[4 + i] = Le(id, 4)[i]
    /\ \A i \in 1..2 : h[8 + i] = Le(l, 2)[i]

\* The header of a request holds the three numbers it is made of.
LEMMA ThreeNumbers ==
    ASSUME NEW size \in Nat, NEW id \in Nat, NEW l \in Nat
    PROVE  Headed((Le(size, 4) \o Le(id, 4)) \o Le(l, 2), size, id, l)
  <1>1. PICK a \in Bytes, b \in Bytes, c \in Bytes :
            /\ a = Le(size, 4) /\ Len(a) = 4 /\ b = Le(id, 4) /\ Len(b) = 4
            /\ c = Le(l, 2) /\ Len(c) = 2
    <2>1. size \in Int /\ id \in Int /\ l \in Int
      OBVIOUS
    <2>2. /\ Le(size, 4) \in Bytes /\ Len(Le(size, 4)) = 4
          /\ Le(id, 4) \in Bytes /\ Len(Le(id, 4)) = 4
          /\ Le(l, 2) \in Bytes /\ Len(Le(l, 2)) = 2
      BY <2>1, LeType DEF Bytes
    <2> QED
      BY <2>2
  <1>2. /\ a \o b \in Bytes /\ Len(a \o b) = Len(a) + Len(b)
        /\ (\A i \in 1..Len(a) : (a \o b)[i] = a[i]) /\ (\A i \in 1..Len(b) : (a \o b)[Len(a) + i] = b[i])
    BY TwoParts, Zenon
  <1>3. PICK ab \in Bytes : ab = a \o b
    BY <1>2
  <1>4. Len(ab) = 8 /\ (\A i \in 1..4 : ab[i] = a[i]) /\ (\A i \in 1..4 : ab[4 + i] = b[i])
    <2>1. /\ Len(ab) = Len(a) + Len(b)
          /\ (\A i \in 1..Len(a) : ab[i] = a[i]) /\ (\A i \in 1..Len(b) : ab[Len(a) + i] = b[i])
      BY <1>2, <1>3, Zenon
    <2>2. Len(a) = 4 /\ Len(b) = 4
      BY <1>1
    <2> QED
      BY <2>1, <2>2
  <1>5. /\ ab \o c \in Bytes /\ Len(ab \o c) = Len(ab) + Len(c)
        /\ (\A i \in 1..Len(ab) : (ab \o c)[i] = ab[i]) /\ (\A i \in 1..Len(c) : (ab \o c)[Len(ab) + i] = c[i])
    BY TwoParts, Zenon
  <1>6. PICK h \in Bytes : h = ab \o c
    BY <1>5
  <1>7. /\ Len(h) = Len(ab) + Len(c)
        /\ (\A i \in 1..Len(ab) : h[i] = ab[i]) /\ (\A i \in 1..Len(c) : h[Len(ab) + i] = c[i])
    BY <1>5, <1>6, Zenon
  <1>8. /\ Len(h) = 10
        /\ \A i \in 1..4 : h[0 + i] = a[i]
        /\ \A i \in 1..4 : h[4 + i] = b[i]
        /\ \A i \in 1..2 : h[8 + i] = c[i]
    <2>1. Len(c) = 2
      BY <1>1
    <2> QED
      BY <1>4, <1>7, <2>1
  <1>9. Headed(h, size, id, l)
    BY <1>1, <1>8, Zenon DEF Headed
  <1> QED
    BY <1>1, <1>3, <1>6, <1>9, Zenon

\* What the buffer of a request is made of.
LEMMA RequestParts ==
    ASSUME NEW r, r.id \in Nat, r.name \in Bytes, r.arguments \in Seq(Arguments)
    PROVE  /\ Len(r.name) \in Nat
           /\ RequestSize(r) \in Nat /\ RequestSize(r) >= 10
           /\ Joined(DatumParts(r.arguments)) \in Bytes
           /\ RequestSize(r) = (10 + Len(r.name)) + Len(Joined(DatumParts(r.arguments)))
           /\ Headed(RequestHeader(r), RequestSize(r), r.id, Len(r.name))
           /\ SerializeRequest(r) = (RequestHeader(r) \o r.name) \o Joined(DatumParts(r.arguments))
  <1>1. PICK l \in Nat, id \in Nat : l = Len(r.name) /\ id = r.id
    BY DEF Bytes
  <1>2. PICK n \in Nat, datums \in Bytes :
            /\ datums = Joined(DatumParts(r.arguments)) /\ n = Len(datums)
            /\ n = Total(DatumLengths(r.arguments))
    BY ArgumentSizes
  <1>3. PICK size \in Nat : size = RequestSize(r) /\ size = (10 + l) + n
    <2>1. RequestSize(r) = 10 + Len(r.name) + Total(DatumLengths(r.arguments))
      BY DEF RequestSize, DatumLengths
    <2> QED
      BY <1>1, <1>2, <2>1
  <1>4. Headed(RequestHeader(r), size, id, l)
    BY <1>1, <1>3, ThreeNumbers DEF RequestHeader
  <1>5. SerializeRequest(r) = (RequestHeader(r) \o r.name) \o Joined(DatumParts(r.arguments))
    BY DEF SerializeRequest, RequestHeader, DatumParts
  <1> QED
    BY <1>1, <1>2, <1>3, <1>4, <1>5

\* A request fills the buffer that GetSize allocates for it, and begins with
\* its size.
LEMMA RequestFits ==
    ASSUME NEW r, r.id \in Nat, r.name \in Bytes, r.arguments \in Seq(Arguments),
           Fits(RequestSize(r), 4)
    PROVE  LET data == SerializeRequest(r)
           IN  /\ data \in Bytes /\ Len(data) = RequestSize(r) /\ Len(data) >= 10
               /\ Field(data, 0, 4) = RequestSize(r)
  <1>1. PICK h \in Bytes, m \in Bytes, s \in Bytes, size \in Nat :
            /\ h = RequestHeader(r) /\ m = r.name /\ s = Joined(DatumParts(r.arguments))
            /\ size = RequestSize(r)
    BY RequestParts DEF Headed
  <1>2. /\ Len(h) = 10 /\ size >= 10 /\ size = (10 + Len(m)) + Len(s)
        /\ \A i \in 1..4 : h[0 + i] = Le(size, 4)[i]
    BY <1>1, RequestParts DEF Headed
  <1>3. SerializeRequest(r) = (h \o m) \o s
    BY <1>1, RequestParts
  <1>4. PICK hm \in Bytes : hm = h \o m /\ Len(hm) = Len(h) + Len(m) /\ \A i \in 1..Len(h) : hm[i] = h[i]
    BY TwoParts
  <1>5. /\ hm \o s \in Bytes /\ Len(hm \o s) = Len(hm) + Len(s)
        /\ \A i \in 1..Len(hm) : (hm \o s)[i] = hm[i]
    BY TwoParts, Zenon
  <1>6. PICK data \in Bytes : data = SerializeRequest(r) /\ data = hm \o s
    BY <1>3, <1>4, <1>5
  <1>7. Len(data) = Len(hm) + Len(s) /\ \A i \in 1..Len(hm) : data[i] = hm[i]
    BY <1>5, <1>6, Zenon
  <1>8. Len(m) \in Nat /\ Len(s) \in Nat
    BY DEF Bytes
  <1>9. Len(data) = size
    BY <1>2, <1>4, <1>7, <1>8
  <1>10. \A i \in 1..4 : data[0 + i] = Le(size, 4)[i]
    BY <1>2, <1>4, <1>7, <1>8, SMTT(30)
  <1>11. Field(data, 0, 4) = size
    <2>1. Fits(size, 4)
      BY <1>1
    <2> QED
      BY <1>10, <2>1, FieldOfLe
  <1> QED
    BY <1>1, <1>2, <1>6, <1>9, <1>11

\* Every request is read again as it was, with the whole of its buffer.
THEOREM RequestReadAgain ==
    \A r \in Requests : DeserializeRequest(SerializeRequest(r)) = Read(RequestSize(r), r)
  <1> SUFFICES ASSUME NEW r \in Requests
               PROVE  DeserializeRequest(SerializeRequest(r)) = Read(RequestSize(r), r)
    OBVIOUS
  <1>1. /\ r.id \in Nat /\ Fits(r.id, 4) /\ r.name \in Bytes /\ Fits(Len(r.name), 2)
        /\ r.arguments \in Seq(Arguments) /\ Fits(RequestSize(r), 4)
        /\ r = [id |-> r.id, name |-> r.name, arguments |-> r.arguments]
    BY DEF Requests, ShortNames
  <1>2. PICK h \in Bytes, m \in Bytes, s \in Bytes :
            h = RequestHeader(r) /\ m = r.name /\ s = Joined(DatumParts(r.arguments))
    BY <1>1, RequestParts DEF Headed
  <1>3. PICK size \in Nat, id \in Nat, l \in Nat, n \in Nat :
            /\ size = RequestSize(r) /\ id = r.id /\ l = Len(m) /\ n = Len(s)
            /\ size = (10 + l) + n
    <2>1. RequestSize(r) \in Nat /\ RequestSize(r) = (10 + Len(r.name)) + Len(s)
      BY <1>1, <1>2, RequestParts
    <2>2. Len(m) \in Nat /\ Len(s) \in Nat
      BY DEF Bytes
    <2> QED
      BY <1>1, <1>2, <2>1, <2>2
  <1>a. Headed(h, size, id, l)
    <2>1. Headed(RequestHeader(r), RequestSize(r), r.id, Len(r.name))
      BY <1>1, RequestParts
    <2> QED
      BY <1>2, <1>3, <2>1, Zenon
  <1>b. /\ Len(h) = 10
        /\ \A i \in 1..4 : h[0 + i] = Le(size, 4)[i]
        /\ \A i \in 1..4 : h[4 + i] = Le(id, 4)[i]
        /\ \A i \in 1..2 : h[8 + i] = Le(l, 2)[i]
    BY <1>a, Zenon DEF Headed
  <1>4. PICK data : data = SerializeRequest(r) /\ data = (h \o m) \o s
    BY <1>1, <1>2, RequestParts
  <1>5. Sectioned(data, h, m, s, <<>>)
    <2>1. <<>> \in Bytes
      BY EmptySeq DEF Bytes
    <2>2. Sectioned(((h \o m) \o s) \o <<>>, h, m, s, <<>>)
      BY <2>1, Sections, Zenon
    <2>3. (h \o m) \o s \in Bytes
      BY TwoParts
    <2>4. ((h \o m) \o s) \o <<>> = (h \o m) \o s
      BY <2>3, ConcatEmptySeq DEF Bytes
    <2> QED
      BY <1>4, <2>2, <2>4, Zenon
  <1>6. /\ data \in Bytes /\ Len(data) = ((Len(h) + Len(m)) + Len(s)) + Len(<<>>)
        /\ \A i \in 1..Len(h) : data[i] = h[i]
        /\ After(data, Len(h), Len(h) + Len(m)) = m
        /\ After(data, Len(h) + Len(m), (Len(h) + Len(m)) + Len(s)) = s
    BY <1>5, Zenon DEF Sectioned
  <1>7. /\ Len(data) = size
        /\ After(data, 10, 10 + l) = m /\ After(data, 10 + l, size) = s
    BY <1>3, <1>6, <1>b
  <1>8. Field(data, 0, 4) = size
    <2>1. \A i \in 1..4 : data[0 + i] = Le(size, 4)[i]
      BY <1>6, <1>b
    <2>2. Fits(size, 4)
      BY <1>1, <1>3
    <2> QED
      BY <2>1, <2>2, FieldOfLe
  <1>9. Field(data, 4, 4) = id
    <2>1. \A i \in 1..4 : data[4 + i] = Le(id, 4)[i]
      BY <1>6, <1>b
    <2>2. Fits(id, 4)
      BY <1>1, <1>3
    <2> QED
      BY <2>1, <2>2, FieldOfLe
  <1>10. Field(data, 8, 2) = l
    <2>1. \A i \in 1..2 : data[8 + i] = Le(l, 2)[i]
      BY <1>6, <1>b
    <2>2. Fits(l, 2)
      BY <1>1, <1>2, <1>3
    <2> QED
      BY <2>1, <2>2, FieldOfLe
  <1>11. Datums(s) = Read(n, r.arguments)
    <2>1. Fits(n, 4)
      <3>1. n \in 0..size /\ Fits(size, 4)
        BY <1>1, <1>3
      <3> QED
        BY <3>1, SmallerFits
    <2>2. Fits(Len(s), 4)
      BY <1>3, <2>1
    <2> QED
      BY <1>1, <1>2, <1>3, <2>2, ArgumentsReadAgain
  <1>12. DeserializeRequest(data) = RequestFrom(id, m, 10 + l, Datums(s))
    <2>1. ~(Len(data) < 10 \/ Field(data, 0, 4) > Len(data) \/ Field(data, 8, 2) > Len(data))
      BY <1>3, <1>7, <1>8, <1>10
    <2> QED
      BY <1>7, <1>8, <1>9, <1>10, <2>1, Zenon DEF DeserializeRequest
  <1>13. RequestFrom(id, m, 10 + l, Read(n, r.arguments))
             = Read(size, [id |-> id, name |-> m, arguments |-> r.arguments])
    BY <1>3 DEF RequestFrom, Read
  <1> QED
    BY <1>1, <1>2, <1>3, <1>4, <1>11, <1>12, <1>13, Zenon

-----------------------------------------------------------------------------
(* Copies *)

\* A record with two of its fields replaced.
MadeOf(t, n, s, a) == [type |-> t, value |-> n, str |-> s, array |-> a]
Changed(v, str, array) == [v EXCEPT !.str = str, !.array = array]

\* The other two fields stay.
LEMMA FieldsReplaced ==
    ASSUME NEW t, NEW n, NEW s, NEW a, NEW str, NEW array
    PROVE  Changed(MadeOf(t, n, s, a), str, array) = MadeOf(t, n, str, array)
  <1> DEFINE F == {"type", "value", "str", "array"}
             e == [[type |-> t, value |-> n, str |-> s, array |-> a]
                       EXCEPT !.str = str, !.array = array]
             g == [type |-> t, value |-> n, str |-> str, array |-> array]
  <1>1. DOMAIN e = F /\ DOMAIN g = F
    OBVIOUS
  <1>2. e.type = g.type /\ e.value = g.value /\ e.str = g.str /\ e.array = g.array
    OBVIOUS
  <1>3. e = [x \in DOMAIN e |-> e[x]] /\ g = [x \in DOMAIN g |-> g[x]]
    OBVIOUS
  <1> HIDE DEF e, g
  <1>4. \A x \in F : e[x] = g[x]
    BY <1>2
  <1>5. [x \in F |-> e[x]] = [x \in F |-> g[x]]
    BY <1>4
  <1>6. e = [x \in F |-> e[x]] /\ g = [x \in F |-> g[x]]
    BY <1>1, <1>3, Zenon
  <1>7. e = g
    BY <1>5, <1>6, Zenon
  <1> QED
    BY <1>7 DEF e, g, Changed, MadeOf

\* The fields of a copy.
LEMMA CopyFields ==
    ASSUME NEW v \in AllValues
    PROVE  /\ CopyValue(v).type = v.type /\ CopyValue(v).value = v.value
           /\ CopyValue(v).str = IF v.type = ValueTypeUndefined THEN <<>> ELSE v.str
           /\ CopyValue(v).array = [i \in DOMAIN v.array |-> CopyValue(v.array[i])]
           /\ CopyValue(v) = [type |-> v.type, value |-> v.value,
                              str |-> IF v.type = ValueTypeUndefined THEN <<>> ELSE v.str,
                              array |-> [i \in DOMAIN v.array |-> CopyValue(v.array[i])]]
  <1> DEFINE copies == [i \in DOMAIN v.array |-> CopyValue(v.array[i])]
  <1>1. CopyValue(v) = CopyOf(v, copies)
    BY CopyIs
  <1>2. v \in Records(AllValues)
    BY ElementsAreValues
  <1> HIDE DEF copies
  <1>3. CopyOf(v, copies) = [type |-> v.type, value |-> v.value,
                             str |-> IF v.type = ValueTypeUndefined THEN <<>> ELSE v.str,
                             array |-> copies]
    <2>1. PICK t, n, s, a : v = [type |-> t, value |-> n, str |-> s, array |-> a]
      BY <1>2 DEF Records
    <2>2. PICK str : str = (IF v.type = ValueTypeUndefined THEN <<>> ELSE v.str)
      OBVIOUS
    <2>3. CopyOf(v, copies) = [v EXCEPT !.str = str, !.array = copies]
      BY <2>2 DEF CopyOf
    <2>4. [v EXCEPT !.str = str, !.array = copies]
              = [type |-> v.type, value |-> v.value, str |-> str, array |-> copies]
      <3>1. v.type = t /\ v.value = n
        BY <2>1
      <3>2. Changed(MadeOf(t, n, s, a), str, copies) = MadeOf(t, n, str, copies)
        BY FieldsReplaced
      <3> QED
        BY <2>1, <3>1, <3>2 DEF Changed, MadeOf
    <2> QED
      BY <2>2, <2>3, <2>4
  <1>4. CopyValue(v) = [type |-> v.type, value |-> v.value,
                        str |-> IF v.type = ValueTypeUndefined THEN <<>> ELSE v.str,
                        array |-> copies]
    BY <1>1, <1>3
  <1>5. /\ CopyValue(v).type = v.type /\ CopyValue(v).value = v.value
        /\ CopyValue(v).str = IF v.type = ValueTypeUndefined THEN <<>> ELSE v.str
        /\ CopyValue(v).array = copies
    BY <1>4
  <1> QED
    BY <1>4, <1>5 DEF copies

\* A copy is a value.
LEMMA CopyIsValue == \A v \in AllValues : CopyValue(v) \in AllValues
  <1> DEFINE T == {d \in Nat : \A v \in ValuesTo[d] : v \in AllValues => CopyValue(v) \in ValuesTo[d]}
  <1>1. 0 \in T
    BY ValuesOfLevel
  <1>2. ASSUME NEW d \in Nat, d \in T PROVE d + 1 \in T
    <2> SUFFICES ASSUME NEW v \in ValuesTo[d + 1], v \in AllValues
                 PROVE  CopyValue(v) \in ValuesTo[d + 1]
      OBVIOUS
    <2>1. v \in Records(ValuesTo[d]) /\ OfItsClass(v)
      BY ValuesOfLevel
    <2>2. PICK n \in Nat : n = Len(v.array) /\ DOMAIN v.array = 1..n
      BY ElementsAreValues
    <2> DEFINE copies == [i \in DOMAIN v.array |-> CopyValue(v.array[i])]
    <2>3. copies \in Seq(ValuesTo[d])
      <3>1. ASSUME NEW i \in 1..n PROVE CopyValue(v.array[i]) \in ValuesTo[d]
        <4>1. v.array[i] \in AllValues
          BY <2>2, ElementsAreValues
        <4>2. v.array[i] \in ValuesTo[d]
          BY <2>1, <2>2, ElementOfSeq DEF Records
        <4> QED
          BY <1>2, <4>1, <4>2
      <3>2. copies \in [1..n -> ValuesTo[d]]
        BY <2>2, <3>1
      <3> QED
        BY <3>2
    <2>4. v.array = <<>> => copies = <<>>
      OBVIOUS
    <2> HIDE DEF copies
    <2>5. PICK c, str : /\ c = CopyValue(v) /\ str = (IF v.type = ValueTypeUndefined THEN <<>> ELSE v.str)
                        /\ c = [type |-> v.type, value |-> v.value, str |-> str, array |-> copies]
                        /\ c.type = v.type /\ c.value = v.value /\ c.str = str /\ c.array = copies
      BY CopyFields DEF copies
    <2>6. str \in Bytes /\ (v.str = <<>> => str = <<>>)
      BY <2>1, <2>5, EmptySeq DEF Records, Bytes
    <2>7. c \in Records(ValuesTo[d])
      BY <2>1, <2>3, <2>5, <2>6 DEF Records
    <2>8. OfItsClass(c)
      BY <2>1, <2>4, <2>5, <2>6, Zenon DEF OfItsClass
    <2> QED
      BY <2>5, <2>7, <2>8, ValuesOfLevel
  <1> HIDE DEF T
  <1>3. Nat \subseteq T
    BY <1>1, <1>2, Induction
  <1> QED
    BY <1>3, NestingAssumption DEF T, AllValues

\* The copy of a copy is the same.
LEMMA CopyOfCopy == \A v \in AllValues : CopyValue(CopyValue(v)) = CopyValue(v)
  <1> DEFINE T == {v \in AllValues : CopyValue(CopyValue(v)) = CopyValue(v)}
  <1>1. ASSUME NEW v \in AllValues, \A i \in DOMAIN v.array : v.array[i] \in T
        PROVE  v \in T
    <2>1. PICK c \in AllValues : c = CopyValue(v)
      BY CopyIsValue
    <2>2. /\ c.type = v.type /\ c.value = v.value
          /\ c.str = (IF v.type = ValueTypeUndefined THEN <<>> ELSE v.str)
          /\ c.array = [i \in DOMAIN v.array |-> CopyValue(v.array[i])]
          /\ c = [type |-> v.type, value |-> v.value,
                  str |-> IF v.type = ValueTypeUndefined THEN <<>> ELSE v.str,
                  array |-> [i \in DOMAIN v.array |-> CopyValue(v.array[i])]]
      BY <2>1, CopyFields
    <2>3. CopyValue(c) = [type |-> c.type, value |-> c.value,
                          str |-> IF c.type = ValueTypeUndefined THEN <<>> ELSE c.str,
                          array |-> [i \in DOMAIN c.array |-> CopyValue(c.array[i])]]
      BY CopyFields
    <2>4. [i \in DOMAIN c.array |-> CopyValue(c.array[i])] = c.array
      <3>1. DOMAIN c.array = DOMAIN v.array
        BY <2>2
      <3>2. \A i \in DOMAIN v.array : CopyValue(c.array[i]) = c.array[i]
        BY <1>1, <2>2
      <3>3. [i \in DOMAIN c.array |-> CopyValue(c.array[i])] = [i \in DOMAIN v.array |-> c.array[i]]
        BY <3>1, <3>2
      <3>4. [i \in DOMAIN v.array |-> c.array[i]] = c.array
        BY <2>2
      <3> QED
        BY <3>3, <3>4
    <2>5. (IF c.type = ValueTypeUndefined THEN <<>> ELSE c.str) = c.str
      BY <2>2
    <2>6. c = [type |-> c.type, value |-> c.value, str |-> c.str, array |-> c.array]
      BY <2>2
    <2>7. CopyValue(c) = c
      BY <2>3, <2>4, <2>5, <2>6
    <2> QED
      BY <2>1, <2>7
  <1> HIDE DEF T
  <1>2. AllValues \subseteq T
    BY <1>1, ValueInduction
  <1> QED
    BY <1>2 DEF T

-----------------------------------------------------------------------------
(* Setting arguments *)

\* The values that are the result of copying: nothing that CopyFrom drops.
Copied == {v \in AllValues : CopyValue(v) = v}
CopiedArguments == [name : ShortNames, value : Copied]

\* The arguments of Set and of the Requests that it composes.
Given == AllValues \cup {Null}
Unlike(arguments) == \A i, j \in DOMAIN arguments : arguments[i].name = arguments[j].name => i = j
Composed ==
    {r \in [id : {n \in Nat : Fits(n, 4)}, name : ShortNames, arguments : Seq(CopiedArguments)] :
        Unlike(r.arguments)}

Put(v) == IF v = Null THEN CreateValue(ValueTypeUndefined) ELSE CopyValue(v)

\* An undefined value is a copy of itself.
LEMMA UndefinedIsCopied == CreateValue(ValueTypeUndefined) \in Copied
  <1> DEFINE u == CreateValue(ValueTypeUndefined)
  <1>1. /\ u = [type |-> 0, value |-> 0, str |-> << >>, array |-> << >>]
        /\ u.type = 0 /\ u.value = 0 /\ u.str = << >> /\ u.array = << >>
    BY DEF CreateValue, ValueTypeUndefined, ValueTypeStr, ValueTypeArr, IntTypes
  <1> HIDE DEF u
  <1>2. PICK d \in Nat : MaxNesting = d + 1
    BY NestingAssumption
  <1>3. u \in Records(ValuesTo[d])
    BY <1>1 DEF Records, Bytes, Types, ValueTypeUndefined
  <1>4. OfItsClass(u)
    BY <1>1 DEF OfItsClass, IntTypes, IntSize, ValueTypeUndefined
  <1>5. u \in AllValues
    BY <1>2, <1>3, <1>4, ValuesOfLevel DEF AllValues
  <1>6. CopyValue(u) = [type |-> u.type, value |-> u.value,
                        str |-> IF u.type = ValueTypeUndefined THEN <<>> ELSE u.str,
                        array |-> [i \in DOMAIN u.array |-> CopyValue(u.array[i])]]
    BY <1>5, CopyFields
  <1>7. [i \in DOMAIN u.array |-> CopyValue(u.array[i])] = << >>
    BY <1>1
  <1>8. CopyValue(u) = u
    BY <1>1, <1>6, <1>7
  <1> QED
    BY <1>5, <1>8 DEF Copied, u

\* What an argument is given is a copy.
LEMMA PutIsCopied == \A v \in Given : Put(v) \in Copied
  BY UndefinedIsCopied, CopyIsValue, CopyOfCopy DEF Given, Put, Copied

\* What is a copy stays as it is.
LEMMA PutAgain == \A v \in Copied : v \in Given /\ Put(v) = v
  <1> SUFFICES ASSUME NEW v \in Copied PROVE v \in Given /\ Put(v) = v
    OBVIOUS
  <1>1. v \in AllValues /\ CopyValue(v) = v
    BY DEF Copied
  <1>2. v.type \in Types
    BY <1>1, ElementsAreValues DEF Records
  <1>3. Null.type = -1
    BY DEF Null, CreateValue
  <1>4. -1 \notin Types
    BY DEF Types, IntTypes, IntSize, ValueTypeUndefined, ValueTypeStr, ValueTypeArr
  <1>5. v # Null
    BY <1>2, <1>3, <1>4, Zenon
  <1> QED
    BY <1>1, <1>5 DEF Given, Put

\* SetValue gives an argument a copy of the value.
LEMMA SetValueIs ==
    ASSUME NEW d \in CopiedArguments, NEW v \in Given
    PROVE  /\ SetValue(d, v) \in CopiedArguments /\ SetValue(d, v).name = d.name
           /\ SetValue(d, v) = [name |-> d.name, value |-> Put(v)]
  <1>1. PICK w \in Copied : w = Put(v)
    BY PutIsCopied
  <1>2. SetValue(d, v) = [d EXCEPT !.value = w]
    BY <1>1 DEF SetValue, Put
  <1> QED
    BY <1>1, <1>2 DEF CopiedArguments

\* A new argument.
LEMMA NewDatumIs ==
    ASSUME NEW name \in ShortNames, NEW v \in Given
    PROVE  /\ SetValue(NewDatum(name), v) \in CopiedArguments
           /\ SetValue(NewDatum(name), v) = [name |-> name, value |-> Put(v)]
           /\ SetValue(NewDatum(name), v).name = name
  <1>1. NewDatum(name) \in CopiedArguments /\ NewDatum(name).name = name
    BY UndefinedIsCopied DEF NewDatum, CopiedArguments
  <1> QED
    BY <1>1, SetValueIs

\* The arguments after Set.
WithArgument(arguments, name, v) ==
    IF \A i \in DOMAIN arguments : arguments[i].name # name
    THEN Append(arguments, SetValue(NewDatum(name), v))
    ELSE [i \in DOMAIN arguments |->
             IF IsFirst(i, arguments, name) THEN SetValue(arguments[i], v) ELSE arguments[i]]

\* The arguments after Set are copied values again, with no name twice.
LEMMA ArgumentsSet ==
    ASSUME NEW arguments \in Seq(CopiedArguments), Unlike(arguments),
           NEW name \in ShortNames, NEW v \in Given
    PROVE  /\ WithArgument(arguments, name, v) \in Seq(CopiedArguments)
           /\ Unlike(WithArgument(arguments, name, v))
  <1>1. PICK n \in Nat : n = Len(arguments) /\ DOMAIN arguments = 1..n
    OBVIOUS
  <1>2. \A i \in 1..n : arguments[i] \in CopiedArguments
    BY <1>1, ElementOfSeq
  <1>3. CASE \A i \in DOMAIN arguments : arguments[i].name # name
    <2>1. PICK d \in CopiedArguments : d = SetValue(NewDatum(name), v) /\ d.name = name
      BY NewDatumIs
    <2>2. PICK more : more = Append(arguments, d)
      OBVIOUS
    <2>3. /\ more \in Seq(CopiedArguments) /\ Len(more) = n + 1 /\ DOMAIN more = 1..(n + 1)
          /\ more[n + 1] = d /\ \A i \in 1..n : more[i] = arguments[i]
      BY <1>1, <2>2, AppendProperties
    <2>4. ASSUME NEW i \in 1..(n + 1), NEW j \in 1..(n + 1), more[i].name = more[j].name PROVE i = j
      <3>1. CASE i \in 1..n /\ j \in 1..n
        BY <1>1, <2>3, <2>4, <3>1 DEF Unlike
      <3>2. CASE i = n + 1 /\ j \in 1..n
        BY <1>1, <1>3, <2>1, <2>3, <2>4, <3>2
      <3>3. CASE j = n + 1 /\ i \in 1..n
        BY <1>1, <1>3, <2>1, <2>3, <2>4, <3>3
      <3> QED
        BY <3>1, <3>2, <3>3
    <2>5. Unlike(more)
      BY <2>3, <2>4 DEF Unlike
    <2>6. WithArgument(arguments, name, v) = more
      BY <1>3, <2>1, <2>2 DEF WithArgument
    <2> QED
      BY <2>3, <2>5, <2>6
  <1>4. CASE ~\A i \in DOMAIN arguments : arguments[i].name # name
    <2> DEFINE at(i) == IF IsFirst(i, arguments, name) THEN SetValue(arguments[i], v) ELSE arguments[i]
    <2>1. \A i \in 1..n : at(i) \in CopiedArguments /\ at(i).name = arguments[i].name
      BY <1>2, SetValueIs
    <2>2. WithArgument(arguments, name, v) = [i \in DOMAIN arguments |-> at(i)]
      BY <1>4 DEF WithArgument
    <2> HIDE DEF at
    <2>3. PICK new : new = [i \in 1..n |-> at(i)] /\ new = WithArgument(arguments, name, v)
      BY <1>1, <2>2
    <2>4. new \in Seq(CopiedArguments)
      BY <2>1, <2>3
    <2>5. DOMAIN new = 1..n /\ \A i \in 1..n : new[i].name = arguments[i].name
      BY <2>1, <2>3
    <2>6. Unlike(new)
      BY <1>1, <2>5 DEF Unlike
    <2> QED
      BY <2>3, <2>4, <2>6
  <1> QED
    BY <1>3, <1>4

\* Set keeps a request one that Set composes.
LEMMA SetKeeps ==
    ASSUME NEW r \in Composed, NEW name \in ShortNames, NEW v \in Given
    PROVE  /\ Set(r, name, v) \in Composed
           /\ Set(r, name, v) = [id |-> r.id, name |-> r.name,
                                 arguments |-> WithArgument(r.arguments, name, v)]
  <1>1. PICK arguments \in Seq(CopiedArguments) : arguments = WithArgument(r.arguments, name, v) /\ Unlike(arguments)
    BY ArgumentsSet DEF Composed
  <1>2. Set(r, name, v) = [r EXCEPT !.arguments = arguments]
    BY <1>1 DEF Set, WithArgument
  <1>3. r \in [id : {n \in Nat : Fits(n, 4)}, name : ShortNames, arguments : Seq(CopiedArguments)]
    BY DEF Composed
  <1>4. [r EXCEPT !.arguments = arguments] = [id |-> r.id, name |-> r.name, arguments |-> arguments]
    BY <1>3
  <1>5. [id |-> r.id, name |-> r.name, arguments |-> arguments] \in Composed
    BY <1>1, <1>3 DEF Composed
  <1> QED
    BY <1>1, <1>2, <1>4, <1>5

CopyStart(r) == [NewRequest(r.name) EXCEPT !.id = r.id]
CopyNext(r, k, copy) == Set(copy, r.arguments[k].name, r.arguments[k].value)
RequestCopied == INSTANCE Recursion WITH Start <- CopyStart, Body <- CopyNext

\* The steps of CopyFrom.
LEMMA CopySteps ==
    ASSUME NEW r, NEW n \in Nat, n = Len(r.arguments)
    PROVE  \E f : /\ f[0] = CopyStart(r)
                  /\ \A k \in 1..n : f[k] = CopyNext(r, k, f[k - 1])
                  /\ CopyRequest(r) = f[n]
  <1>1. \E f : RequestCopied!FitsTo(r, f, n)
    BY RequestCopied!ExistsTo
  <1>2. \E f : f = [k \in 0..n |-> IF k = 0 THEN CopyStart(r) ELSE CopyNext(r, k, f[k - 1])]
    BY <1>1 DEF RequestCopied!FitsTo
  <1> DEFINE f == CHOOSE f : f = [k \in 0..n |-> IF k = 0 THEN CopyStart(r) ELSE CopyNext(r, k, f[k - 1])]
  <1>3. f = [k \in 0..n |-> IF k = 0 THEN CopyStart(r) ELSE CopyNext(r, k, f[k - 1])]
    BY <1>2
  <1>4. CopyRequest(r) = f[n]
    BY DEF CopyRequest, CopyStart, CopyNext
  <1> HIDE DEF f
  <1>5. f[0] = CopyStart(r)
    BY <1>3
  <1>6. ASSUME NEW k \in 1..n PROVE f[k] = CopyNext(r, k, f[k - 1])
    <2>1. k \in 0..n /\ k # 0
      OBVIOUS
    <2> QED
      BY <1>3, <2>1
  <1> QED
    BY <1>4, <1>5, <1>6

\* The arguments of a request that was composed.
LEMMA ComposedArguments ==
    ASSUME NEW r \in Composed
    PROVE  /\ r.id \in Nat /\ Fits(r.id, 4) /\ r.name \in ShortNames
           /\ r.arguments \in Seq(CopiedArguments)
           /\ r = [id |-> r.id, name |-> r.name, arguments |-> r.arguments]
           /\ Len(r.arguments) \in Nat /\ DOMAIN r.arguments = 1..Len(r.arguments)
           /\ \A i \in 1..Len(r.arguments) : r.arguments[i] \in CopiedArguments
           /\ \A i, j \in 1..Len(r.arguments) : r.arguments[i].name = r.arguments[j].name => i = j
  <1>1. r \in [id : {n \in Nat : Fits(n, 4)}, name : ShortNames, arguments : Seq(CopiedArguments)]
    BY DEF Composed
  <1>2. r.arguments \in Seq(CopiedArguments)
    BY <1>1
  <1>3. DOMAIN r.arguments = 1..Len(r.arguments) /\ Len(r.arguments) \in Nat
    BY <1>2
  <1>4. \A i \in 1..Len(r.arguments) : r.arguments[i] \in CopiedArguments
    BY <1>2, <1>3, ElementOfSeq
  <1> QED
    BY <1>1, <1>2, <1>3, <1>4 DEF Composed, Unlike

\* A request that was composed with Set is copied as it is.
THEOREM CopyIsTheSame == \A r \in Composed : CopyRequest(r) = r
  <1> SUFFICES ASSUME NEW r \in Composed PROVE CopyRequest(r) = r
    OBVIOUS
  <1>1. PICK arguments \in Seq(CopiedArguments), n \in Nat :
            arguments = r.arguments /\ n = Len(arguments)
    BY ComposedArguments
  <1>2. PICK f : /\ f[0] = CopyStart(r)
                 /\ \A k \in 1..n : f[k] = CopyNext(r, k, f[k - 1])
                 /\ CopyRequest(r) = f[n]
    BY <1>1, CopySteps
  <1>3. /\ \A i \in 1..n : arguments[i] \in CopiedArguments
        /\ \A i, j \in 1..n : arguments[i].name = arguments[j].name => i = j
    BY <1>1, ComposedArguments
  <1> DEFINE part(k) == [id |-> r.id, name |-> r.name, arguments |-> Firsts(arguments, k)]
             T == {k \in Nat : k <= n => f[k] = part(k)}
  <1>4. 0 \in T
    <2>1. Firsts(arguments, 0) = << >>
      BY DEF Firsts
    <2>2. CopyStart(r) = [id |-> r.id, name |-> r.name, arguments |-> << >>]
      BY DEF CopyStart, NewRequest
    <2> QED
      BY <1>2, <2>1, <2>2
  <1>5. ASSUME NEW k \in Nat, k \in T PROVE k + 1 \in T
    <2> SUFFICES ASSUME k + 1 <= n PROVE f[k + 1] = part(k + 1)
      OBVIOUS
    <2>1. PICK a : a = arguments[k + 1] /\ a \in CopiedArguments
      BY <1>3
    <2>2. k <= n /\ k + 1 \in 1..n /\ (k + 1) - 1 = k
      OBVIOUS
    <2>3. f[k + 1] = CopyNext(r, k + 1, part(k))
      BY <1>2, <1>5, <2>2
    <2>4. CopyNext(r, k + 1, part(k)) = Set(part(k), a.name, a.value)
      BY <1>1, <2>1 DEF CopyNext
    <2>5. PICK firsts : firsts = Firsts(arguments, k) /\ firsts \in Seq(CopiedArguments)
                        /\ DOMAIN firsts = 1..k /\ \A i \in 1..k : firsts[i] = arguments[i]
      <3>1. \A i \in 1..k : arguments[i] \in CopiedArguments
        BY <1>3, <2>2
      <3>2. PICK firsts : firsts = Firsts(arguments, k) /\ firsts = [i \in 1..k |-> arguments[i]]
        BY DEF Firsts
      <3>3. firsts \in [1..k -> CopiedArguments]
        BY <3>1, <3>2
      <3>4. firsts \in Seq(CopiedArguments)
        BY <3>3, SeqDef
      <3> QED
        BY <3>2, <3>4
    <2>6. Unlike(firsts) /\ \A i \in DOMAIN firsts : firsts[i].name # a.name
      BY <1>3, <2>1, <2>2, <2>5 DEF Unlike
    <2>7. part(k) \in Composed
      BY <2>5, <2>6, ComposedArguments DEF Composed
    <2>8. a.name \in ShortNames /\ a.value \in Copied /\ a = [name |-> a.name, value |-> a.value]
      BY <2>1 DEF CopiedArguments
    <2>9. a.value \in Given /\ SetValue(NewDatum(a.name), a.value) = a
      BY <2>8, PutAgain, NewDatumIs
    <2>10. Set(part(k), a.name, a.value)
               = [id |-> r.id, name |-> r.name, arguments |-> WithArgument(firsts, a.name, a.value)]
      BY <2>5, <2>7, <2>8, <2>9, SetKeeps
    <2>11. WithArgument(firsts, a.name, a.value) = Append(firsts, a)
      BY <2>6, <2>9 DEF WithArgument
    <2>12. Append(firsts, a) = Firsts(arguments, k + 1)
      BY <1>1, <2>1, <2>5, FirstsGrow
    <2> QED
      BY <2>3, <2>4, <2>10, <2>11, <2>12
  <1> HIDE DEF T
  <1>6. Nat \subseteq T
    BY <1>4, <1>5, Induction
  <1>7. f[n] = part(n)
    BY <1>6 DEF T
  <1>8. Firsts(arguments, n) = arguments
    BY <1>1, FirstsAll
  <1> QED
    BY <1>1, <1>2, <1>7, <1>8, ComposedArguments

-----------------------------------------------------------------------------
(* Requests whose size four bytes can tell *)

\* What Shifted leaves of a number, for the sizes of the fields.
LEMMA ShiftedNumbers ==
    ASSUME NEW n \in Nat
    PROVE  /\ Shifted(n, 0) = n /\ Shifted(n, 1) = n \div 256
           /\ Shifted(n, 2) = (n \div 256) \div 256
           /\ Shifted(n, 3) = ((n \div 256) \div 256) \div 256
           /\ Shifted(n, 4) = (((n \div 256) \div 256) \div 256) \div 256
  <1>1. PICK a \in Int, b \in Int, c \in Int, d \in Int :
            /\ a = n \div 256 /\ b = a \div 256 /\ c = b \div 256 /\ d = c \div 256
    OBVIOUS
  <1>2. n \in Int /\ 0 + 1 = 1 /\ 1 + 1 = 2 /\ 2 + 1 = 3 /\ 3 + 1 = 4
    OBVIOUS
  <1>3. Shifted(n, 0) = n /\ \A k \in Nat : Shifted(n, k + 1) = Shifted(n, k) \div 256
    BY <1>2, ShiftedSteps
  <1>4. Shifted(n, 1) = a
    <2>1. Shifted(n, 0 + 1) = Shifted(n, 0) \div 256
      BY <1>3
    <2> QED
      BY <1>1, <1>2, <1>3, <2>1
  <1>5. Shifted(n, 2) = b
    <2>1. Shifted(n, 1 + 1) = Shifted(n, 1) \div 256
      BY <1>3
    <2> QED
      BY <1>1, <1>2, <1>4, <2>1
  <1>6. Shifted(n, 3) = c
    <2>1. Shifted(n, 2 + 1) = Shifted(n, 2) \div 256
      BY <1>3
    <2> QED
      BY <1>1, <1>2, <1>5, <2>1
  <1>7. Shifted(n, 4) = d
    <2>1. Shifted(n, 3 + 1) = Shifted(n, 3) \div 256
      BY <1>3
    <2> QED
      BY <1>1, <1>2, <1>6, <2>1
  <1> QED
    BY <1>1, <1>3, <1>4, <1>5, <1>6, <1>7

\* When a number fits two bytes, and when four.
LEMMA FitsTwoFour ==
    ASSUME NEW n \in Nat
    PROVE  /\ Fits(n, 2) <=> (n \div 256) \div 256 = 0
           /\ Fits(n, 4) <=> (((n \div 256) \div 256) \div 256) \div 256 = 0
  BY ShiftedNumbers DEF Fits

\* Four bytes are a number of 32 bits.
LEMMA FieldFits ==
    ASSUME NEW data \in Bytes, Len(data) = 4
    PROVE  Field(data, 0, 4) \in Nat /\ Fits(Field(data, 0, 4), 4)
  <1>1. PICK a \in Byte8, b \in Byte8, c \in Byte8, d \in Byte8 :
            a = data[1] /\ b = data[2] /\ c = data[3] /\ d = data[4]
    <2>1. \A i \in 1..4 : data[i] \in Byte8
      BY ElementOfSeq DEF Bytes
    <2>2. 1 \in 1..4 /\ 2 \in 1..4 /\ 3 \in 1..4 /\ 4 \in 1..4
      OBVIOUS
    <2> QED
      BY <2>1, <2>2, Zenon
  <1>2. PICK n \in Nat : n = a + 256 * b + 65536 * c + 16777216 * d
    BY DEF Byte8
  <1>3. Field(data, 0, 4) = n
    BY <1>1, <1>2 DEF Field, Byte8
  <1>4. n \div 256 = b + 256 * (c + 256 * d)
    BY <1>2 DEF Byte8
  <1>5. (b + 256 * (c + 256 * d)) \div 256 = c + 256 * d
    BY DEF Byte8
  <1>6. (c + 256 * d) \div 256 = d
    BY DEF Byte8
  <1>7. d \div 256 = 0
    BY DEF Byte8
  <1>8. (((n \div 256) \div 256) \div 256) \div 256 = 0
    BY <1>4, <1>5, <1>6, <1>7
  <1> QED
    BY <1>3, <1>8, FitsTwoFour

\* A request without arguments.
LEMMA NewRequestFits ==
    \A name \in ShortNames :
        NewRequest(name) \in Composed /\ Fits(RequestSize(NewRequest(name)), 4)
  <1> SUFFICES ASSUME NEW name \in ShortNames
               PROVE  NewRequest(name) \in Composed /\ Fits(RequestSize(NewRequest(name)), 4)
    OBVIOUS
  <1>1. PICK l \in Nat : l = Len(name) /\ Fits(l, 2)
    BY DEF ShortNames, Bytes
  <1>2. PICK r : /\ r = NewRequest(name) /\ r = [id |-> 0, name |-> name, arguments |-> << >>]
                 /\ r.id = 0 /\ r.name = name /\ r.arguments = << >>
    <2>1. PICK r : r = [id |-> 0, name |-> name, arguments |-> << >>]
      OBVIOUS
    <2>2. r = NewRequest(name)
      BY <2>1 DEF NewRequest
    <2>3. r.id = 0 /\ r.name = name /\ r.arguments = << >>
      BY <2>1
    <2> QED
      BY <2>1, <2>2, <2>3, Zenon
  <1>3. r \in Composed
    <2>1. Fits(0, 4)
      BY FitsTwoFour
    <2>2. Unlike(r.arguments)
      BY <1>2 DEF Unlike
    <2> QED
      BY <1>2, <2>1, <2>2 DEF Composed
  <1>4. RequestSize(r) = 10 + l
    <2>1. [i \in DOMAIN r.arguments |-> DatumSize(r.arguments[i])] = << >>
      BY <1>2
    <2>2. Total(<< >>) = 0
      <3>1. Len(<< >>) = 0
        OBVIOUS
      <3>2. \E f : f[0] = 0 /\ Total(<< >>) = f[Len(<< >>)]
        BY <3>1, TotalSteps
      <3> QED
        BY <3>1, <3>2
    <2> QED
      BY <1>1, <1>2, <2>1, <2>2 DEF RequestSize
  <1>5. Fits(10 + l, 4)
    <2>1. (l \div 256) \div 256 = 0
      BY <1>1, FitsTwoFour
    <2>2. l \div 256 < 256
      BY <2>1
    <2>3. l < 65536
      BY <2>2
    <2>4. PICK m \in Nat : m = 10 + l /\ m < 131072
      BY <2>3
    <2>5. m \div 256 \in 0..511
      BY <2>4
    <2>6. (m \div 256) \div 256 \in 0..1
      BY <2>5
    <2>7. ((m \div 256) \div 256) \div 256 = 0
      BY <2>6
    <2>8. (((m \div 256) \div 256) \div 256) \div 256 = 0
      BY <2>7
    <2> QED
      BY <2>4, <2>8, FitsTwoFour
  <1> QED
    BY <1>2, <1>3, <1>4, <1>5

\* The id makes no difference to the size.
LEMMA SizeWithoutId ==
    ASSUME NEW r \in Composed, NEW id \in Nat, Fits(id, 4)
    PROVE  /\ [r EXCEPT !.id = id] \in Composed
           /\ RequestSize([r EXCEPT !.id = id]) = RequestSize(r)
           /\ [r EXCEPT !.id = id].name = r.name
  <1>1. r \in [id : {n \in Nat : Fits(n, 4)}, name : ShortNames, arguments : Seq(CopiedArguments)]
    BY DEF Composed
  <1>2. PICK s : s = [r EXCEPT !.id = id] /\ s.arguments = r.arguments /\ s.name = r.name
                 /\ s \in [id : {n \in Nat : Fits(n, 4)}, name : ShortNames,
                            arguments : Seq(CopiedArguments)]
    <2>1. PICK s : s = [r EXCEPT !.id = id]
      OBVIOUS
    <2>2. s.arguments = r.arguments /\ s.name = r.name
      BY <1>1, <2>1
    <2>3. s \in [id : {n \in Nat : Fits(n, 4)}, name : ShortNames, arguments : Seq(CopiedArguments)]
      BY <1>1, <2>1
    <2> QED
      BY <2>1, <2>2, <2>3, Zenon
  <1>3. s \in Composed
    BY <1>2 DEF Composed
  <1>4. RequestSize(s) = RequestSize(r)
    BY <1>2 DEF RequestSize
  <1> QED
    BY <1>2, <1>3, <1>4

\* What the methods promise for every request that was composed with Set.
THEOREM ComposedIsSound ==
    \A r \in Composed : Fits(RequestSize(r), 4) =>
        /\ SerializeRequest(r) \in Seq(Byte8)
        /\ Len(SerializeRequest(r)) = RequestSize(r) /\ Len(SerializeRequest(r)) >= 10
        /\ Field(SerializeRequest(r), 0, 4) = RequestSize(r)
        /\ DeserializeRequest(SerializeRequest(r)) = Read(RequestSize(r), r)
        /\ CopyRequest(r) = r
  <1> SUFFICES ASSUME NEW r \in Composed, Fits(RequestSize(r), 4)
               PROVE  /\ SerializeRequest(r) \in Seq(Byte8)
                      /\ Len(SerializeRequest(r)) = RequestSize(r) /\ Len(SerializeRequest(r)) >= 10
                      /\ Field(SerializeRequest(r), 0, 4) = RequestSize(r)
                      /\ DeserializeRequest(SerializeRequest(r)) = Read(RequestSize(r), r)
                      /\ CopyRequest(r) = r
    OBVIOUS
  <1>1. CopiedArguments \subseteq Arguments
    BY DEF CopiedArguments, Arguments, Copied
  <1>2. r \in [id : {n \in Nat : Fits(n, 4)}, name : ShortNames, arguments : Seq(CopiedArguments)]
    BY DEF Composed
  <1>3. r.arguments \in Seq(Arguments)
    BY <1>1, <1>2, SeqMonotonic
  <1>4. r \in [id : {n \in Nat : Fits(n, 4)}, name : ShortNames, arguments : Seq(Arguments)]
    BY <1>2, <1>3
  <1>5. r \in Requests
    BY <1>4 DEF Requests
  <1>6. r.id \in Nat /\ r.name \in Bytes
    BY <1>2 DEF ShortNames
  <1>7. /\ SerializeRequest(r) \in Bytes
        /\ Len(SerializeRequest(r)) = RequestSize(r) /\ Len(SerializeRequest(r)) >= 10
        /\ Field(SerializeRequest(r), 0, 4) = RequestSize(r)
    BY <1>3, <1>6, RequestFits
  <1>8. CopyRequest(r) = r
    BY CopyIsTheSame
  <1> QED
    BY <1>5, <1>7, <1>8, RequestReadAgain DEF Bytes
=============================================================================
