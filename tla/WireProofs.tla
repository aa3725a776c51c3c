----------------------------- MODULE WireProofs -----------------------------
(***************************************************************************)
(* Proofs about module Wire.  What the methods of Request compute is       *)
(* proved in module CodecProofs, for all requests that are composed of     *)
(* values with their methods.  It is shown first that every draft and      *)
(* every queued request of Wire is one (OnlyComposed), which gives         *)
(* BufferFits and RoundTrip.  A request then crosses the two buffers and   *)
(* the socket as it was, for every size of it and of the blocks, however   *)
(* much send() and recv() really do, and wherever the sessions before it   *)
(* ended.                                                                  *)
(***************************************************************************)
EXTENDS Wire, CodecProofs

-----------------------------------------------------------------------------
(* The inductive invariant *)

IsSeq(s) == s \in Seq(Range(s))

Histories ==
    /\ IsSeq(send_queue) /\ IsSeq(pushed) /\ IsSeq(recv_queue) /\ IsSeq(handled)
    /\ begins \in Seq(Nat) /\ begins # <<>> /\ frames \in Nat
    /\ recv_buffer_offset \in Nat /\ (is_recv_length => recv_buffer_offset < 4)

\* The number of requests that were serialized in this session.
Popped == Len(begins) - 1

\* What the methods of Request promise for r.
Sound(r) ==
    /\ SerializeRequest(r) \in Seq(Byte8)
    /\ Len(SerializeRequest(r)) = RequestSize(r) /\ Len(SerializeRequest(r)) >= 10
    /\ Field(SerializeRequest(r), 0, 4) = RequestSize(r)
    /\ DeserializeRequest(SerializeRequest(r)) = Read(RequestSize(r), r)

\* What was serialized is sound, and begins where the one before it ends.
Framed ==
    /\ frames <= Popped /\ Popped <= Len(pushed)
    /\ \A k \in 1..Popped : Sound(pushed[k])
    /\ \A k \in 1..Popped : begins[k + 1] = begins[k] + RequestSize(pushed[k])
    /\ Increasing(begins)

\* What was not serialized is in the queue, for as long as it is sent at all.
SenderHolds ==
    /\ sender => send_queue = SubSeq(pushed, Len(begins), Len(pushed))
    /\ ~sender => send_buffer = <<>>

\* The receiving end is before a length, or within the next request.
ReceiverHolds ==
    /\ is_recv_length => recv_buffer = <<>> /\ recv_buffer_offset = 0
    /\ ~is_recv_length =>
           /\ receiver /\ frames < Popped
           /\ recv_buffer_offset = Len(recv_buffer) /\ Len(recv_buffer) >= 4
           /\ Field(recv_buffer_length, 0, 4) = RequestSize(pushed[frames + 1])
           /\ Len(recv_buffer) < RequestSize(pushed[frames + 1])
    /\ ~receiver => stream = <<>> /\ is_recv_length

\* The pipe holds the next requests one after the other, the last of them cut
\* off where the sending end was torn down.
InPipe(pipe) ==
    /\ Len(pipe) <= Start(Len(begins))
    /\ sender => Len(pipe) = Start(Len(begins))
    /\ \A k \in (frames + 1)..Popped : \A j \in 1..RequestSize(pushed[k]) :
           Start(k) + j <= Len(pipe) => pipe[Start(k) + j] = SerializeRequest(pushed[k])[j]

SessionInv == Framed /\ SenderHolds /\ ReceiverHolds /\ (receiver => InPipe(Pipe)) /\ PushedArrives

WireInv == TypeOK /\ Histories /\ SessionInv

-----------------------------------------------------------------------------
(* Buffers *)

\* A number has the digits it is made of.
LEMMA Digits ==
    ASSUME NEW a \in Byte8, NEW b \in Byte8, NEW c \in Byte8, NEW d \in Byte8, NEW n,
           n = a + 256 * b + 65536 * c + 16777216 * d
    PROVE  /\ n \in Nat
           /\ Byte(n, 0) = a /\ Byte(n, 1) = b /\ Byte(n, 2) = c /\ Byte(n, 3) = d
  <1> USE DEF Byte8
  <1>1. n \in Nat
    OBVIOUS
  <1>2. PICK x \in Nat, y \in Nat, z \in Nat :
            x = b + 256 * (c + 256 * d) /\ y = c + 256 * d /\ z = d
    OBVIOUS
  <1>3. x = n \div 256 /\ y = x \div 256 /\ z = y \div 256
    <2>1. n = a + 256 * x /\ x = b + 256 * y /\ y = c + 256 * z
      BY <1>2
    <2> QED
      BY <2>1
  <1>4. Shifted(n, 0) = n /\ Shifted(n, 1) = x /\ Shifted(n, 2) = y /\ Shifted(n, 3) = z
    <2>1. n \in Int /\ 0 + 1 = 1 /\ 1 + 1 = 2 /\ 2 + 1 = 3
      BY <1>1
    <2>2. Shifted(n, 0) = n /\ \A k \in Nat : Shifted(n, k + 1) = Shifted(n, k) \div 256
      BY <2>1, ShiftedSteps
    <2>3. Shifted(n, 1) = x
      <3>1. Shifted(n, 0 + 1) = Shifted(n, 0) \div 256
        BY <2>2
      <3> QED
        BY <1>3, <2>1, <2>2, <3>1
    <2>4. Shifted(n, 2) = y
      <3>1. Shifted(n, 1 + 1) = Shifted(n, 1) \div 256
        BY <2>2
      <3> QED
        BY <1>3, <2>1, <2>3, <3>1
    <2>5. Shifted(n, 3) = z
      <3>1. Shifted(n, 2 + 1) = Shifted(n, 2) \div 256
        BY <2>2
      <3> QED
        BY <1>3, <2>1, <2>4, <3>1
    <2> QED
      BY <2>2, <2>3, <2>4, <2>5
  <1>5. n % 256 = a /\ x % 256 = b /\ y % 256 = c /\ z % 256 = d
    <2>1. \A v \in 0..255, h \in Nat : (v + 256 * h) % 256 = v
      OBVIOUS
    <2>2. n = a + 256 * x /\ x = b + 256 * y /\ y = c + 256 * z /\ z = d + 256 * 0
      BY <1>2
    <2> QED
      BY <2>1, <2>2
  <1> QED
    BY <1>1, <1>4, <1>5 DEF Byte

\* Writing the number that four bytes stand for gives the four bytes.
LEMMA LeOfField ==
    ASSUME NEW data \in Seq(Byte8), Len(data) = 4
    PROVE  Field(data, 0, 4) \in Nat /\ Le(Field(data, 0, 4), 4) = data
  <1> DEFINE n == Field(data, 0, 4)
  <1>1. data[1] \in Byte8 /\ data[2] \in Byte8 /\ data[3] \in Byte8 /\ data[4] \in Byte8
    BY ElementOfSeq, SMTT(30)
  <1>2. n = data[1] + 256 * data[2] + 65536 * data[3] + 16777216 * data[4]
    BY <1>1 DEF Field, Byte8
  <1>3. n \in Nat /\ Byte(n, 0) = data[1] /\ Byte(n, 1) = data[2]
                  /\ Byte(n, 2) = data[3] /\ Byte(n, 3) = data[4]
    BY <1>1, <1>2, Digits
  <1>4. Le(n, 4) = [i \in 1..4 |-> data[i]]
    BY <1>3 DEF Le
  <1>5. data = [i \in 1..4 |-> data[i]]
    BY DEF Byte8
  <1> QED
    BY <1>3, <1>4, <1>5

\* The four bytes of a length.
LEMMA FourOfLe == \A n \in Nat : Le(n, 4) \in Seq(Byte8) /\ Len(Le(n, 4)) = 4
  <1>1. \A n \in Nat : n \in Int
    OBVIOUS
  <1> QED
    BY <1>1, LeType

\* A buffer is what was sent of it and the rest.
LEMMA Rest ==
    ASSUME NEW S, NEW s \in Seq(S), NEW n \in 0..Len(s)
    PROVE  /\ SubSeq(s, 1, n) \in Seq(S) /\ Len(SubSeq(s, 1, n)) = n
           /\ \A i \in 1..n : SubSeq(s, 1, n)[i] = s[i]
           /\ After(s, n, Len(s)) \in Seq(S) /\ Len(After(s, n, Len(s))) = Len(s) - n
           /\ \A i \in 1..(Len(s) - n) : After(s, n, Len(s))[i] = s[n + i]
  <1>1. After(s, n, Len(s)) = SubSeq(s, n + 1, Len(s))
    BY DEF After, Smaller
  <1>2. SubSeq(s, 1, n) \in Seq(S) /\ Len(SubSeq(s, 1, n)) = n
    OBVIOUS
  <1>3. \A i \in 1..n : SubSeq(s, 1, n)[i] = s[i]
    OBVIOUS
  <1>4. SubSeq(s, n + 1, Len(s)) \in Seq(S) /\ Len(SubSeq(s, n + 1, Len(s))) = Len(s) - n
    OBVIOUS
  <1>5. \A i \in 1..(Len(s) - n) : SubSeq(s, n + 1, Len(s))[i] = s[n + i]
    OBVIOUS
  <1> QED
    BY <1>1, <1>2, <1>3, <1>4, <1>5

\* Cutting off the first n elements and putting them back.
LEMMA CutAndJoin ==
    ASSUME NEW S, NEW s \in Seq(S), NEW n \in 0..Len(s)
    PROVE  SubSeq(s, 1, n) \o After(s, n, Len(s)) = s
  <1>1. After(s, n, Len(s)) = SubSeq(s, n + 1, Len(s))
    BY DEF After, Smaller
  <1>2. SubSeq(s, 1, n) \o SubSeq(s, n + 1, Len(s)) = SubSeq(s, 1, Len(s))
    <2>1. 1 \in 1..(Len(s) + 1) /\ n \in (1 - 1)..Len(s) /\ Len(s) \in n..Len(s)
      OBVIOUS
    <2> QED
      BY <2>1, ConcatAdjacentSubSeq
  <1> QED
    BY <1>1, <1>2, SubSeqFull

\* The kernel takes no more than it is offered.
LEMMA TakenBounds == ASSUME NEW m \in Nat, NEW n \in Taken(m) PROVE n \in 0..m
  BY ShortAssumption DEF Taken

-----------------------------------------------------------------------------
(* The pipe *)

Offered(buffer, offset) == After(buffer, offset, Len(buffer))

\* One call of send() moves bytes from the buffer to the socket.
LEMMA SendMoves ==
    ASSUME TypeOK, NEW buffer \in Seq(Byte8), NEW offset \in 0..Len(buffer), SendBlock(buffer, offset)
    PROVE  /\ stream' \in Seq(Byte8) /\ send_buffer' \in Seq(Byte8)
           /\ send_buffer_offset' \in 0..Len(send_buffer')
           /\ stream' \o Offered(send_buffer', send_buffer_offset') = stream \o Offered(buffer, offset)
  <1> DEFINE left == Len(buffer) - offset
             rest == Offered(buffer, offset)
  <1>1. PICK n \in Taken(Smaller(left, send_block_size)) :
          /\ stream' = stream \o Block(buffer, offset, n)
          /\ IF n = left THEN DeleteSendBuffer
                         ELSE send_buffer' = buffer /\ send_buffer_offset' = offset + n
    BY DEF SendBlock
  <1>2. n \in 0..left
    <2>1. Smaller(left, send_block_size) \in 0..left
      BY DEF Smaller, TypeOK
    <2> QED
      BY <1>1, <2>1, TakenBounds
  <1>3. rest \in Seq(Byte8) /\ Len(rest) = left /\ \A i \in 1..left : rest[i] = buffer[offset + i]
    BY Rest DEF Offered
  <1> HIDE DEF rest
  <1>4. Block(buffer, offset, n) = SubSeq(rest, 1, n)
    <2>1. \A i \in (offset + 1)..(offset + n) : buffer[i] \in Byte8
      BY <1>2, ElementOfSeq
    <2>2. /\ Block(buffer, offset, n) \in Seq(Byte8) /\ Len(Block(buffer, offset, n)) = n
          /\ \A i \in 1..n : Block(buffer, offset, n)[i] = buffer[offset + i]
      BY <1>2, <2>1, SubSeqProperties DEF Block
    <2>3. /\ SubSeq(rest, 1, n) \in Seq(Byte8) /\ Len(SubSeq(rest, 1, n)) = n
          /\ \A i \in 1..n : SubSeq(rest, 1, n)[i] = rest[i]
      BY <1>2, <1>3, Rest
    <2>4. \A i \in 1..n : rest[i] = buffer[offset + i]
      BY <1>2, <1>3, SMTT(30)
    <2> QED
      BY <2>2, <2>3, <2>4, SeqEqual
  <1>5. After(rest, n, Len(rest)) = Offered(send_buffer', send_buffer_offset')
    <2>1. CASE n = left
      <3>1. send_buffer' = <<>> /\ send_buffer_offset' = 0
        BY <1>1, <2>1 DEF DeleteSendBuffer
      <3> QED
        BY <2>1, <3>1, <1>3 DEF After, Offered, Smaller
    <2>2. CASE n # left
      <3>1. send_buffer' = buffer /\ send_buffer_offset' = offset + n
        BY <1>1, <2>2
      <3> DEFINE more == After(buffer, offset + n, Len(buffer))
      <3>2. offset + n \in 0..Len(buffer) /\ Len(buffer) - (offset + n) = left - n
        BY <1>2
      <3>3. more \in Seq(Byte8) /\ Len(more) = left - n
            /\ \A i \in 1..(Len(buffer) - (offset + n)) : more[i] = buffer[(offset + n) + i]
        BY <3>2, Rest
      <3>4. After(rest, n, Len(rest)) \in Seq(Byte8) /\ Len(After(rest, n, Len(rest))) = Len(rest) - n
            /\ \A i \in 1..(Len(rest) - n) : After(rest, n, Len(rest))[i] = rest[n + i]
        <4>1. n \in 0..Len(rest)
          BY <1>2, <1>3
        <4> QED
          BY <1>3, <4>1, Rest, Zenon
      <3>5. ASSUME NEW i \in 1..(left - n)
            PROVE  After(rest, n, Len(rest))[i] = more[i]
        <4>1. n + i \in 1..left /\ offset + (n + i) = (offset + n) + i
          BY <1>2
        <4>2. rest[n + i] = buffer[offset + (n + i)]
          BY <1>3, <4>1
        <4> QED
          BY <1>3, <3>2, <3>3, <3>4, <4>1, <4>2
      <3>6. After(rest, n, Len(rest)) = more
        BY <1>3, <3>3, <3>4, <3>5, SeqEqual
      <3> QED
        BY <3>1, <3>6 DEF Offered
    <2> QED
      BY <2>1, <2>2
  <1>6. stream' \o After(rest, n, Len(rest)) = stream \o rest
    <2> DEFINE one == SubSeq(rest, 1, n)
               two == After(rest, n, Len(rest))
    <2>1. one \in Seq(Byte8) /\ two \in Seq(Byte8) /\ stream \in Seq(Byte8)
      BY <1>2, <1>3, Rest DEF TypeOK
    <2>2. one \o two = rest
      BY <1>2, <1>3, CutAndJoin
    <2>3. stream' = stream \o one
      BY <1>1, <1>4
    <2> HIDE DEF one, two
    <2>4. (stream \o one) \o two = stream \o (one \o two)
      BY <2>1, ConcatAssociative, SMTT(30)
    <2> QED
      BY <2>2, <2>3, <2>4 DEF two
  <1>7. stream' \in Seq(Byte8)
    BY <1>1, <1>2, <1>3, <1>4, Rest, SMTT(30) DEF TypeOK
  <1>8. send_buffer' \in Seq(Byte8) /\ send_buffer_offset' \in 0..Len(send_buffer')
    <2>1. CASE n = left
      BY <1>1, <2>1 DEF DeleteSendBuffer
    <2>2. CASE n # left
      <3>1. offset + n \in 0..Len(buffer)
        BY <1>2
      <3> QED
        BY <1>1, <2>2, <3>1
    <2> QED
      BY <2>1, <2>2
  <1> QED
    BY <1>5, <1>6, <1>7, <1>8 DEF rest

-----------------------------------------------------------------------------
(* Types *)

\* A queue to which a request is added.
LEMMA AppendIsSeq ==
    ASSUME NEW s, IsSeq(s), NEW e
    PROVE  /\ IsSeq(Append(s, e)) /\ Len(s) \in Nat /\ Len(Append(s, e)) = Len(s) + 1
           /\ \A i \in 1..Len(s) : Append(s, e)[i] = s[i]
           /\ Append(s, e)[Len(s) + 1] = e
  <1> DEFINE S == Range(s) \cup {e}
  <1>1. s \in Seq(S)
    BY SeqMonotonic DEF IsSeq
  <1>2. Append(s, e) \in Seq(S)
    BY <1>1
  <1>3. Append(s, e) \in Seq(Range(Append(s, e)))
    BY <1>2, SeqOfRange
  <1> QED
    BY <1>1, <1>3, AppendProperties DEF IsSeq

\* A queue from which the first request is taken.
LEMMA TailIsSeq ==
    ASSUME NEW s, IsSeq(s), s # <<>>
    PROVE  /\ IsSeq(Tail(s)) /\ Head(s) \in Range(s)
           /\ Len(s) \in Nat \ {0} /\ Len(Tail(s)) = Len(s) - 1
           /\ Head(s) = s[1] /\ \A i \in 1..(Len(s) - 1) : Tail(s)[i] = s[i + 1]
  <1>1. s \in Seq(Range(s))
    BY DEF IsSeq
  <1>2. Tail(s) \in Seq(Range(s)) /\ Head(s) \in Range(s)
    BY <1>1, HeadTailProperties
  <1>3. Tail(s) \in Seq(Range(Tail(s)))
    BY <1>2, SeqOfRange
  <1>4. Len(s) \in Nat \ {0} /\ Len(Tail(s)) = Len(s) - 1
    BY <1>1, HeadTailProperties, EmptySeq
  <1>5. Head(s) = s[1] /\ \A i \in 1..(Len(s) - 1) : Tail(s)[i] = s[i + 1]
    BY <1>1, <1>4, HeadTailProperties
  <1> QED
    BY <1>2, <1>3, <1>4, <1>5 DEF IsSeq

\* The empty queue.
LEMMA EmptyIsSeq == IsSeq(<<>>)
  BY EmptySeq DEF IsSeq

\* What the methods promise holds of the first request in the queue.
LEMMA HeadFits ==
    ASSUME BufferFits, IsSeq(send_queue), send_queue # <<>>
    PROVE  LET r == Head(send_queue)
           IN  /\ SerializeRequest(r) \in Seq(Byte8)
               /\ Len(SerializeRequest(r)) = RequestSize(r) /\ Len(SerializeRequest(r)) >= 10
               /\ Field(SerializeRequest(r), 0, 4) = RequestSize(r) /\ RequestSize(r) \in Nat
  <1>1. Head(send_queue) \in Live
    BY TailIsSeq DEF Live
  <1> QED
    BY <1>1 DEF BufferFits

\* Send.
LEMMA SendTypes ==
    ASSUME TypeOK, Histories, BufferFits, Send
    PROVE  TypeOK' /\ Histories'
  <1>1. /\ send_buffer' \in Seq(Byte8) /\ stream' \in Seq(Byte8)
        /\ send_buffer_offset' \in 0..Len(send_buffer')
        /\ IsSeq(send_queue)' /\ begins' \in Seq(Nat) /\ begins' # <<>>
    <2>1. CASE MustPop /\ send_queue' = Tail(send_queue)
               /\ begins' = Append(begins, begins[Len(begins)] + RequestSize(Head(send_queue)))
               /\ SendBlock(SerializeRequest(Head(send_queue)), 0)
      <3>1. send_queue # <<>> /\ IsSeq(send_queue)
        BY <2>1 DEF MustPop, Histories
      <3>2. SerializeRequest(Head(send_queue)) \in Seq(Byte8) /\ RequestSize(Head(send_queue)) \in Nat
        BY <3>1, HeadFits
      <3>3. 0 \in 0..Len(SerializeRequest(Head(send_queue)))
        BY <3>2
      <3>4. begins[Len(begins)] \in Nat /\ begins \in Seq(Nat)
        BY ElementOfSeq, EmptySeq DEF Histories
      <3>5. begins' \in Seq(Nat) /\ begins' # <<>>
        BY <2>1, <3>2, <3>4, AppendProperties, SMTT(30)
      <3> QED
        BY <2>1, <3>1, <3>2, <3>3, <3>5, SendMoves, TailIsSeq
    <2>2. CASE SendBlock(send_buffer, send_buffer_offset) /\ UNCHANGED <<send_queue, begins>>
      BY <2>2, SendMoves DEF TypeOK, Histories, IsSeq
    <2> QED
      BY <2>1, <2>2 DEF Send
  <1>2. UNCHANGED <<pushed, recvVars, settingVars>>
    BY DEF Send
  <1> QED
    BY <1>1, <1>2 DEF TypeOK, Histories, IsSeq, recvVars, settingVars, sizeVars

\* Four bytes are a buffer.
LEMMA FourBytes == ASSUME NEW f \in [1..4 -> Byte8] PROVE f \in Seq(Byte8) /\ Len(f) = 4
  <1>1. f \in Seq(Byte8)
    <2>1. 4 \in Nat
      OBVIOUS
    <2> QED
      BY <2>1, SeqDef
  <1>2. 1..Len(f) = 1..4 /\ Len(f) \in Nat
    BY <1>1, LenProperties
  <1> QED
    BY <1>1, <1>2

\* LengthWith replaces the first of the four bytes.
LEMMA LengthType ==
    ASSUME TypeOK, NEW n \in 0..Len(stream)
    PROVE  /\ LengthWith(SubSeq(stream, 1, n)) \in Seq(Byte8)
           /\ Len(LengthWith(SubSeq(stream, 1, n))) = 4
           /\ Field(LengthWith(SubSeq(stream, 1, n)), 0, 4) \in Nat
  <1> DEFINE piece == SubSeq(stream, 1, n)
             length == LengthWith(piece)
  <1>1. piece \in Seq(Byte8)
    BY Rest DEF TypeOK
  <1> HIDE DEF piece
  <1>2. \A i \in 1..4 : (IF i <= Len(piece) THEN piece[i] ELSE recv_buffer_length[i]) \in Byte8
    <2> TAKE i \in 1..4
    <2>1. CASE i <= Len(piece)
      BY <1>1, <2>1, ElementOfSeq
    <2>2. CASE ~(i <= Len(piece))
      <3>1. recv_buffer_length \in Seq(Byte8) /\ i \in 1..Len(recv_buffer_length)
        BY DEF TypeOK
      <3> QED
        BY <2>2, <3>1, ElementOfSeq
    <2> QED
      BY <2>1, <2>2
  <1>3. length \in [1..4 -> Byte8]
    BY <1>2 DEF LengthWith
  <1> HIDE DEF length
  <1>4. length \in Seq(Byte8) /\ Len(length) = 4
    BY <1>3, FourBytes
  <1>5. Field(length, 0, 4) \in Nat
    BY <1>4, LeOfField
  <1> QED
    BY <1>4, <1>5 DEF piece, length

\* ReceiveLength, whether or not the four bytes arrive together.
LEMMA ReceiveLengthTypes ==
    ASSUME TypeOK, Histories, ReceiveLength
    PROVE  TypeOK' /\ Histories'
  <1> DEFINE length(n) == LengthWith(SubSeq(stream, 1, n))
  <1>1. PICK n \in IF Split THEN Taken(LengthBytes) ELSE {4} \cap {LengthBytes} :
          /\ recv_buffer_offset' = recv_buffer_offset + n
          /\ recv_buffer_length' = length(n)
          /\ stream' = After(stream, n, Len(stream))
          /\ \/ recv_buffer_offset + n < 4 /\ UNCHANGED <<is_recv_length, recv_buffer>>
             \/ is_recv_length' = FALSE /\ recv_buffer' = Le(Field(length(n), 0, 4), 4)
    BY DEF ReceiveLength
  <1>2. n \in 0..Len(stream)
    <2>1. 4 - recv_buffer_offset \in 1..4 /\ Len(stream) \in Nat
      BY DEF ReceiveLength, Histories, TypeOK
    <2>2. LengthBytes \in 0..Len(stream)
      BY <2>1 DEF LengthBytes, Smaller
    <2> QED
      BY <1>1, <2>2, TakenBounds
  <1>3. length(n) \in Seq(Byte8) /\ Len(length(n)) = 4 /\ Field(length(n), 0, 4) \in Nat
    BY <1>2, LengthType
  <1> HIDE DEF length
  <1>4. stream' \in Seq(Byte8)
    BY <1>1, <1>2, Rest DEF TypeOK
  <1>5. recv_buffer' \in Seq(Byte8)
    BY <1>1, <1>3, FourOfLe DEF TypeOK
  <1>6. recv_buffer_offset' \in Nat /\ (is_recv_length' => recv_buffer_offset' < 4)
    BY <1>1, <1>2 DEF Histories
  <1>7. UNCHANGED <<sendVars, recv_queue, frames, handled, settingVars>>
    BY DEF ReceiveLength
  <1> QED
    BY <1>1, <1>3, <1>4, <1>5, <1>6, <1>7
    DEF TypeOK, Histories, IsSeq, sendVars, settingVars, sizeVars

\* What recv() takes of the body is there and belongs to this request.
LEMMA BodyBounds ==
    ASSUME TypeOK, Histories, recv_buffer_offset \in Nat,
           NEW left, left = Field(recv_buffer_length, 0, 4) - recv_buffer_offset, left > 0,
           NEW n \in Taken(Smaller(Smaller(left, recv_block_size), Len(stream)))
    PROVE  left \in Nat /\ n \in 0..left /\ n \in 0..Len(stream)
  <1>1. Field(recv_buffer_length, 0, 4) \in Nat
    BY LeOfField DEF TypeOK
  <1>2. left \in Nat /\ Len(stream) \in Nat /\ recv_block_size \in Nat
    BY <1>1 DEF TypeOK
  <1>3. Smaller(Smaller(left, recv_block_size), Len(stream)) \in Nat
    BY <1>2 DEF Smaller
  <1>4. /\ Smaller(Smaller(left, recv_block_size), Len(stream)) <= left
        /\ Smaller(Smaller(left, recv_block_size), Len(stream)) <= Len(stream)
    BY <1>2 DEF Smaller
  <1> QED
    BY <1>2, <1>3, <1>4, TakenBounds

\* ReceiveBody.
LEMMA ReceiveBodyTypes ==
    ASSUME TypeOK, Histories, ReceiveBody
    PROVE  TypeOK' /\ Histories'
  <1> DEFINE left == Field(recv_buffer_length, 0, 4) - recv_buffer_offset
             body(n) == recv_buffer \o SubSeq(stream, 1, n)
  <1>1. PICK n \in Taken(Smaller(Smaller(left, recv_block_size), Len(stream))) :
          /\ stream' = After(stream, n, Len(stream))
          /\ \/ /\ Delivered(DeserializeRequest(body(n))) /\ frames' = frames + 1
                /\ DeleteRecvBuffer
             \/ /\ recv_buffer' = body(n) /\ recv_buffer_offset' = recv_buffer_offset + n
                /\ UNCHANGED <<recv_queue, frames, handled, recv_buffer_length, is_recv_length>>
    BY DEF ReceiveBody
  <1>2. left > 0 /\ ~is_recv_length
    BY DEF ReceiveBody
  <1>3. n \in Nat /\ n \in 0..Len(stream)
    BY <1>1, <1>2, BodyBounds DEF Histories
  <1>4. stream' \in Seq(Byte8) /\ body(n) \in Seq(Byte8)
    BY <1>1, <1>3, Rest DEF TypeOK
  <1> HIDE DEF body
  <1>5. IsSeq(recv_queue)' /\ IsSeq(handled)'
    <2> DEFINE r == DeserializeRequest(body(n)).what
    <2>1. handled' \in {handled, Append(handled, r)} /\ recv_queue' \in {recv_queue, Append(recv_queue, r)}
      BY <1>1 DEF Delivered
    <2>2. IsSeq(handled) /\ IsSeq(recv_queue)
      BY DEF Histories
    <2>3. IsSeq(Append(handled, r)) /\ IsSeq(Append(recv_queue, r))
      BY <2>2, AppendIsSeq
    <2> HIDE DEF r
    <2>4. IsSeq(handled') /\ IsSeq(recv_queue')
      BY <2>1, <2>2, <2>3
    <2> QED
      BY <2>4 DEF IsSeq
  <1>6. /\ recv_buffer' \in Seq(Byte8) /\ recv_buffer_length' \in Seq(Byte8)
        /\ Len(recv_buffer_length') = 4 /\ frames' \in Nat
        /\ recv_buffer_offset' \in Nat /\ (is_recv_length' => recv_buffer_offset' < 4)
    <2>1. CASE DeleteRecvBuffer /\ frames' = frames + 1
      BY <2>1, FourOfLe DEF DeleteRecvBuffer, Histories
    <2>2. CASE /\ recv_buffer' = body(n) /\ recv_buffer_offset' = recv_buffer_offset + n
               /\ UNCHANGED <<recv_queue, frames, handled, recv_buffer_length, is_recv_length>>
      BY <1>2, <1>3, <1>4, <2>2 DEF TypeOK, Histories
    <2> QED
      BY <1>1, <2>1, <2>2
  <1>7. UNCHANGED <<sendVars, settingVars>>
    BY DEF ReceiveBody
  <1> QED
    BY <1>4, <1>5, <1>6, <1>7 DEF TypeOK, Histories, IsSeq, sendVars, settingVars, sizeVars

\* Push, by a thread or by the polling thread.
LEMMA PushTypes ==
    ASSUME TypeOK, Histories, NEW r, NEW s, pushed' = Append(pushed, r), send_queue' = Append(send_queue, s),
           UNCHANGED <<send_buffer, send_buffer_offset, begins, stream, recvVars, settingVars>>
    PROVE  TypeOK' /\ Histories'
  <1>1. IsSeq(Append(pushed, r)) /\ IsSeq(Append(send_queue, s))
    BY AppendIsSeq DEF Histories
  <1>2. IsSeq(pushed)' /\ IsSeq(send_queue)'
    BY <1>1 DEF IsSeq
  <1> QED
    BY <1>2 DEF TypeOK, Histories, IsSeq, recvVars, settingVars, sizeVars

\* The setters keep the sizes from becoming zero.
LEMMA SetterTypes ==
    ASSUME TypeOK, Setters
    PROVE  /\ send_block_size' \in Nat \ {0} /\ recv_block_size' \in Nat \ {0}
           /\ recv_buffer_max_length' \in Nat /\ recv_buffer_max_length' >= 10
  <1>1. CASE \E bs \in SendSizes : SetSendBlockSize(bs)
    BY <1>1, SizesAssumption DEF TypeOK, SetSendBlockSize
  <1>2. CASE \E bs \in RecvSizes : SetRecvBlockSize(bs)
    BY <1>2, SizesAssumption DEF TypeOK, SetRecvBlockSize
  <1>3. CASE \E size \in MaxSizes : SetMaxRequestSize(size)
    BY <1>3, SizesAssumption DEF TypeOK, SetMaxRequestSize
  <1>4. CASE UNCHANGED sizeVars
    BY <1>4 DEF TypeOK, sizeVars
  <1> QED
    BY <1>1, <1>2, <1>3, <1>4 DEF Setters, SetHandlerNamed, SetHandlerDefault

\* Everything a step of the two ends leaves behind has its type, as long as
\* Serialize does what is promised.
LEMMA TypesStep ==
    ASSUME TypeOK, Histories, BufferFits, [Next]_vars
    PROVE  TypeOK' /\ Histories'
  <1>1. ASSUME UNCHANGED <<sendVars, stream, recvVars>>,
               UNCHANGED sizeVars \/ Setters
        PROVE  TypeOK' /\ Histories'
    <2>1. /\ send_block_size' \in Nat \ {0} /\ recv_block_size' \in Nat \ {0}
          /\ recv_buffer_max_length' \in Nat /\ recv_buffer_max_length' >= 10
      BY <1>1, SetterTypes DEF TypeOK, sizeVars
    <2> QED
      BY <1>1, <2>1 DEF TypeOK, Histories, IsSeq, sendVars, recvVars
  <1>2. CASE \E name \in ArgNames, value \in Values : Compose(name, value)
    BY <1>1, <1>2 DEF Compose, settingVars
  <1>3. CASE PushCheck
    BY <1>1, <1>3 DEF PushCheck, settingVars
  <1>4. CASE PushKeepAlive
    BY <1>4, PushTypes DEF PushKeepAlive
  <1>5. CASE \E must_copy, change_request_id \in BOOLEAN : PushEnqueue(must_copy, change_request_id)
    BY <1>5, PushTypes DEF PushEnqueue
  <1>6. CASE Send
    BY <1>6, SendTypes
  <1>7. CASE Receive
    BY <1>7, ReceiveLengthTypes, ReceiveBodyTypes DEF Receive
  <1>8. CASE SenderTeardown
    <2>1. send_buffer' = <<>> /\ send_buffer_offset' = 0 /\ send_queue' = <<>>
      BY <1>8 DEF SenderTeardown, DeleteSendBuffer
    <2>2. IsSeq(send_queue)'
      BY <2>1, EmptyIsSeq DEF IsSeq
    <2>3. UNCHANGED <<pushed, begins, stream, recvVars, settingVars>>
      BY <1>8 DEF SenderTeardown
    <2> QED
      BY <2>1, <2>2, <2>3 DEF TypeOK, Histories, IsSeq, recvVars, settingVars, sizeVars
  <1>9. CASE ReceiverTeardown
    <2>1. /\ recv_buffer' = <<>> /\ recv_buffer_length' = Le(0, 4) /\ recv_buffer_offset' = 0
          /\ stream' = <<>>
      BY <1>9 DEF ReceiverTeardown, DeleteRecvBuffer
    <2>2. recv_buffer_length' \in Seq(Byte8) /\ Len(recv_buffer_length') = 4
      BY <2>1, FourOfLe
    <2>3. UNCHANGED <<sendVars, recv_queue, frames, handled, settingVars>>
      BY <1>9 DEF ReceiverTeardown
    <2> QED
      BY <2>1, <2>2, <2>3 DEF TypeOK, Histories, IsSeq, sendVars, settingVars, sizeVars
  <1>10. CASE Reconnect
    <2>1. /\ stream' = <<>> /\ recv_queue' = <<>> /\ handled' = <<>> /\ pushed' = send_queue
          /\ begins' = <<0>> /\ frames' = 0
      BY <1>10 DEF Reconnect
    <2>2. UNCHANGED <<send_queue, send_buffer, send_buffer_offset, is_recv_length,
                      recv_buffer_length, recv_buffer, recv_buffer_offset, settingVars>>
      BY <1>10 DEF Reconnect
    <2>3. IsSeq(recv_queue)' /\ IsSeq(handled)' /\ IsSeq(pushed)' /\ IsSeq(send_queue)'
      BY <2>1, <2>2, EmptyIsSeq DEF IsSeq, Histories
    <2>4. begins' \in Seq(Nat) /\ begins' # <<>>
      BY <2>1
    <2> QED
      BY <2>1, <2>2, <2>3, <2>4 DEF TypeOK, Histories, settingVars, sizeVars
  <1>11. CASE Setters
    BY <1>1, <1>11 DEF Setters
  <1>12. CASE UNCHANGED vars
    BY <1>1, <1>12 DEF vars, settingVars
  <1> QED
    BY <1>2, <1>3, <1>4, <1>5, <1>6, <1>7, <1>8, <1>9, <1>10, <1>11, <1>12 DEF Next

\* Two connections begin with empty buffers.
LEMMA TypesInit == Init => TypeOK /\ Histories
  <1> SUFFICES ASSUME Init PROVE TypeOK /\ Histories
    OBVIOUS
  <1>1. recv_buffer_length \in Seq(Byte8) /\ Len(recv_buffer_length) = 4
    BY FourOfLe DEF Init
  <1>2. IsSeq(send_queue) /\ IsSeq(pushed) /\ IsSeq(recv_queue) /\ IsSeq(handled)
    BY EmptyIsSeq DEF Init
  <1> QED
    BY <1>1, <1>2 DEF Init, TypeOK, Histories

-----------------------------------------------------------------------------
(* What is composed and queued *)

\* What Set composes, as long as four bytes can tell its size.
Sendable == {r \in Composed : Fits(RequestSize(r), 4)}

OnlyComposed ==
    /\ draft \in Sendable /\ send_queue \in Seq(Sendable)
    /\ free_request_id \in Nat /\ Fits(free_request_id, 4)

\* A request without arguments can be sent.
LEMMA NewIsSendable == \A name \in ShortNames : NewRequest(name) \in Sendable
  BY NewRequestFits DEF Sendable

\* The names that are used have short lengths.
LEMMA NamesAreShort == Names \cup ArgNames \subseteq ShortNames
  BY LengthsAssumption DEF ShortNames, Bytes

\* So does the name of a keep-alive.
LEMMA KeepAliveIsSendable == KeepAlive \in Sendable
  <1>1. << 95 >> \in Bytes /\ Len(<< 95 >>) = 1
    BY DEF Bytes, Byte8
  <1>2. Fits(1, 2)
    BY FitsTwoFour
  <1>3. << 95 >> \in ShortNames
    BY <1>1, <1>2 DEF ShortNames
  <1> QED
    BY <1>3, NewIsSendable DEF KeepAlive

\* A request with another id, of the same type.
LEMMA NumberedIsSendable ==
    \A r \in Sendable, id \in Nat : Fits(id, 4) =>
        [r EXCEPT !.id = id] \in Sendable /\ [r EXCEPT !.id = id].name = r.name
  BY SizeWithoutId DEF Sendable

\* PushEnqueue.
LEMMA EnqueueComposed ==
    ASSUME OnlyComposed, NEW must_copy \in BOOLEAN, NEW change_request_id \in BOOLEAN,
           PushEnqueue(must_copy, change_request_id)
    PROVE  OnlyComposed'
  <1>1. draft \in Sendable /\ draft \in Composed /\ free_request_id \in Nat /\ Fits(free_request_id, 4)
        /\ draft.id \in Nat /\ Fits(draft.id, 4) /\ draft.name \in ShortNames
    BY ComposedArguments DEF OnlyComposed, Sendable
  <1>2. PICK id \in Nat : id = (IF change_request_id THEN free_request_id ELSE draft.id) /\ Fits(id, 4)
    BY <1>1
  <1>3. PICK original \in Sendable : original = [draft EXCEPT !.id = id]
    BY <1>1, <1>2, NumberedIsSendable
  <1>4. original.id \in Nat /\ Fits(original.id, 4)
    BY ComposedArguments DEF Sendable
  <1>5. PICK copy \in Sendable : copy = [CopyRequest(draft) EXCEPT !.id = original.id]
    <2>1. CopyRequest(draft) = draft
      BY <1>1, CopyIsTheSame
    <2> QED
      BY <1>1, <1>4, <2>1, NumberedIsSendable
  <1>6. original = [draft EXCEPT !.id = IF change_request_id THEN free_request_id ELSE @]
    BY <1>2, <1>3
  <1>7. send_queue' = Append(send_queue, IF must_copy THEN copy ELSE original)
    BY <1>5, <1>6 DEF PushEnqueue
  <1>8. send_queue' \in Seq(Sendable)
    BY <1>7, AppendProperties DEF OnlyComposed
  <1>9. draft' \in Sendable
    BY <1>1, NewIsSendable DEF PushEnqueue
  <1>10. free_request_id' \in Nat /\ Fits(free_request_id', 4)
    <2>1. PICK data \in Bytes : data = Le(free_request_id + 2, 4) /\ Len(data) = 4
      <3>1. free_request_id + 2 \in Nat
        BY <1>1
      <3> QED
        BY <3>1, FourOfLe DEF Bytes
    <2>2. free_request_id' \in {Field(data, 0, 4), free_request_id}
      BY <2>1 DEF PushEnqueue
    <2> QED
      BY <1>1, <2>1, <2>2, FieldFits
  <1> QED
    BY <1>8, <1>9, <1>10 DEF OnlyComposed

\* Compose.
LEMMA ComposeComposed ==
    ASSUME OnlyComposed, NEW name \in ArgNames, NEW value \in Values, Compose(name, value)
    PROVE  OnlyComposed'
  <1>1. name \in ShortNames /\ value \in Given /\ draft \in Composed
    BY NamesAreShort, ValuesAssumption DEF Given, AllValues, OnlyComposed, Sendable
  <1>2. draft' = Set(draft, name, value) /\ Fits(RequestSize(draft'), 4)
    BY DEF Compose
  <1>3. draft' \in Composed
    BY <1>1, <1>2, SetKeeps
  <1>4. UNCHANGED <<send_queue, free_request_id>>
    BY DEF Compose, sendVars
  <1> QED
    BY <1>2, <1>3, <1>4 DEF OnlyComposed, Sendable

\* Every other step takes requests out of the queue, or adds a keep-alive.
LEMMA ComposedStep == OnlyComposed /\ [Next]_vars => OnlyComposed'
  <1> SUFFICES ASSUME OnlyComposed, [Next]_vars PROVE OnlyComposed'
    OBVIOUS
  <1>0. draft \in Sendable /\ send_queue \in Seq(Sendable)
        /\ free_request_id \in Nat /\ Fits(free_request_id, 4)
    BY DEF OnlyComposed
  <1>1. ASSUME UNCHANGED <<draft, send_queue, free_request_id>> PROVE OnlyComposed'
    BY <1>0, <1>1 DEF OnlyComposed
  <1>2. CASE \E name \in ArgNames, value \in Values : Compose(name, value)
    BY <1>2, ComposeComposed
  <1>3. CASE PushCheck
    BY <1>1, <1>3 DEF PushCheck, sendVars
  <1>4. CASE PushKeepAlive
    <2>1. send_queue' = Append(send_queue, KeepAlive) /\ UNCHANGED <<draft, free_request_id>>
      BY <1>4 DEF PushKeepAlive, draftVars
    <2>2. send_queue' \in Seq(Sendable)
      BY <1>0, <2>1, KeepAliveIsSendable, AppendProperties
    <2> QED
      BY <1>0, <2>1, <2>2 DEF OnlyComposed
  <1>5. CASE \E must_copy, change_request_id \in BOOLEAN : PushEnqueue(must_copy, change_request_id)
    BY <1>5, EnqueueComposed
  <1>6. CASE Send
    <2>1. UNCHANGED <<draft, free_request_id>>
      BY <1>6 DEF Send, draftVars
    <2>2. send_queue' = send_queue \/ (send_queue # <<>> /\ send_queue' = Tail(send_queue))
      BY <1>6 DEF Send, MustPop
    <2>3. send_queue' \in Seq(Sendable)
      BY <1>0, <2>2, HeadTailProperties
    <2> QED
      BY <1>0, <2>1, <2>3 DEF OnlyComposed
  <1>7. CASE Receive
    BY <1>1, <1>7 DEF Receive, ReceiveLength, ReceiveBody, draftVars, sendVars
  <1>8. CASE SenderTeardown
    <2>1. send_queue' = <<>> /\ UNCHANGED <<draft, free_request_id>>
      BY <1>8 DEF SenderTeardown, draftVars
    <2>2. send_queue' \in Seq(Sendable)
      BY <2>1
    <2> QED
      BY <1>0, <2>1, <2>2 DEF OnlyComposed
  <1>9. CASE ReceiverTeardown
    BY <1>1, <1>9 DEF ReceiverTeardown, draftVars, sendVars
  <1>10. CASE Reconnect
    <2>1. free_request_id' = 2 /\ UNCHANGED <<draft, send_queue>>
      BY <1>10 DEF Reconnect, draftVars
    <2>2. Fits(2, 4)
      BY FitsTwoFour
    <2> QED
      BY <1>0, <2>1, <2>2 DEF OnlyComposed
  <1>11. CASE Setters
    BY <1>1, <1>11 DEF Setters, draftVars, sendVars
  <1>12. CASE UNCHANGED vars
    BY <1>1, <1>12 DEF vars, draftVars, sendVars
  <1> QED
    BY <1>2, <1>3, <1>4, <1>5, <1>6, <1>7, <1>8, <1>9, <1>10, <1>11, <1>12 DEF Next

\* Composing begins with a request without arguments.
LEMMA ComposedInit == Init => OnlyComposed
  <1> SUFFICES ASSUME Init PROVE OnlyComposed
    OBVIOUS
  <1>1. draft \in Sendable
    BY NewIsSendable, NamesAreShort DEF Init
  <1>2. Fits(1, 4)
    BY FitsTwoFour
  <1> QED
    BY <1>1, <1>2 DEF Init, OnlyComposed

\* The methods keep their promises for all of these.
LEMMA ComposedPromises == OnlyComposed => BufferFits /\ RoundTrip
  <1> SUFFICES ASSUME OnlyComposed PROVE BufferFits /\ RoundTrip
    OBVIOUS
  <1>1. Live \subseteq Sendable
    <2>1. Range(send_queue) \subseteq Sendable
      BY ElementOfSeq DEF OnlyComposed, Range
    <2> QED
      BY <2>1 DEF OnlyComposed, Live
  <1>2. \A r \in Live : r \in Composed /\ Fits(RequestSize(r), 4)
    BY <1>1 DEF Sendable
  <1>3. BufferFits
    BY <1>2, ComposedIsSound DEF BufferFits
  <1>4. RoundTrip
    BY <1>2, ComposedIsSound DEF RoundTrip
  <1> QED
    BY <1>3, <1>4

\* Serialize fills the buffer that GetSize allocated, no more and no less, for
\* every request that can be composed with Set, of any size that the four bytes
\* of its length can tell, with any values nested to any depth.
THEOREM BufferFitsAlways == Spec => []BufferFits
  BY ComposedInit, ComposedStep, ComposedPromises, PTL DEF Spec

\* Deserialize gives back every such request as it was, and Push makes copies
\* that are the same.
THEOREM RoundTripAlways == Spec => []RoundTrip
  BY ComposedInit, ComposedStep, ComposedPromises, PTL DEF Spec

-----------------------------------------------------------------------------
(* Types, always *)

\* Every byte that is buffered or in the socket is one, the offsets lie within
\* their buffers and no size becomes zero, however requests are cut and
\* whatever the setters are told.
THEOREM WireTypes == Spec => []TypeOK
  <1>1. TypeOK /\ Histories /\ BufferFits /\ [Next]_vars => (TypeOK /\ Histories)'
    BY TypesStep
  <1> QED
    BY <1>1, TypesInit, BufferFitsAlways, PTL DEF Spec

-----------------------------------------------------------------------------
(* What every step of the two ends keeps *)

wireVars == <<send_queue, send_buffer, send_buffer_offset, sender, stream, receiver, is_recv_length,
              recv_buffer_length, recv_buffer, recv_buffer_offset, recv_queue, pushed, begins, frames,
              handled>>

\* Composing a request, the check of Push and the setters touch none of this.
LEMMA Untouched == ASSUME SessionInv, UNCHANGED wireVars PROVE SessionInv'
  <1>1. Framed'
    BY DEF SessionInv, Framed, Popped, Increasing, wireVars
  <1>2. SenderHolds' /\ ReceiverHolds'
    BY DEF SessionInv, SenderHolds, ReceiverHolds, Popped, wireVars
  <1>3. Pipe' = Pipe
    BY DEF Pipe, wireVars
  <1>4. (receiver => InPipe(Pipe))'
    BY <1>3 DEF SessionInv, InPipe, Start, Popped, wireVars
  <1>5. PushedArrives'
    BY DEF SessionInv, PushedArrives, wireVars
  <1> QED
    BY <1>1, <1>2, <1>4, <1>5 DEF SessionInv

\* The pipe in two parts, the receive buffer and what recv() and send() will
\* still move.
Parts(rb, st, sb, offset, pipe) ==
    /\ Offered(sb, offset) \in Seq(Byte8)
    /\ pipe = rb \o (st \o Offered(sb, offset))
    /\ pipe \in Seq(Byte8)
    /\ Len(pipe) = Len(rb) + Len(st) + (Len(sb) - offset)
    /\ \A i \in 1..Len(rb) : pipe[i] = rb[i]
    /\ \A i \in 1..Len(st) : pipe[Len(rb) + i] = st[i]

\* The pipe consists of these two parts.
LEMMA PipeParts ==
    ASSUME NEW rb \in Seq(Byte8), NEW st \in Seq(Byte8),
           NEW sb \in Seq(Byte8), NEW offset \in 0..Len(sb),
           NEW pipe, pipe = rb \o st \o After(sb, offset, Len(sb))
    PROVE  Parts(rb, st, sb, offset, pipe)
  <1> DEFINE off == Offered(sb, offset)
  <1>1. off \in Seq(Byte8) /\ Len(off) = Len(sb) - offset
    BY Rest DEF Offered
  <1>2. rb \in Seq(Byte8) /\ st \in Seq(Byte8)
    OBVIOUS
  <1>3. pipe = (rb \o st) \o off
    BY DEF Offered
  <1> HIDE DEF off
  <1>4. rb \o st \in Seq(Byte8) /\ st \o off \in Seq(Byte8)
    BY <1>1, <1>2, ConcatProperties
  <1>5. pipe = rb \o (st \o off)
    BY <1>1, <1>2, <1>3, ConcatAssociative, SMTT(30)
  <1>6. pipe \in Seq(Byte8) /\ Len(pipe) = Len(rb) + Len(st) + Len(off)
    <2> DEFINE front == rb \o st
    <2>1. front \in Seq(Byte8) /\ Len(front) = Len(rb) + Len(st)
      BY <1>2, ConcatProperties
    <2>2. pipe = front \o off
      BY <1>3
    <2> HIDE DEF front
    <2>3. pipe \in Seq(Byte8) /\ Len(pipe) = Len(front) + Len(off)
      BY <1>1, <2>1, <2>2, ConcatProperties
    <2> QED
      BY <2>1, <2>3
  <1>7. \A i \in 1..Len(rb) : pipe[i] = rb[i]
    BY <1>2, <1>4, <1>5, ConcatProperties
  <1>8. ASSUME NEW i \in 1..Len(st)
        PROVE  pipe[Len(rb) + i] = st[i]
    <2>1. Len(rb) + i \in 1..(Len(rb) + Len(st)) /\ Len(rb) \in Nat
      BY <1>2
    <2>2. (rb \o st)[Len(rb) + i] = st[i]
      BY <1>2, <2>1, ConcatProperties
    <2>3. Len(rb \o st) = Len(rb) + Len(st)
      BY <1>2, ConcatProperties
    <2> QED
      BY <1>1, <1>3, <1>4, <2>1, <2>2, <2>3, ConcatProperties
  <1> QED
    BY <1>1, <1>5, <1>6, <1>7, <1>8 DEF off, Parts

\* A subsequence that reaches to the end grows with its sequence.
LEMMA AppendToEnd ==
    ASSUME NEW s, IsSeq(s), NEW e, NEW m \in 1..(Len(s) + 1)
    PROVE  Append(SubSeq(s, m, Len(s)), e) = SubSeq(Append(s, e), m, Len(Append(s, e)))
  <1> DEFINE S == Range(s) \cup {e}
             t == Append(s, e)
             a == SubSeq(s, m, Len(s))
             b == SubSeq(t, m, Len(t))
  <1>1. s \in Seq(S) /\ Len(s) \in Nat
    BY SeqMonotonic DEF IsSeq
  <1>2. t \in Seq(S) /\ Len(t) = Len(s) + 1 /\ \A i \in 1..Len(s) : t[i] = s[i]
    BY <1>1
  <1>3. t[Len(s) + 1] = e
    BY <1>1
  <1> HIDE DEF t
  <1>4. a \in Seq(S) /\ Len(a) = Len(s) - m + 1 /\ \A i \in 1..(Len(s) - m + 1) : a[i] = s[m + i - 1]
    BY <1>1, SubSeqProperties
  <1>5. b \in Seq(S) /\ Len(b) = Len(t) - m + 1 /\ \A i \in 1..(Len(t) - m + 1) : b[i] = t[m + i - 1]
    BY <1>1, <1>2, SubSeqProperties
  <1> HIDE DEF a, b, S
  <1>6. Append(a, e) \in Seq(S) /\ Len(Append(a, e)) = Len(b)
    <2>1. e \in S
      BY DEF S
    <2>2. Append(a, e) \in Seq(S) /\ Len(Append(a, e)) = Len(a) + 1
      BY <1>4, <2>1, AppendProperties
    <2> QED
      BY <1>1, <1>2, <1>4, <1>5, <2>2
  <1>7. ASSUME NEW i \in 1..Len(b)
        PROVE  Append(a, e)[i] = b[i]
    <2>1. CASE i <= Len(a)
      <3>1. Append(a, e)[i] = a[i] /\ a[i] = s[m + i - 1]
        BY <1>1, <1>4, <2>1
      <3>2. b[i] = t[m + i - 1] /\ m + i - 1 \in 1..Len(s)
        BY <1>1, <1>2, <1>4, <1>5, <2>1
      <3> QED
        BY <1>2, <3>1, <3>2
    <2>2. CASE i = Len(a) + 1
      <3>1. Append(a, e)[i] = e
        BY <1>4, <2>2
      <3>2. b[i] = t[m + i - 1] /\ m + i - 1 = Len(s) + 1
        BY <1>1, <1>2, <1>4, <1>5, <2>2, SMTT(30)
      <3> QED
        BY <1>3, <3>1, <3>2
    <2> QED
      BY <1>1, <1>2, <1>4, <1>5, <2>1, <2>2
  <1>8. Append(a, e) = b
    BY <1>5, <1>6, <1>7, SeqEqual
  <1> QED
    BY <1>8 DEF a, b, t

\* A request is added behind all that is on its way.
LEMMA PushKeeps ==
    ASSUME TypeOK, Histories, SessionInv, NEW r,
           pushed' = Append(pushed, r), send_queue' = Append(send_queue, r),
           UNCHANGED <<send_buffer, send_buffer_offset, begins, stream, recvVars, sender, receiver>>
    PROVE  SessionInv'
  <1>1. /\ Len(pushed) \in Nat /\ Len(pushed') = Len(pushed) + 1
        /\ \A k \in 1..Len(pushed) : pushed'[k] = pushed[k]
    BY AppendIsSeq DEF Histories
  <1>2. Popped \in Nat /\ Len(begins) = Popped + 1 /\ frames \in 0..Popped /\ Popped <= Len(pushed)
    BY DEF Histories, SessionInv, Framed, Popped
  <1>3. Popped' = Popped /\ frames' = frames /\ begins' = begins /\ Pipe' = Pipe
    BY DEF Popped, Pipe, recvVars
  <1>4. \A k \in 1..Popped : pushed'[k] = pushed[k]
    BY <1>1, <1>2
  <1>5. Framed'
    <2>1. frames' <= Popped' /\ Popped' <= Len(pushed')
      BY <1>1, <1>2, <1>3
    <2>2. \A k \in 1..Popped : Sound(pushed'[k])
      BY <1>4 DEF SessionInv, Framed
    <2>3. \A k \in 1..Popped : begins[k + 1] = begins[k] + RequestSize(pushed'[k])
      BY <1>4 DEF SessionInv, Framed
    <2>4. Increasing(begins)
      BY DEF SessionInv, Framed
    <2> QED
      BY <1>3, <2>1, <2>2, <2>3, <2>4 DEF Framed, Sound, Increasing
  <1>6. SenderHolds'
    <2>1. CASE sender
      <3>1. send_queue = SubSeq(pushed, Len(begins), Len(pushed))
        BY <2>1 DEF SessionInv, SenderHolds
      <3>2. send_queue' = SubSeq(pushed', Len(begins), Len(pushed'))
        BY <1>1, <1>2, <3>1, AppendToEnd, SMTT(30) DEF Histories
      <3> QED
        BY <1>3, <2>1, <3>2 DEF SenderHolds
    <2>2. CASE ~sender
      BY <2>2 DEF SessionInv, SenderHolds
    <2> QED
      BY <2>1, <2>2
  <1>7. ReceiverHolds'
    <2>1. frames < Popped => pushed'[frames + 1] = pushed[frames + 1]
      BY <1>2, <1>4
    <2> QED
      BY <1>3, <2>1 DEF SessionInv, ReceiverHolds, recvVars
  <1>8. (receiver => InPipe(Pipe))'
    <2>1. \A k : Start(k)' = Start(k)
      BY <1>3 DEF Start
    <2>2. \A k \in (frames + 1)..Popped : pushed'[k] = pushed[k]
      BY <1>2, <1>4
    <2> QED
      <3> SUFFICES ASSUME receiver
                   PROVE  InPipe(Pipe)'
        OBVIOUS
      <3>1. Len(Pipe) <= Start(Len(begins)) /\ (sender => Len(Pipe) = Start(Len(begins)))
        BY DEF SessionInv, InPipe
      <3>2. \A k \in (frames + 1)..Popped : \A j \in 1..RequestSize(pushed'[k]) :
               Start(k) + j <= Len(Pipe) => Pipe[Start(k) + j] = SerializeRequest(pushed'[k])[j]
        BY <2>2 DEF SessionInv, InPipe
      <3> QED
        BY <1>3, <2>1, <3>1, <3>2 DEF InPipe
  <1>9. PushedArrives'
    <2>1. \A k \in 1..frames : pushed'[k] = pushed[k]
      BY <1>2, <1>4
    <2>2. UNCHANGED <<recv_queue, handled, frames>>
      BY DEF recvVars
    <2>3. PICK q \in [DOMAIN recv_queue -> 1..frames], h \in [DOMAIN handled -> 1..frames] :
            /\ Increasing(q) /\ \A i \in DOMAIN q : recv_queue[i] = pushed[q[i]]
            /\ Increasing(h) /\ \A i \in DOMAIN h : handled[i] = pushed[h[i]]
            /\ Range(q) \cap Range(h) = {}
            /\ Range(q) \cup Range(h) = {k \in 1..frames : pushed[k].name # KeepAlive.name}
      BY DEF SessionInv, PushedArrives
    <2>4. /\ \A i \in DOMAIN q : recv_queue[i] = pushed'[q[i]]
          /\ \A i \in DOMAIN h : handled[i] = pushed'[h[i]]
      BY <2>1, <2>3
    <2>5. Range(q) \cup Range(h) = {k \in 1..frames : pushed'[k].name # KeepAlive.name}
      BY <2>1, <2>3
    <2> QED
      BY <2>2, <2>3, <2>4, <2>5 DEF PushedArrives, KeepAlive
  <1> QED
    BY <1>5, <1>6, <1>7, <1>8, <1>9 DEF SessionInv

\* Where the requests begin, as numbers.
LEMMA Begins ==
    ASSUME Histories, Framed
    PROVE  /\ Len(begins) \in Nat \ {0} /\ Popped = Len(begins) - 1 /\ frames + 1 \in 1..Len(begins)
           /\ \A k \in 1..Len(begins) : begins[k] \in Nat
           /\ \A i, j \in 1..Len(begins) : i < j => begins[i] < begins[j]
  <1>1. begins \in Seq(Nat) /\ begins # <<>>
    BY DEF Histories
  <1>2. Len(begins) \in Nat \ {0} /\ DOMAIN begins = 1..Len(begins)
    BY <1>1, EmptySeq, LenProperties
  <1>3. \A k \in 1..Len(begins) : begins[k] \in Nat
    BY <1>1, ElementOfSeq
  <1> QED
    <2>1. Popped = Len(begins) - 1
      BY DEF Popped
    <2>2. frames + 1 \in 1..Len(begins)
      BY <1>2, <2>1 DEF Framed, Histories
    <2>3. \A i, j \in 1..Len(begins) : i < j => begins[i] < begins[j]
      BY <1>2 DEF Framed, Increasing
    <2> QED
      BY <1>2, <1>3, <2>1, <2>2, <2>3

\* Nothing but the place of the bytes changes.
LEMMA PipeStays ==
    ASSUME SessionInv, Pipe' = Pipe, UNCHANGED <<begins, pushed, frames, sender>>
    PROVE  /\ Framed' /\ (receiver => InPipe(Pipe)')
           /\ UNCHANGED <<recv_queue, handled>> => PushedArrives'
  <1>1. \A k : Start(k)' = Start(k)
    BY DEF Start
  <1>2. Framed'
    BY DEF SessionInv, Framed, Popped, Increasing
  <1>3. receiver => InPipe(Pipe)'
    BY <1>1 DEF SessionInv, InPipe, Popped
  <1>4. UNCHANGED <<recv_queue, handled>> => PushedArrives'
    BY DEF SessionInv, PushedArrives
  <1> QED
    BY <1>2, <1>3, <1>4

\* The same of the pipe of a state,
LEMMA PipeNow ==
    ASSUME TypeOK
    PROVE  Parts(recv_buffer, stream, send_buffer, send_buffer_offset, Pipe)
  <1>1. /\ recv_buffer \in Seq(Byte8) /\ stream \in Seq(Byte8) /\ send_buffer \in Seq(Byte8)
        /\ send_buffer_offset \in 0..Len(send_buffer)
    BY DEF TypeOK
  <1>2. Pipe = recv_buffer \o stream \o After(send_buffer, send_buffer_offset, Len(send_buffer))
    BY DEF Pipe
  <1> QED
    BY <1>1, <1>2, PipeParts

\* and of the one after it.
LEMMA PipeNext ==
    ASSUME TypeOK'
    PROVE  Parts(recv_buffer', stream', send_buffer', send_buffer_offset', Pipe')
  <1>1. /\ recv_buffer' \in Seq(Byte8) /\ stream' \in Seq(Byte8) /\ send_buffer' \in Seq(Byte8)
        /\ send_buffer_offset' \in 0..Len(send_buffer')
    BY DEF TypeOK
  <1>2. Pipe' = recv_buffer' \o stream' \o After(send_buffer', send_buffer_offset', Len(send_buffer'))
    BY DEF Pipe
  <1> QED
    BY <1>1, <1>2, PipeParts

\* Send goes on with the request in its buffer.
LEMMA SendOnKeeps ==
    ASSUME TypeOK, TypeOK', SessionInv, sender, receiver, SendBlock(send_buffer, send_buffer_offset),
           UNCHANGED <<send_queue, begins, pushed, recvVars, sender, receiver>>
    PROVE  SessionInv'
  <1>1. stream' \o Offered(send_buffer', send_buffer_offset')
        = stream \o Offered(send_buffer, send_buffer_offset)
    BY SendMoves DEF TypeOK
  <1>2. Pipe' = Pipe
    BY <1>1, PipeNow, PipeNext DEF Parts, recvVars
  <1>3. SenderHolds'
    BY DEF SessionInv, SenderHolds
  <1>4. ReceiverHolds'
    BY DEF SessionInv, ReceiverHolds, Popped, recvVars
  <1> QED
    BY <1>2, <1>3, <1>4, PipeStays DEF SessionInv, recvVars

\* The request at the head of the queue is the next of those pushed.
LEMMA HeadIsNext ==
    ASSUME Histories, SessionInv, sender, send_queue # <<>>
    PROVE  /\ Len(begins) \in 1..Len(pushed) /\ Head(send_queue) = pushed[Len(begins)]
           /\ Tail(send_queue) = SubSeq(pushed, Len(begins) + 1, Len(pushed))
  <1>1. send_queue = SubSeq(pushed, Len(begins), Len(pushed))
    BY DEF SessionInv, SenderHolds
  <1>2. pushed \in Seq(Range(pushed)) /\ Len(begins) \in Nat \ {0}
    BY Begins DEF Histories, IsSeq, SessionInv
  <1>3. Len(begins) <= Len(pushed)
    <2>1. CASE Len(pushed) < Len(begins)
      <3>1. Len(pushed) \in Int /\ Len(begins) \in Int
        BY <1>2
      <3> QED
        BY <1>1, <2>1, <3>1, SubSeqEmpty
    <2> QED
      BY <1>2, <2>1
  <1>4. Len(begins) \in 1..Len(pushed) /\ Len(pushed) \in Len(begins)..Len(pushed)
    BY <1>2, <1>3
  <1> QED
    BY <1>1, <1>2, <1>4, HeadTailOfSubSeq

\* PopSendQueue: the bytes of one more request are in the pipe.
LEMMA PopPipe ==
    ASSUME TypeOK, TypeOK', Histories, BufferFits, MustPop, UNCHANGED recvVars,
           SendBlock(SerializeRequest(Head(send_queue)), 0)
    PROVE  Pipe' = Pipe \o SerializeRequest(Head(send_queue))
  <1> DEFINE data == SerializeRequest(Head(send_queue))
             off == Offered(send_buffer, send_buffer_offset)
  <1>1. data \in Seq(Byte8)
    BY HeadFits DEF MustPop, Histories
  <1>2. stream' \o Offered(send_buffer', send_buffer_offset') = stream \o Offered(data, 0)
    BY <1>1, SendMoves
  <1>3. Offered(data, 0) = data
    BY <1>1, SubSeqFull DEF Offered, After, Smaller
  <1>4. off = <<>>
    BY DEF MustPop, TypeOK, Offered, After, Smaller
  <1>5. Pipe' = recv_buffer \o (stream \o data)
    BY <1>2, <1>3, PipeNext DEF Parts, recvVars
  <1>6. stream \in Seq(Byte8) /\ recv_buffer \in Seq(Byte8)
    BY DEF TypeOK
  <1>7. stream \o off = stream
    BY <1>4, <1>6, ConcatEmptySeq
  <1>8. Pipe = recv_buffer \o stream
    BY <1>7, PipeNow DEF Parts
  <1> HIDE DEF data
  <1>9. (recv_buffer \o stream) \o data = recv_buffer \o (stream \o data)
    BY <1>1, <1>6, ConcatAssociative
  <1> QED
    BY <1>5, <1>8, <1>9 DEF data

\* With the request at the head of the queue, one more is framed and in the pipe.
LEMMA PopKeeps ==
    ASSUME TypeOK, TypeOK', Histories, SessionInv, BufferFits, RoundTrip,
           sender, receiver, MustPop, send_queue' = Tail(send_queue),
           begins' = Append(begins, begins[Len(begins)] + RequestSize(Head(send_queue))),
           SendBlock(SerializeRequest(Head(send_queue)), 0),
           UNCHANGED <<pushed, recvVars, sender, receiver>>
    PROVE  SessionInv'
  <1> DEFINE r == Head(send_queue)
  <1>0. PICK last : last = Len(begins)
    OBVIOUS
  <1>1. /\ last \in Nat \ {0} /\ Popped = last - 1 /\ frames + 1 \in 1..last /\ frames \in Nat
        /\ \A k \in 1..last : begins[k] \in Nat
        /\ \A i, j \in 1..last : i < j => begins[i] < begins[j]
    BY <1>0, Begins DEF SessionInv, Histories
  <1>2. last \in 1..Len(pushed) /\ r = pushed[last] /\ send_queue' = SubSeq(pushed, last + 1, Len(pushed))
    BY <1>0, HeadIsNext DEF MustPop
  <1>3. Sound(r) /\ RequestSize(r) \in Nat /\ RequestSize(r) >= 10
    <2>1. r \in Live
      BY TailIsSeq DEF MustPop, Histories, Live
    <2> QED
      BY <2>1 DEF Sound, BufferFits, RoundTrip
  <1>4. /\ Len(begins') = last + 1 /\ begins'[last + 1] = begins[last] + RequestSize(r)
        /\ \A k \in 1..last : begins'[k] = begins[k]
    <2>1. begins \in Seq(Nat) /\ begins[last] + RequestSize(r) \in Nat
      BY <1>1, <1>3 DEF Histories
    <2> QED
      BY <1>0, <2>1, AppendProperties
  <1>5. Popped' = last /\ frames' = frames /\ DOMAIN begins' = 1..(last + 1)
    <2>1. begins' \in Seq(Nat)
      BY <1>0, <1>1, <1>3 DEF Histories
    <2> QED
      BY <1>1, <1>4, <2>1 DEF Popped, recvVars
  <1>6. Framed'
    <2>1. frames <= last /\ last <= Len(pushed)
      BY <1>1, <1>2
    <2>2. \A k \in 1..last : Sound(pushed[k])
      <3> TAKE k \in 1..last
      <3>1. k = last \/ k \in 1..Popped
        BY <1>1
      <3> QED
        BY <1>2, <1>3, <3>1 DEF SessionInv, Framed
    <2>3. \A k \in 1..last : begins'[k + 1] = begins'[k] + RequestSize(pushed[k])
      <3> TAKE k \in 1..last
      <3>1. CASE k = last
        BY <1>1, <1>2, <1>4, <3>1
      <3>2. CASE k # last
        <4>1. k \in 1..Popped /\ k + 1 \in 1..last
          BY <1>1, <3>2
        <4> QED
          BY <1>4, <4>1 DEF SessionInv, Framed
      <3> QED
        BY <3>1, <3>2
    <2>4. \A i, j \in 1..(last + 1) : i < j => begins'[i] < begins'[j]
      <3> TAKE i, j \in 1..(last + 1)
      <3>1. CASE j = last + 1
        <4>1. ASSUME i < j PROVE begins[i] <= begins[last]
          BY <1>1, <3>1, <4>1
        <4>2. ASSUME i < j PROVE begins'[i] = begins[i] /\ begins[i] \in Nat
          BY <1>1, <1>4, <3>1, <4>2
        <4> QED
          BY <1>1, <1>3, <1>4, <3>1, <4>1, <4>2
      <3>2. CASE j # last + 1
        <4>1. ASSUME i < j PROVE i \in 1..last /\ j \in 1..last
          BY <1>1, <3>2, <4>1
        <4> QED
          BY <1>1, <1>4, <4>1
      <3> QED
        BY <3>1, <3>2
    <2> QED
      BY <1>5, <2>1, <2>2, <2>3, <2>4 DEF Framed, Increasing, Sound
  <1>7. SenderHolds'
    BY <1>2, <1>4 DEF SenderHolds
  <1>8. ReceiverHolds'
    BY <1>1, <1>5 DEF SessionInv, ReceiverHolds, recvVars
  <1>9. Pipe' = Pipe \o SerializeRequest(r)
    BY PopPipe
  <1>10. Pipe \in Seq(Byte8) /\ SerializeRequest(r) \in Seq(Byte8) /\ Len(SerializeRequest(r)) = RequestSize(r)
    BY <1>3, PipeNow DEF Parts, Sound
  <1>11. /\ Len(Pipe) \in Nat /\ Len(Pipe') = Len(Pipe) + RequestSize(r)
         /\ \A i \in 1..Len(Pipe) : Pipe'[i] = Pipe[i]
         /\ \A i \in 1..RequestSize(r) : Pipe'[Len(Pipe) + i] = SerializeRequest(r)[i]
    <2> DEFINE data == SerializeRequest(r)
    <2> HIDE DEF data
    <2>1. data \in Seq(Byte8) /\ Len(data) = RequestSize(r) /\ Pipe' = Pipe \o data
      BY <1>9, <1>10 DEF data
    <2>2. /\ Len(Pipe \o data) = Len(Pipe) + Len(data)
          /\ \A i \in 1..(Len(Pipe) + Len(data)) :
                (Pipe \o data)[i] = IF i <= Len(Pipe) THEN Pipe[i] ELSE data[i - Len(Pipe)]
      BY <1>10, <2>1, ConcatProperties
    <2>3. Len(Pipe) \in Nat
      BY <1>10
    <2>4. \A i \in 1..Len(Pipe) : Pipe'[i] = Pipe[i]
      BY <1>3, <2>1, <2>2, <2>3
    <2>5. ASSUME NEW i \in 1..RequestSize(r) PROVE Pipe'[Len(Pipe) + i] = data[i]
      <3>1. Len(Pipe) + i \in 1..(Len(Pipe) + Len(data)) /\ ~(Len(Pipe) + i <= Len(Pipe))
            /\ (Len(Pipe) + i) - Len(Pipe) = i
        BY <1>3, <2>1, <2>3
      <3> QED
        BY <2>1, <2>2, <3>1
    <2> QED
      BY <2>1, <2>2, <2>3, <2>4, <2>5 DEF data
  <1>12. /\ \A k \in 1..last : Start(k)' = Start(k) /\ Start(k) \in Int
         /\ Start(last + 1)' = Start(last) + RequestSize(r)
    <2>1. begins'[frames + 1] = begins[frames + 1] /\ begins[frames + 1] \in Nat /\ begins[last] \in Nat
      BY <1>1, <1>4
    <2>2. \A k \in 1..last : Start(k)' = Start(k) /\ Start(k) \in Int
      BY <1>1, <1>4, <1>5, <2>1 DEF Start
    <2>3. Start(last + 1)' = (begins[last] + RequestSize(r)) - begins[frames + 1]
      <3>1. Start(last + 1)' = begins'[last + 1] - begins'[frames' + 1]
        BY DEF Start
      <3>2. begins'[frames' + 1] = begins[frames + 1]
        BY <1>5, <2>1
      <3>3. begins'[last + 1] = begins[last] + RequestSize(r)
        BY <1>4
      <3> QED
        BY <3>1, <3>2, <3>3
    <2>4. Start(last) = begins[last] - begins[frames + 1]
      BY DEF Start
    <2>5. Start(last + 1)' = Start(last) + RequestSize(r)
      BY <1>3, <2>1, <2>3, <2>4
    <2> QED
      BY <2>2, <2>5
  <1>13. Len(Pipe) = Start(last)
    BY <1>0 DEF SessionInv, InPipe
  <1>14. ASSUME NEW k \in (frames + 1)..last, NEW j \in 1..RequestSize(pushed[k])
         PROVE  Pipe'[Start(k)' + j] = SerializeRequest(pushed[k])[j]
    <2>1. CASE k = last
      <3>1. Start(k)' = Len(Pipe) /\ pushed[k] = r
        BY <1>1, <1>2, <1>12, <1>13, <2>1
      <3> QED
        BY <1>11, <3>1
    <2>2. CASE k # last
      <3>1. k \in (frames + 1)..Popped /\ k \in 1..last /\ k + 1 \in 1..last /\ k \in 1..Popped
        BY <1>1, <2>2
      <3>2. begins[k + 1] = begins[k] + RequestSize(pushed[k]) /\ Sound(pushed[k])
        BY <3>1 DEF SessionInv, Framed
      <3>3. begins[k + 1] <= begins[last]
        <4>1. k + 1 = last \/ k + 1 < last
          BY <1>1, <3>1
        <4>2. begins[last] \in Nat
          BY <1>1
        <4> QED
          BY <1>1, <3>1, <4>1, <4>2
      <3>4. RequestSize(pushed[k]) \in Nat
        BY <3>2 DEF Sound
      <3>5. Start(k) \in Nat /\ Start(k) + j \in 1..Len(Pipe)
        <4>1. begins[k] >= begins[frames + 1]
          BY <1>1, <3>1
        <4> QED
          <5>1. /\ begins[k] \in Nat /\ begins[k + 1] \in Nat /\ begins[last] \in Nat
                /\ begins[frames + 1] \in Nat
            BY <1>1, <3>1
          <5>2. Start(k) = begins[k] - begins[frames + 1] /\ Len(Pipe) = begins[last] - begins[frames + 1]
            BY <1>13 DEF Start
          <5>3. j \in Nat /\ j >= 1 /\ begins[k] + j <= begins[last]
            BY <3>2, <3>3, <3>4, <5>1
          <5> DEFINE a == begins[k]
                     b == begins[frames + 1]
                     c == begins[last]
          <5> HIDE DEF a, b, c
          <5>4. a \in Nat /\ b \in Nat /\ c \in Nat /\ a >= b /\ j >= 1 /\ a + j <= c /\ j \in Nat
            BY <4>1, <5>1, <5>3 DEF a, b, c
          <5>5. a - b \in Nat /\ (a - b) + j \in 1..(c - b)
            BY <5>4
          <5> QED
            BY <5>2, <5>5 DEF a, b, c
      <3>6. Pipe[Start(k) + j] = SerializeRequest(pushed[k])[j]
        BY <3>1, <3>5, SMTT(30) DEF SessionInv, InPipe
      <3> QED
        BY <1>11, <1>12, <3>1, <3>5, <3>6
    <2> QED
      BY <2>1, <2>2
  <1>15. (receiver => InPipe(Pipe))'
    <2>1. Len(Pipe') = Start(last + 1)' /\ Len(Pipe') \in Nat
      BY <1>3, <1>11, <1>12, <1>13
    <2> QED
      <3>1. Len(Pipe') <= Start(Len(begins))' /\ (sender' => Len(Pipe') = Start(Len(begins))')
        <4>1. Start(Len(begins))' = Start(last + 1)'
          BY <1>4 DEF Start
        <4> QED
          BY <2>1, <4>1
      <3>2. \A k \in (frames + 1)..last : \A j \in 1..RequestSize(pushed[k]) :
               Pipe'[Start(k)' + j] = SerializeRequest(pushed[k])[j]
        BY <1>14
      <3>3. \A k \in (frames' + 1)..Popped' : \A j \in 1..RequestSize(pushed'[k]) :
               Start(k)' + j <= Len(Pipe') => Pipe'[Start(k)' + j] = SerializeRequest(pushed'[k])[j]
        BY <1>5, <3>2
      <3> QED
        BY <3>1, <3>3 DEF InPipe
  <1>16. PushedArrives'
    BY DEF SessionInv, PushedArrives, recvVars
  <1> QED
    BY <1>6, <1>7, <1>8, <1>15, <1>16 DEF SessionInv

\* Where the requests in the pipe begin and end in it.
LEMMA Starts ==
    ASSUME Histories, Framed
    PROVE  /\ Start(frames + 1) = 0 /\ Start(Len(begins)) \in Nat
           /\ (Start(Len(begins)) > 0 => frames < Popped)
           /\ \A k \in (frames + 1)..Popped :
                 /\ Start(k) \in Nat /\ RequestSize(pushed[k]) \in Nat
                 /\ Start(k + 1) = Start(k) + RequestSize(pushed[k])
                 /\ Start(k + 1) <= Start(Len(begins))
  <1>1. /\ Len(begins) \in Nat \ {0} /\ Popped = Len(begins) - 1 /\ frames + 1 \in 1..Len(begins)
        /\ \A k \in 1..Len(begins) : begins[k] \in Nat
        /\ \A i, j \in 1..Len(begins) : i < j => begins[i] < begins[j]
    BY Begins
  <1>2. frames \in Nat
    BY DEF Histories
  <1>3. \A i, j \in 1..Len(begins) : i <= j => begins[j] - begins[i] \in Nat
    <2> TAKE i, j \in 1..Len(begins)
    <2>1. i < j => begins[i] < begins[j]
      BY <1>1
    <2>2. begins[i] \in Nat /\ begins[j] \in Nat
      BY <1>1
    <2>3. CASE i = j
      BY <2>2, <2>3
    <2>4. CASE i # j
      BY <2>1, <2>2, <2>4
    <2> QED
      BY <2>3, <2>4
  <1>4. Start(frames + 1) = 0
    BY <1>1 DEF Start
  <1>5. Start(Len(begins)) \in Nat
    BY <1>1, <1>3 DEF Start
  <1>6. Start(Len(begins)) > 0 => frames < Popped
    BY <1>1, <1>2, <1>4
  <1>7. ASSUME NEW k \in (frames + 1)..Popped
        PROVE  /\ Start(k) \in Nat /\ RequestSize(pushed[k]) \in Nat
               /\ Start(k + 1) = Start(k) + RequestSize(pushed[k])
               /\ Start(k + 1) <= Start(Len(begins))
    <2>1. k \in 1..Popped /\ k \in 1..Len(begins) /\ k + 1 \in 1..Len(begins) /\ frames + 1 <= k
      BY <1>1, <1>2
    <2>2. RequestSize(pushed[k]) \in Nat
      BY <2>1 DEF Framed, Sound
    <2>3. begins[k + 1] = begins[k] + RequestSize(pushed[k])
      BY <2>1 DEF Framed
    <2>4. begins[k] - begins[frames + 1] \in Nat
      BY <1>1, <1>3, <2>1
    <2>5. begins[Len(begins)] - begins[k + 1] \in Nat
      <3>1. Len(begins) \in 1..Len(begins) /\ k + 1 <= Len(begins)
        BY <1>1, <2>1
      <3> QED
        BY <1>3, <2>1, <3>1
    <2>6. begins[k] \in Nat /\ begins[k + 1] \in Nat /\ begins[frames + 1] \in Nat /\ begins[Len(begins)] \in Nat
      BY <1>1, <2>1
    <2>7. /\ Start(k) = begins[k] - begins[frames + 1]
          /\ Start(k + 1) = begins[k + 1] - begins[frames + 1]
          /\ Start(Len(begins)) = begins[Len(begins)] - begins[frames + 1]
      BY DEF Start
    <2>8. Start(k + 1) = Start(k) + RequestSize(pushed[k])
      BY <2>2, <2>3, <2>6, <2>7
    <2>9. Start(k + 1) <= Start(Len(begins))
      BY <2>5, <2>6, <2>7
    <2> QED
      BY <2>2, <2>4, <2>7, <2>8, <2>9
  <1> QED
    BY <1>4, <1>5, <1>6, <1>7

\* The sending end goes away with what it has not sent.
LEMMA SenderTeardownKeeps ==
    ASSUME TypeOK, TypeOK', Histories, SessionInv, SenderTeardown
    PROVE  SessionInv'
  <1>1. /\ sender' = FALSE /\ send_buffer' = <<>> /\ send_buffer_offset' = 0
        /\ UNCHANGED <<pushed, begins, stream, recvVars, receiver>>
    BY DEF SenderTeardown, DeleteSendBuffer
  <1>2. UNCHANGED <<begins, frames, pushed, stream, recv_buffer, recv_queue, handled>>
    BY <1>1 DEF recvVars
  <1>3. Framed' /\ Popped' = Popped /\ \A k : Start(k)' = Start(k)
    BY <1>2 DEF SessionInv, Framed, Popped, Increasing, Start
  <1>4. SenderHolds'
    BY <1>1 DEF SenderHolds
  <1>5. ReceiverHolds'
    BY <1>1, <1>3 DEF SessionInv, ReceiverHolds, recvVars
  <1>6. PushedArrives'
    BY <1>2 DEF SessionInv, PushedArrives
  <1>7. /\ Len(Pipe') \in Nat /\ Len(Pipe) \in Nat /\ Len(Pipe') <= Len(Pipe)
        /\ \A i \in 1..Len(Pipe') : Pipe'[i] = Pipe[i]
    <2>1. Parts(recv_buffer, stream, send_buffer, send_buffer_offset, Pipe)
      BY PipeNow
    <2>2. Parts(recv_buffer, stream, <<>>, 0, Pipe')
      BY <1>1, <1>2, PipeNext
    <2>3. Len(recv_buffer) \in Nat /\ Len(stream) \in Nat /\ Len(send_buffer) - send_buffer_offset \in Nat
      BY DEF TypeOK
    <2>4. /\ Len(Pipe') = Len(recv_buffer) + Len(stream)
          /\ Len(Pipe) = Len(recv_buffer) + Len(stream) + (Len(send_buffer) - send_buffer_offset)
      BY <2>1, <2>2, <2>3 DEF Parts
    <2>5. ASSUME NEW i \in 1..Len(Pipe') PROVE Pipe'[i] = Pipe[i]
      <3>1. CASE i <= Len(recv_buffer)
        <4>1. i \in 1..Len(recv_buffer)
          BY <2>3, <2>4, <3>1
        <4> QED
          BY <2>1, <2>2, <4>1 DEF Parts
      <3>2. CASE i > Len(recv_buffer)
        <4>1. i - Len(recv_buffer) \in 1..Len(stream) /\ Len(recv_buffer) + (i - Len(recv_buffer)) = i
          BY <2>3, <2>4, <3>2
        <4>2. /\ Pipe'[Len(recv_buffer) + (i - Len(recv_buffer))] = stream[i - Len(recv_buffer)]
              /\ Pipe[Len(recv_buffer) + (i - Len(recv_buffer))] = stream[i - Len(recv_buffer)]
          BY <2>1, <2>2, <4>1 DEF Parts
        <4> QED
          BY <4>1, <4>2
      <3> QED
        BY <2>3, <2>4, <3>1, <3>2
    <2> QED
      BY <2>3, <2>4, <2>5
  <1>8. (receiver => InPipe(Pipe))'
    <2> SUFFICES ASSUME receiver PROVE InPipe(Pipe)'
      BY <1>1
    <2>1. InPipe(Pipe)
      BY DEF SessionInv
    <2>2. /\ Start(Len(begins)) \in Nat
          /\ \A k \in (frames + 1)..Popped : Start(k) \in Nat /\ RequestSize(pushed[k]) \in Nat
      BY Starts DEF SessionInv
    <2>3. Len(Pipe') <= Start(Len(begins))
      BY <1>7, <2>1, <2>2 DEF InPipe
    <2>4. ASSUME NEW k \in (frames + 1)..Popped, NEW j \in 1..RequestSize(pushed[k]), Start(k) + j <= Len(Pipe')
          PROVE  Pipe'[Start(k) + j] = SerializeRequest(pushed[k])[j]
      <3>1. Start(k) + j \in 1..Len(Pipe') /\ Start(k) + j <= Len(Pipe)
        BY <1>7, <2>2, <2>4
      <3> QED
        BY <1>7, <2>1, <3>1 DEF InPipe
    <2>5. Start(Len(begins))' = Start(Len(begins))
      BY <1>2 DEF Start
    <2> QED
      BY <1>1, <1>2, <1>3, <2>3, <2>4, <2>5 DEF InPipe
  <1> QED
    BY <1>3, <1>4, <1>5, <1>6, <1>8 DEF SessionInv

\* The receiving end goes away with what it was about to read.
LEMMA ReceiverTeardownKeeps ==
    ASSUME SessionInv, ReceiverTeardown
    PROVE  SessionInv'
  <1>1. /\ receiver' = FALSE /\ stream' = <<>> /\ is_recv_length' = TRUE
        /\ recv_buffer' = <<>> /\ recv_buffer_offset' = 0
        /\ UNCHANGED <<sendVars, recv_queue, frames, handled, sender>>
    BY DEF ReceiverTeardown, DeleteRecvBuffer
  <1>2. Framed' /\ SenderHolds'
    BY <1>1 DEF SessionInv, Framed, SenderHolds, Popped, Increasing, sendVars
  <1>3. ReceiverHolds'
    BY <1>1 DEF ReceiverHolds
  <1>4. PushedArrives'
    BY <1>1 DEF SessionInv, PushedArrives, sendVars
  <1> QED
    BY <1>1, <1>2, <1>3, <1>4 DEF SessionInv

\* A new session begins with an empty pipe and with what is in the queue.
LEMMA FreshParts ==
    ASSUME IsSeq(send_queue)', TypeOK',
           pushed' = send_queue', begins' = << 0 >>, frames' = 0, recv_queue' = <<>>, handled' = <<>>,
           stream' = <<>>, send_buffer' = <<>>, recv_buffer' = <<>>, recv_buffer_offset' = 0,
           is_recv_length' = TRUE
    PROVE  SessionInv'
  <1>1. Len(begins') = 1 /\ Popped' = 0 /\ begins'[1] = 0 /\ DOMAIN begins' = {1}
    BY DEF Popped
  <1>2. Framed'
    <2>1. Len(pushed') \in Nat
      BY DEF IsSeq
    <2> QED
      BY <1>1, <2>1 DEF Framed, Increasing
  <1>3. SenderHolds'
    BY <1>1, SubSeqFull DEF SenderHolds, IsSeq
  <1>4. ReceiverHolds'
    BY DEF ReceiverHolds
  <1>5. Len(Pipe') = 0
    <2>1. send_buffer_offset' = 0
      BY DEF TypeOK
    <2> QED
      BY <2>1, PipeNext DEF Parts
  <1>6. InPipe(Pipe)'
    <2>1. Start(Len(begins))' = 0
      BY <1>1 DEF Start
    <2> QED
      BY <1>1, <1>5, <2>1 DEF InPipe
  <1>7. PushedArrives'
    <2>1. <<>> \in [DOMAIN recv_queue' -> 1..frames'] /\ <<>> \in [DOMAIN handled' -> 1..frames']
      OBVIOUS
    <2>2. Increasing(<<>>) /\ Range(<<>>) = {}
      BY DEF Increasing, Range
    <2>3. {k \in 1..frames' : pushed'[k].name # KeepAlive.name} = {}
      OBVIOUS
    <2> DEFINE none == <<>>
    <2>4. /\ Increasing(none) /\ \A i \in DOMAIN none : recv_queue'[i] = pushed'[none[i]]
          /\ \A i \in DOMAIN none : handled'[i] = pushed'[none[i]]
          /\ Range(none) \cap Range(none) = {}
          /\ Range(none) \cup Range(none) = {k \in 1..frames' : pushed'[k].name # KeepAlive.name}
      BY <2>2, <2>3
    <2> HIDE DEF none
    <2>5. \E q \in [DOMAIN recv_queue' -> 1..frames'], h \in [DOMAIN handled' -> 1..frames'] :
            /\ Increasing(q) /\ \A i \in DOMAIN q : recv_queue'[i] = pushed'[q[i]]
            /\ Increasing(h) /\ \A i \in DOMAIN h : handled'[i] = pushed'[h[i]]
            /\ Range(q) \cap Range(h) = {}
            /\ Range(q) \cup Range(h) = {k \in 1..frames' : pushed'[k].name # KeepAlive.name}
      <3>1. none \in [DOMAIN recv_queue' -> 1..frames'] /\ none \in [DOMAIN handled' -> 1..frames']
        BY <2>1 DEF none
      <3> QED
        BY <2>4, <3>1, Zenon
    <2> QED
      BY <2>5 DEF PushedArrives, KeepAlive, Increasing
  <1> QED
    BY <1>2, <1>3, <1>4, <1>6, <1>7 DEF SessionInv

\* The pipe begins with the bytes of the next request.
LEMMA FrontIsNext ==
    ASSUME TypeOK, Histories, SessionInv, receiver, NEW m \in 1..Len(Pipe)
    PROVE  LET r == pushed[frames + 1]
           IN  /\ frames < Popped /\ Sound(r)
               /\ m <= RequestSize(r) => \A j \in 1..m : Pipe[j] = SerializeRequest(r)[j]
  <1> DEFINE r == pushed[frames + 1]
  <1>1. InPipe(Pipe) /\ Len(Pipe) \in Nat
    BY PipeNow DEF SessionInv, Parts
  <1>2. /\ Start(frames + 1) = 0 /\ Start(Len(begins)) \in Nat
        /\ (Start(Len(begins)) > 0 => frames < Popped)
    BY Starts DEF SessionInv
  <1>3. frames < Popped /\ frames \in Nat /\ Popped \in Nat
    BY <1>1, <1>2, Begins DEF InPipe, SessionInv, Histories
  <1>4. frames + 1 \in (frames + 1)..Popped /\ frames + 1 \in 1..Popped
    BY <1>3
  <1>5. Sound(r) /\ RequestSize(r) \in Nat
    BY <1>4 DEF SessionInv, Framed, Sound
  <1>6. ASSUME m <= RequestSize(r), NEW j \in 1..m PROVE Pipe[j] = SerializeRequest(r)[j]
    <2>1. j \in 1..RequestSize(r) /\ 0 + j <= Len(Pipe) /\ 0 + j = j
      BY <1>1, <1>5, <1>6
    <2>2. Start(frames + 1) + j <= Len(Pipe) => Pipe[Start(frames + 1) + j] = SerializeRequest(r)[j]
      BY <1>1, <1>4, <2>1 DEF InPipe
    <2> QED
      BY <1>2, <2>1, <2>2
  <1> QED
    BY <1>3, <1>5, <1>6

\* What recv() moves stays in the pipe.
LEMMA ReceiveMoves ==
    ASSUME TypeOK, NEW n \in 0..Len(stream), UNCHANGED <<send_buffer, send_buffer_offset>>,
           stream' = After(stream, n, Len(stream))
    PROVE  Pipe = (recv_buffer \o SubSeq(stream, 1, n))
                  \o (stream' \o Offered(send_buffer', send_buffer_offset'))
  <1> DEFINE one == SubSeq(stream, 1, n)
             two == After(stream, n, Len(stream))
             off == Offered(send_buffer, send_buffer_offset)
  <1>1. one \in Seq(Byte8) /\ two \in Seq(Byte8) /\ recv_buffer \in Seq(Byte8) /\ off \in Seq(Byte8)
    BY Rest, PipeNow DEF TypeOK, Parts
  <1>2. one \o two = stream
    BY CutAndJoin DEF TypeOK
  <1>3. Pipe = recv_buffer \o (stream \o off)
    BY PipeNow DEF Parts
  <1> HIDE DEF one, two, off
  <1>4. (one \o two) \o off = one \o (two \o off)
    BY <1>1, ConcatAssociative, SMTT(30)
  <1> DEFINE others == two \o off
  <1>5. others \in Seq(Byte8)
    BY <1>1, ConcatProperties
  <1> HIDE DEF others
  <1>6. (recv_buffer \o one) \o others = recv_buffer \o (one \o others)
    <2>1. recv_buffer \in Seq(Byte8) /\ one \in Seq(Byte8) /\ others \in Seq(Byte8)
      BY <1>1, <1>5
    <2> QED
      BY <2>1, ConcatAssociative
  <1> QED
    BY <1>2, <1>3, <1>4, <1>6 DEF one, two, off, others

\* The four bytes of a length arrive together.
LEMMA ReceiveLengthKeeps ==
    ASSUME TypeOK, TypeOK', Histories, SessionInv, ~Split, ReceiveLength
    PROVE  SessionInv'
  <1> DEFINE piece == SubSeq(stream, 1, 4)
             r == pushed[frames + 1]
  <1>1. recv_buffer = <<>> /\ recv_buffer_offset = 0 /\ receiver /\ is_recv_length
    BY DEF ReceiveLength, SessionInv, ReceiverHolds
  <1>2. Len(stream) >= 4 /\ Len(stream) \in Nat /\ 4 \in 0..Len(stream)
    BY <1>1 DEF ReceiveLength, LengthBytes, Smaller, TypeOK
  <1>3. /\ piece \in Seq(Byte8) /\ Len(piece) = 4
        /\ \A i \in 1..4 : piece[i] = stream[i]
    <2>1. stream \in Seq(Byte8)
      BY DEF TypeOK
    <2>2. PICK n \in 0..Len(stream) : n = 4
      BY <1>2
    <2>3. /\ SubSeq(stream, 1, n) \in Seq(Byte8) /\ Len(SubSeq(stream, 1, n)) = n
          /\ \A i \in 1..n : SubSeq(stream, 1, n)[i] = stream[i]
      BY <2>1, <2>2, Rest
    <2> QED
      BY <2>2, <2>3
  <1> HIDE DEF piece
  <1>4. LengthWith(piece) = piece
    <2>1. LengthWith(piece) = [i \in 1..4 |-> piece[i]]
      BY <1>3 DEF LengthWith
    <2>2. piece = [i \in 1..4 |-> piece[i]]
      BY <1>3
    <2> QED
      BY <2>1, <2>2
  <1>5. /\ recv_buffer_offset' = 4 /\ recv_buffer_length' = piece /\ is_recv_length' = FALSE
        /\ stream' = After(stream, 4, Len(stream)) /\ recv_buffer' = Le(Field(piece, 0, 4), 4)
    BY <1>1, <1>4 DEF ReceiveLength, piece
  <1>6. recv_buffer' = piece
    BY <1>3, <1>5, LeOfField
  <1>7. UNCHANGED <<sendVars, recv_queue, frames, handled, sender, receiver>>
    BY DEF ReceiveLength, endVars
  <1>8. UNCHANGED <<send_buffer, send_buffer_offset, send_queue, pushed, begins>>
    BY <1>7 DEF sendVars
  <1>9. Pipe' = Pipe
    <2>1. Pipe = (recv_buffer \o piece) \o (stream' \o Offered(send_buffer', send_buffer_offset'))
      BY <1>2, <1>5, <1>8, ReceiveMoves DEF piece
    <2>2. recv_buffer \o piece = piece
      BY <1>1, <1>3, ConcatEmptySeq
    <2>3. Pipe' = recv_buffer' \o (stream' \o Offered(send_buffer', send_buffer_offset'))
      BY PipeNext DEF Parts
    <2> QED
      BY <1>6, <2>1, <2>2, <2>3
  <1>10. /\ 4 \in 1..Len(Pipe) /\ \A i \in 1..4 : Pipe[i] = piece[i]
    <2>1. /\ Len(Pipe) = Len(recv_buffer) + Len(stream) + (Len(send_buffer) - send_buffer_offset)
          /\ \A i \in 1..Len(stream) : Pipe[Len(recv_buffer) + i] = stream[i]
      BY PipeNow DEF Parts
    <2>2. Len(recv_buffer) = 0 /\ Len(send_buffer) - send_buffer_offset \in Nat
      BY <1>1 DEF TypeOK
    <2>3. 4 \in 1..Len(Pipe)
      BY <1>2, <2>1, <2>2
    <2>4. ASSUME NEW i \in 1..4 PROVE Pipe[i] = piece[i]
      <3>1. i \in 1..Len(stream) /\ Len(recv_buffer) + i = i
        BY <1>2, <2>2
      <3> QED
        BY <1>3, <2>1, <3>1
    <2> QED
      BY <2>3, <2>4
  <1>11. frames < Popped /\ Sound(r) /\ \A j \in 1..4 : Pipe[j] = SerializeRequest(r)[j]
    <2>1. frames < Popped /\ Sound(r) /\ (4 <= RequestSize(r) => \A j \in 1..4 : Pipe[j] = SerializeRequest(r)[j])
      BY <1>1, <1>10, FrontIsNext
    <2>2. 4 <= RequestSize(r)
      BY <2>1 DEF Sound
    <2> QED
      BY <2>1, <2>2
  <1>12. Field(piece, 0, 4) = RequestSize(r) /\ 4 < RequestSize(r)
    <2>1. \A j \in 1..4 : piece[j] = SerializeRequest(r)[j]
      BY <1>10, <1>11
    <2>2. Field(piece, 0, 4) = Field(SerializeRequest(r), 0, 4)
      BY <2>1 DEF Field
    <2> QED
      BY <1>11, <2>2 DEF Sound
  <1>13. ReceiverHolds'
    <2>1. pushed'[frames' + 1] = r /\ Popped' = Popped /\ frames' = frames /\ receiver'
      BY <1>1, <1>7, <1>8 DEF Popped
    <2>2. Len(recv_buffer') = 4 /\ recv_buffer_offset' = 4
      BY <1>3, <1>5, <1>6
    <2>3. Field(recv_buffer_length', 0, 4) = RequestSize(pushed'[frames' + 1])
      BY <1>5, <1>12, <2>1
    <2>4. Len(recv_buffer') < RequestSize(pushed'[frames' + 1])
      BY <1>12, <2>1, <2>2
    <2>5. /\ frames' < Popped' /\ receiver'
          /\ recv_buffer_offset' = Len(recv_buffer') /\ Len(recv_buffer') >= 4
      BY <1>11, <2>1, <2>2
    <2>6. ~is_recv_length'
      BY <1>5
    <2> QED
      BY <2>3, <2>4, <2>5, <2>6 DEF ReceiverHolds
  <1>14. SenderHolds'
    BY <1>7, <1>8 DEF SessionInv, SenderHolds
  <1> QED
    BY <1>1, <1>7, <1>8, <1>9, <1>13, <1>14, PipeStays DEF SessionInv

\* A part of the body that is not the last.
LEMMA PartKeeps ==
    ASSUME TypeOK, TypeOK', Histories, SessionInv, receiver, ~is_recv_length,
           NEW left, left = Field(recv_buffer_length, 0, 4) - recv_buffer_offset,
           NEW n \in 0..Len(stream), n \in 0..left, n # left,
           stream' = After(stream, n, Len(stream)),
           recv_buffer' = recv_buffer \o SubSeq(stream, 1, n),
           recv_buffer_offset' = recv_buffer_offset + n,
           UNCHANGED <<sendVars, recv_queue, frames, handled, recv_buffer_length, is_recv_length,
                       sender, receiver>>
    PROVE  SessionInv'
  <1> DEFINE r == pushed[frames + 1]
  <1>1. UNCHANGED <<send_buffer, send_buffer_offset, send_queue, pushed, begins>>
    BY DEF sendVars
  <1>2. Pipe' = Pipe
    <2>1. Pipe = (recv_buffer \o SubSeq(stream, 1, n))
                 \o (stream' \o Offered(send_buffer', send_buffer_offset'))
      BY <1>1, ReceiveMoves
    <2>2. Pipe' = recv_buffer' \o (stream' \o Offered(send_buffer', send_buffer_offset'))
      BY PipeNext DEF Parts
    <2> QED
      BY <2>1, <2>2
  <1>3. SenderHolds'
    BY <1>1 DEF SessionInv, SenderHolds
  <1>4. ReceiverHolds'
    <2>1. /\ frames < Popped /\ recv_buffer_offset = Len(recv_buffer) /\ Len(recv_buffer) >= 4
          /\ Field(recv_buffer_length, 0, 4) = RequestSize(r)
      BY DEF SessionInv, ReceiverHolds
    <2>2. Len(recv_buffer) \in Nat /\ Len(recv_buffer') = Len(recv_buffer) + n
      <3>1. SubSeq(stream, 1, n) \in Seq(Byte8) /\ Len(SubSeq(stream, 1, n)) = n
        BY Rest, SMTT(30) DEF TypeOK
      <3> QED
        BY <3>1, ConcatProperties, SMTT(30) DEF TypeOK
    <2>3. pushed'[frames' + 1] = r /\ Popped' = Popped /\ frames' = frames
      BY <1>1 DEF Popped
    <2>4. Field(recv_buffer_length, 0, 4) \in Nat
      BY LeOfField DEF TypeOK
    <2>5. recv_buffer_offset' = Len(recv_buffer') /\ Len(recv_buffer') >= 4
      BY <2>1, <2>2
    <2>6. Len(recv_buffer') < RequestSize(r)
      BY <2>1, <2>2, <2>4
    <2>7. Field(recv_buffer_length', 0, 4) = RequestSize(r)
      BY <2>1
    <2> QED
      BY <2>1, <2>3, <2>5, <2>6, <2>7 DEF ReceiverHolds
  <1> QED
    BY <1>1, <1>2, <1>3, <1>4, PipeStays DEF SessionInv

\* f tells where among the first m of p each element of s is.
Indexes(f, s, p, m) ==
    f \in [DOMAIN s -> 1..m] /\ Increasing(f) /\ \A i \in DOMAIN f : s[i] = p[f[i]]

\* The next element of p is added to s.
LEMMA IndexOneMore ==
    ASSUME NEW p, NEW m \in Nat, NEW next, next = m + 1, NEW r, r = p[next],
           NEW s, IsSeq(s), NEW f, Indexes(f, s, p, m)
    PROVE  \E g : Indexes(g, Append(s, r), p, next) /\ Range(g) = Range(f) \cup {next}
  <1>0. f \in [DOMAIN s -> 1..m] /\ Increasing(f) /\ \A i \in DOMAIN f : s[i] = p[f[i]]
    BY DEF Indexes
  <1> DEFINE n == Len(s)
             g == [i \in 1..(n + 1) |-> IF i = n + 1 THEN next ELSE f[i]]
  <1>1. /\ n \in Nat /\ DOMAIN s = 1..n /\ DOMAIN Append(s, r) = 1..(n + 1)
        /\ \A i \in 1..n : Append(s, r)[i] = s[i]
        /\ Append(s, r)[n + 1] = r
    BY AppendIsSeq, LenProperties DEF IsSeq
  <1>2. g \in [1..(n + 1) -> 1..next]
    BY <1>0, <1>1
  <1>3. Increasing(g)
    <2> SUFFICES ASSUME NEW i \in 1..(n + 1), NEW j \in 1..(n + 1), i < j
                 PROVE  g[i] < g[j]
      BY DEF Increasing
    <2>1. i \in 1..n /\ g[i] = f[i] /\ f[i] \in 1..m
      BY <1>0, <1>1
    <2>2. CASE j = n + 1
      BY <2>1, <2>2
    <2>3. CASE j # n + 1
      <3>1. j \in 1..n
        <4>1. n \in Nat /\ j \in 1..(n + 1) /\ j # n + 1
          BY <1>1, <2>3
        <4> HIDE DEF n
        <4> QED
          BY <4>1
      <3>2. g[j] = f[j]
        BY <2>3
      <3>3. i \in DOMAIN f /\ j \in DOMAIN f
        BY <1>0, <1>1, <2>1, <3>1
      <3> QED
        BY <1>0, <2>1, <3>2, <3>3 DEF Increasing
    <2> QED
      BY <2>2, <2>3
  <1>4. \A i \in DOMAIN g : Append(s, r)[i] = p[g[i]]
    BY <1>0, <1>1
  <1>5. Range(g) = Range(f) \cup {next}
    <2>1. DOMAIN f = 1..n /\ DOMAIN g = 1..(n + 1) /\ 1..(n + 1) = (1..n) \cup {n + 1}
      BY <1>0, <1>1
    <2>2. \A i \in 1..n : g[i] = f[i]
      BY <1>0, <1>1
    <2>3. g[n + 1] = next /\ n + 1 \in 1..(n + 1)
      BY <1>0, <1>1
    <2> HIDE DEF g, n
    <2>4. Range(g) \subseteq Range(f) \cup {next}
      BY <2>1, <2>2, <2>3 DEF Range
    <2>5. Range(f) \cup {next} \subseteq Range(g)
      BY <2>1, <2>2, <2>3 DEF Range
    <2> QED
      BY <2>4, <2>5
  <1> HIDE DEF g
  <1> QED
    BY <1>1, <1>2, <1>3, <1>4, <1>5 DEF Indexes

\* The request that has arrived is dispatched: PushedArrives holds of one more.
LEMMA Dispatch ==
    ASSUME Histories, PushedArrives, NEW r, r = pushed[frames + 1],
           NEW used, used # 0, Delivered(Read(used, r)), frames' = frames + 1, pushed' = pushed
    PROVE  PushedArrives'
  <1> DEFINE kept == r.name # KeepAlive.name
  <1>0. PICK next : next = frames + 1
    OBVIOUS
  <1>1. PICK q \in [DOMAIN recv_queue -> 1..frames], h \in [DOMAIN handled -> 1..frames] :
          /\ Increasing(q) /\ \A i \in DOMAIN q : recv_queue[i] = pushed[q[i]]
          /\ Increasing(h) /\ \A i \in DOMAIN h : handled[i] = pushed[h[i]]
          /\ Range(q) \cap Range(h) = {}
          /\ Range(q) \cup Range(h) = {k \in 1..frames : pushed[k].name # KeepAlive.name}
    BY DEF PushedArrives
  <1>2. frames \in Nat /\ next \in 1..next /\ next \notin 1..frames /\ 1..next = (1..frames) \cup {next}
    BY <1>0 DEF Histories
  <1>3. {k \in 1..next : pushed[k].name # KeepAlive.name}
        = {k \in 1..frames : pushed[k].name # KeepAlive.name} \cup (IF kept THEN {next} ELSE {})
    BY <1>0, <1>2
  <1>5. /\ q \in [DOMAIN recv_queue -> 1..next] /\ h \in [DOMAIN handled -> 1..next]
        /\ next \notin Range(q) /\ next \notin Range(h)
    BY <1>1, <1>2 DEF Range
  <1>6. IsSeq(recv_queue) /\ IsSeq(handled)
    BY DEF Histories
  <1> DEFINE Shows(q1, h1) ==
                 /\ Increasing(q1) /\ \A i \in DOMAIN q1 : recv_queue'[i] = pushed[q1[i]]
                 /\ Increasing(h1) /\ \A i \in DOMAIN h1 : handled'[i] = pushed[h1[i]]
                 /\ Range(q1) \cap Range(h1) = {}
                 /\ Range(q1) \cup Range(h1) = {k \in 1..next : pushed[k].name # KeepAlive.name}
  <1>7. \E q1 \in [DOMAIN recv_queue' -> 1..next], h1 \in [DOMAIN handled' -> 1..next] : Shows(q1, h1)
    <2>1. CASE ~kept
      <3>1. UNCHANGED <<recv_queue, handled>>
        BY <2>1 DEF Delivered, Read
      <3>2. Shows(q, h)
        BY <1>1, <1>3, <2>1, <3>1
      <3> HIDE DEF Shows
      <3> QED
        BY <1>5, <3>1, <3>2
    <2>2. CASE kept /\ PassThroughHandlers(r)
      <3>1. handled' = Append(handled, r) /\ recv_queue' = recv_queue
        BY <2>2 DEF Delivered, Read
      <3>2. PICK g : Indexes(g, Append(handled, r), pushed, next) /\ Range(g) = Range(h) \cup {next}
        <4>1. IsSeq(handled) /\ Indexes(h, handled, pushed, frames)
          BY <1>1, <1>6 DEF Indexes
        <4> QED
          BY <1>0, <1>2, <4>1, IndexOneMore
      <3>3. /\ g \in [DOMAIN Append(handled, r) -> 1..next]
            /\ Increasing(g) /\ \A i \in DOMAIN g : Append(handled, r)[i] = pushed[g[i]]
        BY <3>2 DEF Indexes
      <3>4. Shows(q, g)
        BY <1>1, <1>3, <1>5, <2>2, <3>1, <3>2, <3>3
      <3> HIDE DEF Shows
      <3> QED
        BY <1>5, <3>1, <3>3, <3>4
    <2>3. CASE kept /\ ~PassThroughHandlers(r)
      <3>1. recv_queue' = Append(recv_queue, r) /\ handled' = handled
        BY <2>3 DEF Delivered, Read
      <3>2. PICK g : Indexes(g, Append(recv_queue, r), pushed, next) /\ Range(g) = Range(q) \cup {next}
        <4>1. IsSeq(recv_queue) /\ Indexes(q, recv_queue, pushed, frames)
          BY <1>1, <1>6 DEF Indexes
        <4> QED
          BY <1>0, <1>2, <4>1, IndexOneMore
      <3>3. /\ g \in [DOMAIN Append(recv_queue, r) -> 1..next]
            /\ Increasing(g) /\ \A i \in DOMAIN g : Append(recv_queue, r)[i] = pushed[g[i]]
        BY <3>2 DEF Indexes
      <3>4. Shows(g, h)
        BY <1>1, <1>3, <1>5, <2>3, <3>1, <3>2, <3>3
      <3> HIDE DEF Shows
      <3> QED
        BY <1>5, <3>1, <3>3, <3>4
    <2> QED
      BY <2>1, <2>2, <2>3
  <1> QED
    BY <1>0, <1>7 DEF PushedArrives, KeepAlive, Increasing

\* The last part of the body: a whole request has left the pipe.
LEMMA FrameKeeps ==
    ASSUME TypeOK, TypeOK', Histories, SessionInv, receiver, ~is_recv_length,
           NEW n, n = Field(recv_buffer_length, 0, 4) - recv_buffer_offset, n \in 0..Len(stream),
           stream' = After(stream, n, Len(stream)),
           Delivered(DeserializeRequest(recv_buffer \o SubSeq(stream, 1, n))), frames' = frames + 1,
           DeleteRecvBuffer, UNCHANGED <<sendVars, sender, receiver>>
    PROVE  SessionInv'
  <1> DEFINE r == pushed[frames + 1]
             body == recv_buffer \o SubSeq(stream, 1, n)
             others == stream' \o Offered(send_buffer', send_buffer_offset')
  <1>1. UNCHANGED <<send_buffer, send_buffer_offset, send_queue, pushed, begins>>
    BY DEF sendVars
  <1>2. /\ recv_buffer' = <<>> /\ recv_buffer_offset' = 0 /\ is_recv_length' = TRUE
    BY DEF DeleteRecvBuffer
  <1>3. /\ frames < Popped /\ recv_buffer_offset = Len(recv_buffer) /\ Len(recv_buffer) >= 4
        /\ Field(recv_buffer_length, 0, 4) = RequestSize(r) /\ Len(recv_buffer) < RequestSize(r)
    BY DEF SessionInv, ReceiverHolds
  <1>4. frames \in Nat /\ Popped \in Nat /\ frames + 1 \in 1..Popped /\ Len(begins) = Popped + 1
    BY <1>3, Begins DEF SessionInv, Histories
  <1>5. Sound(r) /\ RequestSize(r) \in Nat /\ RequestSize(r) >= 10
    BY <1>4 DEF SessionInv, Framed, Sound
  <1>6. body \in Seq(Byte8) /\ Len(body) = RequestSize(r)
    <2> DEFINE piece == SubSeq(stream, 1, n)
    <2>0. stream \in Seq(Byte8) /\ recv_buffer \in Seq(Byte8) /\ n \in 0..Len(stream)
      BY DEF TypeOK
    <2>1. piece \in Seq(Byte8) /\ Len(piece) = n
      BY <2>0, Rest, Zenon
    <2> HIDE DEF piece
    <2>2. recv_buffer \o piece \in Seq(Byte8) /\ Len(recv_buffer \o piece) = Len(recv_buffer) + Len(piece)
      BY <2>0, <2>1, ConcatProperties
    <2> USE DEF piece
    <2>3. Len(recv_buffer) \in Nat
      BY DEF TypeOK
    <2> QED
      BY <1>3, <1>5, <2>2, <2>3
  <1>7. others \in Seq(Byte8) /\ Pipe = body \o others /\ Pipe' = others
    <2>1. Pipe = body \o others
      BY <1>1, ReceiveMoves
    <2>2. Pipe' = recv_buffer' \o others
      BY PipeNext DEF Parts
    <2>3. others \in Seq(Byte8)
      <3>1. Offered(send_buffer', send_buffer_offset') \in Seq(Byte8) /\ stream' \in Seq(Byte8)
        BY PipeNext DEF Parts, TypeOK
      <3> QED
        BY <3>1, ConcatProperties
    <2> HIDE DEF others
    <2>4. <<>> \o others = others
      BY <2>3, ConcatEmptySeq
    <2> QED
      BY <1>2, <2>1, <2>2, <2>3, <2>4
  <1> HIDE DEF body, others
  <1>8. /\ Len(Pipe) \in Nat /\ Len(Pipe') \in Nat /\ Len(Pipe) = RequestSize(r) + Len(Pipe')
        /\ \A i \in 1..RequestSize(r) : Pipe[i] = body[i]
        /\ \A i \in 1..Len(Pipe') : Pipe[RequestSize(r) + i] = Pipe'[i]
    <2>1. /\ Len(body \o others) = Len(body) + Len(others)
          /\ \A i \in 1..(Len(body) + Len(others)) :
                (body \o others)[i] = IF i <= Len(body) THEN body[i] ELSE others[i - Len(body)]
      BY <1>6, <1>7, ConcatProperties
    <2>2. Len(others) \in Nat /\ Len(body) \in Nat
      BY <1>6, <1>7
    <2>3. \A i \in 1..Len(body) : (body \o others)[i] = body[i]
      BY <2>1, <2>2
    <2>4. ASSUME NEW i \in 1..Len(others) PROVE (body \o others)[Len(body) + i] = others[i]
      <3>1. Len(body) + i \in 1..(Len(body) + Len(others)) /\ ~(Len(body) + i <= Len(body))
            /\ (Len(body) + i) - Len(body) = i
        BY <2>2
      <3> QED
        BY <2>1, <3>1
    <2>5. Len(body \o others) = RequestSize(r) + Len(others)
      BY <1>6, <2>1
    <2>6. Len(body \o others) \in Nat
      BY <1>5, <2>2, <2>5
    <2>7. \A i \in 1..RequestSize(r) : (body \o others)[i] = body[i]
      BY <1>6, <2>3
    <2>8. \A i \in 1..Len(others) : (body \o others)[RequestSize(r) + i] = others[i]
      BY <1>6, <2>4
    <2> QED
      BY <1>7, <2>2, <2>5, <2>6, <2>7, <2>8, Zenon
  <1>9. body = SerializeRequest(r)
    <2>1. RequestSize(r) \in 1..Len(Pipe) /\ RequestSize(r) <= RequestSize(r)
      BY <1>5, <1>8
    <2>2. \A j \in 1..RequestSize(r) : Pipe[j] = SerializeRequest(r)[j]
      BY <2>1, FrontIsNext
    <2>3. \A j \in 1..RequestSize(r) : body[j] = SerializeRequest(r)[j]
      BY <1>8, <2>2
    <2> QED
      BY <1>5, <1>6, <2>3, SeqEqual DEF Sound
  <1>10. PushedArrives'
    <2>1. Delivered(Read(RequestSize(r), r))
      BY <1>5, <1>9 DEF Sound, body
    <2>2. RequestSize(r) # 0 /\ PushedArrives
      BY <1>5 DEF SessionInv
    <2> QED
      BY <1>1, <2>1, <2>2, Dispatch
  <1>11. Popped' = Popped /\ frames' + 1 = frames + 2 /\ frames + 2 \in 1..Len(begins)
    BY <1>1, <1>4 DEF Popped
  <1>12. Framed'
    BY <1>1, <1>4, <1>11 DEF SessionInv, Framed, Increasing, Sound
  <1>13. SenderHolds'
    BY <1>1 DEF SessionInv, SenderHolds
  <1>14. ReceiverHolds'
    BY <1>2 DEF ReceiverHolds
  <1>15. /\ Start(frames + 1) = 0 /\ Start(frames + 2) = RequestSize(r)
         /\ Start(Len(begins)) \in Nat
         /\ \A k \in (frames + 1)..Popped : Start(k) \in Nat /\ RequestSize(pushed[k]) \in Nat
    <2>1. frames + 1 \in (frames + 1)..Popped /\ (frames + 1) + 1 = frames + 2
      BY <1>4
    <2>2. /\ Start(frames + 1) = 0 /\ Start(Len(begins)) \in Nat
          /\ \A k \in (frames + 1)..Popped :
                Start(k) \in Nat /\ RequestSize(pushed[k]) \in Nat /\ Start(k + 1) = Start(k) + RequestSize(pushed[k])
      BY Starts DEF SessionInv
    <2>3. Start(frames + 2) = 0 + RequestSize(r)
      BY <2>1, <2>2
    <2> QED
      BY <1>5, <2>2, <2>3
  <1>16. ASSUME NEW k \in 1..Len(begins) PROVE Start(k)' = Start(k) - RequestSize(r)
    <2>1. begins[k] \in Nat /\ begins[frames + 1] \in Nat /\ begins[frames + 2] \in Nat
      BY <1>4, <1>11, Begins DEF SessionInv
    <2>2. /\ Start(k)' = begins[k] - begins[frames + 2]
          /\ Start(k) = begins[k] - begins[frames + 1]
          /\ Start(frames + 2) = begins[frames + 2] - begins[frames + 1]
      BY <1>1, <1>11 DEF Start
    <2> QED
      BY <1>15, <2>1, <2>2, SMTT(30)
  <1>17. (receiver => InPipe(Pipe))'
    <2>1. InPipe(Pipe)
      BY DEF SessionInv
    <2>2. Start(Len(begins))' = Start(Len(begins)) - RequestSize(r)
      <3>1. PICK last : last = Len(begins)
        OBVIOUS
      <3>2. Start(last)' = Start(last) - RequestSize(r)
        BY <1>4, <1>16, <3>1
      <3>3. Start(Len(begins))' = Start(last)'
        BY <1>1, <3>1 DEF Start
      <3> QED
        BY <3>1, <3>2, <3>3
    <2>3. Len(Pipe') <= Start(Len(begins))'
      BY <1>5, <1>8, <1>15, <2>1, <2>2 DEF InPipe
    <2>4. sender' => Len(Pipe') = Start(Len(begins))'
      BY <1>5, <1>8, <1>15, <2>1, <2>2 DEF InPipe
    <2>5. ASSUME NEW k \in (frames + 2)..Popped, NEW j \in 1..RequestSize(pushed[k]),
                 Start(k)' + j <= Len(Pipe')
          PROVE  Pipe'[Start(k)' + j] = SerializeRequest(pushed[k])[j]
      <3>1. k \in (frames + 1)..Popped /\ k \in 1..Len(begins)
        BY <1>4
      <3>2. Start(k) \in Nat /\ Start(k)' = Start(k) - RequestSize(r) /\ RequestSize(pushed[k]) \in Nat
        BY <1>15, <1>16, <3>1
      <3>3. Start(k) + j <= Len(Pipe) /\ Pipe[Start(k) + j] = SerializeRequest(pushed[k])[j]
        <4>1. Start(k) + j <= Len(Pipe)
          BY <1>5, <1>8, <2>5, <3>2, SMTT(30)
        <4> QED
          BY <2>1, <3>1, <4>1 DEF InPipe
      <3>4. Start(k) >= RequestSize(r)
        <4>1. k \in 1..Len(begins) /\ frames + 2 \in 1..Len(begins) /\ frames + 2 <= k
          BY <1>4, <1>11, <3>1
        <4>2. begins[frames + 2] <= begins[k]
          BY <1>4, <4>1, Begins DEF SessionInv
        <4>3. /\ Start(k) = begins[k] - begins[frames + 1]
              /\ Start(frames + 2) = begins[frames + 2] - begins[frames + 1]
              /\ begins[k] \in Nat /\ begins[frames + 2] \in Nat /\ begins[frames + 1] \in Nat
          BY <1>4, <4>1, Begins DEF SessionInv, Start
        <4> QED
          BY <1>15, <4>2, <4>3, SMTT(30)
      <3>5. Start(k)' + j \in 1..Len(Pipe') /\ RequestSize(r) + (Start(k)' + j) = Start(k) + j
        BY <1>5, <1>8, <2>5, <3>2, <3>4, SMTT(30)
      <3> QED
        BY <1>8, <3>3, <3>5
    <2> QED
      BY <1>1, <1>11, <2>3, <2>4, <2>5 DEF InPipe
  <1> QED
    BY <1>10, <1>12, <1>13, <1>14, <1>17 DEF SessionInv

-----------------------------------------------------------------------------
(* Every step *)

\* ReceiveBody takes a part of the body or the last of it.
LEMMA ReceiveBodyKeeps ==
    ASSUME TypeOK, TypeOK', Histories, SessionInv, ReceiveBody
    PROVE  SessionInv'
  <1> DEFINE body(n) == recv_buffer \o SubSeq(stream, 1, n)
  <1>0. PICK left : left = Field(recv_buffer_length, 0, 4) - recv_buffer_offset
    OBVIOUS
  <1>1. PICK n \in Taken(Smaller(Smaller(left, recv_block_size), Len(stream))) :
          /\ stream' = After(stream, n, Len(stream))
          /\ IF n = left
             THEN Delivered(DeserializeRequest(body(n))) /\ frames' = frames + 1 /\ DeleteRecvBuffer
             ELSE /\ recv_buffer' = body(n) /\ recv_buffer_offset' = recv_buffer_offset + n
                  /\ UNCHANGED <<recv_queue, frames, handled, recv_buffer_length, is_recv_length>>
    BY <1>0 DEF ReceiveBody
  <1>2. receiver /\ ~is_recv_length /\ left > 0 /\ UNCHANGED <<sendVars, sender, receiver>>
    BY <1>0 DEF ReceiveBody, endVars
  <1>3. n \in 0..left /\ n \in 0..Len(stream)
    BY <1>0, <1>1, <1>2, BodyBounds DEF Histories
  <1>4. CASE n = left
    BY <1>0, <1>1, <1>2, <1>3, <1>4, FrameKeeps
  <1>5. CASE n # left
    BY <1>0, <1>1, <1>2, <1>3, <1>5, PartKeeps
  <1> QED
    BY <1>4, <1>5

\* Send takes the next request, or goes on with the one it has.
LEMMA SendKeeps ==
    ASSUME TypeOK, TypeOK', Histories, SessionInv, BufferFits, RoundTrip, Send
    PROVE  SessionInv'
  <1>1. sender /\ receiver /\ UNCHANGED <<pushed, recvVars, sender, receiver>>
    BY DEF Send, endVars
  <1>2. CASE /\ MustPop /\ send_queue' = Tail(send_queue)
             /\ begins' = Append(begins, begins[Len(begins)] + RequestSize(Head(send_queue)))
             /\ SendBlock(SerializeRequest(Head(send_queue)), 0)
    BY <1>1, <1>2, PopKeeps
  <1>3. CASE SendBlock(send_buffer, send_buffer_offset) /\ UNCHANGED <<send_queue, begins>>
    BY <1>1, <1>3, SendOnKeeps
  <1> QED
    BY <1>2, <1>3 DEF Send

\* The copy that Push makes has the contents of the original.
LEMMA PushEnqueueKeeps ==
    ASSUME TypeOK, Histories, SessionInv, RoundTrip,
           NEW must_copy \in BOOLEAN, NEW change_request_id \in BOOLEAN,
           PushEnqueue(must_copy, change_request_id)
    PROVE  SessionInv'
  <1> DEFINE original == [draft EXCEPT !.id = IF change_request_id THEN free_request_id ELSE @]
             copy == [CopyRequest(draft) EXCEPT !.id = original.id]
  <1>1. CopyRequest(draft) = draft
    BY DEF RoundTrip, Live
  <1>2. pushed' = Append(pushed, original)
    BY DEF PushEnqueue
  <1>3. send_queue' = Append(send_queue, IF must_copy THEN copy ELSE original)
    BY DEF PushEnqueue
  <1>4. UNCHANGED <<send_buffer, send_buffer_offset, begins, stream, recvVars, sender, receiver>>
    BY DEF PushEnqueue, endVars
  <1>5. PICK r : r = original
    OBVIOUS
  <1>6. copy = original
    <2>1. PICK id : id = IF change_request_id THEN free_request_id ELSE draft.id
      OBVIOUS
    <2>2. original = [draft EXCEPT !.id = id]
      BY <2>1
    <2>3. copy = [draft EXCEPT !.id = original.id]
      BY <1>1
    <2>4. CASE "id" \in DOMAIN draft
      BY <2>2, <2>3, <2>4
    <2>5. CASE "id" \notin DOMAIN draft
      <3>1. \A v : [draft EXCEPT !.id = v] = [x \in DOMAIN draft |-> draft[x]]
        BY <2>5
      <3> QED
        BY <2>2, <2>3, <3>1
    <2> QED
      BY <2>4, <2>5
  <1>7. send_queue' = Append(send_queue, r)
    BY <1>3, <1>5, <1>6
  <1> QED
    BY <1>2, <1>4, <1>5, <1>7, PushKeeps

\* A new session.
LEMMA ReconnectKeeps ==
    ASSUME TypeOK', Histories, SessionInv, Reconnect
    PROVE  SessionInv'
  <1>1. /\ stream' = <<>> /\ recv_queue' = <<>> /\ handled' = <<>> /\ pushed' = send_queue
        /\ begins' = <<0>> /\ frames' = 0 /\ ~sender /\ ~receiver
        /\ UNCHANGED <<send_queue, send_buffer, is_recv_length, recv_buffer, recv_buffer_offset>>
    BY DEF Reconnect
  <1>2. send_buffer = <<>> /\ is_recv_length /\ recv_buffer = <<>> /\ recv_buffer_offset = 0
    BY <1>1 DEF SessionInv, SenderHolds, ReceiverHolds
  <1>3. IsSeq(send_queue)'
    BY <1>1 DEF Histories, IsSeq
  <1> QED
    BY <1>1, <1>2, <1>3, FreshParts

\* Everything that this invariant says is kept by every step.
LEMMA PartsStep ==
    ASSUME TypeOK, TypeOK', Histories, SessionInv, BufferFits, RoundTrip, ~Split, [Next]_vars
    PROVE  SessionInv'
  <1>1. ASSUME UNCHANGED <<sendVars, stream, recvVars, endVars>> PROVE SessionInv'
    BY <1>1, Untouched DEF sendVars, recvVars, endVars, wireVars
  <1>2. CASE \E name \in ArgNames, value \in Values : Compose(name, value)
    BY <1>1, <1>2 DEF Compose
  <1>3. CASE PushCheck
    BY <1>1, <1>3 DEF PushCheck
  <1>4. CASE PushKeepAlive
    BY <1>4, PushKeeps DEF PushKeepAlive, endVars
  <1>5. CASE \E must_copy, change_request_id \in BOOLEAN : PushEnqueue(must_copy, change_request_id)
    BY <1>5, PushEnqueueKeeps
  <1>6. CASE Send
    BY <1>6, SendKeeps
  <1>7. CASE Receive
    BY <1>7, ReceiveLengthKeeps, ReceiveBodyKeeps DEF Receive
  <1>8. CASE SenderTeardown
    BY <1>8, SenderTeardownKeeps
  <1>9. CASE ReceiverTeardown
    BY <1>9, ReceiverTeardownKeeps
  <1>10. CASE Reconnect
    BY <1>10, ReconnectKeeps
  <1>11. CASE Setters
    BY <1>1, <1>11 DEF Setters
  <1>12. CASE UNCHANGED vars
    BY <1>1, <1>12 DEF vars
  <1> QED
    BY <1>2, <1>3, <1>4, <1>5, <1>6, <1>7, <1>8, <1>9, <1>10, <1>11, <1>12 DEF Next

\* It holds before the first session.
LEMMA PartsInit == Init => SessionInv
  <1> SUFFICES ASSUME Init PROVE SessionInv
    OBVIOUS
  <1>1. /\ begins = <<0>> /\ frames = 0 /\ pushed = <<>> /\ recv_queue = <<>> /\ handled = <<>>
        /\ ~sender /\ ~receiver /\ send_buffer = <<>> /\ stream = <<>> /\ recv_buffer = <<>>
        /\ is_recv_length /\ recv_buffer_offset = 0
    BY DEF Init
  <1>2. Framed
    BY <1>1 DEF Framed, Popped, Increasing
  <1>3. SenderHolds /\ ReceiverHolds
    BY <1>1 DEF SenderHolds, ReceiverHolds
  <1>4. PushedArrives
    <2> DEFINE none == <<>>
    <2>1. none \in [DOMAIN recv_queue -> 1..frames] /\ none \in [DOMAIN handled -> 1..frames]
      BY <1>1
    <2>2. Increasing(<<>>) /\ Range(<<>>) = {}
      BY DEF Increasing, Range
    <2>3. {k \in 1..frames : pushed[k].name # KeepAlive.name} = {}
      BY <1>1
    <2>4. /\ Increasing(none) /\ \A i \in DOMAIN none : recv_queue[i] = pushed[none[i]]
          /\ \A i \in DOMAIN none : handled[i] = pushed[none[i]]
          /\ Range(none) \cap Range(none) = {}
          /\ Range(none) \cup Range(none) = {k \in 1..frames : pushed[k].name # KeepAlive.name}
      BY <2>2, <2>3
    <2> HIDE DEF none
    <2> QED
      BY <2>1, <2>4, Zenon DEF PushedArrives
  <1> QED
    BY <1>1, <1>2, <1>3, <1>4 DEF SessionInv

\* What the invariant says of the bytes that are on their way.
LEMMA PartsAreWhole == WireInv => NoByteLost
  <1> SUFFICES ASSUME TypeOK, Histories, SessionInv, sender, receiver
               PROVE  /\ send_queue = SubSeq(pushed, Len(begins), Len(pushed))
                      /\ Len(Pipe) = Start(Len(begins))
                      /\ \A k \in (frames + 1)..(Len(begins) - 1) :
                             SubSeq(Pipe, Start(k) + 1, Start(k + 1)) = SerializeRequest(pushed[k])
    BY DEF NoByteLost, WireInv
  <1>1. send_queue = SubSeq(pushed, Len(begins), Len(pushed))
    BY DEF SessionInv, SenderHolds
  <1>2. InPipe(Pipe) /\ Pipe \in Seq(Byte8)
    BY PipeNow DEF SessionInv, Parts
  <1>3. Len(Pipe) = Start(Len(begins))
    BY <1>2 DEF InPipe
  <1>4. ASSUME NEW k \in (frames + 1)..(Len(begins) - 1)
        PROVE  SubSeq(Pipe, Start(k) + 1, Start(k + 1)) = SerializeRequest(pushed[k])
    <2> DEFINE size == RequestSize(pushed[k])
    <2>1. k \in (frames + 1)..Popped /\ k \in 1..Popped
      BY Begins DEF SessionInv, Histories
    <2>2. /\ Start(k) \in Nat /\ size \in Nat /\ Start(k + 1) = Start(k) + size
          /\ Start(k + 1) <= Len(Pipe)
      BY <1>3, <2>1, Starts DEF SessionInv
    <2>3. Sound(pushed[k])
      BY <2>1 DEF SessionInv, Framed
    <2>4. PICK a, b : a = Start(k) + 1 /\ b = Start(k + 1)
      OBVIOUS
    <2>5. a \in Int /\ b \in Int /\ (b - a) + 1 = size /\ a >= 1 /\ b <= Len(Pipe)
      BY <2>2, <2>4
    <2>6. \A i \in a..b : Pipe[i] \in Byte8
      BY <1>2, <2>5, ElementOfSeq
    <2>7. /\ SubSeq(Pipe, a, b) \in Seq(Byte8)
          /\ Len(SubSeq(Pipe, a, b)) = IF a <= b THEN b - a + 1 ELSE 0
          /\ \A i \in 1..b - a + 1 : SubSeq(Pipe, a, b)[i] = Pipe[a + i - 1]
      BY <2>5, <2>6, SubSeqProperties
    <2>8. size >= 10 /\ b - a + 1 = size /\ Len(SubSeq(Pipe, a, b)) = size
      BY <2>2, <2>3, <2>5, <2>7 DEF Sound
    <2>9. ASSUME NEW i \in 1..size PROVE SubSeq(Pipe, a, b)[i] = SerializeRequest(pushed[k])[i]
      <3>1. a + i - 1 = Start(k) + i /\ Start(k) + i <= Len(Pipe)
        BY <2>2, <2>4
      <3>2. SubSeq(Pipe, a, b)[i] = Pipe[Start(k) + i]
        BY <2>7, <2>8, <3>1
      <3> QED
        BY <1>2, <2>1, <3>1, <3>2 DEF InPipe
    <2>10. SubSeq(Pipe, a, b) = SerializeRequest(pushed[k])
      BY <2>3, <2>7, <2>8, <2>9, SeqEqual DEF Sound
    <2> QED
      BY <2>4, <2>10
  <1> QED
    BY <1>1, <1>3, <1>4

\* The invariant.
THEOREM WireInvariant ==
    ~Split => (Spec => []WireInv)
  <1> SUFFICES ASSUME ~Split
               PROVE  Spec => []WireInv
    OBVIOUS
  <1>1. WireInv /\ BufferFits /\ RoundTrip /\ [Next]_vars => WireInv'
    BY TypesStep, PartsStep DEF WireInv
  <1>2. Init => WireInv
    BY TypesInit, PartsInit DEF WireInv
  <1> QED
    BY <1>1, <1>2, BufferFitsAlways, RoundTripAlways, PTL DEF Spec

\* What was pushed arrives: every request that was received is one of those
\* pushed in this session, unchanged, once, in order, in the queue or at a
\* handler but not both, and none of them is missing but the keep-alives;
\* for any number and size of requests, blocks and sessions.
THEOREM PushedArrivesAlways ==
    ~Split => (Spec => []PushedArrives)
  <1> SUFFICES ASSUME ~Split
               PROVE  Spec => []PushedArrives
    OBVIOUS
  <1>1. WireInv => PushedArrives
    BY DEF WireInv, SessionInv
  <1>2. Spec => []WireInv
    BY WireInvariant
  <1> QED
    BY <1>1, <1>2, PTL

\* No byte is lost, doubled or left over from an earlier session: while both
\* ends are connected, both buffers and the socket hold the requests that were
\* serialized and not yet received, one after the other, and nothing else.
THEOREM NoByteIsLost == Spec => []NoByteLost
  <1>1. CASE ~Split
    <2>1. Spec => []WireInv
      BY <1>1, WireInvariant
    <2> QED
      BY <2>1, PartsAreWhole, PTL
  <1>2. CASE Split
    <2>1. NoByteLost
      BY <1>2 DEF NoByteLost
    <2> QED
      BY <2>1, PTL
  <1> QED
    BY <1>1, <1>2
=============================================================================
