-------------------------------- MODULE Wire --------------------------------
(***************************************************************************)
(* The bytes between two Connections: a request from the thread that       *)
(* composes it with Request::Set and pushes it, through PopSendQueue and   *)
(* Send on one end, the socket, and Receive on the other end, to the queue *)
(* that Pull reads.  Sessions end on either side at any byte and the two   *)
(* Connection objects are connected anew.                                  *)
(*                                                                         *)
(* Module Connection has the threads, locks and events of one end; here an *)
(* end is its buffers.  Only one direction is modelled, the other is the   *)
(* same code.  The thread that pushes passes the check of Push before the  *)
(* request is queued, so that a session may end, and the next one begin,   *)
(* in between.                                                             *)
(***************************************************************************)
EXTENDS Codec, Functions

CONSTANTS
    Names, ArgNames, Values,   \* what requests are composed of
    SendSizes, RecvSizes, MaxSizes,  \* arguments of the setters
    Handled,        \* names that may be given a handler
    ShortCounts,    \* what send() and recv() return when they do less than asked
    Split,          \* the four bytes of a length may arrive in pieces
    MaxArgs,        \* bound: arguments of a request
    MaxWire,        \* bound: size of the requests that are pushed
    MaxPush,        \* bound: requests pushed in the first session, one less in the next
    MaxSessions     \* bound: calls of InitializeByFD

ASSUME NamesAssumption == Names # {} /\ <<95>> \notin Names /\ Handled \subseteq Names
ASSUME LengthsAssumption ==
    \A name \in Names \cup ArgNames : name \in Seq(Byte8) /\ Fits(Len(name), 2)
ASSUME ValuesAssumption == Values \subseteq ValuesTo[MaxNesting] \cup {Null}
ASSUME SizesAssumption == SendSizes \cup RecvSizes \cup MaxSizes \subseteq Nat
ASSUME ShortAssumption == ShortCounts \subseteq Nat \ {0}
ASSUME BoundsAssumption ==
    /\ Split \in BOOLEAN
    /\ MaxArgs \in Nat /\ MaxWire \in Nat /\ MaxPush \in Nat /\ MaxSessions \in Nat

VARIABLES
    draft,              \* the request that is being composed
    checked,            \* Push has passed its check with this request
    send_queue,
    send_buffer,        \* the bytes of one request, <<>> is the null pointer
    send_buffer_offset,
    send_block_size,
    free_request_id,
    sender,             \* the sending end is connected
    stream,             \* the bytes in the socket
    receiver,           \* the receiving end is connected
    is_recv_length,
    recv_buffer_length, \* its four bytes in memory
    recv_buffer,
    recv_buffer_offset,
    recv_block_size, recv_buffer_max_length,
    recv_queue,         \* what Pull would return, in this order
    handlers_named, handler_default,  \* names that have a handler; there is one for the others
    session,
    pushed,             \* history: what was queued for this session
    begins,             \* history: where, in the bytes of this session, each request
                        \* that was serialized begins, and the next one will
    frames,             \* history: requests received in this session
    handled             \* history: requests given to a handler in this session

draftVars == <<draft, checked>>
sendVars == <<send_queue, send_buffer, send_buffer_offset, free_request_id, pushed, begins>>
recvVars == <<is_recv_length, recv_buffer_length, recv_buffer, recv_buffer_offset, recv_queue,
              frames, handled>>
sizeVars == <<send_block_size, recv_block_size, recv_buffer_max_length>>
handlerVars == <<handlers_named, handler_default>>
settingVars == <<sizeVars, handlerVars>>
endVars == <<sender, receiver, session>>

vars == <<draftVars, sendVars, stream, recvVars, settingVars, endVars>>

KeepAlive == NewRequest(<<95>>)

-----------------------------------------------------------------------------
(* The thread that composes and pushes.  To bound the model it composes    *)
(* before the first session, which begins if the request is small enough;  *)
(* a request that was copied is pushed again.  The sizes of the code are   *)
(* numbers of four bytes: no request of 4 GiB is composed.                 *)

Compose(name, value) ==
    /\ session = 0
    /\ draft' = Set(draft, name, value)
    /\ Len(draft'.arguments) <= MaxArgs /\ Fits(RequestSize(draft'), 4)
    /\ UNCHANGED <<checked, sendVars, stream, recvVars, settingVars, endVars>>

MorePushes == Len(pushed) + session <= MaxPush

PushCheck ==
    /\ ~checked /\ sender /\ MorePushes
    /\ checked' = TRUE
    /\ UNCHANGED <<draft, sendVars, stream, recvVars, settingVars, endVars>>

\* A request that is not copied belongs to the queue from now on, and its
\* thread goes on with a new one.
PushEnqueue(must_copy, change_request_id) ==
    LET original == [draft EXCEPT !.id = IF change_request_id THEN free_request_id ELSE @]
        copy == [CopyRequest(draft) EXCEPT !.id = original.id]
    IN  /\ checked
        /\ send_queue' = Append(send_queue, IF must_copy THEN copy ELSE original)
        /\ pushed' = Append(pushed, original)
        /\ free_request_id' = IF change_request_id THEN Field(Le(free_request_id + 2, 4), 0, 4)
                                                  ELSE free_request_id
        /\ draft' = IF must_copy THEN draft ELSE NewRequest(draft.name)
        /\ checked' = FALSE
        /\ UNCHANGED <<send_buffer, send_buffer_offset, begins, stream, recvVars, settingVars,
                       endVars>>

\* The polling thread pushes a keep-alive.
PushKeepAlive ==
    /\ sender /\ MorePushes
    /\ send_queue' = Append(send_queue, KeepAlive)
    /\ pushed' = Append(pushed, KeepAlive)
    /\ UNCHANGED <<draftVars, send_buffer, send_buffer_offset, free_request_id, begins, stream,
                   recvVars, settingVars, endVars>>

-----------------------------------------------------------------------------
(* The setters take no lock.  They may be called at any time; to bound the *)
(* model only one of them changes something at a time.  That no thread     *)
(* changes the table of handlers while Receive looks into it is assumed.   *)

AtDefault ==
    /\ send_block_size = 1024 /\ recv_block_size = 1024 /\ recv_buffer_max_length = 16 * 1024
    /\ handlers_named = {} /\ ~handler_default

SetSendBlockSize(bs) ==
    /\ send_block_size' = IF bs < 1 THEN 1 ELSE bs
    /\ UNCHANGED <<recv_block_size, recv_buffer_max_length, handlerVars>>

\* A mutant: a size of zero is kept.
MutSetRecvBlockSize(bs) ==
    /\ recv_block_size' = bs
    /\ UNCHANGED <<send_block_size, recv_buffer_max_length, handlerVars>>
SetRecvBlockSize(bs) ==
    /\ recv_block_size' = IF bs < 1 THEN 1 ELSE bs
    /\ UNCHANGED <<send_block_size, recv_buffer_max_length, handlerVars>>

SetMaxRequestSize(size) ==
    /\ recv_buffer_max_length' = IF size < 10 THEN 10 ELSE size
    /\ UNCHANGED <<send_block_size, recv_block_size, handlerVars>>

\* With a handler, or with the null pointer.
SetHandlerNamed(name, h) ==
    /\ handlers_named' = IF h THEN handlers_named \cup {name} ELSE handlers_named \ {name}
    /\ UNCHANGED <<handler_default, sizeVars>>

SetHandlerDefault(h) ==
    /\ handler_default' = h
    /\ UNCHANGED <<handlers_named, sizeVars>>

-----------------------------------------------------------------------------
(* The sending end *)

\* The kernel does all it is asked to, or less.
Taken(n) == {n} \cup {k \in ShortCounts : k < n}

\* send() continues where the last one stopped.
Block(buffer, offset, n) == SubSeq(buffer, offset + 1, offset + n)

\* A mutant: the request in the buffer is forgotten for the next one.
MutMustPop == send_queue # <<>>
MustPop == send_buffer = <<>> /\ send_queue # <<>>

\* A mutant: what is left in the buffer stays there.
MutDeleteSendBuffer == UNCHANGED <<send_buffer, send_buffer_offset>>
DeleteSendBuffer == send_buffer' = <<>> /\ send_buffer_offset' = 0

\* One call of send().
SendBlock(buffer, offset) ==
    LET left == Len(buffer) - offset
    IN  \E n \in Taken(Smaller(left, send_block_size)) :
          /\ stream' = stream \o Block(buffer, offset, n)
          /\ IF n = left THEN DeleteSendBuffer
                         ELSE send_buffer' = buffer /\ send_buffer_offset' = offset + n

Send ==
    /\ sender /\ receiver
    /\ \/ /\ MustPop
          /\ send_queue' = Tail(send_queue)
          /\ begins' = Append(begins, begins[Len(begins)] + RequestSize(Head(send_queue)))
          /\ SendBlock(SerializeRequest(Head(send_queue)), 0)
       \/ /\ ~MustPop /\ send_buffer # <<>>
          /\ SendBlock(send_buffer, send_buffer_offset)
          /\ UNCHANGED <<send_queue, begins>>
    /\ UNCHANGED <<draftVars, free_request_id, pushed, recvVars, settingVars, endVars>>

\* The teardown of the polling thread, for whatever reason it left its loop.
SenderTeardown ==
    /\ sender
    /\ sender' = FALSE
    /\ DeleteSendBuffer
    /\ send_queue' = <<>>
    /\ UNCHANGED <<draftVars, free_request_id, pushed, begins, stream, recvVars, settingVars,
                   receiver, session>>

-----------------------------------------------------------------------------
(* The receiving end *)

DeleteRecvBuffer ==
    /\ recv_buffer' = <<>> /\ recv_buffer_length' = Le(0, 4) /\ recv_buffer_offset' = 0
    /\ is_recv_length' = TRUE

\* recv() writes at the beginning of the four bytes, whatever came before.
LengthWith(piece) == [i \in 1..4 |-> IF i <= Len(piece) THEN piece[i] ELSE recv_buffer_length[i]]

\* The number of bytes of the length that recv() finds.
LengthBytes == Smaller(4 - recv_buffer_offset, Len(stream))

ReceiveLength ==
    /\ receiver /\ is_recv_length /\ stream # <<>>
    /\ \E n \in IF Split THEN Taken(LengthBytes) ELSE {4} \cap {LengthBytes} :
         LET length == LengthWith(SubSeq(stream, 1, n))
         IN  /\ recv_buffer_offset' = recv_buffer_offset + n
             /\ recv_buffer_length' = length
             /\ stream' = After(stream, n, Len(stream))
             /\ IF recv_buffer_offset + n < 4 THEN UNCHANGED <<is_recv_length, recv_buffer>>
                ELSE /\ Field(length, 0, 4) <= recv_buffer_max_length
                     /\ is_recv_length' = FALSE
                     /\ recv_buffer' = Le(Field(length, 0, 4), 4)
    /\ UNCHANGED <<draftVars, sendVars, recv_queue, frames, handled, settingVars, endVars>>

PassThroughHandlers(request) == request.name \in handlers_named \/ handler_default

\* A keep-alive is dropped, like a body that cannot be deserialized.
\* A mutant: a request that was handled is queued as well.
MutDelivered(read) ==
    LET kept == read.used # 0 /\ read.what.name # KeepAlive.name
        taken == kept /\ PassThroughHandlers(read.what)
    IN  /\ handled' = IF taken THEN Append(handled, read.what) ELSE handled
        /\ recv_queue' = IF kept THEN Append(recv_queue, read.what) ELSE recv_queue
Delivered(read) ==
    LET kept == read.used # 0 /\ read.what.name # KeepAlive.name
        taken == kept /\ PassThroughHandlers(read.what)
    IN  /\ handled' = IF taken THEN Append(handled, read.what) ELSE handled
        /\ recv_queue' = IF kept /\ ~taken THEN Append(recv_queue, read.what) ELSE recv_queue

\* A length below four, which only a length in pieces can be, is not followed.
ReceiveBody ==
    LET left == Field(recv_buffer_length, 0, 4) - recv_buffer_offset
        asked == Smaller(left, recv_block_size)
    IN  /\ receiver /\ ~is_recv_length /\ stream # <<>> /\ left > 0
        /\ \E n \in Taken(Smaller(asked, Len(stream))) :
             LET body == recv_buffer \o SubSeq(stream, 1, n)
             IN  /\ stream' = After(stream, n, Len(stream))
                 /\ IF n = left
                    THEN /\ Delivered(DeserializeRequest(body)) /\ frames' = frames + 1
                         /\ DeleteRecvBuffer
                    ELSE /\ recv_buffer' = body /\ recv_buffer_offset' = recv_buffer_offset + n
                         /\ UNCHANGED <<recv_queue, frames, handled, recv_buffer_length,
                                        is_recv_length>>
        /\ UNCHANGED <<draftVars, sendVars, settingVars, endVars>>

\* A length that is too big, the end of the stream and every other reason to
\* leave the loop.  The receive queue is kept.
ReceiverTeardown ==
    /\ receiver
    /\ receiver' = FALSE
    /\ DeleteRecvBuffer
    /\ stream' = <<>>
    /\ UNCHANGED <<draftVars, sendVars, recv_queue, frames, handled, settingVars, sender, session>>

-----------------------------------------------------------------------------
\* InitializeByFD and SetEvenRequestIdsPart(true) on both ends, with a new
\* socket.  The send queue is left as it is.
Reconnect ==
    /\ ~sender /\ ~receiver
    /\ session < MaxSessions /\ RequestSize(draft) <= MaxWire
    /\ sender' = TRUE /\ receiver' = TRUE /\ session' = session + 1
    /\ free_request_id' = 2 /\ stream' = <<>>
    /\ recv_queue' = <<>> /\ handled' = <<>>
    /\ pushed' = send_queue /\ begins' = <<0>> /\ frames' = 0
    /\ UNCHANGED <<draftVars, send_queue, send_buffer, send_buffer_offset, is_recv_length,
                   recv_buffer_length, recv_buffer, recv_buffer_offset, settingVars>>

Init ==
    /\ draft \in {NewRequest(name) : name \in Names} /\ checked = FALSE
    /\ send_queue = <<>> /\ send_buffer = <<>> /\ send_buffer_offset = 0 /\ free_request_id = 1
    /\ pushed = <<>> /\ begins = <<0>> /\ stream = <<>>
    /\ is_recv_length = TRUE /\ recv_buffer_length = Le(0, 4) /\ recv_buffer = <<>>
    /\ recv_buffer_offset = 0 /\ recv_queue = <<>> /\ frames = 0 /\ handled = <<>>
    /\ handlers_named = {} /\ handler_default = FALSE
    /\ send_block_size = 1024 /\ recv_block_size = 1024 /\ recv_buffer_max_length = 16 * 1024
    /\ sender = FALSE /\ receiver = FALSE /\ session = 0

Setters ==
    /\ \/ /\ AtDefault
          /\ \/ \E bs \in SendSizes : SetSendBlockSize(bs)
             \/ \E bs \in RecvSizes : SetRecvBlockSize(bs)
             \/ \E size \in MaxSizes : SetMaxRequestSize(size)
             \/ \E name \in Handled : SetHandlerNamed(name, TRUE)
             \/ Handled # {} /\ SetHandlerDefault(TRUE)
       \/ \E name \in handlers_named : SetHandlerNamed(name, FALSE)
       \/ handler_default /\ SetHandlerDefault(FALSE)
    /\ UNCHANGED <<draftVars, sendVars, stream, recvVars, endVars>>

Receive == ReceiveLength \/ ReceiveBody

Next ==
    \/ \E name \in ArgNames, value \in Values : Compose(name, value)
    \/ PushCheck \/ PushKeepAlive
    \/ \E must_copy, change_request_id \in BOOLEAN : PushEnqueue(must_copy, change_request_id)
    \/ Send \/ Receive
    \/ SenderTeardown \/ ReceiverTeardown \/ Reconnect
    \/ Setters

(***************************************************************************)
(* Fairness.  Both polling threads run.  A connection is torn down once    *)
(* there is a reason: the other end is gone, or the length is too big.     *)
(* The weak fairness of Send and of Receive is written out with the state  *)
(* predicates that say when they are enabled, which TLC evaluates faster   *)
(* than ENABLED of an action that serializes.                              *)
(***************************************************************************)
TooBig == is_recv_length /\ Len(stream) >= 4 /\ Field(stream, 0, 4) > recv_buffer_max_length

CanSend == sender /\ receiver /\ (send_buffer # <<>> \/ send_queue # <<>>)
CanReceive ==
    /\ receiver
    /\ IF is_recv_length THEN ~TooBig /\ Len(stream) >= (IF Split THEN 1 ELSE 4)
                         ELSE stream # <<>>

Fairness ==
    /\ []<>(~CanSend) \/ []<><<Send>>_vars
    /\ []<>(~CanReceive) \/ []<><<Receive>>_vars
    /\ WF_vars(~receiver /\ SenderTeardown)
    /\ WF_vars((TooBig \/ ~sender) /\ ReceiverTeardown)

Spec == Init /\ [][Next]_vars
FairSpec == Spec /\ Fairness

-----------------------------------------------------------------------------
(* Properties *)

\* Every variable of the two ends holds a value of its C++ type.
TypeOK ==
    /\ send_buffer \in Seq(Byte8) /\ stream \in Seq(Byte8) /\ recv_buffer \in Seq(Byte8)
    /\ recv_buffer_length \in Seq(Byte8) /\ Len(recv_buffer_length) = 4
    /\ send_buffer_offset \in 0..Len(send_buffer)
    /\ send_block_size \in Nat \ {0} /\ recv_block_size \in Nat \ {0}
    /\ recv_buffer_max_length \in Nat /\ recv_buffer_max_length >= 10

\* The request that is composed and those that are queued.
Live == {draft} \cup Range(send_queue)

\* Serialize never fills more or less of its buffer than GetSize allocated,
\* however the arguments were set, nested and replaced, and begins with the
\* length that Receive goes by on the other end.
BufferFits ==
    \A r \in Live :
        LET data == SerializeRequest(r)
        IN  /\ data \in Seq(Byte8)
            /\ Len(data) = RequestSize(r) /\ Len(data) >= 10
            /\ Field(data, 0, 4) = RequestSize(r)

\* Deserialize reads back what Serialize wrote, every argument of it, and uses
\* the whole buffer; and the copy that Push makes is as good as the original.
RoundTrip ==
    \A r \in Live :
        DeserializeRequest(SerializeRequest(r)) = Read(RequestSize(r), r) /\ CopyRequest(r) = r

Increasing(f) == \A i, j \in DOMAIN f : i < j => f[i] < f[j]

\* Every request that was received is one that was pushed, unchanged, and is
\* either in the queue or was given to a handler, once, each in the order of
\* the pushes; keep-alives are in neither.  The blocks it travelled in, the
\* byte at which the session before ended and the moments at which handlers
\* are set and removed make no difference.
PushedArrives ==
    \E q \in [DOMAIN recv_queue -> 1..frames], h \in [DOMAIN handled -> 1..frames] :
        /\ Increasing(q) /\ \A i \in DOMAIN q : recv_queue[i] = pushed[q[i]]
        /\ Increasing(h) /\ \A i \in DOMAIN h : handled[i] = pushed[h[i]]
        /\ Range(q) \cap Range(h) = {}
        /\ Range(q) \cup Range(h) = {k \in 1..frames : pushed[k].name # KeepAlive.name}

\* The bytes on their way: in the buffers of both ends and in the socket.
Pipe == recv_buffer \o stream \o After(send_buffer, send_buffer_offset, Len(send_buffer))

\* Where the bytes of request k begin in the pipe.
Start(k) == begins[k] - begins[frames + 1]

\* While both ends are connected, the bytes that are in the buffers of both
\* and in the socket are exactly those of the requests that were taken from
\* the queue and are not yet received, and the others are still in the queue.
NoByteLost ==
    sender /\ receiver /\ ~Split =>
        /\ send_queue = SubSeq(pushed, Len(begins), Len(pushed))
        /\ Len(Pipe) = Start(Len(begins))
        /\ \A k \in (frames + 1)..(Len(begins) - 1) :
               SubSeq(Pipe, Start(k) + 1, Start(k + 1)) = SerializeRequest(pushed[k])

\* Everything pushed is received, or the session ends.
DeliveredOrDown ==
    \A i \in 1..MaxPush : Len(pushed) = i ~> frames >= i \/ ~sender \/ ~receiver

-----------------------------------------------------------------------------
(* What the repository says of the program and the code does not do *)

\* Connection.cpp:256: "check if received the length": once Receive() goes on to
\* the body, recv_buffer_length is the length of the request that is coming.
LengthReceived ==
    ~is_recv_length => Field(recv_buffer_length, 0, 4) = RequestSize(pushed[frames + 1])
=============================================================================
